--------------------------- MODULE FcfsSchedSleep ---------------------------
(***************************************************************************)
(* FcfsSchedSleep (src/schedulers/fcfsSchedSleep.py): first come, first    *)
(* served, with the machines put to sleep when nothing can use them and    *)
(* woken up for the job at the head of the queue.  A switch takes time:    *)
(* the machine is in between until the simulator acknowledges it.  All     *)
(* machines are for computing: the scheduler has nb_resources of them and  *)
(* refuses jobs by nb_compute_resources, and both are N.                   *)
(***************************************************************************)
EXTENDS ValidatingMachine

MachineStates == {"Computing", "Idle", "Sleeping", "SwitchingON", "SwitchingOFF"}
PStates == {"ComputeFast", "Sleep"}

VARIABLES
  open_jobs,          \* a sequence
  machines_states,    \* and with it the five sets of machines
  pstate,             \* of the machine in the simulator
  target              \* the pstate it is switching to, or the one it is in

sleep_vars == <<open_jobs, machines_states>>
pstate_vars == <<pstate, target>>

SleepInit ==
  /\ open_jobs = <<>>
  /\ machines_states = [m \in Machine |-> "Idle"]
  /\ pstate = [m \in Machine |-> "ComputeFast"] /\ target = pstate

In(states, s) == {m \in Machine : states[m] = s}

Becoming(states, M, s) == [m \in Machine |-> IF m \in M THEN s ELSE states[m]]

-----------------------------------------------------------------------------
\* scheduleJobs

\* What the jobs before the i-th of the queue leave idle.
LeftIdle(queue, starts, idle, i) == idle \ UNION {starts[queue[k]] : k \in 1 .. i - 1}

\* Jobs are allocated from the head of the queue as long as they fit: the first n.
AllocateHeads(queue, n, starts, idle) ==
  /\ \A i \in 1 .. n :
       LET left == LeftIdle(queue, starts, idle, i)
       IN  /\ demand[queue[i]] <= Cardinality(left)
           /\ starts[queue[i]] = First(left, demand[queue[i]])
  /\ n < Len(queue) => demand[queue[n + 1]] > Cardinality(LeftIdle(queue, starts, idle, n + 1))

\* Mutant: machines that are waking up are put to sleep too.
AllUnusedOff(states) ==
  Becoming(states, In(states, "Idle") \cup In(states, "SwitchingON"), "SwitchingOFF")

AllIdleOff(states) == Becoming(states, In(states, "Idle"), "SwitchingOFF")

\* The job at the head could fit if machines were woken up: those still missing
\* when the idle ones and the ones under way are counted, as far as they sleep.
WakeFor(n, states) ==
  LET ready   == Cardinality(In(states, "Idle")) + Cardinality(In(states, "SwitchingON"))
      missing == IF n > ready THEN n - ready ELSE 0
  IN  Becoming(states, First(In(states, "Sleeping"), missing), "SwitchingON")

NotComputing(states) == N - Cardinality(In(states, "Computing"))

\* Mutant: off by one in the test whether the head can fit.
ForHeadStrictly(j, states) ==
  IF demand[j] < NotComputing(states) THEN WakeFor(demand[j], states) ELSE AllIdleOff(states)

ForHead(j, states) ==
  IF demand[j] <= NotComputing(states) THEN WakeFor(demand[j], states) ELSE AllIdleOff(states)

SwitchMachines(left, states) ==
  IF left = <<>> THEN AllIdleOff(states) ELSE ForHead(Head(left), states)

\* Mutant: the state of the scheduler is sent instead of the pstate.
OrderedStates(before, after) ==
  target' = [m \in Machine |-> IF after[m] # before[m] THEN after[m] ELSE target[m]]

\* bs.set_resource_state for every machine that starts to switch.
Ordered(before, after) ==
  target' = [m \in Machine |->
     CASE after[m] = "SwitchingON" /\ before[m] # "SwitchingON" -> "ComputeFast"
       [] after[m] = "SwitchingOFF" /\ before[m] # "SwitchingOFF" -> "Sleep"
       [] OTHER -> target[m]]

\* The n first jobs of the queue are started; a is the wrapper's account.
ScheduleJobs(queue, states, a) ==
  \E n \in 0 .. Len(queue) :
    \E starts \in [{queue[i] : i \in 1 .. n} -> SUBSET In(states, "Idle")] :
      LET left  == SubSeq(queue, n + 1, Len(queue))
          after == SwitchMachines(left, Becoming(states, Used(starts), "Computing"))
      IN  /\ AllocateHeads(queue, n, starts, In(states, "Idle"))
          /\ open_jobs' = left
          /\ machines_states' = after
          /\ Ordered(states, after)
          /\ execute_jobs(starts, a)
          /\ UNCHANGED pstate

SleepOnJobSubmission(j) ==
  IF demand[j] > N
  THEN RefuseJob(j) /\ Seen(AfterSubmission(j)) /\ UNCHANGED <<sleep_vars, pstate_vars>>
  ELSE ScheduleJobs(Append(open_jobs, j), machines_states, AfterSubmission(j))

SleepOnJobCompletion(j) ==
  ScheduleJobs(open_jobs, Becoming(machines_states, place[j], "Idle"), AfterCompletion(j))

\* The two sys.exit of onMachinePStateChanged are reached when the machine was
\* not switching the way the acknowledgement says.
Expected(m, p) ==
  IF p = "Sleep" THEN machines_states[m] = "SwitchingOFF" ELSE machines_states[m] = "SwitchingON"

onMachinePStateChanged(m, p) ==
  /\ Expected(m, p)
  /\ ScheduleJobs(open_jobs,
                  Becoming(machines_states, {m}, IF p = "Sleep" THEN "Sleeping" ELSE "Idle"),
                  AsBefore)

-----------------------------------------------------------------------------
\* The simulator: a switch ends, and is announced machine by machine.

Switched(m) ==
  /\ target[m] # pstate[m]
  /\ Event(IF target[m] = "Sleep" THEN "switched_off" ELSE "switched_on", m)
  /\ pstate' = [pstate EXCEPT ![m] = target[m]]
  /\ UNCHANGED <<target, status, demand, place>>

-----------------------------------------------------------------------------

SleepTypeOK ==
  /\ open_jobs \in Seq(Job)
  /\ machines_states \in [Machine -> MachineStates]
  /\ {pstate, target} \subseteq [Machine -> PStates]
=============================================================================
