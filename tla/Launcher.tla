------------------------------ MODULE Launcher ------------------------------
(***************************************************************************)
(* What the launcher puts together (src/batsim/tools/launcher.py): one     *)
(* scheduler, behind the validating machine or not, connected to the       *)
(* simulator.                                                              *)
(***************************************************************************)
EXTENDS FillerSched, FcfsSchedSleep

CONSTANTS Schedulers    \* those to choose from

ASSUME LauncherAssumption ==
  Schedulers \subseteq {"FillerSched", "FillerSchedWithEvents", "FcfsSchedSleep"}

VARIABLES scheduler     \* the one that is loaded; rigid

sched_vars == <<filler_vars, external_vars, sleep_vars, pstate_vars>>
vars == <<platform_vars, validating_vars, sched_vars, scheduler>>

Init ==
  /\ scheduler \in Schedulers
  /\ PlatformInit /\ ValidatingInit /\ FillerInit /\ SleepInit

-----------------------------------------------------------------------------
\* The simulator.  External events are only announced to the scheduler that
\* handles them; the others have empty callbacks for them.

Simulator ==
  \/ /\ \E j \in Job : Submit(j) \/ Complete(j)
     /\ UNCHANGED <<validating_vars, sched_vars>>
  \/ Send /\ UNCHANGED <<validating_vars, sched_vars>>
  \/ /\ scheduler = "FillerSchedWithEvents"
     /\ NoMoreExternal \/ \E m \in Machine : MachineDown(m) \/ MachineUp(m)
     /\ UNCHANGED <<validating_vars, filler_vars, noMoreExternal, sleep_vars, pstate_vars>>
  \/ /\ \E m \in Machine : Switched(m)
     /\ UNCHANGED <<validating_vars, filler_vars, external_vars, sleep_vars>>

-----------------------------------------------------------------------------
\* The callbacks.

OthersThanFiller == UNCHANGED <<external_vars, sleep_vars, pstate_vars>>
OthersThanSleep  == UNCHANGED <<filler_vars, external_vars>>

onJobSubmission(j) ==
  /\ Handling("JOB_SUBMITTED", j)
  /\ CASE scheduler = "FillerSched" -> FillerOnJobSubmission(j) /\ OthersThanFiller
       [] scheduler = "FillerSchedWithEvents" -> EventsOnJobSubmission(j) /\ OthersThanFiller
       [] scheduler = "FcfsSchedSleep" -> SleepOnJobSubmission(j) /\ OthersThanSleep

onJobCompletion(j) ==
  /\ Handling("JOB_COMPLETED", j)
  /\ CASE scheduler = "FillerSched" -> FillerOnJobCompletion(j) /\ OthersThanFiller
       [] scheduler = "FillerSchedWithEvents" -> EventsOnJobCompletion(j) /\ OthersThanFiller
       [] scheduler = "FcfsSchedSleep" -> SleepOnJobCompletion(j) /\ OthersThanSleep

onMachineUnavailable(m) ==
  /\ Handling("event_machine_unavailable", m)
  /\ IF Forwarded("onNotifyEventMachineUnavailable")
     THEN onNotifyEventMachineUnavailable(m) ELSE UNCHANGED filler_vars
  /\ UNCHANGED noMoreExternal

onMachineAvailable(m) ==
  /\ Handling("event_machine_available", m)
  /\ IF Forwarded("onNotifyEventMachineAvailable")
     THEN onNotifyEventMachineAvailable(m) ELSE UNCHANGED filler_vars
  /\ UNCHANGED noMoreExternal

onNoMoreExternal ==
  /\ Handling("no_more_external_event_to_occur", 0)
  /\ IF Forwarded("onNoMoreExternalEvents")
     THEN onNoMoreExternalEvents ELSE UNCHANGED <<filler_vars, noMoreExternal>>

onMachineEvent ==
  /\ onNoMoreExternal \/ \E m \in Machine : onMachineUnavailable(m) \/ onMachineAvailable(m)
  /\ NoCommand /\ UNCHANGED <<validating_vars, down, externalEvents, sleep_vars, pstate_vars>>

onPStateChanged ==
  /\ \E m \in Machine :
       \/ Handling("switched_off", m) /\ onMachinePStateChanged(m, "Sleep")
       \/ Handling("switched_on", m) /\ onMachinePStateChanged(m, "ComputeFast")
  /\ OthersThanSleep

onNoMoreEvents ==
  /\ MessageEnds
  /\ IF scheduler = "FillerSchedWithEvents" /\ Forwarded("onNoMoreEvents")
     THEN EventsOnNoMoreEvents
     ELSE NoCommand /\ UNCHANGED <<validating_vars, filler_vars>>
  /\ OthersThanFiller

Callbacks ==
  \/ \E j \in Job : onJobSubmission(j) \/ onJobCompletion(j)
  \/ onMachineEvent \/ onPStateChanged \/ onNoMoreEvents

\* ValueError from the wrapper is caught by nobody: the process ends.
Next ==
  /\ ~raised /\ UNCHANGED scheduler
  /\ Simulator \/ Callbacks

\* The scheduler answers, and the simulator goes on: they take turns, so that it
\* is enough that something which can happen does.
Spec == Init /\ [][Next]_vars /\ WF_vars(Next)

-----------------------------------------------------------------------------
\* Properties

\* Type invariant of the three schedulers and of what they run on.
LauncherTypeOK ==
  /\ scheduler \in Schedulers
  /\ PlatformTypeOK /\ ValidatingTypeOK /\ FillerTypeOK /\ SleepTypeOK

\* No machine runs two jobs, and the wrapper, which is there to find out, has
\* nothing to object to and knows of every running job: "It checks that not 2
\* jobs use the same resource as the same time, a job is only started once, a
\* job is launched after his submit time" (validatingmachine.py).
Exclusive ==
  /\ ~raised
  /\ \A j, k \in Job : status[j] = "running" /\ status[k] = "running" /\ j # k =>
       place[j] \cap place[k] = {}
  /\ WrapperAgrees

\* FillerSchedWithEvents: "The machines not running resources nor marked
\* unavailable" (comment of availableResources), whatever order completions and
\* machine events arrive in; a job starts on none that was announced.
AvailableMeansUsable ==
  scheduler # "FcfsSchedSleep" =>
    /\ availableResources = Machine \ (Occupied \cup unavailableResources)
    /\ scheduler = "FillerSchedWithEvents" => runningResources = Occupied

\* FcfsSchedSleep: its account of a machine is the simulator's; it never
\* switches a machine that is switching or computes, never starts a job on one
\* that is not awake, and is only told of switches it has ordered.
SleepAgrees == scheduler = "FcfsSchedSleep" =>
  \A m \in Machine :
    LET acked(type) == \E i \in DOMAIN inbox : inbox[i] = <<type, m>>
    IN  CASE machines_states[m] = "SwitchingOFF" ->
               target[m] = "Sleep" /\ (pstate[m] = "Sleep" <=> acked("switched_off"))
          [] machines_states[m] = "SwitchingON" ->
               target[m] = "ComputeFast" /\ (pstate[m] = "ComputeFast" <=> acked("switched_on"))
          [] machines_states[m] = "Sleeping" -> pstate[m] = "Sleep" /\ target[m] = "Sleep"
          [] OTHER -> /\ pstate[m] = "ComputeFast" /\ target[m] = "ComputeFast"
                      /\ machines_states[m] = "Computing" <=> m \in Occupied

\* Between two messages nothing that could run is left waiting: a filler has no
\* open job that fits its available machines, and the sleeping scheduler has no
\* machine idle, once it has had a job, but for a head that waits for others to wake.
NothingLeftUndone == loop = "simulator" =>
  CASE scheduler = "FcfsSchedSleep" ->
         In(machines_states, "Idle") # {} /\ (open_jobs # <<>> \/ place # NoPlace) =>
           /\ open_jobs # <<>>
           /\ demand[Head(open_jobs)] <= NotComputing(machines_states)
    [] scheduler = "FillerSchedWithEvents" /\ protect -> TRUE
    [] OTHER -> \A j \in openJobs : demand[j] > Cardinality(availableResources)

\* Every job that is not refused runs to its end.  What stands in the way: with
\* external events, machines that stay unavailable; behind the validating
\* machine, that onNoMoreEvents is not forwarded, without which
\* FillerSchedWithEvents never starts a job.
Ended(j) == status[j] \in {"completed", "rejected"}

JobsEnd ==
  \A j \in Job : []<>(Ended(j)
    \/ (scheduler = "FillerSchedWithEvents" /\ protect)
    \/ (loop = "simulator" /\ j \in openJobs /\ demand[j] > N - Cardinality(down)))
=============================================================================
