------------------------------ MODULE Platform ------------------------------
(***************************************************************************)
(* What a scheduler without kills or dynamic jobs sees of the simulator    *)
(* and of the message loop (src/batsim/batsim.py), in less detail than     *)
(* Batsim: the simulator gathers events, a message carries all of them,    *)
(* the callbacks handle them one by one, onNoMoreEvents closes the         *)
(* message, and the simulator waits in the meantime.  Since it does, a     *)
(* command takes effect here when the scheduler issues it.                 *)
(***************************************************************************)
EXTENDS Naturals, FiniteSets, SequencesExt

CONSTANTS
  Job,
  N,          \* nb_compute_resources
  Demands,    \* possible functions from jobs to what they request
  MaxBatch    \* bound: events in one message

Machine == 0 .. N - 1
NoPlace == <<>>

ASSUME PlatformAssumption ==
  /\ IsFiniteSet(Job) /\ N \in Nat \ {0} /\ MaxBatch \in Nat \ {0}
  /\ Demands \subseteq [Job -> Nat \ {0}]

VARIABLES
  loop,       \* whose turn it is: "simulator" or "scheduler"
  inbox,      \* events of the message, <<type, job or machine>>
  status,     \* the job in the simulator
  demand,     \* Job.requested_resources; rigid
  place       \* the machines a job was started on, as a partial function

platform_vars == <<loop, inbox, status, demand, place>>

EventTypes ==
  {"JOB_SUBMITTED", "JOB_COMPLETED", "switched_off", "switched_on",
   "event_machine_unavailable", "event_machine_available", "no_more_external_event_to_occur"}

PlatformTypeOK ==
  /\ loop \in {"simulator", "scheduler"}
  /\ inbox \in Seq(EventTypes \X (Job \cup Nat))
  /\ status \in [Job -> {"future", "waiting", "rejected", "running", "completed"}]
  /\ demand \in Demands
  /\ DOMAIN place \subseteq Job /\ \A j \in DOMAIN place : place[j] \subseteq Machine

PlatformInit ==
  /\ loop = "simulator" /\ inbox = <<>> /\ place = NoPlace
  /\ status = [j \in Job |-> "future"]
  /\ demand \in Demands

-----------------------------------------------------------------------------
\* The simulator.

Event(type, x) ==
  /\ loop = "simulator" /\ Len(inbox) < MaxBatch
  /\ inbox' = Append(inbox, <<type, x>>)
  /\ UNCHANGED loop

Submit(j) ==
  /\ status[j] = "future"
  /\ Event("JOB_SUBMITTED", j)
  /\ status' = [status EXCEPT ![j] = "waiting"]
  /\ UNCHANGED <<demand, place>>

Complete(j) ==
  /\ status[j] = "running"
  /\ Event("JOB_COMPLETED", j)
  /\ status' = [status EXCEPT ![j] = "completed"]
  /\ UNCHANGED <<demand, place>>

Send ==
  /\ loop = "simulator" /\ inbox # <<>>
  /\ loop' = "scheduler"
  /\ UNCHANGED <<inbox, status, demand, place>>

-----------------------------------------------------------------------------
\* The message loop: the next event, and the end of the message.

Handling(type, x) ==
  /\ loop = "scheduler" /\ inbox # <<>> /\ Head(inbox) = <<type, x>>
  /\ inbox' = Tail(inbox)
  /\ UNCHANGED loop

MessageEnds ==
  /\ loop = "scheduler" /\ inbox = <<>>
  /\ loop' = "simulator"
  /\ UNCHANGED inbox

\* bs.execute_jobs and bs.reject_jobs; starts is a function from the jobs to
\* their machines.
RunJobs(starts) ==
  /\ status' = [j \in Job |-> IF j \in DOMAIN starts THEN "running" ELSE status[j]]
  /\ place' = [j \in DOMAIN place \cup DOMAIN starts |->
                 IF j \in DOMAIN starts THEN starts[j] ELSE place[j]]
  /\ UNCHANGED demand

RefuseJob(j) ==
  /\ status' = [status EXCEPT ![j] = "rejected"]
  /\ UNCHANGED <<demand, place>>

NoCommand == UNCHANGED <<status, demand, place>>

-----------------------------------------------------------------------------
\* islice(S, n): the n first machines of S.
First(S, n) == {m \in S : Cardinality({k \in S : k < m}) < n}
=============================================================================
