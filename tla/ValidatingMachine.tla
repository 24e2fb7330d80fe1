-------------------------- MODULE ValidatingMachine --------------------------
(***************************************************************************)
(* ValidatingMachine (src/batsim/validatingmachine.py), the wrapper that   *)
(* --protect puts between the message loop and the scheduler.  It keeps    *)
(* its own account of the machines from what passes through it, and        *)
(* forwards some of the callbacks.                                         *)
(***************************************************************************)
EXTENDS Platform

VARIABLES
  protect,                \* is the scheduler wrapped?
  jobs_waiting,
  availableMachines,      \* availableResources
  previousAllocations,    \* job to machines, a partial function
  raised                  \* did execute_jobs_valid raise ValueError?

validating_vars == <<protect, jobs_waiting, availableMachines,
                     previousAllocations, raised>>

ValidatingInit ==
  /\ protect \in BOOLEAN /\ raised = FALSE
  /\ jobs_waiting = {} /\ availableMachines = Machine
  /\ previousAllocations = NoPlace

\* The callbacks ValidatingMachine defines reach the scheduler, the others end
\* in the empty default of BatsimScheduler.
Forwarded(callback) ==
  ~protect \/ callback \in {"onJobSubmission", "onJobCompletion", "onMachinePStateChanged"}

Released(j) == IF j \in DOMAIN previousAllocations THEN previousAllocations[j] ELSE {}

\* The wrapper's account when it forwards a callback: of a submission, of a
\* completion, or another.
AfterSubmission(j) ==
  [waiting |-> IF protect THEN jobs_waiting \cup {j} ELSE jobs_waiting,
   free    |-> availableMachines,
   held    |-> previousAllocations]

AfterCompletion(j) ==
  [waiting |-> jobs_waiting,
   free    |-> availableMachines \cup Released(j),
   held    |-> [k \in DOMAIN previousAllocations \ {j} |-> previousAllocations[k]]]

AsBefore ==
  [waiting |-> jobs_waiting, free |-> availableMachines, held |-> previousAllocations]

Account(a) ==
  /\ jobs_waiting' = a.waiting /\ availableMachines' = a.free
  /\ previousAllocations' = a.held

\* execute_jobs_valid, which raises for a job that does not wait and for a
\* machine that is not available.
Valid(starts, a) ==
  /\ DOMAIN starts \subseteq a.waiting
  /\ \A j \in DOMAIN starts : starts[j] \subseteq a.free
  /\ \A j, k \in DOMAIN starts : j # k => starts[j] \cap starts[k] = {}

Used(starts) == UNION {starts[j] : j \in DOMAIN starts}

Executed(starts, a) ==
  [waiting |-> a.waiting \ DOMAIN starts,
   free    |-> a.free \ Used(starts),
   held    |-> [j \in DOMAIN a.held \cup DOMAIN starts |->
                  IF j \in DOMAIN starts THEN starts[j] ELSE a.held[j]]]

execute_jobs(starts, a) ==
  /\ IF ~protect \/ Valid(starts, a)
     THEN RunJobs(starts) /\ UNCHANGED raised
     ELSE NoCommand /\ raised' = TRUE
  /\ Account(IF protect /\ Valid(starts, a) THEN Executed(starts, a) ELSE a)
  /\ UNCHANGED protect

\* A callback in which no job is executed.
Seen(a) == Account(a) /\ UNCHANGED <<protect, raised>>

-----------------------------------------------------------------------------

ValidatingTypeOK ==
  /\ {protect, raised} \subseteq BOOLEAN
  /\ jobs_waiting \subseteq Job /\ availableMachines \subseteq Machine
  /\ DOMAIN previousAllocations \subseteq Job

\* A protected scheduler that the wrapper lets run is one whose machines the
\* wrapper knows: those it holds for a job it has not seen complete, and the
\* rest is available; the simulator runs no job the wrapper does not know.
WrapperAgrees == protect =>
  /\ availableMachines = Machine \ UNION {previousAllocations[j] : j \in DOMAIN previousAllocations}
  /\ \A j \in Job : status[j] = "running" =>
       j \in DOMAIN previousAllocations /\ previousAllocations[j] = place[j]
=============================================================================
