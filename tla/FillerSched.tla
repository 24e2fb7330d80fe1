----------------------------- MODULE FillerSched -----------------------------
(***************************************************************************)
(* The two filler schedulers, which start every open job that fits, in no  *)
(* particular order: FillerSched (src/schedulers/fillerSched.py) after     *)
(* each event, FillerSchedWithEvents (src/schedulers/fillerSchedWithEvents *)
(* .py) at the end of a message, on the machines that external events have *)
(* not marked unavailable.                                                 *)
(***************************************************************************)
EXTENDS ValidatingMachine

CONSTANTS MaxEvents   \* bound: external events in one simulation

ASSUME FillerAssumption == MaxEvents \in Nat

VARIABLES
  openJobs,
  availableResources,
  unavailableResources, \* with events only
  runningResources,     \* with events only
  down,                 \* machines the simulator has announced unavailable
  externalEvents,       \* how many events it still may announce
  noMoreExternal        \* the notification that none will come, handled

filler_vars == <<openJobs, availableResources, unavailableResources, runningResources>>
external_vars == <<down, externalEvents, noMoreExternal>>

FillerInit ==
  /\ openJobs = {} /\ availableResources = Machine
  /\ unavailableResources = {} /\ runningResources = {}
  /\ down = {} /\ externalEvents = MaxEvents /\ noMoreExternal = FALSE

\* The loop of scheduleJobs goes over a copy of the set of open jobs in any
\* order: starts has the jobs that fit, each with the first machines of what the
\* jobs before it leave.
Orders(S) == Injection(S, 1 .. Cardinality(S))

Left(free, starts, rank, j) ==
  free \ UNION {starts[k] : k \in {i \in DOMAIN starts : rank[i] < rank[j]}}

\* Mutants of Fill: the machines given to a job stay available; the loop stops
\* at the first job that does not fit.
FillKeepingMachines(starts, free, rank) ==
  \A j \in DOMAIN rank :
    /\ j \in DOMAIN starts <=> demand[j] <= Cardinality(free)
    /\ j \in DOMAIN starts => starts[j] = First(free, demand[j])

FillStopping(starts, free, rank) ==
  \A j \in DOMAIN rank :
    LET left == Left(free, starts, rank, j)
    IN  /\ j \in DOMAIN starts <=>
             /\ demand[j] <= Cardinality(left)
             /\ \A k \in DOMAIN rank : rank[k] < rank[j] => k \in DOMAIN starts
        /\ j \in DOMAIN starts => starts[j] = First(left, demand[j])

Fill(starts, free, rank) ==
  \A j \in DOMAIN rank :
    LET left == Left(free, starts, rank, j)
    IN  /\ j \in DOMAIN starts <=> demand[j] <= Cardinality(left)
        /\ j \in DOMAIN starts => starts[j] = First(left, demand[j])

\* The rest of scheduleJobs; a is the wrapper's account.
ScheduleOpenJobs(open, free, a) ==
  \E rank \in Orders(open), D \in SUBSET open : \E starts \in [D -> SUBSET free] :
    /\ Fill(starts, free, rank)
    /\ openJobs' = open \ D
    /\ availableResources' = free \ Used(starts)
    /\ execute_jobs(starts, a)

TooLarge(j) == demand[j] > N

Reject(j) ==
  RefuseJob(j) /\ Seen(AfterSubmission(j)) /\ UNCHANGED filler_vars

-----------------------------------------------------------------------------
\* FillerSched

FillerOnJobSubmission(j) ==
  IF TooLarge(j) THEN Reject(j)
  ELSE /\ ScheduleOpenJobs(openJobs \cup {j}, availableResources, AfterSubmission(j))
       /\ UNCHANGED <<unavailableResources, runningResources>>

FillerOnJobCompletion(j) ==
  /\ ScheduleOpenJobs(openJobs, availableResources \cup place[j], AfterCompletion(j))
  /\ UNCHANGED <<unavailableResources, runningResources>>

-----------------------------------------------------------------------------
\* FillerSchedWithEvents

EventsOnJobSubmission(j) ==
  IF TooLarge(j) THEN Reject(j)
  ELSE /\ openJobs' = openJobs \cup {j}
       /\ NoCommand /\ Seen(AfterSubmission(j))
       /\ UNCHANGED <<availableResources, unavailableResources, runningResources>>

EventsOnJobCompletion(j) ==
  /\ availableResources' = availableResources \cup (place[j] \ unavailableResources)
  /\ runningResources' = runningResources \ place[j]
  /\ NoCommand /\ Seen(AfterCompletion(j))
  /\ UNCHANGED <<openJobs, unavailableResources>>

onNotifyEventMachineUnavailable(m) ==
  /\ unavailableResources' = unavailableResources \cup {m}
  /\ availableResources' = availableResources \ {m}
  /\ UNCHANGED <<openJobs, runningResources>>

\* Mutant: a machine that runs a job is marked available.
AvailableThoughRunning(m) ==
  /\ unavailableResources' = unavailableResources \ {m}
  /\ availableResources' = availableResources \cup {m}
  /\ UNCHANGED <<openJobs, runningResources>>

onNotifyEventMachineAvailable(m) ==
  /\ unavailableResources' = unavailableResources \ {m}
  /\ availableResources' = availableResources \cup ({m} \ runningResources)
  /\ UNCHANGED <<openJobs, runningResources>>

\* The list walked to find the jobs to reject, self.jobs_waiting, is never
\* filled, so that nothing is rejected.
onNoMoreExternalEvents == noMoreExternal' = TRUE /\ UNCHANGED filler_vars

EventsOnNoMoreEvents ==
  /\ ScheduleOpenJobs(openJobs, availableResources, AsBefore)
  /\ runningResources' = runningResources \cup (availableResources \ availableResources')
  /\ UNCHANGED unavailableResources

-----------------------------------------------------------------------------
\* The external events of the simulator, one machine at a time.

ExternalEvent(type, m) ==
  /\ externalEvents > 0
  /\ Event(type, m)
  /\ externalEvents' = externalEvents - 1
  /\ UNCHANGED <<status, demand, place>>

MachineDown(m) ==
  /\ m \notin down /\ ExternalEvent("event_machine_unavailable", m)
  /\ down' = down \cup {m}

MachineUp(m) ==
  /\ m \in down /\ ExternalEvent("event_machine_available", m)
  /\ down' = down \ {m}

\* No more event will occur: the one that says so is the last.
NoMoreExternal ==
  /\ externalEvents > 0 /\ ExternalEvent("no_more_external_event_to_occur", 0)
  /\ UNCHANGED down

-----------------------------------------------------------------------------

FillerTypeOK ==
  /\ openJobs \subseteq Job
  /\ {availableResources, unavailableResources, runningResources, down} \subseteq SUBSET Machine
  /\ externalEvents \in 0 .. MaxEvents /\ noMoreExternal \in BOOLEAN

\* The machines on which a job runs that is not seen to have completed.
Occupied == UNION {place[j] : j \in {k \in DOMAIN place :
  status[k] = "running" \/ \E i \in DOMAIN inbox : inbox[i] = <<"JOB_COMPLETED", k>>}}
=============================================================================
