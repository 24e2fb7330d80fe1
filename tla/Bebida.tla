------------------------------- MODULE Bebida -------------------------------
(***************************************************************************)
(* The big-data scheduler of Bebida (src/schedulers/schedBebida.py): it is *)
(* lent machines that can be asked back at any time.  A job starts on as   *)
(* many of the machines it wants as there are; jobs on machines that are   *)
(* asked back are killed, and so are jobs on too few machines when others  *)
(* become free; what was killed is registered again as a dynamic job.      *)
(*                                                                         *)
(* An attempt of a job is over before the next is registered, so that one  *)
(* state per job, that of its last attempt, is enough.  The simulator      *)
(* waits while the callbacks run, then obeys their commands in order; a    *)
(* job may end by itself before the command to kill it is obeyed.          *)
(* Variant "pfs", with dynamic jobs acknowledged.                          *)
(***************************************************************************)
EXTENDS Integers, FiniteSets, SequencesExt

CONSTANTS
  NbJobs,
  N,             \* nb_compute_resources
  Loans,         \* sets of machines that are asked back together
  Demands,       \* possible functions from jobs to requested_resources
  Composed,      \* possible sets of the jobs whose profile is a sequence
  MaxRemovals,   \* bound: REMOVE_RESOURCES in a behaviour
  MaxBatch       \* bound: events the simulator adds to a message by itself

Job     == 1 .. NbJobs
Machine == 0 .. N - 1

ASSUME BebidaAssumption ==
  /\ NbJobs \in Nat /\ N \in Nat /\ MaxRemovals \in Nat /\ MaxBatch \in Nat
  /\ Loans \subseteq SUBSET Machine /\ \A R, Q \in Loans : R # Q => R \cap Q = {}
  /\ Demands \subseteq [Job -> Nat \ {0}] /\ Composed \subseteq SUBSET Job

VARIABLES
  \* the simulator
  loop,          \* "simulator", "scheduler", or "raised" after an exception
  inbox,         \* the message to the scheduler
  commands,      \* the reply
  truth,         \* "future", "queued", "running" or "over", for each job
  loan,          \* "lent", "asked" back or "taken" back
  registration,  \* jobs can still be registered
  removals,      \* REMOVE_RESOURCES sent so far
  demand, composed,       \* rigid
  overtaken,     \* history: a job had ended by itself when it was killed
  \* bs and the scheduler
  job_state, allocation,
  no_more_static_jobs,
  free_resources, available_resources,
  to_be_removed_resources,   \* a partial function on Loans, to sets of jobs
  load_balanced_jobs,
  notify_already_send

sim_vars   == <<truth, loan, registration, removals, demand, composed, overtaken>>
sched_vars == <<job_state, allocation, no_more_static_jobs, free_resources,
                available_resources, to_be_removed_resources, load_balanced_jobs,
                notify_already_send>>
vars == <<loop, inbox, commands, sim_vars, sched_vars>>

Event(type, jobs, hit, R) == [type |-> type, jobs |-> jobs, hit |-> hit, machines |-> R]
JobEvent(type, j)         == Event(type, {j}, {}, {})
Command(type, jobs, R)    == [type |-> type, jobs |-> jobs, machines |-> R]

InState(states, s) == {j \in Job : states[j] = s}

\* sort_by_id
InOrder(S) == CHOOSE q \in [1 .. Cardinality(S) -> S] : \A i, k \in DOMAIN q : i < k => q[i] < q[k]

-----------------------------------------------------------------------------
\* The simulator and the owner of the machines (external).

Happens(new) ==
  /\ loop = "simulator" /\ Len(inbox) < MaxBatch
  /\ inbox' = inbox \o new
  /\ UNCHANGED <<loop, commands, demand, composed, registration, sched_vars>>

Submit(j) ==
  /\ truth[j] = "future"
  /\ truth' = [truth EXCEPT ![j] = "queued"]
  /\ Happens(<<JobEvent("JOB_SUBMITTED", j)>> \o
             IF \A k \in Job \ {j} : truth[k] # "future"
             THEN <<Event("NOTIFY", {}, {}, {})>> ELSE <<>>)
  /\ UNCHANGED <<loan, removals, overtaken>>

Complete(j) ==
  /\ truth[j] = "running"
  /\ truth' = [truth EXCEPT ![j] = "over"]
  /\ Happens(<<JobEvent("JOB_COMPLETED", j)>>)
  /\ UNCHANGED <<loan, removals, overtaken>>

AskBack(R) ==
  /\ loan[R] = "lent" /\ removals < MaxRemovals
  /\ loan' = [loan EXCEPT ![R] = "asked"] /\ removals' = removals + 1
  /\ Happens(<<Event("REMOVE_RESOURCES", {}, {}, R)>>)
  /\ UNCHANGED <<truth, overtaken>>

Lend(R) ==
  /\ loan[R] = "taken"
  /\ loan' = [loan EXCEPT ![R] = "lent"]
  /\ Happens(<<Event("ADD_RESOURCES", {}, {}, R)>>)
  /\ UNCHANGED <<truth, removals, overtaken>>

Send ==
  /\ loop = "simulator" /\ commands = <<>> /\ inbox # <<>>
  /\ loop' = "scheduler"
  /\ UNCHANGED <<inbox, commands, sim_vars, sched_vars>>

\* A command of the reply is obeyed.
Obeys(type) ==
  /\ loop = "simulator" /\ commands # <<>> /\ Head(commands).type = type
  /\ commands' = Tail(commands)
  /\ UNCHANGED <<loop, removals, demand, composed, sched_vars>>

ObeyExecute ==
  /\ Obeys("EXECUTE_JOB")
  /\ truth' = [j \in Job |-> IF j \in Head(commands).jobs THEN "running" ELSE truth[j]]
  /\ UNCHANGED <<inbox, loan, registration, overtaken>>

ObeyKill ==
  LET jobs == Head(commands).jobs
      hit  == {j \in jobs : truth[j] = "running"}
  IN  /\ Obeys("KILL_JOB")
      /\ truth' = [j \in Job |-> IF j \in hit THEN "over" ELSE truth[j]]
      /\ inbox' = inbox \o [i \in 1 .. Cardinality(hit) |->
                              JobEvent("COMPLETED_KILLED", InOrder(hit)[i])]
                        \o <<Event("JOB_KILLED", jobs, hit, {})>>
      /\ overtaken' = (overtaken \/ hit # jobs)
      /\ UNCHANGED <<loan, registration>>

ObeyRegister ==
  /\ Obeys("REGISTER_JOB")
  /\ truth' = [j \in Job |-> IF j \in Head(commands).jobs THEN "queued" ELSE truth[j]]
  /\ inbox' = Append(inbox, Event("JOB_SUBMITTED", Head(commands).jobs, {}, {}))
  /\ UNCHANGED <<loan, registration, overtaken>>

ObeyRemoved ==
  /\ Obeys("RESOURCES_REMOVED")
  /\ loan' = [loan EXCEPT ![Head(commands).machines] = "taken"]
  /\ UNCHANGED <<inbox, truth, registration, overtaken>>

ObeyFinished ==
  /\ Obeys("NOTIFY")
  /\ registration' = FALSE
  /\ UNCHANGED <<inbox, truth, loan, overtaken>>

Obey == ObeyExecute \/ ObeyKill \/ ObeyRegister \/ ObeyRemoved \/ ObeyFinished

Simulator ==
  \/ \E j \in Job : Submit(j) \/ Complete(j)
  \/ \E R \in Loans : Lend(R)
  \/ Send \/ Obey

-----------------------------------------------------------------------------
\* Jobs to schedule and to kill.

to_schedule_jobs ==
  IF InState(job_state, "IN_SUBMISSON") # {} THEN {} ELSE InState(job_state, "SUBMITTED")

\* bs.kill_jobs, when there is a job to kill
Killing(jobs, states) == [j \in Job |-> IF j \in jobs THEN "IN_KILLING" ELSE states[j]]
KillCommand(jobs)     == IF jobs = {} THEN <<>> ELSE <<Command("KILL_JOB", jobs, {})>>

-----------------------------------------------------------------------------
\* The callbacks, one for each event.

Handling(type) ==
  /\ loop = "scheduler" /\ inbox # <<>> /\ Head(inbox).type = type
  /\ inbox' = Tail(inbox)
  /\ UNCHANGED sim_vars

TheJob == CHOOSE j \in Head(inbox).jobs : TRUE

onJobSubmission ==
  /\ Handling("JOB_SUBMITTED")
  /\ job_state'  = [job_state EXCEPT ![TheJob] = "SUBMITTED"]
  /\ allocation' = [allocation EXCEPT ![TheJob] = {}]
  /\ UNCHANGED <<loop, commands, no_more_static_jobs, free_resources, available_resources,
                 to_be_removed_resources, load_balanced_jobs, notify_already_send>>

onNoMoreJobsInWorkloads ==
  /\ Handling("NOTIFY")
  /\ no_more_static_jobs' = TRUE
  /\ UNCHANGED <<loop, commands, job_state, allocation, free_resources, available_resources,
                 to_be_removed_resources, load_balanced_jobs, notify_already_send>>

Wanted(j) == demand[j] - Cardinality(allocation[j])

\* The running jobs to kill because they want more machines: in order, until
\* what they want is what is free.  The first is looked at even if nothing is.
Unbalanced(states, free) ==
  LET running   == InState(states, "RUNNING")
      before(j) == {k \in running : k < j}
  IN  {j \in running :
         /\ Wanted(j) > 0
         /\ \/ before(j) = {}
            \/ SumFunctionOnSet([k \in Job |-> Wanted(k)], before(j)) < Cardinality(free)}

load_balance_jobs(states, free) ==
  LET jobs == Unbalanced(states, free)
  IN  /\ job_state' = Killing(jobs, states)
      /\ commands' = commands \o KillCommand(jobs)
      /\ load_balanced_jobs' = load_balanced_jobs \cup jobs

onJobCompletion ==
  /\ Handling("JOB_COMPLETED")
  /\ free_resources' = free_resources \cup allocation[TheJob]
  /\ load_balance_jobs([job_state EXCEPT ![TheJob] = "COMPLETED_SUCCESSFULLY"], free_resources')
  /\ UNCHANGED <<loop, allocation, no_more_static_jobs, available_resources,
                 to_be_removed_resources, notify_already_send>>

onKilledJobCompletion ==
  /\ Handling("COMPLETED_KILLED")
  /\ job_state' = [job_state EXCEPT ![TheJob] = "COMPLETED_KILLED"]
  /\ free_resources' = free_resources \cup (allocation[TheJob] \cap available_resources)
  /\ UNCHANGED <<loop, commands, allocation, no_more_static_jobs, available_resources,
                 to_be_removed_resources, load_balanced_jobs, notify_already_send>>

On(R, jobs) == {j \in jobs : allocation[j] \cap R # {}}

\* The jobs that must be over before R is given back.
Blockers(R) == On(R, InState(job_state, "RUNNING") \cup InState(job_state, "IN_KILLING"))

onRemoveResources ==
  LET R    == Head(inbox).machines
      jobs == On(R, InState(job_state, "RUNNING"))
  IN  /\ Handling("REMOVE_RESOURCES")
      /\ available_resources' = available_resources \ R
      /\ job_state' = Killing(jobs, job_state)
      /\ IF Blockers(R) = {}
         THEN /\ commands' = Append(commands, Command("RESOURCES_REMOVED", {}, R))
              /\ UNCHANGED to_be_removed_resources
         ELSE /\ commands' = commands \o KillCommand(jobs)
              /\ to_be_removed_resources' =
                   [Q \in DOMAIN to_be_removed_resources \cup {R} |->
                      IF Q = R THEN Blockers(R) ELSE to_be_removed_resources[Q]]
      /\ UNCHANGED <<loop, allocation, no_more_static_jobs, free_resources,
                     load_balanced_jobs, notify_already_send>>

onAddResources ==
  LET R == Head(inbox).machines
  IN  /\ Handling("ADD_RESOURCES")
      /\ available_resources' = available_resources \cup R
      /\ free_resources' = free_resources \cup R
      /\ load_balance_jobs(job_state, free_resources')
      /\ UNCHANGED <<loop, allocation, no_more_static_jobs, to_be_removed_resources,
                     notify_already_send>>

\* The loans given back once these jobs are killed.
\* Mutant: only when all that held them are killed at the same time.
AnsweredByAll(jobs) ==
  {R \in DOMAIN to_be_removed_resources : to_be_removed_resources[R] \subseteq jobs}

Answered(jobs) ==
  {R \in DOMAIN to_be_removed_resources : to_be_removed_resources[R] \cap jobs # {}}

\* The set is cleaned only of the jobs whose progress has a current task.
\* Mutant: of none.
CleanedOfNone(jobs) == load_balanced_jobs

Cleaned(jobs) == load_balanced_jobs \ (jobs \cap composed)

onJobsKilled(jobs) ==
  LET given == Answered(jobs)
  IN  /\ commands' = commands
           \o [i \in 1 .. Cardinality(given) |->
                 Command("RESOURCES_REMOVED", {}, SetToSeq(given)[i])]
           \o [i \in 1 .. Cardinality(jobs) |->
                 Command("REGISTER_JOB", {InOrder(jobs)[i]}, {})]
      /\ free_resources' = free_resources \ UNION given
      /\ to_be_removed_resources' =
           [R \in DOMAIN to_be_removed_resources \ given |-> to_be_removed_resources[R]]
      /\ load_balanced_jobs' = Cleaned(jobs)
      /\ job_state' = [j \in Job |-> IF j \in jobs THEN "IN_SUBMISSON" ELSE job_state[j]]

\* JOB_KILLED: no callback when every job ended by itself, a KeyError when one
\* did and another did not.
DispatchJobKilled ==
  LET e == Head(inbox)
  IN  /\ Handling("JOB_KILLED")
      /\ CASE e.hit = {} ->
                UNCHANGED <<loop, commands, job_state, free_resources,
                            to_be_removed_resources, load_balanced_jobs>>
           [] e.hit # {} /\ e.hit # e.jobs ->
                /\ loop' = "raised"
                /\ UNCHANGED <<commands, job_state, free_resources,
                               to_be_removed_resources, load_balanced_jobs>>
           [] e.hit # {} /\ e.hit = e.jobs ->
                onJobsKilled(e.hit) /\ UNCHANGED loop
      /\ UNCHANGED <<allocation, no_more_static_jobs, available_resources, notify_already_send>>

-----------------------------------------------------------------------------
\* onNoMoreEvents: schedule, then tell when nothing is left to register.

\* Mutant: of the machines that are free, also those asked back.
UsableThoughRemoved == free_resources

Usable == free_resources \cap available_resources

\* As many of the first machines as it wants, of those the jobs before it leave.
allocate_first_fit_in_best_effort(j) ==
  LET behind  == SumFunctionOnSet(demand, {k \in to_schedule_jobs : k < j})
      rank(m) == Cardinality({k \in Usable : k < m})
  IN  {m \in Usable : behind <= rank(m) /\ rank(m) < behind + demand[j]}

\* schedule(), until no machine is left.
Allocations ==
  LET jobs == {j \in to_schedule_jobs : allocate_first_fit_in_best_effort(j) # {}}
  IN  [j \in IF load_balanced_jobs = {} THEN jobs ELSE {} |-> allocate_first_fit_in_best_effort(j)]

\* What schedule() does at its end with what it has allocated.
Executed(alloc) ==
  LET starts == InOrder(DOMAIN alloc)
  IN  [commands  |-> [i \in DOMAIN starts |->
                        Command("EXECUTE_JOB", {starts[i]}, alloc[starts[i]])],
       job_state |-> [j \in Job |-> IF j \in DOMAIN alloc THEN "RUNNING" ELSE job_state[j]]]

\* Mutant: a job that is being registered again does not count.
AllDoneButSubmitted(states) ==
  no_more_static_jobs /\ \A j \in Job : states[j] \in
    {"COMPLETED_SUCCESSFULLY", "COMPLETED_KILLED", "IN_SUBMISSON"}

AllDone(states) ==
  no_more_static_jobs /\ \A j \in Job : states[j] \in {"COMPLETED_SUCCESSFULLY", "COMPLETED_KILLED"}

onNoMoreEvents ==
  LET alloc    == Allocations
      executed == Executed(alloc)
      closes   == AllDone(executed.job_state) /\ ~notify_already_send
  IN  /\ loop = "scheduler" /\ inbox = <<>>
      /\ loop' = "simulator"
      /\ job_state'  = executed.job_state
      /\ allocation' = [j \in Job |-> IF j \in DOMAIN alloc THEN alloc[j] ELSE allocation[j]]
      /\ free_resources' = free_resources \ UNION {alloc[j] : j \in DOMAIN alloc}
      /\ commands' = commands \o executed.commands
           \o (IF closes THEN <<Command("NOTIFY", {}, {})>> ELSE <<>>)
      /\ notify_already_send' = (notify_already_send \/ closes)
      /\ UNCHANGED <<inbox, sim_vars, no_more_static_jobs, available_resources,
                     to_be_removed_resources, load_balanced_jobs>>

-----------------------------------------------------------------------------

onSimulationBegins == free_resources = Machine /\ available_resources = Machine

Init ==
  /\ loop = "simulator" /\ inbox = <<>> /\ commands = <<>>
  /\ truth = [j \in Job |-> "future"] /\ loan = [R \in Loans |-> "lent"]
  /\ registration = TRUE /\ removals = 0 /\ overtaken = FALSE
  /\ demand \in Demands /\ composed \in Composed
  /\ job_state = [j \in Job |-> "UNKNOWN"] /\ allocation = [j \in Job |-> {}]
  /\ no_more_static_jobs = FALSE /\ notify_already_send = FALSE
  /\ onSimulationBegins
  /\ to_be_removed_resources = <<>> /\ load_balanced_jobs = {}

Callbacks ==
  \/ onJobSubmission \/ onNoMoreJobsInWorkloads
  \/ onJobCompletion \/ onKilledJobCompletion
  \/ onRemoveResources \/ onAddResources \/ DispatchJobKilled
  \/ onNoMoreEvents

Next == Simulator \/ (\E R \in Loans : AskBack(R)) \/ Callbacks

\* The loop handles what it was sent, whatever the callbacks do; the simulator
\* obeys, jobs are submitted and end, machines are lent again.  Nobody has to
\* ask machines back.
LoopGoesOn ==
  \/ loop = "scheduler" /\ inbox # <<>> /\ inbox' = Tail(inbox) /\ loop' \in {loop, "raised"}
  \/ loop = "scheduler" /\ inbox = <<>> /\ loop' = "simulator" /\ UNCHANGED inbox

Fairness == WF_<<loop, inbox>>(LoopGoesOn) /\ WF_vars(Simulator)

Spec == Init /\ [][Next]_vars /\ Fairness

-----------------------------------------------------------------------------
\* Properties

Running == {j \in Job : truth[j] = "running"}

\* The machines are used as the kills, the completions and the loans allow: no
\* two jobs run on one machine, none runs on a machine that was given back, and
\* what the scheduler would give next is held by no job it takes for running.
MachinesSound ==
  /\ \A j, k \in Running : j # k => allocation[j] \cap allocation[k] = {}
  /\ \A j \in Running, R \in Loans : loan[R] = "taken" => allocation[j] \cap R = {}
  /\ \A j \in InState(job_state, "RUNNING") \cup InState(job_state, "IN_KILLING") :
       allocation[j] \cap free_resources \cap available_resources = {}

\* Registration is closed only when every job is over for good: a job killed
\* meanwhile could not be registered again.
ClosedOnlyAtTheEnd ==
  ~registration => /\ \A j \in Job : truth[j] = "over"
                   /\ \A i \in DOMAIN commands : commands[i].type # "REGISTER_JOB"

\* Machines asked back are given back, unless a job on them ended by itself
\* before it was killed: JOB_KILLED is then not forwarded, or raises.
RemovalsAnswered ==
  \A R \in Loans : loan[R] = "asked" ~> (loan[R] = "taken" \/ overtaken)

\* Every job ends and registration is closed, but for two cases: a kill was
\* overtaken, or a job that is no sequence was killed to get more machines.
JobsEnd ==
  <>(\/ ~registration \/ overtaken
     \/ \E j \in load_balanced_jobs : j \notin composed)

\* "It also kill some jobs in the queue in order to re-schedule them on a
\* larger set of resources", for a job of the profile
\* "parallel_homogeneous_total" or a sequence: what is killed runs again.
ReScheduled ==
  \A j \in Job : (job_state[j] = "IN_SUBMISSON" /\ ~overtaken)
                    ~> (job_state[j] = "RUNNING" \/ overtaken)
=============================================================================
