----------------------------- MODULE SchedSlurm -----------------------------
(***************************************************************************)
(* The SLURM-like scheduler (src/schedulers/schedSlurm.py) on top of the   *)
(* message loop of Batsim.  The machines are split into two partitions; a  *)
(* job is bound to one of them by its size and walltime; whenever a job    *)
(* arrives or completes, the pending jobs are tried in the order of their  *)
(* multifactor priority.                                                   *)
(*                                                                         *)
(* A callback that calls schedule() is a sequence of steps: the entry      *)
(* (OnJobSubmission or OnJobCompletion), one ScheduleNext per iteration of *)
(* the loop over the sorted jobs, and ScheduleEnd.                         *)
(*                                                                         *)
(* Machines are 0 .. N-1.  Priorities are compared exactly: each factor is *)
(* multiplied by the common denominator of all of them.                    *)
(***************************************************************************)
EXTENDS Batsim, Integers

CONSTANTS
  N,              \* bs.nb_compute_resources
  Workloads,      \* possible functions from jobs to what they ask for
  User,           \* workload names, the part of a job id before "!"
  SchedDelay,     \* sched_delay, in ticks
  MaxAge,         \* priority_max_age
  WeightAge, WeightJobSize, WeightFairshare, WeightPartition,
  FavorSmall      \* priority_favor_small

Machine == 0 .. N - 1

ASSUME SlurmAssumption ==
  /\ Dynamic = {} /\ AckModes = {FALSE} /\ MaxCalls = 0 /\ ~InitCalls
  /\ N \in Nat /\ N >= 2
  /\ Workloads \subseteq [Static -> [res : Nat \ {0}, long : BOOLEAN, user : User]]
  /\ {SchedDelay, WeightAge, WeightJobSize, WeightFairshare, WeightPartition} \subseteq Nat
  /\ MaxAge \in Nat \ {0} /\ FavorSmall \in BOOLEAN

VARIABLES
  workload,             \* requested_resources, requested_time > 3600 and user; rigid
  pending_jobs,         \* a set, listed by the order of arrival
  arrived,
  running_jobs,
  available_resources,
  total_resources,
  allocation,           \* Job.allocation, {} for None
  start_time,           \* Job.start_time, current_time of schedule() by default
  user_usage,
  total_usage,
  scheduling,           \* is schedule() running?
  todo,                 \* jobs the loop of schedule() has still to try
  scheduled_jobs,
  current_time          \* the local variable of schedule()

schedule_vars == <<scheduling, todo, scheduled_jobs, current_time>>
usage_vars    == <<start_time, user_usage, total_usage>>
queue_vars    == <<pending_jobs, arrived, running_jobs>>
slurm_vars    == <<workload, queue_vars, available_resources, total_resources,
                   allocation, usage_vars, schedule_vars>>
vars == <<batsim_vars, slurm_vars>>

-----------------------------------------------------------------------------
\* Partitions and priorities

Half == total_resources \div 2

PartitionResources(p) ==
  IF p = "default" THEN 0 .. Half - 1 ELSE Half .. total_resources - 1

PartitionPriority(p) == IF p = "default" THEN 10 ELSE 20
MaxPartitionPriority == 20

\* requested_resources > total_resources * 0.3, or a walltime above an hour.
determine_partition(j) ==
  IF 10 * workload[j].res > 3 * total_resources \/ workload[j].long
  THEN "high" ELSE "default"

PartitionOf(j) == PartitionResources(determine_partition(j))

\* Every factor below is its value in the code times Scale(that factor), and
\* the weighted sum is taken over the common denominator.
AgeFactor(j, time) ==
  LET wait == time - submit_time[j] IN IF wait < MaxAge THEN wait ELSE MaxAge

JobSizeFactor(j) ==
  IF FavorSmall THEN total_resources - workload[j].res ELSE workload[j].res

UsageScale == IF total_usage = 0 THEN 1 ELSE total_usage

\* user_shares is never filled, so the target share of every user is 1.
FairshareFactor(j) ==
  IF total_usage = 0 THEN 1 ELSE total_usage - user_usage[workload[j].user]

calculate_job_priority(j, time) ==
    WeightAge * AgeFactor(j, time) * total_resources * UsageScale * MaxPartitionPriority
  + WeightJobSize * JobSizeFactor(j) * MaxAge * UsageScale * MaxPartitionPriority
  + WeightFairshare * FairshareFactor(j) * MaxAge * total_resources * MaxPartitionPriority
  + WeightPartition * PartitionPriority(determine_partition(j))
      * MaxAge * total_resources * UsageScale

\* Mutant of Precedes: sorted in increasing order of priority.
PrecedesIncreasing(j, k) ==
  LET p == calculate_job_priority(j, current_time)
      q == calculate_job_priority(k, current_time)
  IN  p < q \/ (p = q /\ arrived[j] < arrived[k])

\* The order of the stable, decreasing sort.
Precedes(j, k) ==
  LET p == calculate_job_priority(j, current_time)
      q == calculate_job_priority(k, current_time)
  IN  p > q \/ (p = q /\ arrived[j] < arrived[k])

-----------------------------------------------------------------------------
\* schedule()

\* list(S)[:n]
FirstOf(S, n) == {m \in S : Cardinality({x \in S : x < m}) < n}

FreeFor(j) == available_resources \cap PartitionOf(j)

\* Both tests: enough machines at all, and enough of them in the partition.
CanStart(j) ==
  /\ Cardinality(available_resources) >= workload[j].res
  /\ Cardinality(FreeFor(j)) >= workload[j].res

\* The beginning of schedule(), once pending_jobs is up to date.
ScheduleBegin ==
  /\ ConsumeTime(SchedDelay)
  /\ IF pending_jobs' = {}
     THEN CallbackReturns /\ UNCHANGED schedule_vars
     ELSE /\ scheduling' = TRUE
          /\ todo' = pending_jobs'
          /\ current_time' = now
          /\ UNCHANGED <<scheduled_jobs, phase, events>>

\* Mutant of Untried: the loop stops at the first job that cannot start.
UntriedStopping(j) == IF CanStart(j) THEN todo \ {j} ELSE {}

Untried(j) == todo \ {j}

\* Mutant of Take: the machines stay available.
TakeNothing(M) == UNCHANGED available_resources

Take(M) == available_resources' = available_resources \ M

ScheduleNext(j) ==
  /\ scheduling /\ j \in todo
  /\ \A k \in todo \ {j} : Precedes(j, k)
  /\ todo' = Untried(j)
  /\ \/ /\ CanStart(j)
        /\ allocation' = [allocation EXCEPT ![j] = FirstOf(FreeFor(j), workload[j].res)]
        /\ Take(allocation'[j])
        /\ scheduled_jobs' = Append(scheduled_jobs, j)
        /\ pending_jobs' = pending_jobs \ {j}
        /\ start_time' = [start_time EXCEPT ![j] = current_time]
     \/ /\ ~CanStart(j)
        /\ UNCHANGED <<allocation, available_resources, scheduled_jobs,
                       pending_jobs, start_time>>
  /\ UNCHANGED <<batsim_vars, workload, arrived, running_jobs, total_resources,
                 user_usage, total_usage, scheduling, current_time>>

\* The end of schedule(), and with it of the callback.
ScheduleEnd ==
  /\ scheduling /\ todo = {}
  /\ ExecuteJobs(scheduled_jobs)
  /\ running_jobs' = running_jobs \cup ToSet(scheduled_jobs)
  /\ scheduled_jobs' = <<>>
  /\ scheduling' = FALSE
  /\ CallbackReturns
  /\ UNCHANGED <<sim_vars, now, initialised, running_simulation, no_more_static_jobs,
                 ack_of_dynamic_jobs, workload, pending_jobs, arrived,
                 available_resources, total_resources, allocation, usage_vars,
                 todo, current_time>>

-----------------------------------------------------------------------------
\* Callbacks

\* Mutant of ProcSetUpTo: the upper end is one too far.
ProcSetUpToOneMore(n) == 0 .. n

ProcSetUpTo(n) == 0 .. n - 1

OnAfterBatsimInit ==
  /\ InitReturns
  /\ total_resources' = N
  /\ available_resources' = ProcSetUpTo(N)
  /\ UNCHANGED <<sim_vars, now, events, initialised, running_simulation,
                 no_more_static_jobs, ack_of_dynamic_jobs, api_vars, job_vars,
                 workload, queue_vars, allocation, usage_vars, schedule_vars>>

\* Mutant of TooLarge: off by one.
TooLargeByOne(j) == workload[j].res >= total_resources

TooLarge(j) == workload[j].res > total_resources

OnJobSubmissionRefused(j) ==
  /\ Handling("JOB_SUBMITTED") /\ ~scheduling /\ j \in Head(events).jobs
  /\ TooLarge(j)
  /\ RejectJobs(<<j>>)
  /\ CallbackReturns
  /\ UNCHANGED <<sim_vars, now, initialised, running_simulation, no_more_static_jobs,
                 ack_of_dynamic_jobs, slurm_vars>>

OnJobSubmission(j) ==
  /\ Handling("JOB_SUBMITTED") /\ ~scheduling /\ j \in Head(events).jobs
  /\ ~TooLarge(j)
  /\ pending_jobs' = pending_jobs \cup {j}
  /\ arrived' = [arrived EXCEPT ![j] = nb["submitted"]]
  /\ ScheduleBegin
  /\ UNCHANGED <<sim_vars, initialised, running_simulation, no_more_static_jobs,
                 ack_of_dynamic_jobs, api_vars, job_vars, workload, running_jobs,
                 available_resources, total_resources, allocation, usage_vars>>

\* runtime = current_time - job.start_time, for a job that is still RUNNING.
update_usage_stats(j) ==
  IF job_state[j] = "RUNNING"
  THEN LET usage == workload[j].res * (now - start_time[j])
       IN  /\ user_usage' = [user_usage EXCEPT ![workload[j].user] = @ + usage]
           /\ total_usage' = total_usage + usage
  ELSE UNCHANGED <<user_usage, total_usage>>

\* Mutants of Free: the whole partition is freed; nothing is.
FreePartition(j) == available_resources' = available_resources \cup PartitionOf(j)
FreeNothing(j)   == UNCHANGED available_resources

Free(j) == available_resources' = available_resources \cup allocation[j]

OnJobCompletion(j) ==
  /\ Handling("JOB_COMPLETED") /\ ~scheduling /\ j \in Head(events).jobs
  /\ Free(j)
  /\ running_jobs' = running_jobs \ {j}
  /\ pending_jobs' = pending_jobs \ {j}
  /\ update_usage_stats(j)
  /\ ScheduleBegin
  /\ UNCHANGED <<sim_vars, initialised, running_simulation, no_more_static_jobs,
                 ack_of_dynamic_jobs, api_vars, job_vars, workload, arrived,
                 total_resources, allocation, start_time>>

\* onSimulationBegins, onSimulationEnds and onNoMoreJobsInWorkloads only log.
OtherCallback ==
  /\ Handling("SIMULATION_BEGINS") \/ Handling("SIMULATION_ENDS") \/ Handling("NOTIFY")
  /\ CallbackReturns
  /\ UNCHANGED <<sim_vars, now, initialised, running_simulation, no_more_static_jobs,
                 ack_of_dynamic_jobs, api_vars, job_vars, slurm_vars>>

-----------------------------------------------------------------------------

Init ==
  /\ BatsimInit
  /\ workload \in Workloads
  /\ pending_jobs = {} /\ running_jobs = {}
  /\ arrived = [j \in Job |-> 0]
  /\ available_resources = {} /\ total_resources = 0
  /\ allocation = [j \in Job |-> {}]
  /\ start_time = [j \in Job |-> 0]
  /\ user_usage = [u \in User |-> 0] /\ total_usage = 0
  /\ scheduling = FALSE /\ todo = {} /\ scheduled_jobs = <<>> /\ current_time = 0

LibraryStep == Library /\ UNCHANGED slurm_vars

Callback ==
  \/ OnAfterBatsimInit
  \/ \E j \in Job : \/ OnJobSubmissionRefused(j) \/ OnJobSubmission(j)
                    \/ OnJobCompletion(j) \/ ScheduleNext(j)
  \/ ScheduleEnd
  \/ OtherCallback

Next == LibraryStep \/ Callback \/ (Over /\ UNCHANGED vars)

Spec == Init /\ [][Next]_vars

\* pybatsim goes on as long as it can.  The simulator injects the commands,
\* sends what it has to send, submits every static job, and every job that
\* runs ends: its walltime is enforced.
Fairness ==
  /\ WF_vars(Callback \/ ((Dispatch \/ SendReply) /\ UNCHANGED slurm_vars))
  /\ WF_vars((Inject \/ Receive \/ SimEnd) /\ UNCHANGED slurm_vars)
  /\ \A j \in Static :
       /\ WF_vars(SimSubmit(j) /\ UNCHANGED slurm_vars)
       /\ WF_vars((\E o \in Outcomes : SimComplete(j, o)) /\ UNCHANGED slurm_vars)

FairSpec == Spec /\ Fairness

-----------------------------------------------------------------------------
\* Properties

QueueTypeOK ==
  /\ pending_jobs \subseteq Job /\ running_jobs \subseteq Job
  /\ arrived \in [Job -> Nat]

MachineTypeOK ==
  /\ available_resources \subseteq Machine
  /\ total_resources \in {0, N}
  /\ allocation \in [Job -> SUBSET Machine]

UsageTypeOK ==
  /\ start_time \in [Job -> Nat]
  /\ user_usage \in [User -> Int] /\ total_usage \in Int

ScheduleTypeOK ==
  /\ scheduling \in BOOLEAN /\ todo \subseteq Job
  /\ scheduled_jobs \in Seq(Job) /\ current_time \in Nat

\* Every variable of the scheduler keeps its type, and so do those of the
\* library it runs on.
SlurmTypeOK ==
  /\ TypeOK /\ workload \in Workloads
  /\ QueueTypeOK /\ MachineTypeOK /\ UsageTypeOK /\ ScheduleTypeOK

\* The jobs that hold machines: those handed to Batsim and those the current
\* call of schedule() has given machines.
Held == running_jobs \cup ToSet(scheduled_jobs)

\* The scheduler's view of the machines: each is available or held by exactly
\* one job.  available_resources is updated in three callbacks and inside the
\* loop; a machine freed twice, or never, shows here.
MachinesPartitioned ==
  total_resources = N =>
    /\ \A j \in Held : allocation[j] \cap available_resources = {}
    /\ \A j, k \in Held : j # k => allocation[j] \cap allocation[k] = {}
    /\ available_resources \cup UNION {allocation[j] : j \in Held} = Machine

\* In the simulator, whatever is still in flight between the two processes, no
\* machine runs two jobs, nor one that the scheduler believes to be available.
NoOversubscription ==
  \A j \in Job : truth[j] = "running" =>
    /\ allocation[j] \cap available_resources = {}
    /\ \A k \in Job \ {j} : truth[k] = "running" => allocation[j] \cap allocation[k] = {}

\* Outside schedule() no pending job could start: the two events after which
\* one could, an arrival and a completion, both retry every pending job.
WorkConserving ==
  ~scheduling => \A j \in pending_jobs : Cardinality(FreeFor(j)) < workload[j].res

\* No overtaking: when a job gets machines, every pending job of higher priority
\* has been tried and found not to fit, and still does not.
PriorityRespected ==
  [][\A j \in pending_jobs \ pending_jobs' : \A k \in pending_jobs' :
       calculate_job_priority(k, current_time) > calculate_job_priority(j, current_time)
         => ~CanStart(k)]_vars

Fits(j) == workload[j].res <= Cardinality(PartitionOf(j))

\* onDeadlock is only ever reached because of a job that its partition cannot
\* hold: no interleaving of arrivals, completions and replies loses a job.
BlockedOnlyByMisfit ==
  phase = "deadlock" => \E j \in pending_jobs : ~Fits(j)

\* When every job fits its partition or is refused, the simulation ends.
SimulationEnds ==
  (total_resources = N /\ \A j \in Job : Fits(j) \/ TooLarge(j)) ~> phase = "ended"

\* The scheduler implements Cluster: a job waits from onJobSubmission on, runs
\* from the iteration that allocates its machines to onJobCompletion.
Status(j) ==
  IF j \in pending_jobs THEN "waiting"
  ELSE IF j \in Held THEN "running"
  ELSE IF state[j] = "REJECTED" THEN "refused"
  ELSE IF job_state[j] \in Completed \cup {"UNKNOWN"} THEN "finished"
  ELSE "new"

ClusterOf == INSTANCE Cluster WITH
  demand <- [j \in Job |-> workload[j].res],
  status <- [j \in Job |-> Status(j)],
  held   <- [j \in Job |-> IF j \in Held THEN allocation[j] ELSE {}]

ImplementsCluster == ClusterOf!ClusterSpec

\* What the comment "Verifica se o job pode ser executado no sistema" (checks
\* that the job can be executed on the system) in onJobSubmission says of the
\* test before a job is accepted: an accepted job can be executed.
AcceptedJobsFit == \A j \in pending_jobs : Fits(j)
=============================================================================
