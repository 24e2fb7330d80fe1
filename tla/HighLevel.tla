----------------------------- MODULE HighLevel -----------------------------
(***************************************************************************)
(* The high-level scheduler API (src/batsim/sched) with the three          *)
(* schedulers written on it: first come first served, filler, and EASY     *)
(* backfilling of the shortest jobs (src/schedulers/schedFcfs.py,          *)
(* schedFiller.py, schedEasySjfBackfill.py).                               *)
(*                                                                         *)
(* Every callback updates the Job objects and their allocations and then   *)
(* runs one scheduling iteration.  Backfilling puts a temporary allocation *)
(* for the first runnable job on the resources, looks what is left for     *)
(* another job, and takes it away again.  A pass works on a record of what *)
(* the objects hold.  An assertion or a call of fatal() raises, and the    *)
(* process is gone.                                                        *)
(*                                                                         *)
(* Time is counted in Resource.TIME_DELTA; walltimes are multiples of Unit *)
(* and jobs start and end at multiples of Unit.  An iteration consumes the *)
(* default sched-delay, 1e-21: the float of a later time does not change   *)
(* by it, but 0 does, and no allocation may start at 0.                    *)
(***************************************************************************)
EXTENDS Platform, Integers

CONSTANTS
  Unit,
  Walltimes,     \* possible functions from jobs to requested_time, in Units; every
                 \* job has a walltime, none the -1 that stands for no walltime
  Dependencies,  \* possible functions from jobs to the jobs in their "deps"
  Policies       \* schedulers to run: "fcfs", "filler", "easy"

TIME_DELTA == 1

ASSUME HighLevelAssumption ==
  /\ Unit \in Nat /\ Unit > TIME_DELTA
  /\ Walltimes \subseteq [Job -> Nat \ {0}]
  /\ Dependencies \subseteq [Job -> SUBSET Job]
  /\ Policies \subseteq {"fcfs", "filler", "easy"}

VARIABLES
  now,            \* "now" of the message
  consumed,       \* consume_time was called: the clock is after now = 0
  policy, walltime, dependencies,   \* rigid
  jobs,           \* Scheduler.jobs, in the order of submission
  jobmap,         \* BaseBatsimScheduler._jobmap
  flags,          \* of each job: "open", "scheduled" or "rejected"
  completed,      \* jobs whose job_state is COMPLETED_*
  allocations,    \* all Resource._allocations
  promised,       \* history: the earliest reservation made for a job at the head
  dead            \* an exception has left a callback

books == <<consumed, jobs, jobmap, flags, completed, allocations, promised, dead>>
rigid == <<policy, walltime, dependencies>>
vars  == <<platform_vars, now, rigid, books>>

-----------------------------------------------------------------------------
\* A dictionary with one more entry.
Mapping(f, j, x) == [k \in DOMAIN f \cup {j} |-> IF k = j THEN x ELSE f[k]]

-----------------------------------------------------------------------------
\* Job

Open(s, j) == s.flags[j] = "open" /\ j \notin s.completed

\* A dependency that is not submitted yet resolves to no job.
dependencies_fulfilled(s, j) == dependencies[j] \subseteq s.completed

Runnable(s, j) == Open(s, j) /\ dependencies_fulfilled(s, j)

\* The jobs of the list q that are not in D, in their order.
Without(q, D) ==
  LET kept[n \in 0 .. Len(q)] ==
        IF n = 0 THEN <<>>
        ELSE IF q[n] \in D THEN kept[n - 1] ELSE Append(kept[n - 1], q[n])
  IN  kept[Len(q)]

OpenJobs(s)     == Without(s.jobs, {j \in Job : ~Open(s, j)})
RunnableJobs(s) == Without(s.jobs, {j \in Job : ~Runnable(s, j)})

requested_time(j) == Unit * walltime[j]

fits_in_frame(j, remaining_time, num_resources) ==
  remaining_time >= requested_time(j) /\ num_resources >= demand[j]

-----------------------------------------------------------------------------
\* Allocation.  One that is on a resource has no end_time: free() takes it off.

Allocation(j, start, machines) ==
  [job |-> j, start |-> start, walltime |-> requested_time(j), machines |-> machines,
   allocated |-> FALSE]

estimated_end_time(a) == a.start + a.walltime

fits_job(a) == fits_in_frame(a.job, a.walltime, Cardinality(a.machines))

overlaps_with(a, b) ==
  \/ a.start <  b.start /\ estimated_end_time(a) >= b.start
  \/ a.start >= b.start /\ estimated_end_time(b) >= a.start

On(s, m) == {a \in s.allocations : m \in a.machines}

num_active(s, m) == Cardinality({a \in On(s, m) : a.allocated})

Failing(s, condition) == [s EXCEPT !.dead = @ \/ condition]

\* add_resource for every machine of a: an allocation starts after 0 and
\* overlaps none on the same machine.
add_resources(s, a) ==
  LET others == UNION {On(s, m) : m \in a.machines}
  IN  Failing([s EXCEPT !.allocations = @ \cup {a}],
              (a.start <= 0 /\ ~consumed) \/ \E b \in others : overlaps_with(a, b))

_reserve_job_on_allocation(s, a) == Failing(s, ~(Open(s, a.job) /\ fits_job(a)))

\* What Allocation.__init__ does with the job and the machines it is given.
Created(s, a) == _reserve_job_on_allocation(add_resources(s, a), a)

allocate(s, a) ==
  Failing([s EXCEPT !.allocations = (@ \ {a}) \cup {[a EXCEPT !.allocated = TRUE]}], a.allocated)

free(s, a) == Failing([s EXCEPT !.allocations = @ \ {a}], ~a.allocated)

-----------------------------------------------------------------------------
\* Resource and Resources: when a machine, and enough machines, are available.

\* At the present an allocation that has started is not over before Batsim says
\* so; one in the future must leave the walltime free.
\* Mutant: allocations in the future do not matter.
AvailableNowIgnoring(s, m, w) == \A a \in On(s, m) : a.start > now

AvailableNow(s, m, w) ==
  \A a \in On(s, m) : a.start > now /\ a.start >= now + w + TIME_DELTA

\* In the future an allocation is over at its estimated end.
AvailableAt(s, m, w, time) ==
  \A a \in On(s, m) : IF a.start <= time THEN time >= estimated_end_time(a) + TIME_DELTA
                      ELSE a.start >= time + w + TIME_DELTA

Neighbours(m, n) == m .. m + n - 1

\* consecutive_resources_filter: the lowest n neighbours in S.
Consecutive(S, n) ==
  LET starts == {m \in S : Neighbours(m, n) \subseteq S}
  IN  IF starts = {} THEN {}
      ELSE LET low == CHOOSE m \in starts : \A k \in starts : m <= k IN Neighbours(low, n)

find_sufficient_resources_for_job(s, j) ==
  Consecutive({m \in Machine : AvailableNow(s, m, requested_time(j))}, demand[j])

\* The search steps through the times at which a machine becomes available.
ResourcesAt(s, j, time) ==
  Consecutive({m \in Machine : AvailableAt(s, m, requested_time(j), time)}, demand[j])

find_with_earliest_start_time(s, j) ==
  LET candidates == {now} \cup {estimated_end_time(a) + TIME_DELTA : a \in s.allocations}
      fits       == {t \in candidates : t >= now /\ ResourcesAt(s, j, t) # {}}
      time       == CHOOSE t \in fits : \A u \in fits : t <= u
  IN  IF fits = {} THEN Allocation(j, now, {}) ELSE Allocation(j, time, ResourcesAt(s, j, time))

-----------------------------------------------------------------------------
\* Job.reserve, Job.schedule and Job.reject

AllocationOf(s, j) == CHOOSE a \in s.allocations : a.job = j

reserve(s, j, machines) ==
  Failing(Created(s, Allocation(j, now, machines)),
          ~Open(s, j) \/ \E a \in s.allocations : a.job = j)

\* The machines are active for this job alone, or fatal() is called.
schedule(s, j, machines) ==
  LET reserved  == reserve(s, j, machines)
      allocated == allocate(reserved, AllocationOf(reserved, j))
      started   == [allocated EXCEPT !.flags[j] = "scheduled",
                                     !.starts = Mapping(@, j, machines)]
  IN  IF reserved.dead THEN reserved
      ELSE Failing(started, \E m \in machines : num_active(started, m) # 1)

reject(s, j) ==
  Failing([s EXCEPT !.flags[j] = "rejected", !.jobmap = @ \ {j}],
          ~Open(s, j) \/ j \notin s.jobmap)

-----------------------------------------------------------------------------
\* algorithms.filling

\* Mutant: a job that waits for another one ends the pass.
FillOneInOrder(s, j, abort_on_first_nonfitting) ==
  LET machines == find_sufficient_resources_for_job(s, j)
  IN  IF s.dead \/ s.stopped THEN s
      ELSE IF ~Runnable(s, j) THEN [s EXCEPT !.stopped = abort_on_first_nonfitting]
      ELSE IF machines # {} THEN schedule(s, j, machines)
      ELSE IF demand[j] > N THEN reject(s, j)
      ELSE [s EXCEPT !.stopped = abort_on_first_nonfitting]

FillOne(s, j, abort_on_first_nonfitting) ==
  LET machines == find_sufficient_resources_for_job(s, j)
  IN  IF s.dead \/ s.stopped \/ ~Runnable(s, j) THEN s
      ELSE IF machines # {} THEN schedule(s, j, machines)
      ELSE IF demand[j] > N THEN reject(s, j)
      ELSE [s EXCEPT !.stopped = abort_on_first_nonfitting]

filler_sched(s, abort_on_first_nonfitting) ==
  FoldLeft(LAMBDA t, j : FillOne(t, j, abort_on_first_nonfitting), s, OpenJobs(s))

-----------------------------------------------------------------------------
\* algorithms.backfilling: one reservation, for the first runnable job

\* sorted() is stable.
Inserted(r, j) ==
  LET longer == {k \in Job : walltime[k] > walltime[j]}
  IN  Append(Without(r, longer), j) \o Without(r, Job \ longer)

backfilling_sort(q) == FoldLeft(Inserted, <<>>, q)

\* Only the promise made to the first of the open jobs is one: a job before it
\* may become runnable, and then comes first.
Promise(s, head, time) ==
  IF Head(OpenJobs(s)) # head \/ (head \in DOMAIN s.promised /\ s.promised[head] <= time)
  THEN s.promised ELSE Mapping(s.promised, head, time)

\* The temporary allocation of the job at the head, with which the machines for
\* another one are looked for.
Reserved(s, head) ==
  LET temporary == find_with_earliest_start_time(s, head)
      promise   == Promise(s, head, temporary.start)
  IN  allocate(Created([s EXCEPT !.promised = promise], temporary), temporary)

\* Mutant: the temporary allocation is not freed when nothing is found.
BackfillOneLeaking(s, head, j) ==
  LET reserved == Reserved(s, head)
      machines == find_sufficient_resources_for_job(reserved, j)
      freed    == free(reserved, AllocationOf(reserved, head))
  IN  IF s.dead THEN s
      ELSE IF machines # {} THEN schedule(freed, j, machines) ELSE reserved

BackfillOne(s, head, j) ==
  LET reserved == Reserved(s, head)
      machines == find_sufficient_resources_for_job(reserved, j)
      freed    == free(reserved, AllocationOf(reserved, head))
  IN  IF s.dead THEN s
      ELSE IF machines # {} THEN schedule(freed, j, machines) ELSE freed

do_backfilling(s) ==
  LET runnable_jobs == RunnableJobs(s)
  IN  IF runnable_jobs = <<>> THEN s
      ELSE FoldLeft(LAMBDA t, j : BackfillOne(t, Head(runnable_jobs), j),
                    s, backfilling_sort(Tail(runnable_jobs)))

backfilling_sched(s) == do_backfilling(filler_sched(s, TRUE))

-----------------------------------------------------------------------------
\* The three schedulers, and BaseBatsimScheduler: what each callback does before
\* the iteration, and the iteration.

SchedFcfs(s)            == filler_sched(s, TRUE)
SchedFiller(s)          == filler_sched(s, FALSE)
SchedEasySjfBackfill(s) == backfilling_sched(s)

Objects == [jobs |-> jobs, jobmap |-> jobmap, flags |-> flags, completed |-> completed,
            allocations |-> allocations, promised |-> promised, dead |-> dead,
            starts |-> <<>>, stopped |-> FALSE]

Iteration(s) ==
  CASE policy = "fcfs"   -> SchedFcfs(s)
    [] policy = "filler" -> SchedFiller(s)
    [] policy = "easy"   -> SchedEasySjfBackfill(s)

\* An iteration that returns consumes the sched-delay; a message never has a
\* time before that of the reply to the one before it.
_do_schedule(before) ==
  LET s == IF before.dead THEN before ELSE Iteration(before)
  IN  /\ jobs' = s.jobs /\ jobmap' = s.jobmap /\ flags' = s.flags
      /\ completed' = s.completed /\ allocations' = s.allocations
      /\ promised' = s.promised /\ dead' = s.dead
      /\ consumed' = (consumed \/ ~s.dead)
      /\ place' = [j \in DOMAIN place \cup DOMAIN s.starts |->
                     IF j \in DOMAIN s.starts THEN s.starts[j] ELSE place[j]]
      /\ status' = [j \in Job |-> IF j \in DOMAIN s.starts THEN "running"
                                  ELSE IF s.flags[j] = "rejected" THEN "rejected"
                                  ELSE status[j]]
      /\ UNCHANGED <<demand, now, rigid>>

add(list, j) == IF j \in ToSet(list) THEN list ELSE Append(list, j)

onJobSubmission(j) ==
  /\ ~dead /\ Handling("JOB_SUBMITTED", j)
  /\ _do_schedule([Objects EXCEPT !.jobs = add(@, j), !.jobmap = @ \cup {j}])

\* The allocation of a job that has none is None.
_do_complete_job(s, j) ==
  IF \E a \in s.allocations : a.job = j THEN free(s, AllocationOf(s, j)) ELSE Failing(s, TRUE)

onJobCompletion(j) ==
  /\ ~dead /\ Handling("JOB_COMPLETED", j)
  /\ LET known == Failing(Objects, j \notin jobmap)
     IN  _do_schedule(_do_complete_job(
           [known EXCEPT !.completed = @ \cup {j}, !.jobmap = @ \ {j}], j))

onNoMoreEvents == ~dead /\ MessageEnds /\ NoCommand /\ UNCHANGED <<now, rigid, books>>

-----------------------------------------------------------------------------
\* The simulator.  A job ends at its walltime at the latest.  Time passes only
\* while a job runs and no event is waiting.

EndOf(j) == (CHOOSE a \in allocations : a.job = j).start + requested_time(j)

Simulator ==
  /\ Send \/ \E j \in Job : Submit(j) \/ Complete(j)
  /\ UNCHANGED <<now, rigid, books>>

Tick ==
  /\ loop = "simulator" /\ inbox = <<>>
  /\ \E j \in Job : status[j] = "running"
  /\ \A j \in Job : status[j] = "running" => now < EndOf(j)
  /\ now' = now + Unit
  /\ UNCHANGED <<platform_vars, rigid, books>>

\* The first job is submitted at 0 or later.
Init ==
  /\ PlatformInit
  /\ now \in {0, Unit} /\ consumed = FALSE /\ policy \in Policies
  /\ walltime \in Walltimes /\ dependencies \in Dependencies
  /\ jobs = <<>> /\ jobmap = {} /\ flags = [j \in Job |-> "open"]
  /\ completed = {} /\ allocations = {} /\ promised = <<>> /\ dead = FALSE

Callbacks ==
  \/ \E j \in Job : onJobSubmission(j) \/ onJobCompletion(j)
  \/ onNoMoreEvents

Next == Simulator \/ Tick \/ Callbacks

\* While no exception has left a callback the loop handles what it was sent,
\* whatever the callback does; jobs are submitted and end; time passes.
LoopGoesOn ==
  \/ ~dead /\ MessageEnds
  \/ ~dead /\ loop = "scheduler" /\ inbox # <<>> /\ inbox' = Tail(inbox) /\ UNCHANGED loop

Fairness == WF_<<loop, inbox>>(LoopGoesOn) /\ WF_vars(Simulator) /\ WF_vars(Tick)

Spec == Init /\ [][Next]_vars /\ Fairness

-----------------------------------------------------------------------------
\* Properties

\* The assertions of the API fail and fatal() is called at most in the first
\* iteration of a simulation whose clock is still 0 (the assertion of Allocation
\* on its start time), never later; and when a callback has returned, the books
\* agree with Batsim: the machines have the allocations of the jobs that were
\* started and whose completion was not handled yet, each on the machines Batsim
\* has it on, none of them shared, none left over from a reservation; _jobmap has
\* the jobs Batsim may still name.
MachinesExact ==
  /\ dead => now = 0 /\ ~consumed
  /\ ~dead =>
       /\ {a.job : a \in allocations} = {j \in Job : flags[j] = "scheduled"} \ completed
       /\ \A a \in allocations : a.allocated /\ a.machines = place[a.job] /\ a.start <= now
       /\ \A a, b \in allocations : a # b => a.machines \cap b.machines = {} /\ a.job # b.job
       /\ \A j \in Job : status[j] = "running" => \E a \in allocations : a.job = j
       /\ jobmap = {j \in ToSet(jobs) : flags[j] # "rejected"} \ completed

\* EASY: the first of the open jobs does not wait longer than the earliest
\* reservation it was given, whatever is backfilled and whichever jobs become
\* runnable in the meantime.
PriorityKept == \A j \in DOMAIN promised : Open(Objects, j) => now <= promised[j]

\* Under each scheduler every job completes or is rejected, save those that
\* depend on one that never completes, unless the process dies; by MachinesExact
\* it only does so at 0.
JobsEnd == <>(dead \/ \A j \in Job :
  status[j] \in {"completed", "rejected"} \/ \E k \in dependencies[j] : status[k] # "completed")

\* No assertion of the API ever fails.  False: a job that is submitted at 0, as
\* the first one of tests/workloads/test_delays.json is, and can be started when
\* the message has that time, is given an allocation that starts at 0.
AssertionsHold == ~dead
=============================================================================
