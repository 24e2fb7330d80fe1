---------------------------- MODULE EasyBackfill ----------------------------
(***************************************************************************)
(* EASY backfilling of rectangles (src/schedulers/easyBackfill.py).  The   *)
(* free machines are a linked list of spaces.  The job at the head of the  *)
(* queue gets a reservation when it does not fit; the spaces that reach    *)
(* into the reservation are shortened to the time until it starts, and one *)
(* that is only in part reserved is doubled: its other part, a virtual     *)
(* space linked to it, keeps an infinite length.                           *)
(*                                                                         *)
(* All machines are for computing: the free spaces are made of             *)
(* nb_resources, jobs are refused by nb_compute_resources, and both are N. *)
(*                                                                         *)
(* The list is a sequence; linkedTo relates the only two spaces for which  *)
(* linked holds.  Between two callbacks no space is linked or shortened.   *)
(***************************************************************************)
EXTENDS Platform, Integers

CONSTANTS
  Walltimes,     \* possible functions from jobs to requested_time; every job has a
                 \* walltime, none the -1 that stands for no walltime
  Infinity       \* longer than any walltime

ASSUME EasyAssumption ==
  Infinity \in Nat \ {0} /\ Walltimes \subseteq [Job -> 0 .. Infinity - 1]

VARIABLES
  now,
  walltime,            \* Job.requested_time; rigid
  listFreeSpace,
  listRunningJob,      \* sorted by estimate_finish_time
  listWaitingJob,
  finish,              \* estimate_finish_time, of the jobs started so far
  promised             \* history: the last reservation made for a job, if any

easy_vars == <<listFreeSpace, listRunningJob, listWaitingJob, finish, promised>>
vars == <<platform_vars, now, walltime, easy_vars>>

FreeSpace(first, last, length) ==
  [first |-> first, last |-> last, length |-> length,
   smallestFirst |-> TRUE, linked |-> FALSE, virtual |-> FALSE]

Res(l) == l.last - l.first + 1

\* The dictionary f, with x for j.
With(f, j, x) == [k \in DOMAIN f \cup {j} |-> IF k = j THEN x ELSE f[k]]

\* What is left of the list q without the elements of D, in its order.
Without(q, D) == FoldLeft(LAMBDA kept, x : IF x \in D THEN kept ELSE Append(kept, x), <<>>, q)

\* SortedListWithKey.add: after those with the same key.
Sorted(running, ends, j) ==
  LET later == {k \in ToSet(running) : ends[k] > ends[j]}
  IN  Append(Without(running, later), j) \o Without(running, ToSet(running) \ later)

-----------------------------------------------------------------------------
\* assignJob: n machines at one end of space i; what the linked space has of
\* them is cut off it, and a space of which nothing is left goes.

Partner(spaces, i) == {k \in DOMAIN spaces : k # i /\ spaces[k].linked /\ spaces[i].linked}

Cut(l, alloc, fromBelow) ==
  IF fromBelow THEN [l EXCEPT !.first = IF @ <= alloc[2] THEN alloc[2] + 1 ELSE @]
               ELSE [l EXCEPT !.last  = IF @ >= alloc[1] THEN alloc[1] - 1 ELSE @]

AllocIn(l, n) ==
  IF l.smallestFirst THEN <<l.first, l.first + n - 1>> ELSE <<l.last - n + 1, l.last>>

Occupied(spaces, i, n) ==
  [k \in DOMAIN spaces |->
     IF k = i \/ k \in Partner(spaces, i)
     THEN Cut(spaces[k], AllocIn(spaces[i], n), spaces[i].smallestFirst) ELSE spaces[k]]

NotEmpty(spaces) == Without(spaces, {l \in ToSet(spaces) : Res(l) <= 0})

\* Mutant: the linked space keeps the machines.
assignJobUnlinked(spaces, i, n) ==
  NotEmpty([spaces EXCEPT ![i] = Cut(@, AllocIn(@, n), @.smallestFirst)])

assignJob(spaces, i, n) == NotEmpty(Occupied(spaces, i, n))

-----------------------------------------------------------------------------
\* unassignJob: the machines alloc become free again.  i spaces precede them.

Before(spaces, alloc) == Cardinality({k \in DOMAIN spaces : spaces[k].first <= alloc[1]})

MergesBelow(spaces, alloc) == LET i == Before(spaces, alloc) IN
  i > 0 /\ spaces[i].last + 1 = alloc[1]

MergesAbove(spaces, alloc) == LET i == Before(spaces, alloc) IN
  i < Len(spaces) /\ spaces[i + 1].first - 1 = alloc[2]

\* Mutant: of two neighbours only the one below is merged with.
unassignJobBelowOnly(spaces, alloc) ==
  LET i == Before(spaces, alloc)
  IN  IF MergesBelow(spaces, alloc)
      THEN [spaces EXCEPT ![i].last = alloc[2], ![i].smallestFirst = FALSE]
      ELSE InsertAt(spaces, i + 1, FreeSpace(alloc[1], alloc[2], Infinity))

unassignJob(spaces, alloc) ==
  LET i == Before(spaces, alloc)
  IN  CASE MergesBelow(spaces, alloc) /\ MergesAbove(spaces, alloc) ->
             RemoveAt([spaces EXCEPT ![i].last = spaces[i + 1].last], i + 1)
        [] MergesBelow(spaces, alloc) /\ ~MergesAbove(spaces, alloc) ->
             [spaces EXCEPT ![i].last = alloc[2], ![i].smallestFirst = FALSE]
        [] ~MergesBelow(spaces, alloc) /\ MergesAbove(spaces, alloc) ->
             [spaces EXCEPT ![i + 1].first = alloc[1], ![i + 1].smallestFirst = TRUE]
        [] OTHER -> InsertAt(spaces, i + 1, FreeSpace(alloc[1], alloc[2], Infinity))

SpaceAt(spaces, m) == CHOOSE i \in DOMAIN spaces : spaces[i].first <= m /\ m <= spaces[i].last

-----------------------------------------------------------------------------
\* Starting the jobs of a pass.  s is what a pass works on: the lists, the jobs
\* started with their machines, and the estimated ends.

StartIn(s, j, i) ==
  LET ends == With(s.finish, j, now + walltime[j])
  IN  [s EXCEPT !.spaces  = assignJob(@, i, demand[j]),
                !.starts  = With(@, j, AllocIn(s.spaces[i], demand[j])),
                !.finish  = ends,
                !.running = Sorted(@, ends, j)]

\* allocJobFCFS and allocJobBackfill: the first space that is wide, and for a
\* backfilled job long, enough.
WideEnough(spaces, j) == {i \in DOMAIN spaces : demand[j] <= Res(spaces[i])}
LongEnough(spaces, j) == {i \in WideEnough(spaces, j) : walltime[j] <= spaces[i].length}

Lowest(S) == CHOOSE i \in S : \A k \in S : i <= k

AllocHead(t, j) ==
  IF t.blocked \/ WideEnough(t.spaces, j) = {} THEN [t EXCEPT !.blocked = TRUE]
  ELSE [StartIn(t, j, Lowest(WideEnough(t.spaces, j))) EXCEPT !.waiting = RemoveAt(@, 1)]

allocHeadOfList(s) == FoldLeft(AllocHead, s, s.waiting)

\* Mutant: the list is left at the first job that cannot be backfilled.
findBackfilledAllocsInOrder(s) ==
  FoldLeft(LAMBDA t, j :
             IF t.blocked \/ LongEnough(t.spaces, j) = {} THEN [t EXCEPT !.blocked = TRUE]
             ELSE StartIn(t, j, Lowest(LongEnough(t.spaces, j))),
           [s EXCEPT !.blocked = FALSE], Tail(s.waiting))

Backfill(t, j) ==
  IF LongEnough(t.spaces, j) = {} THEN t
  ELSE StartIn(t, j, Lowest(LongEnough(t.spaces, j)))

findBackfilledAllocs(s) == FoldLeft(Backfill, s, Tail(s.waiting))

-----------------------------------------------------------------------------
\* The reservation of the first job: the running jobs end one by one, in a copy
\* of the list, until the space the last one leaves is wide enough.

Edges(M) == <<CHOOSE m \in M : \A k \in M : m <= k, CHOOSE m \in M : \A k \in M : m >= k>>

AllocOf(s, j) == IF j \in DOMAIN s.starts THEN s.starts[j] ELSE Edges(place[j])

\* The job j ends, on alloc, at the time at; n machines are looked for.
JobEnds(t, alloc, at, n) ==
  LET spaces == unassignJob(t.spaces, alloc)
      l      == spaces[SpaceAt(spaces, alloc[1])]
  IN  IF t.found THEN t
      ELSE IF n <= Res(l) THEN [t EXCEPT !.found = TRUE, !.res = AllocIn(l, n), !.at = at]
      ELSE [t EXCEPT !.spaces = spaces]

findAllocFuture(s, first) ==
  FoldLeft(LAMBDA t, j : JobEnds(t, AllocOf(s, j), s.finish[j], demand[first]),
           [spaces |-> s.spaces, found |-> FALSE, res |-> <<0, 0>>, at |-> 0], s.running)

\* allocFutureJob.  A space that begins or ends with the reservation is
\* shortened; one that reaches beyond it is shortened and doubled.  The spaces
\* strictly inside the reservation are left as they are.
Shorten(l, length) == [l EXCEPT !.length = length]

insertNewFreeSpaceAfter(l, new) == <<l, new>>

Doubled(l, virtual, length, virtualSmallestFirst) ==
  insertNewFreeSpaceAfter(
    [Shorten(l, length) EXCEPT !.linked = TRUE, !.smallestFirst = ~virtualSmallestFirst],
    [virtual EXCEPT !.linked = TRUE, !.virtual = TRUE, !.smallestFirst = virtualSmallestFirst])

ReachesBelow(l, res) == l.first < res[1] /\ l.last >= res[1]
ReachesAbove(l, res) == l.first <= res[2] /\ l.last > res[2]

Reserved(l, res, length) ==
  IF ReachesBelow(l, res)
  THEN Doubled(l, FreeSpace(l.first, res[1] - 1, Infinity), length, TRUE)
  ELSE IF ReachesAbove(l, res)
  THEN Doubled(l, FreeSpace(res[2] + 1, l.last, Infinity), length, FALSE)
  ELSE IF l.first = res[1] \/ l.last = res[2] THEN <<Shorten(l, length)>> ELSE <<l>>

allocFutureJob(spaces, res, length) ==
  FoldLeft(LAMBDA visited, l : visited \o Reserved(l, res, length), <<>>, spaces)

\* The end of allocBackFill: the virtual spaces go, the shortened ones recover.
NotVirtual(spaces) == Without(spaces, {l \in ToSet(spaces) : l.virtual})

Restore(spaces) ==
  [i \in DOMAIN NotVirtual(spaces) |->
     IF NotVirtual(spaces)[i].length = Infinity THEN NotVirtual(spaces)[i]
     ELSE [NotVirtual(spaces)[i] EXCEPT !.length = Infinity, !.smallestFirst = TRUE, !.linked = FALSE]]

allocBackFill(s) ==
  LET future == findAllocFuture(s, Head(s.waiting))
      filled == findBackfilledAllocs(
                  [s EXCEPT !.spaces = allocFutureJob(@, future.res, future.at - now)])
  IN  [filled EXCEPT !.spaces   = Restore(@),
                     !.waiting  = Without(@, DOMAIN filled.starts),
                     !.promised = With(@, Head(s.waiting), future.at)]

-----------------------------------------------------------------------------
\* _schedule_jobs and the callbacks

Pass(spaces, running, waiting) ==
  LET heads == allocHeadOfList([spaces |-> spaces, running |-> running, waiting |-> waiting,
                                starts |-> <<>>, finish |-> finish, promised |-> promised,
                                blocked |-> FALSE])
  IN  IF Len(heads.waiting) > 1 THEN allocBackFill(heads) ELSE heads

_schedule_jobs(spaces, running, waiting) ==
  LET s == Pass(spaces, running, waiting)
  IN  /\ listFreeSpace' = s.spaces /\ listRunningJob' = s.running
      /\ listWaitingJob' = s.waiting /\ finish' = s.finish /\ promised' = s.promised
      /\ RunJobs([j \in DOMAIN s.starts |-> s.starts[j][1] .. s.starts[j][2]])

onJobSubmission(j) ==
  /\ Handling("JOB_SUBMITTED", j)
  /\ IF demand[j] > N THEN RefuseJob(j) /\ UNCHANGED easy_vars
     ELSE _schedule_jobs(listFreeSpace, listRunningJob, Append(listWaitingJob, j))
  /\ UNCHANGED <<now, walltime>>

onJobCompletion(j) ==
  /\ Handling("JOB_COMPLETED", j)
  /\ _schedule_jobs(unassignJob(listFreeSpace, AllocOf([starts |-> <<>>], j)),
                    Without(listRunningJob, {j}), listWaitingJob)
  /\ UNCHANGED <<now, walltime>>

onNoMoreEvents == MessageEnds /\ NoCommand /\ UNCHANGED <<now, walltime, easy_vars>>

-----------------------------------------------------------------------------
\* The simulator.  A job ends at its walltime at the latest.  Time passes only
\* while a job runs and no event is waiting: an idle platform is the same at
\* any time.

Simulator ==
  /\ Send \/ \E j \in Job : Submit(j) \/ Complete(j)
  /\ UNCHANGED <<now, walltime, easy_vars>>

Tick ==
  /\ loop = "simulator" /\ inbox = <<>>
  /\ \E j \in Job : status[j] = "running"
  /\ \A j \in Job : status[j] = "running" => now < finish[j]
  /\ now' = now + 1
  /\ UNCHANGED <<platform_vars, walltime, easy_vars>>

Init ==
  /\ PlatformInit
  /\ now = 0 /\ walltime \in Walltimes
  /\ listFreeSpace = <<FreeSpace(0, N - 1, Infinity)>>
  /\ listRunningJob = <<>> /\ listWaitingJob = <<>>
  /\ finish = <<>> /\ promised = <<>>

Callbacks ==
  \/ \E j \in Job : onJobSubmission(j) \/ onJobCompletion(j)
  \/ onNoMoreEvents

Next == Simulator \/ Tick \/ Callbacks

\* The loop handles what it was sent, whatever the callback does; jobs are
\* submitted and end; time passes.
LoopGoesOn ==
  \/ MessageEnds
  \/ loop = "scheduler" /\ inbox # <<>> /\ inbox' = Tail(inbox) /\ UNCHANGED loop

Fairness == WF_<<loop, inbox>>(LoopGoesOn) /\ WF_vars(Simulator) /\ WF_vars(Tick)

Spec == Init /\ [][Next]_vars /\ Fairness

-----------------------------------------------------------------------------
\* Properties

Spaces == {listFreeSpace[i].first .. listFreeSpace[i].last : i \in DOMAIN listFreeSpace}

\* The list of free spaces is exact, as assert_listFreeSpace_listRunningJob
\* would have it: in order, apart from each other (so that a job that fits side
\* by side fits one space), with no trace of a reservation, and made of the
\* machines that no job in listRunningJob has; those jobs share no machine.
FreeSpacesExact ==
  /\ \A i \in DOMAIN listFreeSpace :
       /\ listFreeSpace[i].first <= listFreeSpace[i].last
       /\ listFreeSpace[i].length = Infinity
       /\ ~listFreeSpace[i].linked /\ ~listFreeSpace[i].virtual
  /\ \A i \in 1 .. Len(listFreeSpace) - 1 :
       listFreeSpace[i].last + 1 < listFreeSpace[i + 1].first
  /\ UNION Spaces = Machine \ UNION {place[j] : j \in ToSet(listRunningJob)}
  /\ \A j, k \in ToSet(listRunningJob) : j # k => place[j] \cap place[k] = {}
  /\ \A j \in Job : status[j] = "running" => j \in ToSet(listRunningJob)

\* Between two messages no job is left waiting that could run: neither the
\* head, nor one behind it that would be over before the head is promised its
\* machines.
NoneLeftBehind == loop = "simulator" /\ listWaitingJob # <<>> =>
  LET head == Head(listWaitingJob)
  IN  \A j \in ToSet(listWaitingJob) : \A M \in Spaces :
        /\ demand[head] > Cardinality(M)
        /\ j # head /\ now + walltime[j] <= promised[head] => demand[j] > Cardinality(M)

\* The reservation: "there can be a reservation (the "firstjob" of the
\* backfilling)", for which the length of the others is checked.  The head does
\* not wait longer than it was promised.
ReservationKept == \A j \in DOMAIN promised :
  status[j] = "waiting" => now <= promised[j]

\* Every job that is not refused runs and completes.
JobsEnd == <>(\A j \in Job : status[j] \in {"completed", "rejected"})
=============================================================================
