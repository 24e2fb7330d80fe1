-------------------------- MODULE Launcher_proofs --------------------------
(***************************************************************************)
(* The three accounts of the machines agree: the scheduler's, the          *)
(* wrapper's and the simulator's.                                          *)
(*                                                                         *)
(* A job holds its machines from the command that starts it until its      *)
(* completion is handled: while it runs, and while its completion is in    *)
(* the message.  What the scheduler and the wrapper take for available is  *)
(* what no job holds.  It only stays so because a job is announced at most *)
(* once at a time, and is open or holds machines, never both.              *)
(***************************************************************************)
EXTENDS Launcher, FiniteSetTheorems, SequenceTheorems, TLAPS

\* Messages.  Of some kinds no event is twice in a message.
Has(q, e) == \E i \in DOMAIN q : q[i] = e

OnceTypes == {"JOB_SUBMITTED", "JOB_COMPLETED", "switched_off", "switched_on"}
Once(q) == \A i, k \in DOMAIN q : q[i] = q[k] /\ q[i][1] \in OnceTypes => i = k

MachineTypes ==
  {"event_machine_unavailable", "event_machine_available", "no_more_external_event_to_occur"}

\* Jobs.  Q is the queue of the scheduler, st and pl are status and place, and
\* q is what is left of the message.
Holding(q, st, pl) ==
  {j \in DOMAIN pl : st[j] = "running" \/ Has(q, <<"JOB_COMPLETED", j>>)}

Of(H, pl) == UNION {pl[j] : j \in H}

Apart(H, pl) == \A j, k \in H : j # k => pl[j] \cap pl[k] = {}

Announced(q, Q, st) ==
  /\ Once(q)
  /\ \A j \in Job : Has(q, <<"JOB_SUBMITTED", j>>) => st[j] = "waiting" /\ j \notin Q
  /\ \A j \in Job : Has(q, <<"JOB_COMPLETED", j>>) => st[j] = "completed"

Placed(Q, st, pl) ==
  /\ Q \subseteq {j \in Job : st[j] = "waiting"}
  /\ \A j \in Job : j \in DOMAIN pl <=> st[j] \in {"running", "completed"}

\* The wrapper's account a is right when Q is open and H holds machines.
Right(a, Q, H, pl) ==
  /\ Q \subseteq a.waiting
  /\ a.free = Machine \ Of(H, pl)
  /\ DOMAIN a.held = H
  /\ \A j \in H : a.held[j] = pl[j]

WrapperRight(a, Q, H, pl) ==
  /\ a.waiting \subseteq Job /\ a.free \subseteq Machine /\ DOMAIN a.held \subseteq Job
  /\ protect => Right(a, Q, H, pl)
  /\ ~protect => DOMAIN a.held = {}

-----------------------------------------------------------------------------
\* Messages

LEMMA AppendHas ==
  ASSUME NEW S, NEW q \in Seq(S), NEW e \in S
  PROVE  \A x : Has(Append(q, e), x) <=> (Has(q, x) \/ x = e)
<1>1. /\ DOMAIN q = 1 .. Len(q)
      /\ DOMAIN Append(q, e) = 1 .. Len(q) + 1
      /\ \A i \in 1 .. Len(q) : Append(q, e)[i] = q[i]
      /\ Append(q, e)[Len(q) + 1] = e
  BY AppendProperties, LenProperties
<1>2. Len(q) \in Nat
  BY LenProperties
<1> QED BY <1>1, <1>2 DEF Has

LEMMA AppendOnce ==
  ASSUME NEW S, NEW q \in Seq(S), NEW e \in S, Once(q),
         e[1] \in OnceTypes => ~Has(q, e)
  PROVE  Once(Append(q, e))
<1>1. /\ DOMAIN q = 1 .. Len(q)
      /\ DOMAIN Append(q, e) = 1 .. Len(q) + 1
      /\ \A i \in 1 .. Len(q) : Append(q, e)[i] = q[i]
      /\ Append(q, e)[Len(q) + 1] = e
  BY AppendProperties, LenProperties
<1>2. Len(q) \in Nat
  BY LenProperties
<1> QED BY <1>1, <1>2 DEF Has, Once

LEMMA TailHas ==
  ASSUME NEW S, NEW q \in Seq(S), q # <<>>, Once(q)
  PROVE  /\ Once(Tail(q)) /\ Tail(q) \in Seq(S)
         /\ \A x : Has(q, x) <=> (Has(Tail(q), x) \/ x = Head(q))
         /\ Head(q)[1] \in OnceTypes => ~Has(Tail(q), Head(q))
<1>1. /\ DOMAIN q = 1 .. Len(q) /\ Len(q) \in Nat \ {0}
      /\ Head(q) = q[1]
      /\ Tail(q) \in Seq(S) /\ Len(Tail(q)) = Len(q) - 1
      /\ \A i \in 1 .. Len(q) - 1 : Tail(q)[i] = q[i + 1]
  BY HeadTailProperties, LenProperties, EmptySeq
<1>2. DOMAIN Tail(q) = 1 .. Len(q) - 1
  BY <1>1, LenProperties
<1>3. Once(Tail(q))
  BY <1>1, <1>2 DEF Once
<1>4. ASSUME NEW x PROVE Has(q, x) <=> (Has(Tail(q), x) \/ x = Head(q))
  <2>1. ASSUME Has(q, x), x # Head(q) PROVE Has(Tail(q), x)
    <3>1. PICK i \in 1 .. Len(q) : q[i] = x
      BY <1>1, <2>1 DEF Has
    <3>2. i - 1 \in 1 .. Len(q) - 1 /\ Tail(q)[i - 1] = x
      BY <1>1, <2>1, <3>1
    <3> QED BY <1>2, <3>2 DEF Has
  <2> QED BY <1>1, <1>2, <2>1 DEF Has
<1>5. ASSUME Head(q)[1] \in OnceTypes, Has(Tail(q), Head(q)) PROVE FALSE
  <2>1. PICK i \in 1 .. Len(q) - 1 : Tail(q)[i] = Head(q)
    BY <1>2, <1>5 DEF Has
  <2>2. q[i + 1] = q[1] /\ i + 1 \in DOMAIN q /\ 1 \in DOMAIN q
    BY <1>1, <2>1
  <2>3. i + 1 = 1
    BY <1>1, <1>5, <2>2 DEF Once
  <2> QED BY <2>1, <2>3
<1> QED BY <1>1, <1>3, <1>4, <1>5

-----------------------------------------------------------------------------
\* What a pass starts

\* The jobs a filler starts share no machine, and those it leaves do not fit.
LEMMA FillStarts ==
  ASSUME NEW open \in SUBSET Job, NEW free \in SUBSET Machine, NEW rank \in Orders(open),
         NEW D \in SUBSET open, NEW starts \in [D -> SUBSET free], demand \in Demands,
         Fill(starts, free, rank)
  PROVE  /\ \A j, k \in D : j # k => starts[j] \cap starts[k] = {}
         /\ \A j \in open \ D : demand[j] > Cardinality(free \ Used(starts))
<1> USE PlatformAssumption
<1>1. IsFiniteSet(open) /\ IsFiniteSet(free)
  <2>1. 0 \in Int /\ N - 1 \in Int
    OBVIOUS
  <2>2. IsFiniteSet(Machine)
    BY <2>1, FS_Interval DEF Machine
  <2> QED BY <2>2, FS_Subset
<1>2. Cardinality(open) \in Nat
  BY <1>1, FS_CardinalityType
<1>3. /\ rank \in [open -> 1 .. Cardinality(open)]
      /\ \A j, k \in open : rank[j] = rank[k] => j = k
  BY DEF Orders, Injection, IsInjective
<1>4. ASSUME NEW j \in D, NEW k \in D, rank[j] < rank[k]
      PROVE  starts[j] \cap starts[k] = {}
  <2>1. starts[k] \subseteq Left(free, starts, rank, k)
    BY <1>3 DEF Fill, First
  <2>2. j \in {i \in DOMAIN starts : rank[i] < rank[k]}
    BY <1>4
  <2>3. starts[j] \cap Left(free, starts, rank, k) = {}
    BY <2>2 DEF Left
  <2> QED BY <2>1, <2>3
<1>5. ASSUME NEW j \in D, NEW k \in D, j # k
      PROVE  starts[j] \cap starts[k] = {}
  <2>1. rank[j] < rank[k] \/ rank[k] < rank[j]
    BY <1>2, <1>3, <1>5
  <2> QED BY <1>4, <2>1
<1>6. ASSUME NEW j \in open \ D
      PROVE  demand[j] > Cardinality(free \ Used(starts))
  <2> DEFINE left == Left(free, starts, rank, j)
  <2>1. ~(demand[j] <= Cardinality(left))
    BY <1>3 DEF Fill
  <2>2. left \subseteq free /\ free \ Used(starts) \subseteq left
    BY DEF Left, Used
  <2>3. IsFiniteSet(left) /\ Cardinality(free \ Used(starts)) <= Cardinality(left)
    BY <1>1, <2>2, FS_Subset
  <2>4. Cardinality(left) \in Nat /\ Cardinality(free \ Used(starts)) \in Nat /\ demand[j] \in Nat
    BY <1>1, <2>2, <2>3, FS_Subset, FS_CardinalityType
  <2> QED BY <2>1, <2>3, <2>4
<1> QED BY <1>5, <1>6

\* No job is twice in a queue.
JobsOf(queue)     == {queue[i] : i \in DOMAIN queue}
HeadsOf(queue, n) == {queue[i] : i \in 1 .. n}
Distinct(queue)   == \A i, k \in DOMAIN queue : queue[i] = queue[k] => i = k

\* The jobs at the head that are started share no machine.
LEMMA HeadsStart ==
  ASSUME NEW queue \in Seq(Job), Distinct(queue), NEW n \in 0 .. Len(queue), NEW idle,
         NEW starts \in [{queue[i] : i \in 1 .. n} -> SUBSET idle],
         AllocateHeads(queue, n, starts, idle)
  PROVE  \A j, k \in DOMAIN starts : j # k => starts[j] \cap starts[k] = {}
<1>1. Len(queue) \in Nat /\ DOMAIN queue = 1 .. Len(queue)
  BY LenProperties
<1>2. ASSUME NEW i \in 1 .. n, NEW k \in 1 .. n, i < k
      PROVE  starts[queue[i]] \cap starts[queue[k]] = {}
  <2>1. starts[queue[k]] \subseteq LeftIdle(queue, starts, idle, k)
    BY DEF AllocateHeads, First
  <2>2. i \in 1 .. k - 1
    BY <1>1, <1>2
  <2>3. starts[queue[i]] \cap LeftIdle(queue, starts, idle, k) = {}
    BY <2>2 DEF LeftIdle
  <2> QED BY <2>1, <2>3
<1>3. SUFFICES ASSUME NEW i \in 1 .. n, NEW k \in 1 .. n, queue[i] # queue[k]
               PROVE  starts[queue[i]] \cap starts[queue[k]] = {}
  OBVIOUS
<1>4. i < k \/ k < i
  BY <1>1, <1>3
<1> QED BY <1>2, <1>4

\* What is left of the queue has the other jobs.
LEMMA QueueLeft ==
  ASSUME NEW queue \in Seq(Job), Distinct(queue), NEW n \in 0 .. Len(queue),
         NEW left, left = SubSeq(queue, n + 1, Len(queue))
  PROVE  /\ left \in Seq(Job) /\ Distinct(left)
         /\ JobsOf(left) = JobsOf(queue) \ HeadsOf(queue, n)
<1>1. /\ n \in Nat /\ Len(queue) \in Nat /\ n <= Len(queue) /\ DOMAIN queue = 1 .. Len(queue)
      /\ \A i \in 1 .. Len(queue) : queue[i] \in Job
  BY LenProperties, ElementOfSeq
<1>2. /\ left \in Seq(Job)
      /\ Len(left) = Len(queue) - n
      /\ \A i \in 1 .. Len(queue) - n : left[i] = queue[n + i]
  <2>1. \A i \in n + 1 .. Len(queue) : queue[i] \in Job
    BY <1>1
  <2>2. /\ SubSeq(queue, n + 1, Len(queue)) \in Seq(Job)
        /\ Len(SubSeq(queue, n + 1, Len(queue))) =
             IF n + 1 <= Len(queue) THEN Len(queue) - (n + 1) + 1 ELSE 0
        /\ \A i \in 1 .. Len(queue) - (n + 1) + 1 :
             SubSeq(queue, n + 1, Len(queue))[i] = queue[n + 1 + i - 1]
    BY <1>1, <2>1, SubSeqProperties
  <2>3. Len(left) = Len(queue) - n
    <3>1. Len(left) = IF n + 1 <= Len(queue) THEN Len(queue) - (n + 1) + 1 ELSE 0
      BY <2>2
    <3>2. ASSUME NEW a \in Nat, NEW b \in Nat, b <= a
          PROVE  (IF b + 1 <= a THEN a - (b + 1) + 1 ELSE 0) = a - b
      BY <3>2
    <3> QED BY <1>1, <3>1, <3>2, Zenon
  <2>4. ASSUME NEW i \in 1 .. Len(queue) - n PROVE left[i] = queue[n + i]
    <3>1. i \in 1 .. Len(queue) - (n + 1) + 1 /\ n + 1 + i - 1 = n + i
      BY <1>1
    <3> QED BY <2>2, <3>1
  <2> QED BY <2>2, <2>3, <2>4
<1>3. DOMAIN left = 1 .. Len(queue) - n
  BY <1>2, LenProperties
<1>4. Distinct(left)
  <2>1. SUFFICES ASSUME NEW i \in 1 .. Len(queue) - n, NEW k \in 1 .. Len(queue) - n,
                        left[i] = left[k]
                 PROVE  i = k
    BY <1>3 DEF Distinct
  <2>2. n + i \in DOMAIN queue /\ n + k \in DOMAIN queue
    BY <1>1
  <2>3. queue[n + i] = queue[n + k]
    BY <1>2, <2>1
  <2>4. n + i = n + k
    BY <2>2, <2>3 DEF Distinct
  <2> QED BY <1>1, <2>4
<1>5. ASSUME NEW i \in DOMAIN left
      PROVE  left[i] \in {queue[k] : k \in DOMAIN queue} \ {queue[k] : k \in 1 .. n}
  <2>1. i \in 1 .. Len(queue) - n /\ left[i] = queue[n + i]
    BY <1>2, <1>3
  <2>2. n + i \in DOMAIN queue
    BY <1>1, <2>1
  <2>3. ASSUME NEW k \in 1 .. n, queue[n + i] = queue[k] PROVE FALSE
    <3>1. k \in DOMAIN queue
      BY <1>1
    <3>2. n + i = k
      BY <2>2, <2>3, <3>1 DEF Distinct
    <3> QED BY <1>1, <2>1, <3>2
  <2> QED BY <2>1, <2>2, <2>3
<1>6. ASSUME NEW k \in DOMAIN queue, queue[k] \notin {queue[i] : i \in 1 .. n}
      PROVE  \E i \in DOMAIN left : left[i] = queue[k]
  <2>1. k \in n + 1 .. Len(queue)
    BY <1>1, <1>6
  <2>2. k - n \in DOMAIN left /\ left[k - n] = queue[k]
    <3>1. k - n \in 1 .. Len(queue) - n /\ n + (k - n) = k
      BY <1>1, <2>1
    <3> QED BY <1>2, <1>3, <3>1
  <2> QED BY <2>2
<1>7. JobsOf(left) = JobsOf(queue) \ HeadsOf(queue, n)
  <2>1. JobsOf(left) \subseteq JobsOf(queue) \ HeadsOf(queue, n)
    BY <1>5 DEF JobsOf, HeadsOf
  <2>2. JobsOf(queue) \ HeadsOf(queue, n) \subseteq JobsOf(left)
    BY <1>6 DEF JobsOf, HeadsOf
  <2> QED BY <2>1, <2>2
<1> QED BY <1>2, <1>4, <1>7

-----------------------------------------------------------------------------
\* Starting jobs

\* A right wrapper lets the jobs through, and stays right.
LEMMA WrapperStarts ==
  ASSUME NEW a, NEW Q, NEW H, NEW starts, NEW Q2, NEW H2,
         Q2 = Q \ DOMAIN starts, H2 = H \cup DOMAIN starts,
         {protect, raised} \subseteq BOOLEAN, ~raised, WrapperRight(a, Q, H, place),
         DOMAIN starts \subseteq Q, Q \subseteq Job, DOMAIN starts \cap H = {}, H \subseteq DOMAIN place,
         \A j, k \in DOMAIN starts : j # k => starts[j] \cap starts[k] = {},
         \A j \in DOMAIN starts : starts[j] \subseteq Machine \ Of(H, place),
         execute_jobs(starts, a)
  PROVE  /\ RunJobs(starts)
         /\ protect' = protect /\ raised' = raised
         /\ WrapperRight(AsBefore', Q2, H2, place')
<1>1. CASE protect
  <2>1. Right(a, Q, H, place) /\ a.waiting \subseteq Job
    BY <1>1 DEF WrapperRight
  <2>2. Valid(starts, a)
    BY <2>1 DEF Valid, Right
  <2>3. RunJobs(starts) /\ raised' = raised /\ protect' = protect /\ Account(Executed(starts, a))
    BY <1>1, <2>2 DEF execute_jobs
  <2>4. /\ AsBefore'.waiting = a.waiting \ DOMAIN starts
        /\ AsBefore'.free = a.free \ Used(starts)
        /\ AsBefore'.held = [j \in DOMAIN a.held \cup DOMAIN starts |->
                               IF j \in DOMAIN starts THEN starts[j] ELSE a.held[j]]
    BY <2>3 DEF AsBefore, Account, Executed
  <2>5. /\ \A j \in DOMAIN starts : place'[j] = starts[j]
        /\ \A j \in H : place'[j] = place[j]
    BY <2>3 DEF RunJobs
  <2>6. Of(H2, place') = Of(H, place) \cup Used(starts)
    BY <2>5 DEF Of, Used
  <2>7. Right(AsBefore', Q2, H2, place')
    BY <2>1, <2>4, <2>5, <2>6 DEF Right
  <2>8. /\ AsBefore'.waiting \subseteq Job /\ AsBefore'.free \subseteq Machine
        /\ DOMAIN AsBefore'.held \subseteq Job
    BY <2>1, <2>4 DEF WrapperRight
  <2> QED BY <1>1, <2>3, <2>7, <2>8 DEF WrapperRight
<1>2. CASE ~protect
  <2>1. RunJobs(starts) /\ raised' = raised /\ protect' = protect /\ Account(a)
    BY <1>2 DEF execute_jobs
  <2>2. AsBefore'.waiting = a.waiting /\ AsBefore'.free = a.free /\ AsBefore'.held = a.held
    BY <2>1 DEF AsBefore, Account
  <2> QED BY <1>2, <2>1, <2>2 DEF WrapperRight
<1> QED BY <1>1, <1>2

-----------------------------------------------------------------------------
\* The invariant

Queued == openJobs \cup {open_jobs[i] : i \in DOMAIN open_jobs}
Held   == Holding(inbox, status, place)
Busy   == Of(Held, place)

JobsInv ==
  /\ Announced(inbox, Queued, status)
  /\ Placed(Queued, status, place)
  /\ Apart(Held, place)

WrapperInv == ~raised /\ WrapperRight(AsBefore, Queued, Held, place)

\* The variables of a scheduler that is not loaded stay as they were.
AtRest ==
  /\ scheduler # "FcfsSchedSleep" =>
       open_jobs = <<>> /\ machines_states = [m \in Machine |-> "Idle"] /\ target = pstate
  /\ scheduler = "FcfsSchedSleep" => openJobs = {}
  /\ scheduler = "FillerSched" => unavailableResources = {}
  /\ scheduler # "FillerSchedWithEvents" =>
       \A i \in DOMAIN inbox : inbox[i][1] \notin MachineTypes

FillerInv == scheduler # "FcfsSchedSleep" =>
  /\ availableResources = Machine \ (Busy \cup unavailableResources)
  /\ scheduler = "FillerSchedWithEvents" => runningResources = Busy

\* A machine of state s in the scheduler, with pstate p and target t in the
\* simulator, when q is in the message.
Agrees(m, s, p, t, q) ==
  /\ Has(q, <<"switched_off", m>>) => s = "SwitchingOFF"
  /\ Has(q, <<"switched_on", m>>) => s = "SwitchingON"
  /\ s = "SwitchingOFF" =>
       t = "Sleep" /\ (p = "Sleep" <=> Has(q, <<"switched_off", m>>))
  /\ s = "SwitchingON" =>
       t = "ComputeFast" /\ (p = "ComputeFast" <=> Has(q, <<"switched_on", m>>))
  /\ s = "Sleeping" => p = "Sleep" /\ t = "Sleep"
  /\ s \in {"Idle", "Computing"} => p = "ComputeFast" /\ t = "ComputeFast"

SleepInv == scheduler = "FcfsSchedSleep" =>
  /\ Distinct(open_jobs)
  /\ In(machines_states, "Computing") = Busy
  /\ \A m \in Machine : Agrees(m, machines_states[m], pstate[m], target[m], inbox)

\* Nothing that could run is left, in any state but of FillerSchedWithEvents,
\* which waits until the end of the message.
NoneFits == \A j \in openJobs : demand[j] > Cardinality(availableResources)

HeadWaits == In(machines_states, "Idle") # {} =>
  open_jobs # <<>> /\ demand[Head(open_jobs)] <= NotComputing(machines_states)

UndoneInv ==
  /\ scheduler = "FillerSched" => NoneFits
  /\ scheduler = "FillerSchedWithEvents" /\ ~protect /\ loop = "simulator" => NoneFits
  /\ scheduler = "FcfsSchedSleep" => (open_jobs = <<>> /\ place = NoPlace) \/ HeadWaits

Inv ==
  LauncherTypeOK /\ JobsInv /\ WrapperInv /\ AtRest /\ FillerInv /\ SleepInv /\ UndoneInv

-----------------------------------------------------------------------------
\* The event that is handled leaves the message.

Message == EventTypes \X (Job \cup Nat)

LEMMA HandledEvent ==
  ASSUME Inv, NEW type, NEW x, Handling(type, x)
  PROVE  /\ inbox' \in Seq(Message) /\ loop' = loop
         /\ Once(inbox')
         /\ \A e : Has(inbox, e) <=> (Has(inbox', e) \/ e = <<type, x>>)
         /\ type \in OnceTypes => ~Has(inbox', <<type, x>>)
         /\ \A i \in DOMAIN inbox' : Has(inbox, inbox'[i])
<1>1. inbox \in Seq(Message) /\ inbox # <<>> /\ Head(inbox) = <<type, x>> /\ inbox' = Tail(inbox)
      /\ loop' = loop /\ Once(inbox)
  BY DEF Inv, LauncherTypeOK, PlatformTypeOK, Message, Handling, JobsInv, Announced
<1>2. <<type, x>>[1] = type
  OBVIOUS
<1>3. /\ Once(Tail(inbox)) /\ Tail(inbox) \in Seq(Message)
      /\ \A e : Has(inbox, e) <=> (Has(Tail(inbox), e) \/ e = Head(inbox))
      /\ Head(inbox)[1] \in OnceTypes => ~Has(Tail(inbox), Head(inbox))
  BY <1>1, TailHas
<1>4. \A i \in DOMAIN Tail(inbox) : Has(Tail(inbox), Tail(inbox)[i])
  BY DEF Has
<1> QED BY <1>1, <1>2, <1>3, <1>4

\* What the invariant says of the jobs, before anything is started.
LEMMA HandledSubmission ==
  ASSUME Inv, NEW j \in Job, Handling("JOB_SUBMITTED", j)
  PROVE  /\ Announced(inbox', Queued \cup {j}, status)
         /\ Placed(Queued \cup {j}, status, place)
         /\ Holding(inbox', status, place) = Held
         /\ status[j] = "waiting" /\ j \notin Queued
<1>1. /\ Once(inbox')
      /\ \A e : Has(inbox, e) <=> (Has(inbox', e) \/ e = <<"JOB_SUBMITTED", j>>)
      /\ ~Has(inbox', <<"JOB_SUBMITTED", j>>)
  <2>1. "JOB_SUBMITTED" \in OnceTypes
    BY DEF OnceTypes
  <2> QED BY <2>1, HandledEvent, Zenon
<1>2. Announced(inbox, Queued, status) /\ Placed(Queued, status, place)
  BY DEF Inv, JobsInv
<1>3. status[j] = "waiting" /\ j \notin Queued
  BY <1>1, <1>2 DEF Announced
<1>4. \A k \in Job : <<"JOB_COMPLETED", k>> # <<"JOB_SUBMITTED", j>>
  OBVIOUS
<1>5. \A k : <<"JOB_SUBMITTED", k>> = <<"JOB_SUBMITTED", j>> => k = j
  OBVIOUS
<1>6. Announced(inbox', Queued \cup {j}, status)
  BY <1>1, <1>2, <1>4, <1>5 DEF Announced
<1>7. DOMAIN place \subseteq Job
  BY DEF Inv, LauncherTypeOK, PlatformTypeOK
<1>8. Holding(inbox', status, place) = Held
  BY <1>1, <1>4, <1>7 DEF Holding, Held
<1>9. Placed(Queued \cup {j}, status, place)
  BY <1>2, <1>3 DEF Placed
<1> QED BY <1>3, <1>6, <1>8, <1>9

LEMMA HandledCompletion ==
  ASSUME Inv, NEW j \in Job, Handling("JOB_COMPLETED", j)
  PROVE  /\ Announced(inbox', Queued, status)
         /\ j \in Held
         /\ Holding(inbox', status, place) = Held \ {j}
         /\ Of(Held \ {j}, place) = Busy \ place[j]
         /\ Apart(Held \ {j}, place)
<1>1. /\ Once(inbox')
      /\ \A e : Has(inbox, e) <=> (Has(inbox', e) \/ e = <<"JOB_COMPLETED", j>>)
      /\ ~Has(inbox', <<"JOB_COMPLETED", j>>)
  <2>1. "JOB_COMPLETED" \in OnceTypes
    BY DEF OnceTypes
  <2> QED BY <2>1, HandledEvent, Zenon
<1>2. Announced(inbox, Queued, status) /\ Placed(Queued, status, place) /\ Apart(Held, place)
  BY DEF Inv, JobsInv
<1>3. status[j] = "completed" /\ j \in DOMAIN place
  BY <1>1, <1>2 DEF Announced, Placed
<1>4. \A k : <<"JOB_SUBMITTED", k>> # <<"JOB_COMPLETED", j>>
  OBVIOUS
<1>5. \A k : <<"JOB_COMPLETED", k>> = <<"JOB_COMPLETED", j>> => k = j
  OBVIOUS
<1>6. Announced(inbox', Queued, status)
  BY <1>1, <1>2, <1>4 DEF Announced
<1>7. j \in Held
  BY <1>1, <1>3 DEF Held, Holding
<1>8. Holding(inbox', status, place) = Held \ {j}
  BY <1>1, <1>3, <1>5 DEF Holding, Held
<1>9. Of(Held \ {j}, place) = Busy \ place[j]
  <2>1. \A k \in Held \ {j} : place[k] \cap place[j] = {}
    BY <1>2, <1>7 DEF Apart
  <2> QED BY <1>7, <2>1 DEF Of, Busy
<1>10. Apart(Held \ {j}, place)
  BY <1>2 DEF Apart
<1> QED BY <1>6, <1>7, <1>8, <1>9, <1>10

LEMMA HandledOther ==
  ASSUME Inv, NEW type, type \notin {"JOB_SUBMITTED", "JOB_COMPLETED"},
         NEW x, Handling(type, x)
  PROVE  /\ Announced(inbox', Queued, status)
         /\ Holding(inbox', status, place) = Held
<1>1. /\ Once(inbox')
      /\ \A e : Has(inbox, e) <=> (Has(inbox', e) \/ e = <<type, x>>)
  BY HandledEvent
<1>2. \A k : <<"JOB_SUBMITTED", k>> # <<type, x>> /\ <<"JOB_COMPLETED", k>> # <<type, x>>
  OBVIOUS
<1>3. Announced(inbox, Queued, status)
  BY DEF Inv, JobsInv
<1>4. Announced(inbox', Queued, status)
  BY <1>1, <1>2, <1>3 DEF Announced
<1>5. Holding(inbox', status, place) = Held
  BY <1>1, <1>2 DEF Holding, Held
<1> QED BY <1>4, <1>5

-----------------------------------------------------------------------------
\* Commands and the wrapper's account

StatusOK == status \in [Job -> {"future", "waiting", "rejected", "running", "completed"}]
PlaceOK  == DOMAIN place \subseteq Job /\ \A j \in DOMAIN place : place[j] \subseteq Machine

LEMMA ExecuteJobs ==
  ASSUME StatusOK, PlaceOK, {protect, raised} \subseteq BOOLEAN, ~raised,
         NEW Q \in SUBSET Job, NEW a, NEW H, H = Holding(inbox', status, place),
         Announced(inbox', Q, status), Placed(Q, status, place), Apart(H, place),
         WrapperRight(a, Q, H, place),
         NEW starts, DOMAIN starts \subseteq Q, NEW Q2, Q2 = Q \ DOMAIN starts,
         \A j, k \in DOMAIN starts : j # k => starts[j] \cap starts[k] = {},
         \A j \in DOMAIN starts : starts[j] \subseteq Machine \ Of(H, place),
         execute_jobs(starts, a)
  PROVE  /\ Announced(inbox', Q2, status')
         /\ Placed(Q2, status', place')
         /\ Apart(Held', place')
         /\ Busy' = Of(H, place) \cup Used(starts)
         /\ protect' = protect /\ raised' = raised
         /\ WrapperRight(AsBefore', Q2, Held', place')
         /\ StatusOK' /\ PlaceOK' /\ demand' = demand
<1>1. H \subseteq DOMAIN place /\ DOMAIN starts \cap H = {}
  BY DEF Holding, Announced, Placed
<1> DEFINE H2 == H \cup DOMAIN starts
<1> HIDE DEF H2
<1>2. /\ RunJobs(starts)
      /\ protect' = protect /\ raised' = raised
      /\ WrapperRight(AsBefore', Q2, H2, place')
  BY <1>1, WrapperStarts DEF H2
<1>3. /\ \A j \in Job : status'[j] = (IF j \in DOMAIN starts THEN "running" ELSE status[j])
      /\ DOMAIN place' = DOMAIN place \cup DOMAIN starts
      /\ \A j \in DOMAIN starts : place'[j] = starts[j]
      /\ \A j \in DOMAIN place \ DOMAIN starts : place'[j] = place[j]
      /\ demand' = demand
  BY <1>2 DEF RunJobs
<1>4. /\ H2 = H \cup DOMAIN starts
      /\ \A j \in DOMAIN starts : status[j] = "waiting" /\ status'[j] = "running"
      /\ \A j \in Job \ DOMAIN starts : status'[j] = status[j]
      /\ DOMAIN starts \cap DOMAIN place = {}
  BY <1>3 DEF H2, Placed
<1>5. Announced(inbox', Q2, status')
  BY <1>4 DEF Announced
<1>6. Placed(Q2, status', place')
  BY <1>3, <1>4 DEF Placed
<1>7. Held' = H2
  BY <1>3, <1>4 DEF Held, Holding, PlaceOK
<1>8. \A j \in H : place'[j] = place[j]
  BY <1>1, <1>3
<1>9. Of(H2, place') = Of(H, place) \cup Used(starts)
  BY <1>3, <1>4, <1>8 DEF Of, Used
<1>10. Apart(H2, place')
  <2>1. SUFFICES ASSUME NEW j \in H2, NEW k \in H2, j # k
                 PROVE  place'[j] \cap place'[k] = {}
    BY DEF Apart
  <2>2. CASE j \in H /\ k \in H
    BY <1>8, <2>1, <2>2 DEF Apart
  <2>3. CASE j \in DOMAIN starts /\ k \in DOMAIN starts
    BY <1>3, <2>1, <2>3
  <2>4. ASSUME NEW x \in H, NEW y \in DOMAIN starts PROVE place'[x] \cap place'[y] = {}
    <3>1. place'[x] \subseteq Of(H, place)
      BY <1>8 DEF Of
    <3>2. place'[y] \cap Of(H, place) = {}
      BY <1>3
    <3> QED BY <3>1, <3>2
  <2> QED BY <1>4, <2>2, <2>3, <2>4
<1>11. StatusOK'
  BY <1>2 DEF StatusOK, RunJobs
<1>12. PlaceOK'
  BY <1>3 DEF PlaceOK
<1> QED BY <1>2, <1>3, <1>5, <1>6, <1>7, <1>9, <1>10, <1>11, <1>12 DEF Busy

\* What the wrapper does to its account before it forwards a callback is right.
LEMMA SubmissionAccount ==
  ASSUME Inv, NEW j \in Job
  PROVE  /\ WrapperRight(AfterSubmission(j), Queued \cup {j}, Held, place)
         /\ WrapperRight(AfterSubmission(j), Queued, Held, place)
<1>1. WrapperRight(AsBefore, Queued, Held, place)
  BY DEF Inv, WrapperInv
<1>2. /\ AfterSubmission(j).waiting = (IF protect THEN jobs_waiting \cup {j} ELSE jobs_waiting)
      /\ AfterSubmission(j).free = AsBefore.free /\ AfterSubmission(j).held = AsBefore.held
      /\ AsBefore.waiting = jobs_waiting
  BY DEF AfterSubmission, AsBefore
<1>3. CASE protect
  BY <1>1, <1>2, <1>3 DEF WrapperRight, Right
<1>4. CASE ~protect
  BY <1>1, <1>2, <1>4 DEF WrapperRight, Right
<1> QED BY <1>3, <1>4

LEMMA CompletionAccount ==
  ASSUME Inv, NEW j \in Held, Of(Held \ {j}, place) = Busy \ place[j],
         place[j] \subseteq Machine, place[j] \subseteq Busy
  PROVE  WrapperRight(AfterCompletion(j), Queued, Held \ {j}, place)
<1>1. WrapperRight(AsBefore, Queued, Held, place)
  BY DEF Inv, WrapperInv
<1>2. /\ AsBefore.waiting = jobs_waiting /\ AsBefore.free = availableMachines
      /\ AsBefore.held = previousAllocations
  BY DEF AsBefore
<1>3. /\ AfterCompletion(j).waiting = jobs_waiting
      /\ AfterCompletion(j).free = availableMachines \cup Released(j)
      /\ DOMAIN AfterCompletion(j).held = DOMAIN previousAllocations \ {j}
      /\ \A k \in DOMAIN previousAllocations \ {j} :
           AfterCompletion(j).held[k] = previousAllocations[k]
  BY DEF AfterCompletion
<1>4. CASE protect
  <2>1. Right(AsBefore, Queued, Held, place)
    BY <1>1, <1>4 DEF WrapperRight
  <2>2. Released(j) = place[j]
    BY <1>2, <2>1 DEF Right, Released
  <2>3. Right(AfterCompletion(j), Queued, Held \ {j}, place)
    <3>1. /\ Queued \subseteq jobs_waiting /\ availableMachines = Machine \ Busy
          /\ DOMAIN previousAllocations = Held /\ \A k \in Held : previousAllocations[k] = place[k]
      BY <1>2, <2>1 DEF Right, Busy
    <3>2. availableMachines \cup Released(j) = Machine \ Of(Held \ {j}, place)
      BY <2>2, <3>1
    <3> QED BY <1>3, <3>1, <3>2 DEF Right
  <2> QED BY <1>1, <1>2, <1>3, <1>4, <2>2, <2>3 DEF WrapperRight
<1>5. CASE ~protect
  <2>1. DOMAIN previousAllocations = {}
    BY <1>1, <1>2, <1>5 DEF WrapperRight
  <2>2. Released(j) = {}
    BY <2>1 DEF Released
  <2> QED BY <1>1, <1>2, <1>3, <1>5, <2>1, <2>2 DEF WrapperRight
<1> QED BY <1>4, <1>5

\* A callback that starts nothing.
LEMMA NothingStarted ==
  ASSUME StatusOK, PlaceOK, ~raised, NEW Q, NEW a, WrapperRight(a, Q, Holding(inbox', status, place), place),
         NoCommand, Seen(a)
  PROVE  /\ Held' = Holding(inbox', status, place) /\ Busy' = Of(Held', place)
         /\ StatusOK' /\ PlaceOK' /\ protect' = protect /\ raised' = raised
         /\ WrapperRight(AsBefore', Q, Held', place')
<1>1. status' = status /\ place' = place /\ protect' = protect /\ raised' = raised
  BY DEF NoCommand, Seen
<1>2. AsBefore'.waiting = a.waiting /\ AsBefore'.free = a.free /\ AsBefore'.held = a.held
  BY DEF Seen, Account, AsBefore
<1>3. Held' = Holding(inbox', status, place)
  BY <1>1 DEF Held
<1>4. WrapperRight(AsBefore', Q, Held', place')
  BY <1>1, <1>2, <1>3 DEF WrapperRight, Right
<1> QED BY <1>1, <1>3, <1>4 DEF Busy, StatusOK, PlaceOK

-----------------------------------------------------------------------------
\* The initial states

LEMMA InitInv == Init => Inv
<1> USE PlatformAssumption, FillerAssumption, LauncherAssumption
<1> SUFFICES ASSUME Init PROVE Inv
  OBVIOUS
<1> USE DEF Init, PlatformInit, ValidatingInit, FillerInit, SleepInit, NoPlace
<1>1. LauncherTypeOK
  <2>1. PlatformTypeOK
    <3>1. inbox \in Seq(EventTypes \X (Job \cup Nat))
      BY EmptySeq
    <3> QED BY <3>1 DEF PlatformTypeOK
  <2>2. ValidatingTypeOK
    <3>1. {protect, raised} \subseteq BOOLEAN
      BY Zenon
    <3>2. jobs_waiting \subseteq Job /\ availableMachines \subseteq Machine
          /\ DOMAIN previousAllocations \subseteq Job
      OBVIOUS
    <3> QED BY <3>1, <3>2, Zenon DEF ValidatingTypeOK
  <2>3. FillerTypeOK
    <3>1. openJobs \subseteq Job /\ externalEvents \in 0 .. MaxEvents
      OBVIOUS
    <3>2. {availableResources, unavailableResources, runningResources, down} \subseteq SUBSET Machine
      OBVIOUS
    <3>3. noMoreExternal \in BOOLEAN
      BY Zenon
    <3> QED BY <3>1, <3>2, <3>3, Zenon DEF FillerTypeOK
  <2>4. SleepTypeOK
    <3>1. open_jobs \in Seq(Job)
      BY EmptySeq
    <3> QED BY <3>1 DEF SleepTypeOK, MachineStates, PStates
  <2> QED BY <2>1, <2>2, <2>3, <2>4 DEF LauncherTypeOK
<1>2. /\ DOMAIN inbox = {} /\ DOMAIN place = {} /\ DOMAIN open_jobs = {}
      /\ Queued = {} /\ Held = {} /\ Busy = {}
  BY DEF Queued, Held, Holding, Busy, Of
<1>3. JobsInv
  BY <1>2 DEF JobsInv, Announced, Placed, Apart, Once, Has
<1>4. WrapperInv
  BY <1>2 DEF WrapperInv, WrapperRight, Right, AsBefore, Of
<1>5. AtRest
  BY <1>2 DEF AtRest
<1>6. FillerInv
  BY <1>2 DEF FillerInv
<1>7. SleepInv
  BY <1>2 DEF SleepInv, Distinct, Agrees, Has, In
<1>8. UndoneInv
  BY DEF UndoneInv, NoneFits
<1> QED BY <1>1, <1>3, <1>4, <1>5, <1>6, <1>7, <1>8 DEF Inv

-----------------------------------------------------------------------------
\* The simulator: an event is added to the message.

\* What holds of the message as long as the event is not about a job.
LEMMA AddedEvent ==
  ASSUME Inv, NEW type, NEW x \in Job \cup Nat, type \in EventTypes, Event(type, x)
  PROVE  /\ inbox' \in Seq(Message) /\ loop' = loop
         /\ \A e : Has(inbox', e) <=> (Has(inbox, e) \/ e = <<type, x>>)
         /\ \A i \in DOMAIN inbox' : Has(inbox, inbox'[i]) \/ inbox'[i] = <<type, x>>
         /\ (type \in OnceTypes => ~Has(inbox, <<type, x>>)) => Once(inbox')
<1>1. inbox \in Seq(Message) /\ <<type, x>> \in Message /\ inbox' = Append(inbox, <<type, x>>)
      /\ loop' = loop /\ Once(inbox)
  BY DEF Inv, LauncherTypeOK, PlatformTypeOK, Message, Event, JobsInv, Announced
<1>2. <<type, x>>[1] = type
  OBVIOUS
<1>3. \A e : Has(inbox', e) <=> (Has(inbox, e) \/ e = <<type, x>>)
  BY <1>1, AppendHas
<1>4. (type \in OnceTypes => ~Has(inbox, <<type, x>>)) => Once(inbox')
  BY <1>1, <1>2, AppendOnce
<1>5. inbox' \in Seq(Message)
  BY <1>1, AppendProperties
<1>6. \A i \in DOMAIN inbox' : Has(inbox', inbox'[i])
  BY DEF Has
<1> QED BY <1>1, <1>3, <1>4, <1>5, <1>6

\* The rest of the invariant, when neither the machines in use nor the variables
\* of the scheduler change.
LEMMA SchedulerRests ==
  ASSUME Inv, UNCHANGED <<scheduler, demand, filler_vars, sleep_vars, pstate_vars>>,
         protect' = protect, Busy' = Busy, loop' = loop \/ loop' = "scheduler", place' = place,
         \A m \in Machine, type \in {"switched_off", "switched_on"} :
           Has(inbox', <<type, m>>) <=> Has(inbox, <<type, m>>),
         \/ scheduler = "FillerSchedWithEvents"
         \/ \A i \in DOMAIN inbox' : Has(inbox, inbox'[i]) \/ inbox'[i][1] \notin MachineTypes
  PROVE  AtRest' /\ FillerInv' /\ SleepInv' /\ UndoneInv' /\ Queued' = Queued
<1> USE DEF filler_vars, sleep_vars, pstate_vars
<1>1. AtRest'
  BY DEF Inv, AtRest, Has
<1>2. FillerInv'
  BY DEF Inv, FillerInv
<1>3. SleepInv'
  BY DEF Inv, SleepInv, Agrees, In, Distinct
<1>4. UndoneInv'
  <2>1. loop' = "simulator" => loop = "simulator"
    BY DEF Inv, LauncherTypeOK, PlatformTypeOK
  <2>2. NoneFits' <=> NoneFits
    BY DEF NoneFits
  <2>3. HeadWaits' <=> HeadWaits
    BY DEF HeadWaits, In, NotComputing
  <2> QED BY <2>1, <2>2, <2>3 DEF Inv, UndoneInv
<1>5. Queued' = Queued
  BY DEF Queued
<1> QED BY <1>1, <1>2, <1>3, <1>4, <1>5

\* Types, from what is known of the parts.
LEMMA TypesKept ==
  ASSUME Inv, scheduler' = scheduler, loop' \in {"simulator", "scheduler"},
         inbox' \in Seq(Message), StatusOK', PlaceOK', demand' = demand,
         protect' = protect, raised' = raised,
         NEW Q, NEW H, NEW pl, WrapperRight(AsBefore', Q, H, pl), FillerTypeOK', SleepTypeOK'
  PROVE  LauncherTypeOK'
<1>1. PlatformTypeOK'
  BY DEF Inv, LauncherTypeOK, PlatformTypeOK, StatusOK, PlaceOK, Message
<1>2. ValidatingTypeOK'
  <2>1. {protect', raised'} \subseteq BOOLEAN
    BY Zenon DEF Inv, LauncherTypeOK, ValidatingTypeOK
  <2>2. jobs_waiting' \subseteq Job /\ availableMachines' \subseteq Machine
        /\ DOMAIN previousAllocations' \subseteq Job
    BY DEF WrapperRight, AsBefore
  <2> QED BY <2>1, <2>2, Zenon DEF ValidatingTypeOK
<1> QED BY <1>1, <1>2 DEF Inv, LauncherTypeOK

LEMMA FillerTypesKept ==
  ASSUME Inv, UNCHANGED filler_vars, externalEvents' \in 0 .. MaxEvents,
         down' \subseteq Machine, noMoreExternal' \in BOOLEAN
  PROVE  FillerTypeOK'
<1>1. FillerTypeOK
  BY DEF Inv, LauncherTypeOK
<1> QED BY <1>1 DEF FillerTypeOK, filler_vars

\* A step that only adds an event about a job keeps the rest.
LEMMA SubmitKeeps ==
  ASSUME Inv, NEW j \in Job, Submit(j), UNCHANGED <<validating_vars, sched_vars, scheduler>>
  PROVE  Inv'
<1> USE DEF validating_vars, sched_vars
<1>1. /\ status[j] = "future" /\ status' = [status EXCEPT ![j] = "waiting"]
      /\ Event("JOB_SUBMITTED", j) /\ demand' = demand /\ place' = place
  BY DEF Submit
<1>2. /\ StatusOK /\ PlaceOK /\ JobsInv /\ WrapperInv /\ FillerTypeOK /\ SleepTypeOK
      /\ loop \in {"simulator", "scheduler"}
  BY DEF Inv, LauncherTypeOK, PlatformTypeOK, StatusOK, PlaceOK
<1>3. ~Has(inbox, <<"JOB_SUBMITTED", j>>)
  BY <1>1, <1>2 DEF JobsInv, Announced
<1>4. /\ inbox' \in Seq(Message) /\ loop' = loop
      /\ \A e : Has(inbox', e) <=> (Has(inbox, e) \/ e = <<"JOB_SUBMITTED", j>>)
      /\ \A i \in DOMAIN inbox' : Has(inbox, inbox'[i]) \/ inbox'[i] = <<"JOB_SUBMITTED", j>>
      /\ Once(inbox')
  <2>1. "JOB_SUBMITTED" \in EventTypes
    BY DEF EventTypes
  <2> QED BY <1>1, <1>3, <2>1, AddedEvent, Zenon
<1>5. StatusOK' /\ PlaceOK'
  BY <1>1, <1>2 DEF StatusOK, PlaceOK
<1>6. /\ \A k \in Job : Has(inbox', <<"JOB_COMPLETED", k>>) <=> Has(inbox, <<"JOB_COMPLETED", k>>)
      /\ \A k \in Job : Has(inbox', <<"JOB_SUBMITTED", k>>) => (Has(inbox, <<"JOB_SUBMITTED", k>>) \/ k = j)
      /\ \A m \in Machine, type \in {"switched_off", "switched_on"} :
           Has(inbox', <<type, m>>) <=> Has(inbox, <<type, m>>)
  BY <1>4
<1>7. Held' = Held /\ Busy' = Busy
  BY <1>1, <1>2, <1>6 DEF Held, Holding, Busy, StatusOK, PlaceOK
<1>8. AtRest' /\ FillerInv' /\ SleepInv' /\ UndoneInv' /\ Queued' = Queued
  <2>1. UNCHANGED <<scheduler, demand, filler_vars, sleep_vars, pstate_vars>> /\ protect' = protect
    BY <1>1
  <2>2. \A i \in DOMAIN inbox' : Has(inbox, inbox'[i]) \/ inbox'[i][1] \notin MachineTypes
    BY <1>4 DEF MachineTypes
  <2> QED BY <1>1, <1>4, <1>6, <1>7, <2>1, <2>2, SchedulerRests
<1>9. JobsInv'
  <2>1. j \notin Queued
    BY <1>1, <1>2 DEF JobsInv, Placed
  <2>2. Announced(inbox', Queued, status')
    BY <1>1, <1>2, <1>4, <1>6, <2>1 DEF JobsInv, Announced, StatusOK
  <2>3. Placed(Queued, status', place')
    BY <1>1, <1>2, <2>1 DEF JobsInv, Placed, StatusOK
  <2>4. Apart(Held', place')
    BY <1>1, <1>2, <1>7 DEF JobsInv
  <2> QED BY <1>8, <2>2, <2>3, <2>4 DEF JobsInv
<1>10. WrapperInv' /\ WrapperRight(AsBefore', Queued, Held, place)
  BY <1>1, <1>2, <1>7, <1>8 DEF WrapperInv, WrapperRight, Right, AsBefore
<1>11. LauncherTypeOK'
  <2>1. FillerTypeOK' /\ SleepTypeOK'
    BY <1>2 DEF FillerTypeOK, SleepTypeOK, filler_vars, external_vars, sleep_vars, pstate_vars
  <2> QED BY <1>1, <1>2, <1>4, <1>5, <1>10, <2>1, TypesKept
<1> QED BY <1>8, <1>9, <1>10, <1>11 DEF Inv

LEMMA CompleteKeeps ==
  ASSUME Inv, NEW j \in Job, Complete(j), UNCHANGED <<validating_vars, sched_vars, scheduler>>
  PROVE  Inv'
<1> USE DEF validating_vars, sched_vars
<1>1. /\ status[j] = "running" /\ status' = [status EXCEPT ![j] = "completed"]
      /\ Event("JOB_COMPLETED", j) /\ demand' = demand /\ place' = place
  BY DEF Complete
<1>2. /\ StatusOK /\ PlaceOK /\ JobsInv /\ WrapperInv /\ FillerTypeOK /\ SleepTypeOK
      /\ loop \in {"simulator", "scheduler"}
  BY DEF Inv, LauncherTypeOK, PlatformTypeOK, StatusOK, PlaceOK
<1>3. ~Has(inbox, <<"JOB_COMPLETED", j>>)
  BY <1>1, <1>2 DEF JobsInv, Announced
<1>4. /\ inbox' \in Seq(Message) /\ loop' = loop
      /\ \A e : Has(inbox', e) <=> (Has(inbox, e) \/ e = <<"JOB_COMPLETED", j>>)
      /\ \A i \in DOMAIN inbox' : Has(inbox, inbox'[i]) \/ inbox'[i] = <<"JOB_COMPLETED", j>>
      /\ Once(inbox')
  <2>1. "JOB_COMPLETED" \in EventTypes
    BY DEF EventTypes
  <2> QED BY <1>1, <1>3, <2>1, AddedEvent, Zenon
<1>5. StatusOK' /\ PlaceOK'
  BY <1>1, <1>2 DEF StatusOK, PlaceOK
<1>6. /\ \A k \in Job : Has(inbox', <<"JOB_SUBMITTED", k>>) <=> Has(inbox, <<"JOB_SUBMITTED", k>>)
      /\ \A k \in Job : Has(inbox', <<"JOB_COMPLETED", k>>) <=> (Has(inbox, <<"JOB_COMPLETED", k>>) \/ k = j)
      /\ \A m \in Machine, type \in {"switched_off", "switched_on"} :
           Has(inbox', <<type, m>>) <=> Has(inbox, <<type, m>>)
  BY <1>4
<1>7. Held' = Held /\ Busy' = Busy
  BY <1>1, <1>2, <1>6 DEF Held, Holding, Busy, StatusOK, PlaceOK
<1>8. AtRest' /\ FillerInv' /\ SleepInv' /\ UndoneInv' /\ Queued' = Queued
  <2>1. UNCHANGED <<scheduler, demand, filler_vars, sleep_vars, pstate_vars>> /\ protect' = protect
    BY <1>1
  <2>2. \A i \in DOMAIN inbox' : Has(inbox, inbox'[i]) \/ inbox'[i][1] \notin MachineTypes
    BY <1>4 DEF MachineTypes
  <2> QED BY <1>1, <1>4, <1>6, <1>7, <2>1, <2>2, SchedulerRests
<1>9. JobsInv'
  <2>1. Announced(inbox', Queued, status')
    BY <1>1, <1>2, <1>4, <1>6 DEF JobsInv, Announced, StatusOK
  <2>2. Placed(Queued, status', place')
    BY <1>1, <1>2 DEF JobsInv, Placed, StatusOK
  <2>3. Apart(Held', place')
    BY <1>1, <1>2, <1>7 DEF JobsInv
  <2> QED BY <1>8, <2>1, <2>2, <2>3 DEF JobsInv
<1>10. WrapperInv' /\ WrapperRight(AsBefore', Queued, Held, place)
  BY <1>1, <1>2, <1>7, <1>8 DEF WrapperInv, WrapperRight, Right, AsBefore
<1>11. LauncherTypeOK'
  <2>1. FillerTypeOK' /\ SleepTypeOK'
    BY <1>2 DEF FillerTypeOK, SleepTypeOK, filler_vars, external_vars, sleep_vars, pstate_vars
  <2> QED BY <1>1, <1>2, <1>4, <1>5, <1>10, <2>1, TypesKept
<1> QED BY <1>8, <1>9, <1>10, <1>11 DEF Inv

\* A step that changes neither the jobs nor what the scheduler and the wrapper
\* know of them.
LEMMA JobsRest ==
  ASSUME Inv, UNCHANGED <<status, demand, place, validating_vars, scheduler>>, Queued' = Queued,
         inbox' \in Seq(Message), loop' \in {"simulator", "scheduler"}, Once(inbox'),
         \A k \in Job : Has(inbox', <<"JOB_SUBMITTED", k>>) <=> Has(inbox, <<"JOB_SUBMITTED", k>>),
         \A k \in Job : Has(inbox', <<"JOB_COMPLETED", k>>) <=> Has(inbox, <<"JOB_COMPLETED", k>>)
  PROVE  /\ JobsInv' /\ WrapperInv' /\ Busy' = Busy
         /\ FillerTypeOK' /\ SleepTypeOK' => LauncherTypeOK'
<1> USE DEF validating_vars
<1>1. /\ StatusOK /\ PlaceOK /\ JobsInv /\ WrapperInv
      /\ status' = status /\ place' = place /\ demand' = demand
      /\ protect' = protect /\ raised' = raised /\ scheduler' = scheduler
  BY DEF Inv, LauncherTypeOK, PlatformTypeOK, StatusOK, PlaceOK
<1>2. Held' = Held /\ Busy' = Busy
  BY <1>1 DEF Held, Holding, Busy, PlaceOK
<1>3. JobsInv'
  BY <1>1, <1>2 DEF JobsInv, Announced
<1>4. WrapperInv' /\ WrapperRight(AsBefore', Queued, Held, place)
  BY <1>1, <1>2 DEF WrapperInv, WrapperRight, Right, AsBefore
<1>5. StatusOK' /\ PlaceOK'
  BY <1>1 DEF StatusOK, PlaceOK
<1>6. FillerTypeOK' /\ SleepTypeOK' => LauncherTypeOK'
  BY <1>1, <1>4, <1>5, TypesKept
<1> QED BY <1>2, <1>3, <1>4, <1>6

LEMMA SendKeeps ==
  ASSUME Inv, Send, UNCHANGED <<validating_vars, sched_vars, scheduler>>
  PROVE  Inv'
<1> USE DEF validating_vars, sched_vars
<1>1. /\ inbox' = inbox /\ loop' = "scheduler" /\ UNCHANGED <<status, demand, place>>
      /\ inbox \in Seq(Message) /\ Once(inbox) /\ FillerTypeOK /\ SleepTypeOK
  BY DEF Send, Inv, LauncherTypeOK, PlatformTypeOK, JobsInv, Announced, Message
<1>2. Queued' = Queued
  BY DEF Queued, filler_vars, sleep_vars
<1>3. FillerTypeOK' /\ SleepTypeOK'
  BY <1>1 DEF FillerTypeOK, SleepTypeOK, filler_vars, external_vars, sleep_vars, pstate_vars
<1>4. JobsInv' /\ WrapperInv' /\ Busy' = Busy /\ LauncherTypeOK'
  BY <1>1, <1>2, <1>3, JobsRest
<1>5. \A i \in DOMAIN inbox' : Has(inbox, inbox'[i])
  BY <1>1 DEF Has
<1>6. AtRest' /\ FillerInv' /\ SleepInv' /\ UndoneInv'
  BY <1>1, <1>4, <1>5, SchedulerRests
<1> QED BY <1>4, <1>6 DEF Inv

LEMMA ExternalKeeps ==
  ASSUME Inv, scheduler = "FillerSchedWithEvents",
         NEW type \in MachineTypes, NEW m \in Machine \cup {0}, ExternalEvent(type, m),
         down' \subseteq Machine,
         UNCHANGED <<validating_vars, filler_vars, noMoreExternal, sleep_vars, pstate_vars, scheduler>>
  PROVE  Inv'
<1> USE PlatformAssumption, FillerAssumption
<1>1. /\ Event(type, m) /\ UNCHANGED <<status, demand, place>>
      /\ externalEvents' \in 0 .. MaxEvents /\ noMoreExternal' \in BOOLEAN
  <2>1. FillerTypeOK
    BY DEF Inv, LauncherTypeOK
  <2>2. noMoreExternal' \in BOOLEAN
    BY <2>1, Zenon DEF FillerTypeOK
  <2>3. externalEvents' \in 0 .. MaxEvents
    BY <2>1 DEF FillerTypeOK, ExternalEvent
  <2> QED BY <2>2, <2>3 DEF ExternalEvent
<1>2. type \in EventTypes \ OnceTypes /\ m \in Job \cup Nat
  BY DEF MachineTypes, EventTypes, OnceTypes, Machine
<1>3. /\ inbox' \in Seq(Message) /\ loop' = loop
      /\ \A e : Has(inbox', e) <=> (Has(inbox, e) \/ e = <<type, m>>)
      /\ Once(inbox')
  BY <1>1, <1>2, AddedEvent
<1>4. /\ \A k \in Job : Has(inbox', <<"JOB_SUBMITTED", k>>) <=> Has(inbox, <<"JOB_SUBMITTED", k>>)
      /\ \A k \in Job : Has(inbox', <<"JOB_COMPLETED", k>>) <=> Has(inbox, <<"JOB_COMPLETED", k>>)
      /\ \A x \in Machine, t \in {"switched_off", "switched_on"} :
           Has(inbox', <<t, x>>) <=> Has(inbox, <<t, x>>)
  BY <1>2, <1>3 DEF OnceTypes
<1>5. Queued' = Queued
  BY DEF Queued, filler_vars, sleep_vars
<1>6. FillerTypeOK' /\ SleepTypeOK'
  <2>1. SleepTypeOK
    BY DEF Inv, LauncherTypeOK
  <2>2. SleepTypeOK'
    BY <2>1 DEF SleepTypeOK, sleep_vars, pstate_vars
  <2> QED BY <1>1, <2>2, FillerTypesKept
<1>7. JobsInv' /\ WrapperInv' /\ Busy' = Busy /\ LauncherTypeOK'
  <2>1. loop' \in {"simulator", "scheduler"}
    BY <1>3 DEF Inv, LauncherTypeOK, PlatformTypeOK
  <2> QED BY <1>1, <1>3, <1>4, <1>5, <1>6, <2>1, JobsRest
<1>8. AtRest' /\ FillerInv' /\ SleepInv' /\ UndoneInv'
  BY <1>1, <1>3, <1>4, <1>7, SchedulerRests DEF validating_vars
<1> QED BY <1>7, <1>8 DEF Inv

LEMMA SwitchedKeeps ==
  ASSUME Inv, NEW m \in Machine, Switched(m),
         UNCHANGED <<validating_vars, filler_vars, external_vars, sleep_vars, scheduler>>
  PROVE  Inv'
<1> USE PlatformAssumption
<1> DEFINE type == IF target[m] = "Sleep" THEN "switched_off" ELSE "switched_on"
<1>1. /\ target[m] # pstate[m] /\ Event(type, m) /\ UNCHANGED <<target, status, demand, place>>
      /\ pstate' = [pstate EXCEPT ![m] = target[m]]
  BY DEF Switched
<1>2. /\ SleepTypeOK /\ FillerTypeOK /\ AtRest /\ SleepInv /\ WrapperInv
      /\ m \in Job \cup Nat /\ type \in EventTypes /\ type \in {"switched_off", "switched_on"}
  BY DEF Inv, LauncherTypeOK, EventTypes, Machine
<1>3. scheduler = "FcfsSchedSleep" /\ scheduler' = scheduler
  BY <1>1, <1>2 DEF AtRest
<1>4. /\ Distinct(open_jobs) /\ In(machines_states, "Computing") = Busy
      /\ \A x \in Machine : Agrees(x, machines_states[x], pstate[x], target[x], inbox)
  BY <1>2, <1>3 DEF SleepInv
<1>5. /\ machines_states[m] \in MachineStates /\ pstate[m] \in PStates /\ target[m] \in PStates
      /\ pstate' \in [Machine -> PStates] /\ pstate'[m] = target[m]
      /\ \A x \in Machine \ {m} : pstate'[x] = pstate[x]
  BY <1>1, <1>2 DEF SleepTypeOK
<1>6. ~Has(inbox, <<type, m>>)
  BY <1>1, <1>4, <1>5 DEF Agrees, PStates, MachineStates
<1> HIDE DEF type
<1>7. /\ inbox' \in Seq(Message) /\ loop' = loop
      /\ \A e : Has(inbox', e) <=> (Has(inbox, e) \/ e = <<type, m>>)
      /\ \A i \in DOMAIN inbox' : Has(inbox, inbox'[i]) \/ inbox'[i] = <<type, m>>
      /\ Once(inbox')
  BY <1>1, <1>2, <1>6, AddedEvent
<1>8. /\ \A k \in Job : Has(inbox', <<"JOB_SUBMITTED", k>>) <=> Has(inbox, <<"JOB_SUBMITTED", k>>)
      /\ \A k \in Job : Has(inbox', <<"JOB_COMPLETED", k>>) <=> Has(inbox, <<"JOB_COMPLETED", k>>)
  BY <1>2, <1>7
<1>9. Queued' = Queued
  BY DEF Queued, filler_vars, sleep_vars
<1>10. FillerTypeOK' /\ SleepTypeOK'
  <2>1. FillerTypeOK'
    BY <1>2 DEF FillerTypeOK, filler_vars, external_vars
  <2>2. SleepTypeOK'
    BY <1>1, <1>2, <1>5 DEF SleepTypeOK, sleep_vars
  <2> QED BY <2>1, <2>2
<1>11. JobsInv' /\ WrapperInv' /\ Busy' = Busy /\ LauncherTypeOK'
  <2>1. loop' \in {"simulator", "scheduler"}
    BY <1>7 DEF Inv, LauncherTypeOK, PlatformTypeOK
  <2> QED BY <1>1, <1>7, <1>8, <1>9, <1>10, <2>1, JobsRest
<1>12. SleepInv'
  <2>1. SUFFICES ASSUME NEW x \in Machine
                 PROVE  Agrees(x, machines_states[x], pstate'[x], target[x], inbox')
    BY <1>1, <1>3, <1>4, <1>11 DEF SleepInv, sleep_vars, In, Distinct
  <2>2. CASE x # m
    <3>1. \A t \in {"switched_off", "switched_on"} :
            Has(inbox', <<t, x>>) <=> Has(inbox, <<t, x>>)
      BY <1>7, <2>2
    <3> QED BY <1>4, <1>5, <2>2, <3>1 DEF Agrees
  <2>3. CASE x = m
    <3>1. Agrees(m, machines_states[m], pstate[m], target[m], inbox)
      BY <1>4
    <3>2. CASE target[m] = "Sleep"
      <4>1. /\ Has(inbox', <<"switched_off", m>>)
            /\ Has(inbox', <<"switched_on", m>>) <=> Has(inbox, <<"switched_on", m>>)
        BY <1>7, <3>2 DEF type
      <4> QED BY <1>1, <1>5, <2>3, <3>1, <3>2, <4>1 DEF Agrees, MachineStates
    <3>3. CASE target[m] = "ComputeFast"
      <4>1. /\ Has(inbox', <<"switched_on", m>>)
            /\ Has(inbox', <<"switched_off", m>>) <=> Has(inbox, <<"switched_off", m>>)
        BY <1>7, <3>3 DEF type
      <4> QED BY <1>1, <1>5, <2>3, <3>1, <3>3, <4>1 DEF Agrees, MachineStates
    <3> QED BY <1>5, <3>2, <3>3 DEF PStates
  <2> QED BY <2>2, <2>3
<1>13. AtRest' /\ FillerInv' /\ UndoneInv'
  <2>1. AtRest'
    <3>1. \A i \in DOMAIN inbox' : inbox'[i][1] \notin MachineTypes
      BY <1>2, <1>3, <1>7 DEF AtRest, Has, MachineTypes
    <3> QED BY <1>2, <1>3, <3>1 DEF AtRest, filler_vars
  <2>2. FillerInv'
    BY <1>3 DEF FillerInv
  <2>3. UndoneInv'
    <3>1. HeadWaits' <=> HeadWaits
      BY <1>1 DEF HeadWaits, In, NotComputing, sleep_vars
    <3> QED BY <1>1, <1>3, <3>1 DEF Inv, UndoneInv, sleep_vars
  <2> QED BY <2>1, <2>2, <2>3
<1> QED BY <1>11, <1>12, <1>13 DEF Inv

LEMMA SimulatorKeeps ==
  ASSUME Inv, Simulator, UNCHANGED scheduler
  PROVE  Inv'
<1>1. CASE /\ \E j \in Job : Submit(j) \/ Complete(j)
           /\ UNCHANGED <<validating_vars, sched_vars>>
  BY <1>1, SubmitKeeps, CompleteKeeps
<1>2. CASE Send /\ UNCHANGED <<validating_vars, sched_vars>>
  BY <1>2, SendKeeps
<1>3. CASE /\ scheduler = "FillerSchedWithEvents"
           /\ NoMoreExternal \/ \E m \in Machine : MachineDown(m) \/ MachineUp(m)
           /\ UNCHANGED <<validating_vars, filler_vars, noMoreExternal, sleep_vars, pstate_vars>>
  <2>1. down \subseteq Machine
    BY DEF Inv, LauncherTypeOK, FillerTypeOK
  <2>2. PICK type \in MachineTypes, m \in Machine \cup {0} :
          ExternalEvent(type, m) /\ down' \subseteq Machine
    BY <1>3, <2>1 DEF NoMoreExternal, MachineDown, MachineUp, MachineTypes
  <2> QED BY <1>3, <2>2, ExternalKeeps
<1>4. CASE /\ \E m \in Machine : Switched(m)
           /\ UNCHANGED <<validating_vars, filler_vars, external_vars, sleep_vars>>
  BY <1>4, SwitchedKeeps
<1> QED BY <1>1, <1>2, <1>3, <1>4 DEF Simulator

-----------------------------------------------------------------------------
\* The filler schedulers

LEMMA OnlyOpenJobs ==
  ASSUME open_jobs' = <<>>
  PROVE  Queued' = openJobs'
BY DEF Queued

\* A pass over the open jobs Q with the machines of free, which no job of H holds.
LEMMA FillerPass ==
  ASSUME Inv, NEW Q \in SUBSET Job, NEW a, NEW H, H = Holding(inbox', status, place),
         Announced(inbox', Q, status), Placed(Q, status, place), Apart(H, place),
         WrapperRight(a, Q, H, place),
         NEW free \in SUBSET Machine, free \cap Of(H, place) = {},
         ScheduleOpenJobs(Q, free, a), open_jobs' = <<>>
  PROVE  /\ JobsInv' /\ WrapperInv'
         /\ Busy' = Of(H, place) \cup (free \ availableResources')
         /\ availableResources' \subseteq free /\ openJobs' \subseteq Job /\ NoneFits'
         /\ StatusOK' /\ PlaceOK' /\ demand' = demand
         /\ protect' = protect /\ raised' = raised
<1>1. PICK rank \in Orders(Q), D \in SUBSET Q : \E starts \in [D -> SUBSET free] :
        /\ Fill(starts, free, rank)
        /\ openJobs' = Q \ D
        /\ availableResources' = free \ Used(starts)
        /\ execute_jobs(starts, a)
  BY DEF ScheduleOpenJobs
<1>2. PICK starts \in [D -> SUBSET free] :
        /\ Fill(starts, free, rank)
        /\ openJobs' = Q \ D
        /\ availableResources' = free \ Used(starts)
        /\ execute_jobs(starts, a)
  BY <1>1
<1>3. /\ StatusOK /\ PlaceOK /\ {protect, raised} \subseteq BOOLEAN /\ ~raised
      /\ demand \in Demands
  BY DEF Inv, LauncherTypeOK, PlatformTypeOK, StatusOK, PlaceOK, ValidatingTypeOK, WrapperInv
<1>4. /\ \A j, k \in D : j # k => starts[j] \cap starts[k] = {}
      /\ \A j \in Q \ D : demand[j] > Cardinality(free \ Used(starts))
  BY <1>2, <1>3, FillStarts
<1>5. /\ DOMAIN starts = D /\ Q \ D = Q \ DOMAIN starts
      /\ \A j \in DOMAIN starts : starts[j] \subseteq Machine \ Of(H, place)
      /\ Used(starts) \subseteq free
  BY DEF Used
<1> DEFINE Q2 == Q \ D
<1> HIDE DEF Q2
<1>6. DOMAIN starts \subseteq Q /\ Q2 = Q \ DOMAIN starts
  BY <1>5 DEF Q2
<1>7. \A j, k \in DOMAIN starts : j # k => starts[j] \cap starts[k] = {}
  BY <1>4, <1>5
<1>8. /\ Announced(inbox', Q2, status')
      /\ Placed(Q2, status', place')
      /\ Apart(Held', place')
      /\ Busy' = Of(H, place) \cup Used(starts)
      /\ protect' = protect /\ raised' = raised
      /\ WrapperRight(AsBefore', Q2, Held', place')
      /\ StatusOK' /\ PlaceOK' /\ demand' = demand
  BY ONLY <1>2, <1>3, <1>5, <1>6, <1>7, ExecuteJobs,
          H = Holding(inbox', status, place), Q \in SUBSET Job,
          Announced(inbox', Q, status), Placed(Q, status, place), Apart(H, place),
          WrapperRight(a, Q, H, place)
<1>9. Queued' = Q2 /\ openJobs' = Q2
  BY <1>2, OnlyOpenJobs DEF Q2
<1>10. JobsInv' /\ WrapperInv'
  <2>1. JobsInv'
    BY <1>8, <1>9 DEF JobsInv
  <2>2. ~raised'
    BY <1>3, <1>8
  <2>3. WrapperRight(AsBefore', Queued', Held', place')
    BY <1>8, <1>9, Zenon
  <2>4. WrapperInv'
    BY <1>8, <2>2, <2>3 DEF WrapperInv, WrapperRight
  <2> QED BY <2>1, <2>4
<1>11. Busy' = Of(H, place) \cup (free \ availableResources') /\ availableResources' \subseteq free
  BY <1>2, <1>5, <1>8
<1>12. NoneFits'
  BY <1>2, <1>4, <1>8, <1>9 DEF NoneFits, Q2
<1> QED BY <1>6, <1>8, <1>9, <1>10, <1>11, <1>12 DEF Q2

\* A callback that starts nothing.
LEMMA NoneStarted ==
  ASSUME Inv, NEW Q, Queued' = Q, NEW a, NEW H, H = Holding(inbox', status, place),
         Announced(inbox', Q, status), Placed(Q, status, place), Apart(H, place),
         WrapperRight(a, Q, H, place), NoCommand, Seen(a)
  PROVE  /\ JobsInv' /\ WrapperInv'
         /\ Busy' = Of(H, place)
         /\ StatusOK' /\ PlaceOK' /\ demand' = demand
         /\ protect' = protect /\ raised' = raised
<1>1. StatusOK /\ PlaceOK /\ ~raised
  BY DEF Inv, LauncherTypeOK, PlatformTypeOK, StatusOK, PlaceOK, WrapperInv
<1>2. status' = status /\ place' = place /\ demand' = demand /\ protect' = protect
  BY DEF NoCommand, Seen
<1>3. /\ Held' = H /\ Busy' = Of(H, place)
      /\ StatusOK' /\ PlaceOK' /\ raised' = raised
      /\ WrapperRight(AsBefore', Q, H, place')
  BY <1>1, <1>2, NothingStarted
<1>4. JobsInv'
  BY <1>2, <1>3 DEF JobsInv
<1>5. WrapperInv'
  BY <1>1, <1>2, <1>3 DEF WrapperInv, WrapperRight
<1> QED BY <1>2, <1>3, <1>4, <1>5

\* A job that is refused when it is submitted: no scheduler remembers it.
LEMMA Refused ==
  ASSUME Inv, NEW j \in Job, Handling("JOB_SUBMITTED", j), RefuseJob(j),
         Seen(AfterSubmission(j)), Queued' = Queued
  PROVE  /\ JobsInv' /\ WrapperInv' /\ Busy' = Busy
         /\ StatusOK' /\ PlaceOK' /\ demand' = demand /\ place' = place
         /\ protect' = protect /\ raised' = raised
<1>1. /\ StatusOK /\ PlaceOK /\ ~raised /\ JobsInv
      /\ WrapperRight(AfterSubmission(j), Queued, Held, place)
  BY SubmissionAccount DEF Inv, LauncherTypeOK, PlatformTypeOK, StatusOK, PlaceOK, WrapperInv
<1>2. /\ Announced(inbox', Queued \cup {j}, status)
      /\ Holding(inbox', status, place) = Held
      /\ status[j] = "waiting" /\ j \notin Queued
      /\ ~Has(inbox', <<"JOB_SUBMITTED", j>>)
  <2>1. "JOB_SUBMITTED" \in OnceTypes
    BY DEF OnceTypes
  <2> QED BY <2>1, HandledSubmission, HandledEvent
<1>3. /\ status' = [status EXCEPT ![j] = "rejected"] /\ place' = place /\ demand' = demand
      /\ protect' = protect /\ raised' = raised
  BY DEF RefuseJob, Seen
<1>4. /\ status'[j] = "rejected" /\ \A k \in Job \ {j} : status'[k] = status[k]
      /\ StatusOK' /\ PlaceOK'
  BY <1>1, <1>3 DEF StatusOK, PlaceOK
<1>5. j \notin DOMAIN place
  BY <1>1, <1>2 DEF JobsInv, Placed
<1>6. Held' = Held /\ Busy' = Busy
  BY <1>1, <1>2, <1>3, <1>4, <1>5 DEF Held, Holding, Busy, PlaceOK
<1>7. JobsInv'
  <2>1. Announced(inbox', Queued, status')
    BY <1>2, <1>4 DEF Announced
  <2>2. Placed(Queued, status', place')
    BY <1>1, <1>2, <1>3, <1>4 DEF JobsInv, Placed
  <2>3. Apart(Held', place')
    BY <1>1, <1>3, <1>6 DEF JobsInv
  <2> QED BY <2>1, <2>2, <2>3 DEF JobsInv
<1>8. WrapperInv'
  <2>1. /\ AsBefore'.waiting = AfterSubmission(j).waiting
        /\ AsBefore'.free = AfterSubmission(j).free /\ AsBefore'.held = AfterSubmission(j).held
    BY DEF Seen, Account, AsBefore
  <2> QED BY <1>1, <1>3, <1>6, <2>1 DEF WrapperInv, WrapperRight, Right
<1> QED BY <1>3, <1>4, <1>6, <1>7, <1>8

\* The invariant after a callback of a filler, from its parts.
LEMMA FillerStep ==
  ASSUME Inv, scheduler # "FcfsSchedSleep", scheduler' = scheduler,
         inbox' \in Seq(Message), \A i \in DOMAIN inbox' : Has(inbox, inbox'[i]),
         loop' \in {"simulator", "scheduler"},
         JobsInv', WrapperInv', StatusOK', PlaceOK', demand' = demand,
         protect' = protect, raised' = raised,
         UNCHANGED <<sleep_vars, pstate_vars>>, FillerTypeOK', FillerInv',
         scheduler = "FillerSched" => unavailableResources' = unavailableResources,
         (scheduler = "FillerSched" \/ (loop' = "simulator" /\ ~protect)) => NoneFits'
  PROVE  Inv'
<1> USE DEF sleep_vars, pstate_vars
<1>1. AtRest /\ SleepTypeOK /\ open_jobs = <<>> /\ scheduler \in Schedulers
  BY DEF Inv, LauncherTypeOK, AtRest
<1>2. SleepTypeOK'
  BY <1>1 DEF SleepTypeOK
<1>3. LauncherTypeOK'
  <2>1. WrapperRight(AsBefore', Queued', Held', place')
    BY DEF WrapperInv, WrapperRight
  <2> QED BY <1>2, <2>1, TypesKept
<1>4. AtRest'
  BY <1>1 DEF AtRest, Has
<1>5. SleepInv'
  BY DEF SleepInv
<1>6. UndoneInv'
  BY DEF UndoneInv
<1> QED BY <1>3, <1>4, <1>5, <1>6 DEF Inv

LEMMA FillerReject ==
  ASSUME Inv, scheduler # "FcfsSchedSleep", scheduler' = scheduler,
         NEW j \in Job, Handling("JOB_SUBMITTED", j), Reject(j), OthersThanFiller
  PROVE  Inv'
<1>1. /\ RefuseJob(j) /\ Seen(AfterSubmission(j)) /\ UNCHANGED filler_vars
      /\ UNCHANGED <<external_vars, sleep_vars, pstate_vars>>
  BY DEF Reject, OthersThanFiller
<1>2. Queued' = Queued
  BY <1>1 DEF Queued, filler_vars, sleep_vars
<1>3. /\ JobsInv' /\ WrapperInv' /\ Busy' = Busy
      /\ StatusOK' /\ PlaceOK' /\ demand' = demand
      /\ protect' = protect /\ raised' = raised
  BY <1>1, <1>2, Refused
<1>4. /\ inbox' \in Seq(Message) /\ \A i \in DOMAIN inbox' : Has(inbox, inbox'[i])
      /\ loop' = "scheduler"
  BY HandledEvent DEF Handling
<1>5. FillerTypeOK'
  <2>1. FillerTypeOK
    BY DEF Inv, LauncherTypeOK
  <2> QED BY <1>1, <2>1 DEF FillerTypeOK, filler_vars, external_vars
<1>6. FillerInv' /\ unavailableResources' = unavailableResources
  BY <1>1, <1>3 DEF Inv, FillerInv, filler_vars
<1>7. NoneFits' <=> NoneFits
  BY <1>1, <1>3 DEF NoneFits, filler_vars
<1>8. scheduler = "FillerSched" => NoneFits
  BY DEF Inv, UndoneInv
<1> QED BY <1>1, <1>3, <1>4, <1>5, <1>6, <1>7, <1>8, FillerStep

\* What a filler knows, before a callback.
LEMMA FillerKnows ==
  ASSUME Inv, scheduler # "FcfsSchedSleep"
  PROVE  /\ open_jobs = <<>> /\ Queued = openJobs /\ openJobs \subseteq Job
         /\ availableResources = Machine \ (Busy \cup unavailableResources)
         /\ unavailableResources \subseteq Machine /\ runningResources \subseteq Machine
         /\ Busy \subseteq Machine
         /\ scheduler = "FillerSched" => unavailableResources = {}
         /\ scheduler = "FillerSchedWithEvents" => runningResources = Busy
         /\ Placed(Queued, status, place) /\ Apart(Held, place)
<1>1. open_jobs = <<>> /\ Queued = openJobs
  BY DEF Inv, AtRest, Queued
<1>2. Busy \subseteq Machine
  BY DEF Inv, LauncherTypeOK, PlatformTypeOK, Busy, Of, Held, Holding
<1> QED BY <1>1, <1>2 DEF Inv, LauncherTypeOK, FillerTypeOK, AtRest, FillerInv, JobsInv

LEMMA FillerTyped ==
  ASSUME Inv, openJobs' \subseteq Job, availableResources' \subseteq Machine,
         unavailableResources' \subseteq Machine, runningResources' \subseteq Machine,
         down' = down, externalEvents' = externalEvents, noMoreExternal' \in BOOLEAN
  PROVE  FillerTypeOK'
<1>1. FillerTypeOK
  BY DEF Inv, LauncherTypeOK
<1> QED BY <1>1 DEF FillerTypeOK

LEMMA NoMoreIsBoolean ==
  ASSUME Inv
  PROVE  noMoreExternal \in BOOLEAN
BY Zenon DEF Inv, LauncherTypeOK, FillerTypeOK

LEMMA CompletionKnows ==
  ASSUME Inv, NEW j \in Job, Handling("JOB_COMPLETED", j)
  PROVE  /\ Announced(inbox', Queued, status) /\ j \in Held
         /\ Held \ {j} = Holding(inbox', status, place)
         /\ Of(Held \ {j}, place) = Busy \ place[j]
         /\ Placed(Queued, status, place) /\ Apart(Held \ {j}, place)
         /\ place[j] \subseteq Busy /\ Busy \subseteq Machine
         /\ WrapperRight(AfterCompletion(j), Queued, Held \ {j}, place)
<1>1. /\ Announced(inbox', Queued, status) /\ j \in Held
      /\ Holding(inbox', status, place) = Held \ {j}
      /\ Of(Held \ {j}, place) = Busy \ place[j]
      /\ Apart(Held \ {j}, place)
  BY HandledCompletion
<1>2. place[j] \subseteq Busy /\ Busy \subseteq Machine
  BY <1>1 DEF Inv, LauncherTypeOK, PlatformTypeOK, Busy, Of, Held, Holding
<1>3. WrapperRight(AfterCompletion(j), Queued, Held \ {j}, place)
  BY <1>1, <1>2, CompletionAccount
<1>4. Placed(Queued, status, place)
  BY DEF Inv, JobsInv
<1> QED BY <1>1, <1>2, <1>3, <1>4

LEMMA FillerSubmission ==
  ASSUME Inv, scheduler = "FillerSched", scheduler' = scheduler,
         NEW j \in Job, Handling("JOB_SUBMITTED", j), FillerOnJobSubmission(j), OthersThanFiller
  PROVE  Inv'
<1> USE DEF OthersThanFiller, external_vars, sleep_vars, pstate_vars
<1>1. CASE TooLarge(j)
  BY <1>1, FillerReject DEF FillerOnJobSubmission
<1>2. CASE ~TooLarge(j)
  <2> DEFINE Q == openJobs \cup {j}
  <2>1. /\ ScheduleOpenJobs(Q, availableResources, AfterSubmission(j))
        /\ UNCHANGED <<unavailableResources, runningResources>>
    BY <1>2 DEF FillerOnJobSubmission
  <2>2. /\ open_jobs' = <<>> /\ Q = Queued \cup {j} /\ openJobs \subseteq Job
        /\ availableResources = Machine \ Busy /\ unavailableResources = {}
        /\ runningResources \subseteq Machine /\ Apart(Held, place)
    BY FillerKnows
  <2>3. /\ Announced(inbox', Q, status) /\ Placed(Q, status, place)
        /\ Held = Holding(inbox', status, place)
        /\ WrapperRight(AfterSubmission(j), Q, Held, place)
    BY <2>2, HandledSubmission, SubmissionAccount
  <2>4. Q \in SUBSET Job /\ availableResources \in SUBSET Machine
        /\ availableResources \cap Of(Held, place) = {}
    BY <2>2 DEF Busy
  <2> HIDE DEF Q
  <2>5. /\ JobsInv' /\ WrapperInv'
        /\ Busy' = Of(Held, place) \cup (availableResources \ availableResources')
        /\ availableResources' \subseteq availableResources /\ openJobs' \subseteq Job /\ NoneFits'
        /\ StatusOK' /\ PlaceOK' /\ demand' = demand
        /\ protect' = protect /\ raised' = raised
    BY <2>1, <2>2, <2>3, <2>4, FillerPass
  <2>6. /\ inbox' \in Seq(Message) /\ \A i \in DOMAIN inbox' : Has(inbox, inbox'[i])
        /\ loop' = "scheduler"
    BY HandledEvent DEF Handling
  <2>7. FillerTypeOK'
    BY <2>1, <2>2, <2>4, <2>5, FillerTyped, NoMoreIsBoolean
  <2>8. FillerInv'
    <3>1. availableResources' = Machine \ Busy'
      BY <2>2, <2>5 DEF Busy
    <3> QED BY <2>1, <2>2, <3>1 DEF FillerInv
  <2> QED BY <2>1, <2>5, <2>6, <2>7, <2>8, FillerStep
<1> QED BY <1>1, <1>2

LEMMA FillerCompletion ==
  ASSUME Inv, scheduler = "FillerSched", scheduler' = scheduler,
         NEW j \in Job, Handling("JOB_COMPLETED", j), FillerOnJobCompletion(j), OthersThanFiller
  PROVE  Inv'
<1> USE DEF OthersThanFiller, external_vars, sleep_vars, pstate_vars
<1> DEFINE free == availableResources \cup place[j]
           H    == Held \ {j}
<1>1. /\ ScheduleOpenJobs(openJobs, free, AfterCompletion(j))
      /\ UNCHANGED <<unavailableResources, runningResources>>
  BY DEF FillerOnJobCompletion
<1>2. /\ open_jobs' = <<>> /\ openJobs = Queued /\ openJobs \in SUBSET Job
      /\ availableResources = Machine \ Busy /\ unavailableResources = {}
      /\ runningResources \subseteq Machine
  BY FillerKnows
<1>3. /\ Announced(inbox', openJobs, status) /\ H = Holding(inbox', status, place)
      /\ Of(H, place) = Busy \ place[j]
      /\ Placed(openJobs, status, place) /\ Apart(H, place)
      /\ place[j] \subseteq Busy /\ Busy \subseteq Machine
      /\ WrapperRight(AfterCompletion(j), openJobs, H, place)
  BY <1>2, CompletionKnows
<1>4. free \in SUBSET Machine /\ free \cap Of(H, place) = {}
      /\ free = Machine \ Of(H, place)
  BY <1>2, <1>3
<1> HIDE DEF H, free
<1>5. /\ JobsInv' /\ WrapperInv'
      /\ Busy' = Of(H, place) \cup (free \ availableResources')
      /\ availableResources' \subseteq free /\ openJobs' \subseteq Job /\ NoneFits'
      /\ StatusOK' /\ PlaceOK' /\ demand' = demand
      /\ protect' = protect /\ raised' = raised
  BY <1>1, <1>2, <1>3, <1>4, FillerPass
<1>6. /\ inbox' \in Seq(Message) /\ \A i \in DOMAIN inbox' : Has(inbox, inbox'[i])
      /\ loop' = "scheduler"
  BY HandledEvent DEF Handling
<1>7. FillerTypeOK'
  BY <1>1, <1>2, <1>4, <1>5, FillerTyped, NoMoreIsBoolean
<1>8. FillerInv'
  <2>1. availableResources' = Machine \ Busy'
    BY <1>4, <1>5
  <2> QED BY <1>1, <1>2, <2>1 DEF FillerInv
<1> QED BY <1>1, <1>5, <1>6, <1>7, <1>8, FillerStep

LEMMA EventsSubmission ==
  ASSUME Inv, scheduler = "FillerSchedWithEvents", scheduler' = scheduler,
         NEW j \in Job, Handling("JOB_SUBMITTED", j), EventsOnJobSubmission(j), OthersThanFiller
  PROVE  Inv'
<1> USE DEF OthersThanFiller, external_vars, sleep_vars, pstate_vars
<1>1. CASE TooLarge(j)
  BY <1>1, FillerReject DEF EventsOnJobSubmission
<1>2. CASE ~TooLarge(j)
  <2> DEFINE Q == openJobs \cup {j}
  <2>1. /\ openJobs' = Q /\ NoCommand /\ Seen(AfterSubmission(j))
        /\ UNCHANGED <<availableResources, unavailableResources, runningResources>>
    BY <1>2 DEF EventsOnJobSubmission
  <2>2. /\ open_jobs' = <<>> /\ Q = Queued \cup {j} /\ openJobs \subseteq Job
        /\ availableResources \subseteq Machine /\ unavailableResources \subseteq Machine
        /\ runningResources \subseteq Machine /\ Apart(Held, place)
    BY FillerKnows
  <2>3. /\ Announced(inbox', Q, status) /\ Placed(Q, status, place)
        /\ Held = Holding(inbox', status, place)
        /\ WrapperRight(AfterSubmission(j), Q, Held, place)
    BY <2>2, HandledSubmission, SubmissionAccount
  <2> HIDE DEF Q
  <2>4. Queued' = Q
    BY <2>1, <2>2, OnlyOpenJobs
  <2>5. /\ JobsInv' /\ WrapperInv' /\ Busy' = Of(Held, place)
        /\ StatusOK' /\ PlaceOK' /\ demand' = demand
        /\ protect' = protect /\ raised' = raised
    BY <2>1, <2>2, <2>3, <2>4, NoneStarted
  <2>6. /\ inbox' \in Seq(Message) /\ \A i \in DOMAIN inbox' : Has(inbox, inbox'[i])
        /\ loop' = "scheduler"
    BY HandledEvent DEF Handling
  <2>7. FillerTypeOK'
    BY <2>1, <2>2, FillerTyped, NoMoreIsBoolean DEF Q
  <2>8. FillerInv'
    BY <2>1, <2>5 DEF Inv, FillerInv, Busy
  <2> QED BY <2>1, <2>5, <2>6, <2>7, <2>8, FillerStep
<1> QED BY <1>1, <1>2

LEMMA EventsCompletion ==
  ASSUME Inv, scheduler = "FillerSchedWithEvents", scheduler' = scheduler,
         NEW j \in Job, Handling("JOB_COMPLETED", j), EventsOnJobCompletion(j), OthersThanFiller
  PROVE  Inv'
<1> USE DEF OthersThanFiller, external_vars, sleep_vars, pstate_vars
<1> DEFINE H == Held \ {j}
<1>1. /\ availableResources' = availableResources \cup (place[j] \ unavailableResources)
      /\ runningResources' = runningResources \ place[j]
      /\ NoCommand /\ Seen(AfterCompletion(j))
      /\ UNCHANGED <<openJobs, unavailableResources>>
  BY DEF EventsOnJobCompletion
<1>2. /\ open_jobs' = <<>> /\ openJobs = Queued /\ openJobs \subseteq Job
      /\ availableResources = Machine \ (Busy \cup unavailableResources)
      /\ unavailableResources \subseteq Machine /\ runningResources = Busy
  BY FillerKnows
<1>3. /\ Announced(inbox', openJobs, status) /\ H = Holding(inbox', status, place)
      /\ Of(H, place) = Busy \ place[j]
      /\ Placed(openJobs, status, place) /\ Apart(H, place)
      /\ place[j] \subseteq Busy /\ Busy \subseteq Machine
      /\ WrapperRight(AfterCompletion(j), openJobs, H, place)
  BY <1>2, CompletionKnows
<1> HIDE DEF H
<1>4. Queued' = openJobs
  BY <1>1, <1>2, OnlyOpenJobs
<1>5. /\ JobsInv' /\ WrapperInv' /\ Busy' = Of(H, place)
      /\ StatusOK' /\ PlaceOK' /\ demand' = demand
      /\ protect' = protect /\ raised' = raised
  BY <1>1, <1>3, <1>4, NoneStarted
<1>6. /\ inbox' \in Seq(Message) /\ \A i \in DOMAIN inbox' : Has(inbox, inbox'[i])
      /\ loop' = "scheduler"
  BY HandledEvent DEF Handling
<1>7. FillerTypeOK'
  <2>1. openJobs' \subseteq Job /\ availableResources' \subseteq Machine
        /\ unavailableResources' \subseteq Machine /\ runningResources' \subseteq Machine
    BY <1>1, <1>2, <1>3
  <2> QED BY <2>1, FillerTyped, NoMoreIsBoolean
<1>8. FillerInv'
  <2>1. availableResources' = Machine \ (Busy' \cup unavailableResources') /\ runningResources' = Busy'
    BY <1>1, <1>2, <1>3, <1>5
  <2> QED BY <2>1 DEF FillerInv
<1> QED BY <1>1, <1>5, <1>6, <1>7, <1>8, FillerStep

\* A machine that runs a job is available neither before nor after it is announced
\* unavailable, or available again.
LEMMA MachineEventKeeps ==
  ASSUME Inv, onMachineEvent, UNCHANGED scheduler
  PROVE  Inv'
<1> USE DEF filler_vars
<1>1. /\ NoCommand /\ UNCHANGED <<validating_vars, down, externalEvents, sleep_vars, pstate_vars>>
      /\ UNCHANGED <<status, demand, place>>
  BY DEF onMachineEvent, NoCommand
<1> DEFINE Handled(type, x) ==
      /\ Handling(type, x)
      /\ noMoreExternal' \in BOOLEAN
      /\ \/ UNCHANGED filler_vars
         \/ x \in Machine /\ onNotifyEventMachineUnavailable(x)
         \/ x \in Machine /\ onNotifyEventMachineAvailable(x)
<1>2. PICK type \in MachineTypes, x \in Machine \cup {0} : Handled(type, x)
  <2>1. CASE onNoMoreExternal
    <3>1. noMoreExternal' \in BOOLEAN
      BY <2>1, NoMoreIsBoolean, Zenon DEF onNoMoreExternal, onNoMoreExternalEvents
    <3>2. Handling("no_more_external_event_to_occur", 0) /\ UNCHANGED filler_vars
      BY <2>1 DEF onNoMoreExternal, onNoMoreExternalEvents
    <3> QED BY <3>1, <3>2 DEF MachineTypes
  <2>2. ASSUME NEW m \in Machine, onMachineUnavailable(m)
        PROVE  Handled("event_machine_unavailable", m)
    <3>1. noMoreExternal' \in BOOLEAN
      BY <2>2, NoMoreIsBoolean, Zenon DEF onMachineUnavailable
    <3> QED BY <2>2, <3>1 DEF onMachineUnavailable
  <2>3. ASSUME NEW m \in Machine, onMachineAvailable(m)
        PROVE  Handled("event_machine_available", m)
    <3>1. noMoreExternal' \in BOOLEAN
      BY <2>3, NoMoreIsBoolean, Zenon DEF onMachineAvailable
    <3> QED BY <2>3, <3>1 DEF onMachineAvailable
  <2>4. {"event_machine_unavailable", "event_machine_available"} \subseteq MachineTypes
    BY DEF MachineTypes
  <2> HIDE DEF Handled
  <2> QED BY <2>1, <2>2, <2>3, <2>4 DEF onMachineEvent
<1>3. scheduler = "FillerSchedWithEvents"
  <2>1. Has(inbox, <<type, x>>)
    BY <1>2, HandledEvent
  <2>2. <<type, x>>[1] = type
    OBVIOUS
  <2> QED BY <2>1, <2>2 DEF Inv, AtRest, Has
<1>4. /\ inbox' \in Seq(Message) /\ \A i \in DOMAIN inbox' : Has(inbox, inbox'[i])
      /\ loop' = "scheduler" /\ Once(inbox')
      /\ \A e : Has(inbox, e) <=> (Has(inbox', e) \/ e = <<type, x>>)
  BY <1>2, HandledEvent DEF Handling
<1>5. /\ \A k \in Job : Has(inbox', <<"JOB_SUBMITTED", k>>) <=> Has(inbox, <<"JOB_SUBMITTED", k>>)
      /\ \A k \in Job : Has(inbox', <<"JOB_COMPLETED", k>>) <=> Has(inbox, <<"JOB_COMPLETED", k>>)
  BY <1>4 DEF MachineTypes
<1>6. /\ openJobs' = openJobs /\ runningResources' = runningResources
      /\ Queued = openJobs /\ Queued' = openJobs
      /\ openJobs \subseteq Job /\ Busy \subseteq Machine /\ runningResources = Busy
      /\ availableResources = Machine \ (Busy \cup unavailableResources)
      /\ unavailableResources \subseteq Machine
  BY <1>1, <1>2, <1>3, FillerKnows, OnlyOpenJobs
     DEF sleep_vars, onNotifyEventMachineUnavailable, onNotifyEventMachineAvailable
<1>7. JobsInv' /\ WrapperInv' /\ Busy' = Busy
  BY <1>1, <1>4, <1>5, <1>6, JobsRest
<1>8. /\ availableResources' = Machine \ (Busy \cup unavailableResources')
      /\ unavailableResources' \subseteq Machine
  BY <1>2, <1>6 DEF onNotifyEventMachineUnavailable, onNotifyEventMachineAvailable
<1>9. FillerTypeOK' /\ FillerInv'
  <2>1. availableResources' \subseteq Machine /\ runningResources' \subseteq Machine /\ openJobs' \subseteq Job
    BY <1>6, <1>8
  <2>2. FillerTypeOK'
    BY <1>1, <1>2, <1>8, <2>1, FillerTyped
  <2>3. FillerInv'
    BY <1>6, <1>7, <1>8 DEF FillerInv
  <2> QED BY <2>2, <2>3
<1>10. StatusOK' /\ PlaceOK'
  BY <1>1 DEF Inv, LauncherTypeOK, PlatformTypeOK, StatusOK, PlaceOK
<1>11. protect' = protect /\ raised' = raised
  BY <1>1 DEF validating_vars
<1> QED BY <1>1, <1>3, <1>4, <1>7, <1>9, <1>10, <1>11, FillerStep

\* The end of a message, which only FillerSchedWithEvents uses.
LEMMA NoMoreEventsKeeps ==
  ASSUME Inv, onNoMoreEvents, UNCHANGED scheduler
  PROVE  Inv'
<1> USE DEF OthersThanFiller, external_vars, sleep_vars, pstate_vars
<1>1. /\ inbox' = inbox /\ loop' = "simulator" /\ UNCHANGED <<sleep_vars, pstate_vars>>
      /\ down' = down /\ externalEvents' = externalEvents /\ noMoreExternal' \in BOOLEAN
      /\ inbox' \in Seq(Message) /\ \A i \in DOMAIN inbox' : Has(inbox, inbox'[i])
      /\ Announced(inbox', Queued, status) /\ Held = Holding(inbox', status, place)
  <2>1. inbox' = inbox /\ loop' = "simulator" /\ UNCHANGED <<external_vars, sleep_vars, pstate_vars>>
    BY DEF onNoMoreEvents, MessageEnds
  <2>2. noMoreExternal' \in BOOLEAN
    BY <2>1, NoMoreIsBoolean, Zenon
  <2>3. inbox \in Seq(Message) /\ Announced(inbox, Queued, status)
    BY DEF Inv, LauncherTypeOK, PlatformTypeOK, Message, JobsInv
  <2>4. inbox' \in Seq(Message) /\ Announced(inbox', Queued, status)
        /\ Held = Holding(inbox', status, place)
    BY <2>1, <2>3 DEF Held
  <2>5. \A i \in DOMAIN inbox' : Has(inbox, inbox'[i])
    BY <2>1 DEF Has
  <2> QED BY <2>1, <2>2, <2>4, <2>5
<1>2. CASE scheduler = "FillerSchedWithEvents" /\ Forwarded("onNoMoreEvents")
  <2>1. /\ ScheduleOpenJobs(openJobs, availableResources, AsBefore)
        /\ runningResources' = runningResources \cup (availableResources \ availableResources')
        /\ UNCHANGED unavailableResources
    BY <1>2 DEF onNoMoreEvents, EventsOnNoMoreEvents
  <2>2. /\ open_jobs' = <<>> /\ Queued = openJobs /\ openJobs \in SUBSET Job
        /\ availableResources = Machine \ (Busy \cup unavailableResources)
        /\ unavailableResources \subseteq Machine /\ runningResources = Busy /\ Busy \subseteq Machine
        /\ Placed(openJobs, status, place) /\ Apart(Held, place)
    BY <1>1, <1>2, FillerKnows
  <2>3. /\ WrapperRight(AsBefore, openJobs, Held, place)
        /\ availableResources \in SUBSET Machine /\ availableResources \cap Of(Held, place) = {}
        /\ Announced(inbox', openJobs, status)
    BY <1>1, <2>2 DEF Inv, WrapperInv, Busy
  <2>4. /\ JobsInv' /\ WrapperInv'
        /\ Busy' = Of(Held, place) \cup (availableResources \ availableResources')
        /\ availableResources' \subseteq availableResources /\ openJobs' \subseteq Job /\ NoneFits'
        /\ StatusOK' /\ PlaceOK' /\ demand' = demand
        /\ protect' = protect /\ raised' = raised
    BY <1>1, <2>1, <2>2, <2>3, FillerPass
  <2>5. /\ availableResources' = Machine \ (Busy' \cup unavailableResources')
        /\ runningResources' = Busy'
    BY <2>1, <2>2, <2>4 DEF Busy
  <2>6. FillerTypeOK'
    <3>1. availableResources' \subseteq Machine /\ runningResources' \subseteq Machine
          /\ unavailableResources' \subseteq Machine
      BY <2>1, <2>2, <2>3, <2>4
    <3> QED BY <1>1, <2>4, <3>1, FillerTyped
  <2>7. FillerInv'
    BY <2>5 DEF FillerInv
  <2> QED BY <1>1, <1>2, <2>4, <2>6, <2>7, FillerStep
<1>3. CASE ~(scheduler = "FillerSchedWithEvents" /\ Forwarded("onNoMoreEvents"))
  <2>1. UNCHANGED <<status, demand, place, validating_vars, filler_vars>>
    BY <1>3 DEF onNoMoreEvents, NoCommand
  <2>2. Queued' = Queued
    BY <1>1, <2>1 DEF Queued, filler_vars
  <2>3. FillerTypeOK' /\ SleepTypeOK'
    <3>1. FillerTypeOK /\ SleepTypeOK
      BY DEF Inv, LauncherTypeOK
    <3>2. SleepTypeOK'
      BY <1>1, <3>1 DEF SleepTypeOK
    <3>3. FillerTypeOK'
      BY <1>1, <2>1, FillerTyped, <3>1 DEF FillerTypeOK, filler_vars
    <3> QED BY <3>2, <3>3
  <2>4. JobsInv' /\ WrapperInv' /\ Busy' = Busy /\ LauncherTypeOK'
    <3>1. Once(inbox')
      BY <1>1 DEF Announced
    <3> QED BY <1>1, <2>1, <2>2, <2>3, <3>1, JobsRest
  <2>5. AtRest' /\ FillerInv' /\ SleepInv'
    <3>1. AtRest /\ FillerInv /\ SleepInv
      BY DEF Inv
    <3>2. AtRest'
      BY <1>1, <2>1, <3>1 DEF AtRest, filler_vars
    <3>3. FillerInv'
      BY <2>1, <2>4, <3>1 DEF FillerInv, filler_vars
    <3>4. SleepInv'
      BY <1>1, <2>4, <3>1 DEF SleepInv, Agrees, In, Distinct
    <3> QED BY <3>2, <3>3, <3>4
  <2>6. UndoneInv'
    <3>1. ~(scheduler = "FillerSchedWithEvents" /\ ~protect)
      BY <1>3 DEF Forwarded
    <3>2. NoneFits' <=> NoneFits
      BY <2>1 DEF NoneFits, filler_vars
    <3>3. HeadWaits' <=> HeadWaits
      BY <1>1, <2>1 DEF HeadWaits, In, NotComputing
    <3> QED BY <1>1, <2>1, <3>1, <3>2, <3>3 DEF Inv, UndoneInv, validating_vars
  <2> QED BY <2>4, <2>5, <2>6 DEF Inv
<1> QED BY <1>2, <1>3

-----------------------------------------------------------------------------
\* FcfsSchedSleep

\* What is switched after jobs were started: idle machines off or sleeping ones on.
LEMMA MachinesSwitched ==
  ASSUME NEW states \in [Machine -> MachineStates], NEW left, NEW after,
         after = SwitchMachines(left, states)
  PROVE  /\ after \in [Machine -> MachineStates]
         /\ \A m \in Machine :
              \/ after[m] = states[m]
              \/ states[m] = "Idle" /\ after[m] = "SwitchingOFF"
              \/ states[m] = "Sleeping" /\ after[m] = "SwitchingON"
         /\ In(after, "Computing") = In(states, "Computing")
         /\ In(after, "Idle") # {} => left # <<>> /\ demand[Head(left)] <= NotComputing(states)
<1>1. CASE after = AllIdleOff(states)
  <2>1. /\ after \in [Machine -> MachineStates]
        /\ \A m \in Machine : after[m] = IF states[m] = "Idle" THEN "SwitchingOFF" ELSE states[m]
    BY <1>1 DEF AllIdleOff, Becoming, In, MachineStates
  <2>2. In(after, "Idle") = {} /\ In(after, "Computing") = In(states, "Computing")
    BY <2>1 DEF In
  <2> QED BY <2>1, <2>2
<1>2. CASE /\ left # <<>> /\ demand[Head(left)] <= NotComputing(states)
           /\ after = WakeFor(demand[Head(left)], states)
  <2>1. PICK S \in SUBSET In(states, "Sleeping") : after = Becoming(states, S, "SwitchingON")
    BY <1>2 DEF WakeFor, First
  <2>2. /\ after \in [Machine -> MachineStates]
        /\ \A m \in Machine : \/ after[m] = states[m]
                              \/ states[m] = "Sleeping" /\ after[m] = "SwitchingON"
    BY <2>1 DEF Becoming, In, MachineStates
  <2>3. In(after, "Computing") = In(states, "Computing")
    BY <2>2 DEF In
  <2> QED BY <1>2, <2>2, <2>3
<1> QED BY <1>1, <1>2 DEF SwitchMachines, ForHead

\* The account of a machine stays right when a job is started on it, or when it
\* is ordered to switch.
LEMMA MachineAgrees ==
  ASSUME NEW m, NEW p, NEW t, NEW q, NEW s \in MachineStates, Agrees(m, s, p, t, q),
         NEW s2, s2 = s \/ (s = "Idle" /\ s2 = "Computing"),
         NEW s3, \/ s3 = s2
                 \/ s2 = "Idle" /\ s3 = "SwitchingOFF"
                 \/ s2 = "Sleeping" /\ s3 = "SwitchingON",
         NEW t2, t2 = (CASE s3 = "SwitchingON" /\ s # "SwitchingON" -> "ComputeFast"
                         [] s3 = "SwitchingOFF" /\ s # "SwitchingOFF" -> "Sleep"
                         [] OTHER -> t)
  PROVE  Agrees(m, s3, p, t2, q)
BY DEF Agrees, MachineStates

\* A pass over the queue, with the machines in the given states.
LEMMA SleepPass ==
  ASSUME Inv, NEW queue \in Seq(Job), Distinct(queue),
         NEW Q, Q = {queue[i] : i \in DOMAIN queue}, NEW a, NEW H, H = Holding(inbox', status, place),
         Announced(inbox', Q, status), Placed(Q, status, place), Apart(H, place),
         WrapperRight(a, Q, H, place),
         NEW states \in [Machine -> MachineStates], In(states, "Computing") = Of(H, place),
         \A m \in Machine : Agrees(m, states[m], pstate[m], target[m], inbox'),
         ScheduleJobs(queue, states, a), openJobs' = {}
  PROVE  /\ JobsInv' /\ WrapperInv'
         /\ StatusOK' /\ PlaceOK' /\ demand' = demand
         /\ protect' = protect /\ raised' = raised
         /\ SleepTypeOK' /\ SleepInv' /\ HeadWaits'
<1>1. PICK n \in 0 .. Len(queue) :
        \E starts \in [{queue[i] : i \in 1 .. n} -> SUBSET In(states, "Idle")] :
          LET left  == SubSeq(queue, n + 1, Len(queue))
              after == SwitchMachines(left, Becoming(states, Used(starts), "Computing"))
          IN  /\ AllocateHeads(queue, n, starts, In(states, "Idle"))
              /\ open_jobs' = left
              /\ machines_states' = after
              /\ Ordered(states, after)
              /\ execute_jobs(starts, a)
              /\ UNCHANGED pstate
  BY DEF ScheduleJobs
<1> DEFINE D == {queue[i] : i \in 1 .. n}
<1>2. PICK starts \in [D -> SUBSET In(states, "Idle")] :
        /\ AllocateHeads(queue, n, starts, In(states, "Idle"))
        /\ open_jobs' = SubSeq(queue, n + 1, Len(queue))
        /\ machines_states' = SwitchMachines(open_jobs', Becoming(states, Used(starts), "Computing"))
        /\ Ordered(states, machines_states')
        /\ execute_jobs(starts, a)
        /\ pstate' = pstate
  BY <1>1
<1>3. /\ open_jobs' \in Seq(Job) /\ Distinct(open_jobs')
      /\ {open_jobs'[i] : i \in DOMAIN open_jobs'} = Q \ D
  <2>1. PICK left : left = SubSeq(queue, n + 1, Len(queue))
    OBVIOUS
  <2>2. left \in Seq(Job) /\ Distinct(left)
    BY <2>1, QueueLeft
  <2>3. JobsOf(left) = JobsOf(queue) \ HeadsOf(queue, n)
    BY <2>1, QueueLeft
  <2>4. {left[i] : i \in DOMAIN left} = Q \ D
    BY <2>3 DEF JobsOf, HeadsOf
  <2>5. open_jobs' = left
    BY <1>2, <2>1
  <2> QED BY <2>2, <2>4, <2>5
<1>4. \A j, k \in DOMAIN starts : j # k => starts[j] \cap starts[k] = {}
  BY <1>2, HeadsStart
<1>5. /\ DOMAIN starts = D /\ D \subseteq Q /\ Q \in SUBSET Job
      /\ Used(starts) \subseteq In(states, "Idle")
      /\ \A j \in DOMAIN starts : starts[j] \subseteq Machine \ Of(H, place)
  <2>1. DOMAIN queue = 1 .. Len(queue) /\ Len(queue) \in Nat
        /\ \A i \in DOMAIN queue : queue[i] \in Job
    BY LenProperties, ElementOfSeq
  <2>2. D \subseteq Q /\ Q \in SUBSET Job
    BY <2>1
  <2>3. In(states, "Idle") \subseteq Machine \ Of(H, place)
    BY DEF In
  <2> QED BY <2>2, <2>3 DEF Used
<1> DEFINE Q2 == Q \ D
<1> HIDE DEF D, Q2
<1>6. DOMAIN starts \subseteq Q /\ Q2 = Q \ DOMAIN starts
  BY <1>5 DEF Q2
<1>7. StatusOK /\ PlaceOK /\ {protect, raised} \subseteq BOOLEAN /\ ~raised
  BY DEF Inv, LauncherTypeOK, PlatformTypeOK, StatusOK, PlaceOK, ValidatingTypeOK, WrapperInv
<1>8. /\ Announced(inbox', Q2, status')
      /\ Placed(Q2, status', place')
      /\ Apart(Held', place')
      /\ Busy' = Of(H, place) \cup Used(starts)
      /\ protect' = protect /\ raised' = raised
      /\ WrapperRight(AsBefore', Q2, Held', place')
      /\ StatusOK' /\ PlaceOK' /\ demand' = demand
  BY ONLY <1>2, <1>4, <1>5, <1>6, <1>7, ExecuteJobs,
          H = Holding(inbox', status, place),
          Announced(inbox', Q, status), Placed(Q, status, place), Apart(H, place),
          WrapperRight(a, Q, H, place)
<1>9. Queued' = Q2
  BY <1>3 DEF Queued, Q2
<1>10. JobsInv' /\ WrapperInv'
  <2>1. JobsInv'
    BY <1>8, <1>9 DEF JobsInv
  <2>2. ~raised'
    BY <1>7, <1>8
  <2>3. WrapperRight(AsBefore', Queued', Held', place')
    BY <1>8, <1>9, Zenon
  <2>4. WrapperInv'
    BY <1>8, <2>2, <2>3 DEF WrapperInv, WrapperRight
  <2> QED BY <2>1, <2>4
<1> DEFINE states2 == Becoming(states, Used(starts), "Computing")
<1>11. /\ states2 \in [Machine -> MachineStates]
       /\ \A m \in Machine : states2[m] = IF m \in Used(starts) THEN "Computing" ELSE states[m]
       /\ In(states2, "Computing") = In(states, "Computing") \cup Used(starts)
  <2>1. states2 \in [Machine -> MachineStates]
    BY DEF Becoming, MachineStates
  <2>2. \A m \in Machine : states2[m] = IF m \in Used(starts) THEN "Computing" ELSE states[m]
    BY DEF Becoming
  <2> QED BY <1>5, <2>1, <2>2 DEF In
<1> HIDE DEF states2
<1>12. machines_states' = SwitchMachines(open_jobs', states2)
  BY <1>2 DEF states2
<1>13. /\ machines_states' \in [Machine -> MachineStates]
       /\ \A m \in Machine :
            \/ machines_states'[m] = states2[m]
            \/ states2[m] = "Idle" /\ machines_states'[m] = "SwitchingOFF"
            \/ states2[m] = "Sleeping" /\ machines_states'[m] = "SwitchingON"
       /\ In(machines_states', "Computing") = In(states2, "Computing")
       /\ In(machines_states', "Idle") # {} =>
            open_jobs' # <<>> /\ demand[Head(open_jobs')] <= NotComputing(states2)
  BY ONLY <1>11, <1>12, MachinesSwitched
<1>14. In(machines_states', "Computing") = Busy'
  BY <1>8, <1>11, <1>13
<1>15. /\ target' \in [Machine -> PStates]
       /\ \A m \in Machine : target'[m] =
            CASE machines_states'[m] = "SwitchingON" /\ states[m] # "SwitchingON" -> "ComputeFast"
              [] machines_states'[m] = "SwitchingOFF" /\ states[m] # "SwitchingOFF" -> "Sleep"
              [] OTHER -> target[m]
  <2>1. target \in [Machine -> PStates]
    BY DEF Inv, LauncherTypeOK, SleepTypeOK
  <2> QED BY <1>2, <2>1 DEF Ordered, PStates
<1>16. ASSUME NEW m \in Machine
       PROVE  Agrees(m, machines_states'[m], pstate'[m], target'[m], inbox')
  <2>1. states[m] \in MachineStates /\ pstate'[m] = pstate[m]
    BY <1>2
  <2>2. states2[m] = states[m] \/ (states[m] = "Idle" /\ states2[m] = "Computing")
    BY <1>5, <1>11 DEF In
  <2> QED BY <1>13, <1>15, <2>1, <2>2, MachineAgrees
<1>17. SleepTypeOK'
  <2>1. pstate' \in [Machine -> PStates]
    BY <1>2 DEF Inv, LauncherTypeOK, SleepTypeOK
  <2> QED BY <1>3, <1>13, <1>15, <2>1 DEF SleepTypeOK
<1>18. SleepInv'
  BY <1>3, <1>14, <1>16 DEF SleepInv, Distinct, In
<1>19. HeadWaits'
  <2>1. NotComputing(machines_states') = NotComputing(states2)
    BY <1>13 DEF NotComputing
  <2> QED BY <1>8, <1>13, <2>1 DEF HeadWaits, In, NotComputing
<1> QED BY <1>8, <1>10, <1>17, <1>18, <1>19

\* The invariant after a callback of FcfsSchedSleep, from its parts.
LEMMA SleepStep ==
  ASSUME Inv, scheduler = "FcfsSchedSleep", scheduler' = scheduler,
         inbox' \in Seq(Message), \A i \in DOMAIN inbox' : Has(inbox, inbox'[i]),
         loop' = "scheduler",
         JobsInv', WrapperInv', StatusOK', PlaceOK', demand' = demand,
         protect' = protect, raised' = raised,
         OthersThanSleep, SleepTypeOK', SleepInv',
         (open_jobs' = <<>> /\ place' = NoPlace) \/ HeadWaits'
  PROVE  Inv'
<1> USE DEF OthersThanSleep, filler_vars, external_vars
<1>1. AtRest /\ FillerTypeOK
  BY DEF Inv, LauncherTypeOK
<1>2. FillerTypeOK'
  BY <1>1 DEF FillerTypeOK
<1>3. LauncherTypeOK'
  <2>1. WrapperRight(AsBefore', Queued', Held', place')
    BY DEF WrapperInv, WrapperRight
  <2> QED BY <1>2, <2>1, TypesKept
<1>4. AtRest'
  BY <1>1 DEF AtRest, Has
<1>5. FillerInv' /\ UndoneInv'
  BY DEF FillerInv, UndoneInv
<1> QED BY <1>3, <1>4, <1>5 DEF Inv

\* What it knows, before a callback.
LEMMA SleepKnows ==
  ASSUME Inv, scheduler = "FcfsSchedSleep"
  PROVE  /\ openJobs = {} /\ Queued = JobsOf(open_jobs)
         /\ open_jobs \in Seq(Job) /\ Distinct(open_jobs)
         /\ machines_states \in [Machine -> MachineStates]
         /\ In(machines_states, "Computing") = Busy /\ Busy \subseteq Machine
         /\ \A m \in Machine : Agrees(m, machines_states[m], pstate[m], target[m], inbox)
         /\ Placed(Queued, status, place) /\ Apart(Held, place)
<1>1. openJobs = {} /\ Queued = JobsOf(open_jobs)
  BY DEF Inv, AtRest, Queued, JobsOf
<1>2. Busy \subseteq Machine
  BY DEF Inv, LauncherTypeOK, PlatformTypeOK, Busy, Of, Held, Holding
<1> QED BY <1>1, <1>2 DEF Inv, LauncherTypeOK, SleepTypeOK, SleepInv, JobsInv

\* An event about a job says nothing of the machines.
LEMMA SwitchesStay ==
  ASSUME Inv, NEW type \in {"JOB_SUBMITTED", "JOB_COMPLETED"}, NEW x, Handling(type, x),
         NEW m, NEW s, NEW p, NEW t, Agrees(m, s, p, t, inbox)
  PROVE  Agrees(m, s, p, t, inbox')
<1>1. \A e : Has(inbox, e) <=> (Has(inbox', e) \/ e = <<type, x>>)
  BY HandledEvent
<1>2. \A k \in {"switched_off", "switched_on"} : <<k, m>> # <<type, x>>
  OBVIOUS
<1> QED BY <1>1, <1>2 DEF Agrees

LEMMA QueueAppended ==
  ASSUME NEW queue \in Seq(Job), NEW j \in Job, Distinct(queue), j \notin JobsOf(queue)
  PROVE  /\ Append(queue, j) \in Seq(Job) /\ Distinct(Append(queue, j))
         /\ JobsOf(Append(queue, j)) = JobsOf(queue) \cup {j}
<1>1. /\ Append(queue, j) \in Seq(Job)
      /\ DOMAIN queue = 1 .. Len(queue) /\ Len(queue) \in Nat
      /\ DOMAIN Append(queue, j) = 1 .. Len(queue) + 1
      /\ \A i \in 1 .. Len(queue) : Append(queue, j)[i] = queue[i]
      /\ Append(queue, j)[Len(queue) + 1] = j
  BY AppendProperties, LenProperties
<1>2. Distinct(Append(queue, j))
  BY <1>1 DEF Distinct, JobsOf
<1>3. JobsOf(Append(queue, j)) = JobsOf(queue) \cup {j}
  <2>1. JobsOf(Append(queue, j)) \subseteq JobsOf(queue) \cup {j}
    BY <1>1 DEF JobsOf
  <2>2. j \in JobsOf(Append(queue, j))
    BY <1>1 DEF JobsOf
  <2>3. JobsOf(queue) \subseteq JobsOf(Append(queue, j))
    BY <1>1 DEF JobsOf
  <2> QED BY <2>1, <2>2, <2>3
<1> QED BY <1>1, <1>2, <1>3

LEMMA SleepSubmission ==
  ASSUME Inv, scheduler = "FcfsSchedSleep", scheduler' = scheduler,
         NEW j \in Job, Handling("JOB_SUBMITTED", j), SleepOnJobSubmission(j), OthersThanSleep
  PROVE  Inv'
<1> USE DEF OthersThanSleep, filler_vars
<1>1. /\ inbox' \in Seq(Message) /\ \A i \in DOMAIN inbox' : Has(inbox, inbox'[i])
      /\ loop' = "scheduler"
  BY HandledEvent DEF Handling
<1>2. /\ openJobs = {} /\ Queued = JobsOf(open_jobs)
      /\ open_jobs \in Seq(Job) /\ Distinct(open_jobs)
      /\ machines_states \in [Machine -> MachineStates]
      /\ In(machines_states, "Computing") = Busy
      /\ \A m \in Machine : Agrees(m, machines_states[m], pstate[m], target[m], inbox)
      /\ Apart(Held, place)
  BY SleepKnows
<1>3. \A m \in Machine : Agrees(m, machines_states[m], pstate[m], target[m], inbox')
  BY <1>2, SwitchesStay
<1>4. CASE demand[j] > N
  <2>1. /\ RefuseJob(j) /\ Seen(AfterSubmission(j)) /\ UNCHANGED <<sleep_vars, pstate_vars>>
    BY <1>4 DEF SleepOnJobSubmission
  <2>2. Queued' = Queued
    BY <2>1 DEF Queued, sleep_vars
  <2>3. /\ JobsInv' /\ WrapperInv' /\ Busy' = Busy
        /\ StatusOK' /\ PlaceOK' /\ demand' = demand /\ place' = place
        /\ protect' = protect /\ raised' = raised
    BY <2>1, <2>2, Refused
  <2>4. SleepTypeOK' /\ SleepInv'
    <3>1. SleepTypeOK
      BY DEF Inv, LauncherTypeOK
    <3>2. SleepTypeOK'
      BY <2>1, <3>1 DEF SleepTypeOK, sleep_vars, pstate_vars
    <3>3. SleepInv'
      BY <1>2, <1>3, <2>1, <2>3 DEF SleepInv, sleep_vars, pstate_vars, In, Distinct
    <3> QED BY <3>2, <3>3
  <2>5. (open_jobs' = <<>> /\ place' = NoPlace) \/ HeadWaits'
    <3>1. HeadWaits' <=> HeadWaits
      BY <2>1, <2>3 DEF HeadWaits, In, NotComputing, sleep_vars
    <3> QED BY <2>1, <2>3, <3>1 DEF Inv, UndoneInv, sleep_vars
  <2> QED BY <1>1, <2>3, <2>4, <2>5, SleepStep
<1>5. CASE ~(demand[j] > N)
  <2>1. /\ Announced(inbox', Queued \cup {j}, status) /\ Placed(Queued \cup {j}, status, place)
        /\ Held = Holding(inbox', status, place)
        /\ j \notin Queued
        /\ WrapperRight(AfterSubmission(j), Queued \cup {j}, Held, place)
    BY HandledSubmission, SubmissionAccount
  <2>2. PICK queue : queue = Append(open_jobs, j)
    OBVIOUS
  <2>3. /\ queue \in Seq(Job) /\ Distinct(queue) /\ JobsOf(queue) = Queued \cup {j}
    BY <1>2, <2>1, <2>2, QueueAppended
  <2>4. ScheduleJobs(queue, machines_states, AfterSubmission(j)) /\ openJobs' = {}
    BY <1>2, <1>5, <2>2 DEF SleepOnJobSubmission
  <2>5. PICK Q : Q = Queued \cup {j}
    OBVIOUS
  <2>6. Q = {queue[i] : i \in DOMAIN queue} /\ In(machines_states, "Computing") = Of(Held, place)
    BY <1>2, <2>3, <2>5 DEF JobsOf, Busy
  <2>7. /\ Announced(inbox', Q, status) /\ Placed(Q, status, place)
        /\ WrapperRight(AfterSubmission(j), Q, Held, place)
    BY <2>1, <2>5
  <2>8. /\ JobsInv' /\ WrapperInv'
        /\ StatusOK' /\ PlaceOK' /\ demand' = demand
        /\ protect' = protect /\ raised' = raised
        /\ SleepTypeOK' /\ SleepInv' /\ HeadWaits'
    BY <1>2, <1>3, <2>1, <2>3, <2>4, <2>6, <2>7, SleepPass
  <2> QED BY <1>1, <2>8, SleepStep
<1> QED BY <1>4, <1>5

LEMMA SleepCompletion ==
  ASSUME Inv, scheduler = "FcfsSchedSleep", scheduler' = scheduler,
         NEW j \in Job, Handling("JOB_COMPLETED", j), SleepOnJobCompletion(j), OthersThanSleep
  PROVE  Inv'
<1> USE DEF OthersThanSleep, filler_vars
<1>1. /\ inbox' \in Seq(Message) /\ \A i \in DOMAIN inbox' : Has(inbox, inbox'[i])
      /\ loop' = "scheduler"
  BY HandledEvent DEF Handling
<1>2. /\ openJobs = {} /\ Queued = JobsOf(open_jobs)
      /\ open_jobs \in Seq(Job) /\ Distinct(open_jobs)
      /\ machines_states \in [Machine -> MachineStates]
      /\ In(machines_states, "Computing") = Busy
      /\ \A m \in Machine : Agrees(m, machines_states[m], pstate[m], target[m], inbox)
  BY SleepKnows
<1>3. PICK Q : Q = Queued
  OBVIOUS
<1>4. PICK H : H = Held \ {j}
  OBVIOUS
<1>5. /\ Announced(inbox', Q, status) /\ H = Holding(inbox', status, place)
      /\ Of(H, place) = Busy \ place[j]
      /\ Placed(Q, status, place) /\ Apart(H, place)
      /\ place[j] \subseteq Busy /\ Busy \subseteq Machine
      /\ WrapperRight(AfterCompletion(j), Q, H, place)
      /\ Q = {open_jobs[i] : i \in DOMAIN open_jobs}
  BY <1>2, <1>3, <1>4, CompletionKnows DEF JobsOf
<1>6. PICK states : states = Becoming(machines_states, place[j], "Idle")
  OBVIOUS
<1>7. /\ states \in [Machine -> MachineStates]
      /\ \A m \in Machine : states[m] = IF m \in place[j] THEN "Idle" ELSE machines_states[m]
  BY <1>2, <1>6 DEF Becoming, MachineStates
<1>8. In(states, "Computing") = Of(H, place)
  BY <1>2, <1>5, <1>7 DEF In
<1>9. ASSUME NEW m \in Machine
      PROVE  Agrees(m, states[m], pstate[m], target[m], inbox')
  <2>1. Agrees(m, machines_states[m], pstate[m], target[m], inbox')
    BY <1>2, SwitchesStay
  <2>2. states[m] = machines_states[m] \/ (machines_states[m] = "Computing" /\ states[m] = "Idle")
    BY <1>2, <1>5, <1>7 DEF In
  <2> QED BY <2>1, <2>2 DEF Agrees
<1>10. ScheduleJobs(open_jobs, states, AfterCompletion(j)) /\ openJobs' = {}
  BY <1>2, <1>6 DEF SleepOnJobCompletion
<1>11. /\ JobsInv' /\ WrapperInv'
       /\ StatusOK' /\ PlaceOK' /\ demand' = demand
       /\ protect' = protect /\ raised' = raised
       /\ SleepTypeOK' /\ SleepInv' /\ HeadWaits'
  BY <1>2, <1>5, <1>7, <1>8, <1>9, <1>10, SleepPass
<1> QED BY <1>1, <1>11, SleepStep

\* The acknowledgement of a switch that was ordered.
LEMMA PStateKeeps ==
  ASSUME Inv, onPStateChanged, UNCHANGED scheduler
  PROVE  Inv'
<1> USE DEF OthersThanSleep, filler_vars
<1>1. PICK m \in Machine, type \in {"switched_off", "switched_on"}, p \in {"Sleep", "ComputeFast"} :
        /\ type = "switched_off" <=> p = "Sleep"
        /\ Handling(type, m) /\ onMachinePStateChanged(m, p)
  BY DEF onPStateChanged
<1>2. Expected(m, p) /\ OthersThanSleep
  BY <1>1 DEF onPStateChanged, onMachinePStateChanged
<1>3. scheduler = "FcfsSchedSleep"
  BY <1>2 DEF Inv, AtRest, Expected
<1>4. /\ inbox' \in Seq(Message) /\ \A i \in DOMAIN inbox' : Has(inbox, inbox'[i])
      /\ loop' = "scheduler"
      /\ \A e : Has(inbox, e) <=> (Has(inbox', e) \/ e = <<type, m>>)
      /\ ~Has(inbox', <<type, m>>)
  <2>1. type \in OnceTypes
    BY DEF OnceTypes
  <2> QED BY <1>1, <2>1, HandledEvent DEF Handling
<1>5. /\ openJobs = {} /\ Queued = JobsOf(open_jobs)
      /\ open_jobs \in Seq(Job) /\ Distinct(open_jobs)
      /\ machines_states \in [Machine -> MachineStates]
      /\ In(machines_states, "Computing") = Busy
      /\ \A x \in Machine : Agrees(x, machines_states[x], pstate[x], target[x], inbox)
      /\ Placed(Queued, status, place) /\ Apart(Held, place)
  BY <1>3, SleepKnows
<1>6. PICK Q : Q = Queued
  OBVIOUS
<1>7. /\ Announced(inbox', Q, status) /\ Held = Holding(inbox', status, place)
      /\ Placed(Q, status, place)
      /\ WrapperRight(AsBefore, Q, Held, place)
      /\ Q = {open_jobs[i] : i \in DOMAIN open_jobs}
  <2>1. type \notin {"JOB_SUBMITTED", "JOB_COMPLETED"}
    OBVIOUS
  <2> QED BY <1>1, <1>5, <1>6, <2>1, HandledOther DEF JobsOf, Inv, WrapperInv
<1>8. PICK states :
        states = Becoming(machines_states, {m}, IF p = "Sleep" THEN "Sleeping" ELSE "Idle")
  OBVIOUS
<1>9. /\ states \in [Machine -> MachineStates]
      /\ states[m] = IF p = "Sleep" THEN "Sleeping" ELSE "Idle"
      /\ \A x \in Machine \ {m} : states[x] = machines_states[x]
  BY <1>5, <1>8 DEF Becoming, MachineStates
<1>10. In(states, "Computing") = Of(Held, place)
  <2>1. machines_states[m] # "Computing"
    BY <1>2 DEF Expected
  <2> QED BY <1>5, <1>9, <2>1 DEF In, Busy
<1>11. ASSUME NEW x \in Machine
       PROVE  Agrees(x, states[x], pstate[x], target[x], inbox')
  <2>1. Agrees(x, machines_states[x], pstate[x], target[x], inbox)
    BY <1>5
  <2>2. CASE x # m
    BY <1>4, <1>9, <2>1, <2>2 DEF Agrees
  <2>3. CASE x = m
    <3>1. /\ Has(inbox, <<type, m>>)
          /\ \A t : Has(inbox', <<t, m>>) => t # type /\ Has(inbox, <<t, m>>)
      BY <1>4
    <3>2. CASE p = "Sleep"
      BY <1>1, <1>2, <1>9, <2>1, <2>3, <3>1, <3>2 DEF Agrees, Expected
    <3>3. CASE p = "ComputeFast"
      BY <1>1, <1>2, <1>9, <2>1, <2>3, <3>1, <3>3 DEF Agrees, Expected
    <3> QED BY <3>2, <3>3
  <2> QED BY <2>2, <2>3
<1>12. ScheduleJobs(open_jobs, states, AsBefore) /\ openJobs' = {}
  BY <1>1, <1>2, <1>5, <1>8 DEF onMachinePStateChanged
<1>13. /\ JobsInv' /\ WrapperInv'
       /\ StatusOK' /\ PlaceOK' /\ demand' = demand
       /\ protect' = protect /\ raised' = raised
       /\ SleepTypeOK' /\ SleepInv' /\ HeadWaits'
  BY <1>5, <1>7, <1>9, <1>10, <1>11, <1>12, SleepPass
<1> QED BY <1>2, <1>3, <1>4, <1>13, SleepStep

-----------------------------------------------------------------------------
\* Every step keeps the invariant.

LEMMA JobCallbackKeeps ==
  ASSUME Inv, NEW j \in Job, onJobSubmission(j) \/ onJobCompletion(j), UNCHANGED scheduler
  PROVE  Inv'
<1>1. scheduler \in {"FillerSched", "FillerSchedWithEvents", "FcfsSchedSleep"}
  BY LauncherAssumption DEF Inv, LauncherTypeOK
<1>2. CASE onJobSubmission(j)
  BY <1>1, <1>2, FillerSubmission, EventsSubmission, SleepSubmission DEF onJobSubmission
<1>3. CASE onJobCompletion(j)
  BY <1>1, <1>3, FillerCompletion, EventsCompletion, SleepCompletion DEF onJobCompletion
<1> QED BY <1>2, <1>3

LEMMA NextKeeps ==
  ASSUME Inv, [Next]_vars
  PROVE  Inv'
<1>1. CASE Next
  <2>1. UNCHANGED scheduler /\ (Simulator \/ Callbacks)
    BY <1>1 DEF Next
  <2>2. CASE Simulator
    BY <2>1, <2>2, SimulatorKeeps
  <2>3. CASE Callbacks
    BY <2>1, <2>3, JobCallbackKeeps, MachineEventKeeps, PStateKeeps, NoMoreEventsKeeps
       DEF Callbacks
  <2> QED BY <2>1, <2>2, <2>3
<1>2. CASE UNCHANGED vars
  <2>1. /\ UNCHANGED <<status, demand, place, validating_vars, scheduler, sched_vars>>
        /\ inbox' = inbox /\ loop' = loop
    BY <1>2 DEF vars, platform_vars
  <2>2. Queued' = Queued
    BY <2>1 DEF Queued, sched_vars, filler_vars, sleep_vars
  <2>3. inbox' \in Seq(Message) /\ loop' \in {"simulator", "scheduler"} /\ Once(inbox')
    BY <2>1 DEF Inv, LauncherTypeOK, PlatformTypeOK, Message, JobsInv, Announced
  <2>4. FillerTypeOK' /\ SleepTypeOK'
    BY <2>1 DEF Inv, LauncherTypeOK, FillerTypeOK, SleepTypeOK, sched_vars, filler_vars,
         external_vars, sleep_vars, pstate_vars
  <2>5. JobsInv' /\ WrapperInv' /\ Busy' = Busy /\ LauncherTypeOK'
    BY <2>1, <2>2, <2>3, <2>4, JobsRest
  <2>6. \A i \in DOMAIN inbox' : Has(inbox, inbox'[i])
    BY <2>1 DEF Has
  <2>7. AtRest' /\ FillerInv' /\ SleepInv' /\ UndoneInv'
    BY <2>1, <2>5, <2>6, SchedulerRests DEF sched_vars, validating_vars
  <2> QED BY <2>5, <2>7 DEF Inv
<1> QED BY <1>1, <1>2

LEMMA Invariant == Spec => []Inv
<1>1. Inv /\ [Next]_vars => Inv'
  BY NextKeeps
<1> QED BY InitInv, <1>1, PTL DEF Spec

-----------------------------------------------------------------------------
\* The properties of Launcher

LEMMA OccupiedIsBusy == Occupied = Busy
BY DEF Occupied, Busy, Of, Held, Holding, Has

\* The variables of the three schedulers, of the wrapper and of the simulator
\* stay in their types, and the loaded scheduler is one of those to choose from
\* (launcher.py, validatingmachine.py, fillerSched.py, fillerSchedWithEvents.py,
\* fcfsSchedSleep.py).
THEOREM LauncherTyped == Spec => []LauncherTypeOK
<1>1. Inv => LauncherTypeOK
  BY DEF Inv
<1> QED BY <1>1, Invariant, PTL

\* Whatever the number of machines and jobs: no two running jobs share a machine
\* under any of the three schedulers, execute_jobs_valid of the validating
\* machine never raises, and the wrapper knows the machines of every running job.
THEOREM AlwaysExclusive == Spec => []Exclusive
<1>1. Inv => Exclusive
  <2> SUFFICES ASSUME Inv PROVE Exclusive
    OBVIOUS
  <2>1. /\ Placed(Queued, status, place) /\ Apart(Held, place)
        /\ ~raised /\ WrapperRight(AsBefore, Queued, Held, place)
    BY DEF Inv, JobsInv, WrapperInv
  <2>2. \A j \in Job : status[j] = "running" => j \in Held
    BY <2>1 DEF Held, Holding, Placed
  <2>3. \A j, k \in Job : status[j] = "running" /\ status[k] = "running" /\ j # k =>
          place[j] \cap place[k] = {}
    BY <2>1, <2>2 DEF Apart
  <2>4. WrapperAgrees
    <3> SUFFICES ASSUME protect PROVE WrapperAgrees
      BY DEF WrapperAgrees
    <3>1. /\ availableMachines = Machine \ Of(Held, place)
          /\ DOMAIN previousAllocations = Held
          /\ \A j \in Held : previousAllocations[j] = place[j]
      BY <2>1 DEF WrapperRight, Right, AsBefore
    <3>2. Of(Held, place) = UNION {previousAllocations[j] : j \in DOMAIN previousAllocations}
      BY <3>1 DEF Of
    <3> QED BY <2>2, <3>1, <3>2 DEF WrapperAgrees
  <2> QED BY <2>1, <2>3, <2>4 DEF Exclusive
<1> QED BY <1>1, Invariant, PTL

\* The fillers take for available what no job holds and no event has marked
\* unavailable: a completion does not give back a machine marked unavailable
\* meanwhile, and an event does not offer one on which a job still runs
\* (onJobCompletion and onNotifyEventMachineAvailable of fillerSchedWithEvents.py).
THEOREM AvailableIsUsable == Spec => []AvailableMeansUsable
<1>1. Inv => AvailableMeansUsable
  BY OccupiedIsBusy DEF Inv, FillerInv, AvailableMeansUsable
<1> QED BY <1>1, Invariant, PTL

\* FcfsSchedSleep's account of a machine is the simulator's, through every switch
\* that is ordered, under way, acknowledged and handled: onMachinePStateChanged of
\* fcfsSchedSleep.py never meets a state it does not expect.
THEOREM SleepAlwaysAgrees == Spec => []SleepAgrees
<1>1. Inv => SleepAgrees
  <2> SUFFICES ASSUME Inv, scheduler = "FcfsSchedSleep" PROVE SleepAgrees
    BY DEF SleepAgrees
  <2>1. ASSUME NEW m \in Machine
        PROVE  /\ machines_states[m] \in MachineStates
               /\ Agrees(m, machines_states[m], pstate[m], target[m], inbox)
               /\ machines_states[m] = "Computing" <=> m \in Occupied
    BY SleepKnows, OccupiedIsBusy DEF In
  <2> QED BY <2>1 DEF SleepAgrees, Agrees, Has, MachineStates
<1> QED BY <1>1, Invariant, PTL

\* Between two messages no job waits that the fillers could start, and no machine
\* of FcfsSchedSleep idles but for a job at the head that waits for others to wake
\* (scheduleJobs of fillerSched.py, fillerSchedWithEvents.py and fcfsSchedSleep.py).
THEOREM NothingIsLeftUndone == Spec => []NothingLeftUndone
<1>1. Inv => NothingLeftUndone
  <2> SUFFICES ASSUME Inv, loop = "simulator" PROVE NothingLeftUndone
    BY DEF NothingLeftUndone
  <2>1. scheduler \in {"FillerSched", "FillerSchedWithEvents", "FcfsSchedSleep"} /\ UndoneInv
    BY LauncherAssumption DEF Inv, LauncherTypeOK
  <2>2. CASE scheduler = "FcfsSchedSleep"
    BY <2>1, <2>2 DEF UndoneInv, HeadWaits, NothingLeftUndone
  <2>3. CASE scheduler # "FcfsSchedSleep"
    BY <2>1, <2>3 DEF UndoneInv, NoneFits, NothingLeftUndone
  <2> QED BY <2>2, <2>3
<1> QED BY <1>1, Invariant, PTL
=============================================================================
