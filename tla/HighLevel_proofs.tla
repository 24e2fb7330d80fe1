-------------------------- MODULE HighLevel_proofs ---------------------------
(***************************************************************************)
(* No assertion of the high-level API fails once the clock has left 0, its *)
(* objects agree with Batsim, and EASY backfilling keeps its promises.     *)
(***************************************************************************)
EXTENDS HighLevel, Sums_proofs

-----------------------------------------------------------------------------
\* What the objects hold

Partial(S) == UNION {[D -> S] : D \in SUBSET Job}

AllocationSet ==
  [job : Job, start : Nat, walltime : Nat, machines : SUBSET Machine, allocated : BOOLEAN]

Pass ==
  [jobs : Seq(Job), jobmap : SUBSET Job, flags : [Job -> {"open", "scheduled", "rejected"}],
   completed : SUBSET Job, allocations : SUBSET AllocationSet, promised : Partial(Nat),
   dead : BOOLEAN, starts : Partial(SUBSET Machine), stopped : BOOLEAN]

Times == {Unit * n : n \in Nat}

\* The allocations are those of the jobs that run, each on machines of its own.
Sound(A) ==
  /\ \A a \in A : /\ a.allocated /\ a.start \in Times /\ a.start <= now
                  /\ a.walltime = requested_time(a.job)
  /\ \A a, b \in A : a # b => a.machines \cap b.machines = {} /\ a.job # b.job

Known(s) ==
  /\ {a.job : a \in s.allocations} = {j \in Job : s.flags[j] = "scheduled"} \ s.completed
  /\ s.jobmap = {j \in ToSet(s.jobs) : s.flags[j] # "rejected"} \ s.completed
  /\ IsInjective(s.jobs)

\* An allocation has the machines its job was started on, in this pass or before.
PlaceIn(s, j) == IF j \in DOMAIN s.starts THEN s.starts[j] ELSE place[j]
Placed(s)     == \A a \in s.allocations : a.machines = PlaceIn(s, a.job)

\* A pass only touches jobs that are open and known.
Touched(s) ==
  /\ \A j \in Job : s.flags[j] # flags[j] =>
       flags[j] = "open" /\ j \in ToSet(s.jobs) /\ j \notin s.completed
  /\ DOMAIN s.starts = {j \in Job : s.flags[j] = "scheduled" /\ flags[j] # "scheduled"}

PassInv(s) ==
  s \in Pass /\ ~s.dead /\ Sound(s.allocations) /\ Known(s) /\ Placed(s) /\ Touched(s)

-----------------------------------------------------------------------------
\* Promises

\* Side by side, there are machines for h whose allocations are over by p.
FreeBy(s, h, M, p) == \A a \in s.allocations :
  a.machines \cap M # {} => estimated_end_time(a) + TIME_DELTA <= p

Wide(h) == {M \in SUBSET Machine : \E m \in Machine : M = Neighbours(m, demand[h])}

ReservableBy(s, h, p) == \E M \in Wide(h) : FreeBy(s, h, M, p)

\* No such machines are free now.
NoRoom(s, h) == \A M \in Wide(h) : \E a \in s.allocations : a.machines \cap M # {}

FirstOpen(s, h) == \E i \in DOMAIN s.jobs :
  s.jobs[i] = h /\ Open(s, h) /\ \A k \in DOMAIN s.jobs : k < i => ~Open(s, s.jobs[k])

Promised(s) == {h \in DOMAIN s.promised : Open(s, h)}

\* A promise is only ever made to the first of the open jobs, and can be kept.
Keepable(s) == \A h \in Promised(s) :
  /\ FirstOpen(s, h) /\ Runnable(s, h)
  /\ now <= s.promised[h] /\ ReservableBy(s, h, s.promised[h])

Waiting(s) == \A h \in Promised(s) : NoRoom(s, h)

-----------------------------------------------------------------------------
\* The invariant

Has(q, e) == \E i \in DOMAIN q : q[i] = e
Once(q)   == \A i, k \in DOMAIN q : q[i] = q[k] => i = k

\* Where job j is on its way, when the messages q are still to be handled.
Life(s, q, j) ==
  \/ /\ status[j] = "future" /\ s.flags[j] = "open" /\ j \notin ToSet(s.jobs)
     /\ j \notin s.completed
     /\ ~Has(q, <<"JOB_SUBMITTED", j>>) /\ ~Has(q, <<"JOB_COMPLETED", j>>)
  \/ /\ status[j] = "waiting" /\ s.flags[j] = "open" /\ j \notin s.completed
     /\ Has(q, <<"JOB_SUBMITTED", j>>) <=> j \notin ToSet(s.jobs)
     /\ ~Has(q, <<"JOB_COMPLETED", j>>)
  \/ /\ status[j] = "rejected" /\ s.flags[j] = "rejected" /\ j \in ToSet(s.jobs)
     /\ j \notin s.completed
     /\ ~Has(q, <<"JOB_SUBMITTED", j>>) /\ ~Has(q, <<"JOB_COMPLETED", j>>)
  \/ /\ status[j] = "running" /\ s.flags[j] = "scheduled" /\ j \in ToSet(s.jobs)
     /\ j \notin s.completed
     /\ ~Has(q, <<"JOB_SUBMITTED", j>>) /\ ~Has(q, <<"JOB_COMPLETED", j>>)
  \/ /\ status[j] = "completed" /\ s.flags[j] = "scheduled" /\ j \in ToSet(s.jobs)
     /\ Has(q, <<"JOB_COMPLETED", j>>) <=> j \notin s.completed
     /\ ~Has(q, <<"JOB_SUBMITTED", j>>)

Lives(s, q) == Once(q) /\ \A j \in Job : Life(s, q, j)

Message == {"JOB_SUBMITTED", "JOB_COMPLETED"} \X Job

Typed ==
  /\ loop \in {"simulator", "scheduler"} /\ inbox \in Seq(Message)
  /\ status \in [Job -> {"future", "waiting", "rejected", "running", "completed"}]
  /\ demand \in Demands /\ walltime \in Walltimes /\ dependencies \in Dependencies
  /\ policy \in Policies /\ now \in Times /\ consumed \in BOOLEAN
  /\ place \in Partial(SUBSET Machine) /\ DOMAIN place = {j \in Job : flags[j] = "scheduled"}

\* What no pass changes.
Fixed == demand \in Demands /\ walltime \in Walltimes /\ now \in Times

\* The clock has left 0, and allocations may start.
Late == now > 0 \/ consumed

\* A job that is started or reserved for, once it comes up.
Startable(s, j) == dependencies_fulfilled(s, j) /\ demand[j] <= N

Timely(s) == Late \/ \A j \in ToSet(s.jobs) : ~Startable(s, j)

\* The iteration that may find the clock at 0 is the first.
Fresh == jobs = <<>> /\ allocations = {} /\ promised = <<>>

Inv ==
  /\ Typed
  /\ ~Late => Fresh
  /\ PassInv(Objects)
  /\ Lives(Objects, inbox)
  /\ policy = "easy" => Keepable(Objects) /\ Waiting(Objects)
  /\ policy # "easy" => promised = <<>>

\* The first iteration has failed, and the loop stands.
Broken == dead /\ now = 0 /\ ~consumed /\ loop = "scheduler" /\ promised = <<>>

-----------------------------------------------------------------------------
\* Numbers, partial functions and lists

\* The sizes of the jobs, and the times.
LEMMA Sizes ==
  ASSUME Fixed
  PROVE  /\ N \in Nat \ {0} /\ Unit \in Nat /\ Unit > 1 /\ TIME_DELTA = 1
         /\ now \in Nat
         /\ \A j \in Job : /\ demand[j] \in Nat \ {0} /\ requested_time(j) \in Nat
                           /\ requested_time(j) \in Times /\ requested_time(j) > 0
<1>1. /\ N \in Nat \ {0} /\ Unit \in Nat /\ Unit > 1 /\ TIME_DELTA = 1
      /\ demand \in [Job -> Nat \ {0}] /\ walltime \in [Job -> Nat \ {0}]
  BY PlatformAssumption, HighLevelAssumption DEF TIME_DELTA, Fixed
<1>2. \A n \in Nat : Unit * n \in Nat
  BY <1>1
<1>3. now \in Nat
  BY <1>2 DEF Times, Fixed
<1>4. ASSUME NEW j \in Job
      PROVE  requested_time(j) \in Nat /\ requested_time(j) \in Times /\ requested_time(j) > 0
  <2>1. walltime[j] \in Nat /\ walltime[j] > 0 /\ requested_time(j) = Unit * walltime[j]
    BY <1>1 DEF requested_time
  <2>2. \A x, y \in Nat : x > 0 /\ y > 0 => x * y > 0
    OBVIOUS
  <2>3. Unit * walltime[j] > 0
    BY <1>1, <2>1, <2>2
  <2> QED
    BY <1>2, <2>1, <2>3 DEF Times
<1> QED
  BY <1>1, <1>3, <1>4

\* Times are a multiple of Unit apart.
LEMMA TimesAdd ==
  ASSUME NEW x \in Times, NEW y \in Times
  PROVE  x + y \in Times
<1>1. PICK m \in Nat : x = Unit * m
  BY DEF Times
<1>2. PICK n \in Nat : y = Unit * n
  BY DEF Times
<1>3. Unit \in Nat
  BY HighLevelAssumption
<1>4. Unit * m + Unit * n = Unit * (m + n)
  BY <1>3
<1>5. m + n \in Nat
  OBVIOUS
<1> QED
  BY <1>1, <1>2, <1>4, <1>5 DEF Times

LEMMA TimesApart ==
  ASSUME NEW x \in Times, NEW y \in Times, x < y
  PROVE  x + Unit <= y
<1>1. PICK m \in Nat : x = Unit * m
  BY DEF Times
<1>2. PICK n \in Nat : y = Unit * n
  BY DEF Times
<1>3. Unit \in Nat
  BY HighLevelAssumption
<1>4. m < n
  <2>1. \A a, b, c \in Nat : a <= b => c * a <= c * b
    OBVIOUS
  <2>2. n <= m => Unit * n <= Unit * m
    BY <1>3, <2>1
  <2>3. Unit * n \in Nat /\ Unit * m \in Nat
    BY <1>3
  <2> QED
    BY <1>1, <1>2, <2>2, <2>3
<1>5. Unit * (m + 1) <= Unit * n
  <2>1. \A a, b, c \in Nat : a <= b => c * a <= c * b
    OBVIOUS
  <2> QED
    BY <1>3, <1>4, <2>1
<1>6. Unit * (m + 1) = Unit * m + Unit
  BY <1>3
<1> QED
  BY <1>1, <1>2, <1>5, <1>6

LEMMA Extended ==
  ASSUME NEW S, NEW f \in Partial(S), NEW j \in Job, NEW x \in S
  PROVE  /\ Mapping(f, j, x) \in Partial(S)
         /\ DOMAIN Mapping(f, j, x) = DOMAIN f \cup {j}
         /\ Mapping(f, j, x)[j] = x
         /\ \A k \in DOMAIN f : k # j => Mapping(f, j, x)[k] = f[k]
<1>1. PICK D \in SUBSET Job : f \in [D -> S]
  BY DEF Partial
<1>2. Mapping(f, j, x) = [k \in D \cup {j} |-> IF k = j THEN x ELSE f[k]]
  BY <1>1 DEF Mapping
<1>3. Mapping(f, j, x) \in [D \cup {j} -> S]
  BY <1>1, <1>2
<1>4. D \cup {j} \in SUBSET Job
  OBVIOUS
<1>5. Mapping(f, j, x) \in Partial(S)
  BY <1>3, <1>4 DEF Partial
<1> QED
  BY <1>1, <1>2, <1>5

LEMMA PartialHas ==
  ASSUME NEW S, NEW f \in Partial(S)
  PROVE  DOMAIN f \subseteq Job /\ \A j \in DOMAIN f : f[j] \in S
  BY DEF Partial

LEMMA EmptyPartial ==
  ASSUME NEW S
  PROVE  <<>> \in Partial(S) /\ DOMAIN <<>> = {}
<1>1. <<>> \in [{} -> S]
  OBVIOUS
<1> QED
  BY <1>1 DEF Partial

\* The recursion of Without is the run of the fold.
LEMMA WithoutIs ==
  ASSUME NEW S, NEW q \in Seq(S), NEW D
  PROVE  Without(q, D) = Left(q, D)
<1>0. PICK r \in [0 .. Len(q) -> Seq(S)] : LeftRun(r, q, D)
  BY LeftSteps
<1>1. /\ r \in [0 .. Len(q) -> Seq(S)]
      /\ r[0] = <<>> /\ r[Len(q)] = Left(q, D)
      /\ \A n \in 1 .. Len(q) :
           r[n] = IF q[n] \in D THEN r[n - 1] ELSE Append(r[n - 1], q[n])
  BY <1>0 DEF LeftRun
<1> DEFINE Kept(f) == f = [n \in 0 .. Len(q) |->
                            IF n = 0 THEN <<>>
                            ELSE IF q[n] \in D THEN f[n - 1] ELSE Append(f[n - 1], q[n])]
           k == CHOOSE f : Kept(f)
<1>2. Len(q) \in Nat
  BY LenProperties
<1>3. Kept(r)
  <2>1. \A n \in 0 .. Len(q) : n = 0 \/ n \in 1 .. Len(q)
    BY <1>2
  <2> QED
    BY <1>1, <2>1
<1>4. Kept(k)
  BY <1>3
<1>5. Without(q, D) = k[Len(q)]
  BY DEF Without
<1> HIDE DEF k
<1> DEFINE G == {n \in Nat : n <= Len(q) => k[n] = r[n]}
<1>6. 0 \in G
  BY <1>1, <1>2, <1>4
<1>7. ASSUME NEW n \in Nat, n \in G PROVE n + 1 \in G
  <2> DEFINE m == n + 1
  <2> SUFFICES ASSUME m <= Len(q) PROVE k[m] = r[m]
    OBVIOUS
  <2>1. m \in 1 .. Len(q) /\ m \in 0 .. Len(q) /\ m # 0 /\ m - 1 = n /\ n <= Len(q)
    BY <1>2
  <2>2. k[n] = r[n]
    BY <1>7, <2>1
  <2> HIDE DEF m
  <2>3. k[m] = IF q[m] \in D THEN k[m - 1] ELSE Append(k[m - 1], q[m])
    BY <1>4, <2>1
  <2>4. r[m] = IF q[m] \in D THEN r[m - 1] ELSE Append(r[m - 1], q[m])
    BY <1>1, <2>1
  <2> QED
    BY <2>1, <2>2, <2>3, <2>4
<1> HIDE DEF G
<1>8. Len(q) \in G
  BY <1>2, <1>6, <1>7, Induction
<1> QED
  BY <1>1, <1>2, <1>5, <1>8 DEF G

LEMMA WithoutHas ==
  ASSUME NEW q \in Seq(Job), NEW D
  PROVE  /\ Without(q, D) \in Seq(Job) /\ ToSet(Without(q, D)) = ToSet(q) \ D
         /\ IsInjective(q) => IsInjective(Without(q, D))
<1>1. Without(q, D) = Left(q, D)
  BY WithoutIs
<1> QED
  BY <1>1, LeftHas

LEMMA WithoutOrder ==
  ASSUME NEW q \in Seq(Job), NEW D
  PROVE  \E f \in [1 .. Len(Without(q, D)) -> 1 .. Len(q)] :
           /\ \A i \in 1 .. Len(Without(q, D)) : Without(q, D)[i] = q[f[i]]
           /\ \A i, k \in 1 .. Len(Without(q, D)) : i < k => f[i] < f[k]
<1>1. Without(q, D) = Left(q, D)
  BY WithoutIs
<1> QED
  BY <1>1, LeftOrder

\* The elements of an injective list are apart.
LEMMA ListApart ==
  ASSUME NEW S, NEW q \in Seq(S), IsInjective(q)
  PROVE  /\ Len(q) \in Nat /\ DOMAIN q = 1 .. Len(q)
         /\ \A i \in 1 .. Len(q) : q[i] \in S /\ q[i] \in ToSet(q)
         /\ \A i, k \in 1 .. Len(q) : q[i] = q[k] => i = k
         /\ \A x \in ToSet(q) : \E i \in 1 .. Len(q) : q[i] = x
<1>1. Len(q) \in Nat /\ DOMAIN q = 1 .. Len(q) /\ \A i \in 1 .. Len(q) : q[i] \in S
  BY LenProperties, ElementOfSeq
<1> QED
  BY <1>1 DEF ToSet, IsInjective

\* The first that is left: those before it are gone.
LEMMA WithoutFirst ==
  ASSUME NEW q \in Seq(Job), IsInjective(q), NEW D
  PROVE  /\ \A i \in DOMAIN q : q[i] \notin D /\ (\A k \in DOMAIN q : k < i => q[k] \in D) =>
              Without(q, D) # <<>> /\ Head(Without(q, D)) = q[i]
         /\ Without(q, D) # <<>> =>
              \E i \in DOMAIN q : /\ q[i] = Head(Without(q, D)) /\ q[i] \notin D
                                  /\ \A k \in DOMAIN q : k < i => q[k] \in D
<1> DEFINE l == Without(q, D)
<1>1. /\ l \in Seq(Job) /\ ToSet(l) = ToSet(q) \ D /\ IsInjective(l)
  BY WithoutHas
<1>2. PICK f \in [1 .. Len(l) -> 1 .. Len(q)] :
        /\ \A i \in 1 .. Len(l) : l[i] = q[f[i]]
        /\ \A i, k \in 1 .. Len(l) : i < k => f[i] < f[k]
  BY WithoutOrder
<1> HIDE DEF l
<1>3. /\ Len(q) \in Nat /\ DOMAIN q = 1 .. Len(q)
      /\ \A i \in 1 .. Len(q) : q[i] \in Job /\ q[i] \in ToSet(q)
      /\ \A i, k \in 1 .. Len(q) : q[i] = q[k] => i = k
  BY ListApart
<1>4. /\ Len(l) \in Nat /\ DOMAIN l = 1 .. Len(l)
      /\ \A i \in 1 .. Len(l) : l[i] \in ToSet(l)
      /\ \A x \in ToSet(l) : \E i \in 1 .. Len(l) : l[i] = x
  BY <1>1, ListApart
<1>5. l # <<>> => Len(l) > 0 /\ Head(l) = l[1]
  BY <1>1, <1>4, HeadTailProperties, EmptySeq
<1>6. ASSUME NEW i \in DOMAIN q, q[i] \notin D, \A k \in DOMAIN q : k < i => q[k] \in D
      PROVE  l # <<>> /\ Head(l) = q[i]
  <2>1. PICK n \in 1 .. Len(l) : l[n] = q[i]
    BY <1>1, <1>3, <1>4, <1>6
  <2>2. l # <<>>
    BY <1>4, <2>1, EmptySeq
  <2>3. 1 \in 1 .. Len(l) /\ f[n] = i
    BY <1>2, <1>3, <1>4, <2>1
  <2>4. f[1] \in 1 .. Len(q) /\ q[f[1]] \notin D
    BY <1>1, <1>2, <1>4, <2>3
  <2>5. ~(f[1] < i)
    BY <1>3, <1>6, <2>4
  <2>6. n = 1
    BY <1>2, <1>3, <2>3, <2>5
  <2> QED
    BY <1>5, <2>1, <2>2, <2>6
<1>7. ASSUME l # <<>>
      PROVE  \E i \in DOMAIN q : /\ q[i] = Head(l) /\ q[i] \notin D
                                 /\ \A k \in DOMAIN q : k < i => q[k] \in D
  <2>1. 1 \in 1 .. Len(l) /\ Head(l) = l[1]
    BY <1>4, <1>5, <1>7
  <2>2. f[1] \in 1 .. Len(q) /\ q[f[1]] = Head(l) /\ q[f[1]] \notin D
    BY <1>1, <1>2, <1>4, <2>1
  <2>3. ASSUME NEW k \in DOMAIN q, k < f[1] PROVE q[k] \in D
    <3> SUFFICES ASSUME q[k] \notin D PROVE FALSE
      OBVIOUS
    <3>1. PICK n \in 1 .. Len(l) : l[n] = q[k]
      BY <1>1, <1>3, <1>4
    <3>2. f[n] = k
      BY <1>2, <1>3, <3>1
    <3>3. n = 1 \/ 1 < n
      BY <1>4
    <3>4. n = 1 \/ f[1] < f[n]
      BY <1>2, <2>1, <3>3
    <3> QED
      BY <1>3, <2>2, <2>3, <3>2, <3>4
  <2> QED
    BY <1>3, <2>2, <2>3
<1> QED
  BY <1>6, <1>7 DEF l

-----------------------------------------------------------------------------
\* Looking for machines

LEMMA NeighboursHas ==
  ASSUME NEW m \in Machine, NEW n \in Nat \ {0}
  PROVE  /\ m \in Neighbours(m, n)
         /\ IsFiniteSet(Neighbours(m, n)) /\ Cardinality(Neighbours(m, n)) = n
<1>1. m \in Int /\ m + n - 1 \in Int /\ m <= m + n - 1 /\ m + n - 1 - m + 1 = n
  BY PlatformAssumption DEF Machine
<1>2. /\ IsFiniteSet(m .. m + n - 1)
      /\ Cardinality(m .. m + n - 1) = IF m > m + n - 1 THEN 0 ELSE m + n - 1 - m + 1
  BY <1>1, FS_Interval
<1>3. Cardinality(m .. m + n - 1) = n
  BY <1>1, <1>2
<1> QED
  BY <1>1, <1>2, <1>3 DEF Neighbours

LEMMA WideHas ==
  ASSUME NEW h \in Job, demand[h] \in Nat \ {0}, NEW M \in Wide(h)
  PROVE  /\ M \subseteq Machine /\ M # {}
         /\ IsFiniteSet(M) /\ Cardinality(M) = demand[h]
<1>1. PICK m \in Machine : M = Neighbours(m, demand[h])
  BY DEF Wide
<1> QED
  BY <1>1, NeighboursHas DEF Wide

\* The first neighbours in S, if there are any.
LEMMA ConsecutiveHas ==
  ASSUME NEW S \in SUBSET Machine, NEW h \in Job, demand[h] \in Nat \ {0}
  PROVE  /\ Consecutive(S, demand[h]) # {} =>
              Consecutive(S, demand[h]) \in Wide(h) /\ Consecutive(S, demand[h]) \subseteq S
         /\ Consecutive(S, demand[h]) = {} => \A M \in Wide(h) : ~(M \subseteq S)
<1> DEFINE n == demand[h]
           starts == {m \in S : Neighbours(m, n) \subseteq S}
           low == CHOOSE m \in starts : \A k \in starts : m <= k
<1>1. Consecutive(S, n) = IF starts = {} THEN {} ELSE Neighbours(low, n)
  BY DEF Consecutive
<1>2. Machine \subseteq Nat
  BY PlatformAssumption DEF Machine
<1>3. ASSUME starts # {}
      PROVE  low \in starts /\ Neighbours(low, n) # {}
  <2>1. \E m \in starts : \A k \in starts : m <= k
    <3>1. starts \in SUBSET Nat
      BY <1>2
    <3> HIDE DEF starts
    <3> QED
      BY <1>3, <3>1, LeastExists
  <2>2. low \in starts
    <3> HIDE DEF starts
    <3> QED
      BY <2>1
  <2>3. low \in Neighbours(low, n)
    BY <2>2, NeighboursHas
  <2> QED
    BY <2>2, <2>3
<1>4. ASSUME starts = {}, NEW M \in Wide(h) PROVE ~(M \subseteq S)
  <2>1. PICK m \in Machine : M = Neighbours(m, n)
    BY DEF Wide
  <2>2. m \in M
    BY <2>1, NeighboursHas
  <2> QED
    BY <1>4, <2>1, <2>2
<1>5. CASE starts = {}
  BY <1>1, <1>4, <1>5
<1>6. CASE starts # {}
  <2>1. /\ low \in Machine /\ Neighbours(low, n) \subseteq S
        /\ Consecutive(S, n) = Neighbours(low, n) /\ Neighbours(low, n) # {}
    BY <1>1, <1>3, <1>6
  <2> HIDE DEF low, starts
  <2>2. Neighbours(low, n) \in Wide(h)
    BY <2>1 DEF Wide
  <2> QED
    BY <2>1, <2>2
<1> QED
  BY <1>5, <1>6

LEMMA FoundNow ==
  ASSUME NEW s, NEW j \in Job, demand[j] \in Nat \ {0}, NEW M,
         M = find_sufficient_resources_for_job(s, j)
  PROVE  /\ M # {} => M \in Wide(j) /\ \A m \in M : AvailableNow(s, m, requested_time(j))
         /\ M = {} => \A L \in Wide(j) : \E m \in L : ~AvailableNow(s, m, requested_time(j))
<1> DEFINE S == {m \in Machine : AvailableNow(s, m, requested_time(j))}
<1>1. S \in SUBSET Machine /\ M = Consecutive(S, demand[j])
  BY DEF find_sufficient_resources_for_job
<1>2. /\ M # {} => M \in Wide(j) /\ M \subseteq S
      /\ M = {} => \A L \in Wide(j) : ~(L \subseteq S)
  <2>1. S \in SUBSET Machine
    BY <1>1
  <2> HIDE DEF S
  <2> DEFINE C == Consecutive(S, demand[j])
  <2>2. /\ C # {} => C \in Wide(j) /\ C \subseteq S
        /\ C = {} => \A L \in Wide(j) : ~(L \subseteq S)
    BY <2>1, ConsecutiveHas
  <2> QED
    BY <1>1, <2>2
<1>3. \A L \in Wide(j) : L \subseteq Machine
  BY DEF Wide
<1> QED
  BY <1>2, <1>3

LEMMA FoundAt ==
  ASSUME NEW s, NEW j \in Job, demand[j] \in Nat \ {0}, NEW t, NEW M,
         M = ResourcesAt(s, j, t)
  PROVE  /\ M # {} => M \in Wide(j) /\ \A m \in M : AvailableAt(s, m, requested_time(j), t)
         /\ M = {} => \A L \in Wide(j) : \E m \in L : ~AvailableAt(s, m, requested_time(j), t)
<1> DEFINE S == {m \in Machine : AvailableAt(s, m, requested_time(j), t)}
<1>1. S \in SUBSET Machine /\ M = Consecutive(S, demand[j])
  BY DEF ResourcesAt
<1>2. /\ M # {} => M \in Wide(j) /\ M \subseteq S
      /\ M = {} => \A L \in Wide(j) : ~(L \subseteq S)
  <2>1. S \in SUBSET Machine
    BY <1>1
  <2> HIDE DEF S
  <2> DEFINE C == Consecutive(S, demand[j])
  <2>2. /\ C # {} => C \in Wide(j) /\ C \subseteq S
        /\ C = {} => \A L \in Wide(j) : ~(L \subseteq S)
    BY <2>1, ConsecutiveHas
  <2> QED
    BY <1>1, <2>2
<1>3. \A L \in Wide(j) : L \subseteq Machine
  BY DEF Wide
<1> QED
  BY <1>2, <1>3

\* While every allocation has started, available machines have none.
LEMMA AvailableIsFree ==
  ASSUME NEW s, \A a \in s.allocations : a.start <= now /\ a.start \in Nat, now \in Nat,
         NEW m, NEW w
  PROVE  AvailableNow(s, m, w) <=> \A a \in s.allocations : m \notin a.machines
  BY DEF AvailableNow, On
-----------------------------------------------------------------------------
\* What the operations of a pass do

Having(s, A)    == [s EXCEPT !.allocations = A]
Promising(s, P) == [s EXCEPT !.promised = P]
Stopping(s, b)  == [s EXCEPT !.stopped = b]
Active(a)       == [a EXCEPT !.allocated = TRUE]

LEMMA HavingHas ==
  ASSUME NEW s \in Pass, NEW A \in SUBSET AllocationSet
  PROVE  /\ Having(s, A) \in Pass /\ Having(s, A).allocations = A
         /\ Having(s, A).jobs = s.jobs /\ Having(s, A).jobmap = s.jobmap
         /\ Having(s, A).flags = s.flags /\ Having(s, A).completed = s.completed
         /\ Having(s, A).promised = s.promised /\ Having(s, A).dead = s.dead
         /\ Having(s, A).starts = s.starts /\ Having(s, A).stopped = s.stopped
  BY DEF Pass, Having

LEMMA HavingTwice ==
  ASSUME NEW s \in Pass, NEW A, NEW B
  PROVE  Having(Having(s, A), B) = Having(s, B) /\ Having(s, s.allocations) = s
  BY DEF Pass, Having

LEMMA PromisingHas ==
  ASSUME NEW s \in Pass, NEW P \in Partial(Nat)
  PROVE  /\ Promising(s, P) \in Pass /\ Promising(s, P).promised = P
         /\ Promising(s, P).jobs = s.jobs /\ Promising(s, P).jobmap = s.jobmap
         /\ Promising(s, P).flags = s.flags /\ Promising(s, P).completed = s.completed
         /\ Promising(s, P).allocations = s.allocations /\ Promising(s, P).dead = s.dead
         /\ Promising(s, P).starts = s.starts /\ Promising(s, P).stopped = s.stopped
  BY DEF Pass, Promising

LEMMA StoppingHas ==
  ASSUME NEW s \in Pass, NEW b \in BOOLEAN
  PROVE  /\ Stopping(s, b) \in Pass /\ Stopping(s, b).stopped = b
         /\ Stopping(s, b).jobs = s.jobs /\ Stopping(s, b).jobmap = s.jobmap
         /\ Stopping(s, b).flags = s.flags /\ Stopping(s, b).completed = s.completed
         /\ Stopping(s, b).allocations = s.allocations /\ Stopping(s, b).dead = s.dead
         /\ Stopping(s, b).starts = s.starts /\ Stopping(s, b).promised = s.promised
  BY DEF Pass, Stopping

LEMMA ActiveHas ==
  ASSUME NEW a \in AllocationSet
  PROVE  /\ Active(a) \in AllocationSet /\ Active(a).allocated = TRUE
         /\ Active(a).job = a.job /\ Active(a).start = a.start
         /\ Active(a).walltime = a.walltime /\ Active(a).machines = a.machines
  BY DEF AllocationSet, Active

LEMMA AllocationOfHas ==
  ASSUME NEW s, NEW j, \E a \in s.allocations : a.job = j
  PROVE  AllocationOf(s, j) \in s.allocations /\ AllocationOf(s, j).job = j
  BY DEF AllocationOf

LEMMA AllocationHas ==
  ASSUME Fixed, NEW j \in Job, NEW t \in Nat, NEW M \in SUBSET Machine, NEW a,
         a = Allocation(j, t, M)
  PROVE  /\ a \in AllocationSet /\ ~a.allocated /\ a.job = j /\ a.start = t
         /\ a.walltime = requested_time(j) /\ a.machines = M
<1>1. requested_time(j) \in Nat
  BY Sizes
<1> QED
  BY <1>1 DEF Allocation, AllocationSet

LEMMA NotFailing ==
  ASSUME NEW s \in Pass, ~s.dead, NEW c, ~c
  PROVE  Failing(s, c) = s
<1>1. s.dead = FALSE
  BY DEF Pass
<1>2. (s.dead \/ c) = s.dead
  BY <1>1
<1>3. Failing(s, c) = [s EXCEPT !.dead = s.dead]
  BY <1>2 DEF Failing
<1> QED
  BY <1>3 DEF Pass

\* The resources take an allocation that overlaps none.
LEMMA CreatedIs ==
  ASSUME NEW s \in Pass, ~s.dead, NEW a \in AllocationSet, Open(s, a.job), fits_job(a),
         a.start > 0 \/ consumed,
         \A b \in s.allocations : a.machines \cap b.machines # {} => ~overlaps_with(a, b)
  PROVE  Created(s, a) = Having(s, s.allocations \cup {a})
<1> DEFINE t == Having(s, s.allocations \cup {a})
           c == \/ a.start <= 0 /\ ~consumed
                \/ \E b \in UNION {On(s, m) : m \in a.machines} : overlaps_with(a, b)
           d == ~(Open(t, a.job) /\ fits_job(a))
<1>0. s.allocations \cup {a} \in SUBSET AllocationSet
  BY DEF Pass
<1>1. t \in Pass /\ ~t.dead /\ t.flags = s.flags /\ t.completed = s.completed
  BY <1>0, HavingHas
<1>2. ~c
  <2>1. ~(a.start <= 0 /\ ~consumed)
    <3>1. a.start > 0 => ~(a.start <= 0)
      BY DEF AllocationSet
    <3> QED
      BY <3>1
  <2>2. ASSUME NEW b \in UNION {On(s, m) : m \in a.machines} PROVE ~overlaps_with(a, b)
    <3>1. PICK m \in a.machines : b \in On(s, m)
      BY <2>2
    <3>2. b \in s.allocations /\ m \in b.machines
      BY <3>1 DEF On
    <3> QED
      BY <3>1, <3>2
  <2> QED
    BY <2>1, <2>2
<1>3. add_resources(s, a) = Failing(t, c)
  BY DEF add_resources, Having
<1>4. ~d
  BY <1>1 DEF Open
<1>5. _reserve_job_on_allocation(t, a) = Failing(t, d)
  BY DEF _reserve_job_on_allocation
<1> HIDE DEF t, c, d
<1>6. add_resources(s, a) = t /\ _reserve_job_on_allocation(t, a) = t
  BY <1>1, <1>2, <1>3, <1>4, <1>5, NotFailing
<1>7. Created(s, a) = t
  BY <1>6 DEF Created
<1> QED
  BY <1>7 DEF t

\* An allocation for a job that has none is put there and made active.
LEMMA AllocateNew ==
  ASSUME NEW s \in Pass, ~s.dead, NEW a \in AllocationSet, Open(s, a.job), fits_job(a),
         a.start > 0 \/ consumed, ~a.allocated, \A b \in s.allocations : b.job # a.job,
         \A b \in s.allocations : a.machines \cap b.machines # {} => ~overlaps_with(a, b)
  PROVE  /\ allocate(Created(s, a), a) = Having(s, s.allocations \cup {Active(a)})
         /\ AllocationOf(Created(s, a), a.job) = a
         /\ Created(s, a) \in Pass /\ ~Created(s, a).dead
<1> DEFINE A == s.allocations \cup {a}
           B == s.allocations \cup {Active(a)}
           t == Having(s, A)
           u == Having(s, B)
<1>1. Created(s, a) = t
  BY CreatedIs
<1>2. A \in SUBSET AllocationSet /\ B \in SUBSET AllocationSet
  <2>1. s.allocations \subseteq AllocationSet
    BY DEF Pass
  <2>2. Active(a) \in AllocationSet
    BY ActiveHas
  <2> QED
    BY <2>1, <2>2
<1>3. (A \ {a}) \cup {Active(a)} = B
  OBVIOUS
<1>4. \A b \in A : b.job = a.job <=> b = a
  OBVIOUS
<1>5. a \in A
  OBVIOUS
<1> HIDE DEF A, B
<1>6. t \in Pass /\ ~t.dead /\ t.allocations = A /\ u \in Pass /\ ~u.dead
  BY <1>2, HavingHas
<1>7. Having(t, B) = u
  BY HavingTwice
<1>8. AllocationOf(t, a.job) = a
  <2> HIDE DEF t
  <2>1. AllocationOf(t, a.job) \in t.allocations /\ AllocationOf(t, a.job).job = a.job
    BY <1>5, <1>6, AllocationOfHas
  <2> QED
    BY <1>4, <1>6, <2>1
<1>9. allocate(t, a) = Failing(Having(t, (t.allocations \ {a}) \cup {Active(a)}), a.allocated)
  BY DEF allocate, Having, Active
<1>10. allocate(t, a) = Failing(u, a.allocated)
  BY <1>3, <1>6, <1>7, <1>9
<1> HIDE DEF t, u
<1>11. allocate(t, a) = u
  BY <1>6, <1>10, NotFailing
<1> QED
  BY <1>1, <1>6, <1>8, <1>11 DEF u, B

\* An allocation that is taken away leaves what was there before.
LEMMA FreeIs ==
  ASSUME NEW s \in Pass, ~s.dead, NEW a \in s.allocations, a.allocated
  PROVE  free(s, a) = Having(s, s.allocations \ {a})
<1> DEFINE t == Having(s, s.allocations \ {a})
           d == ~a.allocated
<1>1. s.allocations \ {a} \in SUBSET AllocationSet
  BY DEF Pass
<1>2. t \in Pass /\ ~t.dead
  BY <1>1, HavingHas
<1>3. free(s, a) = Failing(t, d) /\ ~d
  BY DEF free, Having
<1> HIDE DEF t, d
<1>4. free(s, a) = t
  BY <1>2, <1>3, NotFailing
<1> QED
  BY <1>4 DEF t

Starting(s, j, M) == [s EXCEPT !.flags[j] = "scheduled", !.starts = Mapping(@, j, M)]
Refusing(s, j)    == [s EXCEPT !.flags[j] = "rejected", !.jobmap = @ \ {j}]

LEMMA StartingHas ==
  ASSUME NEW s \in Pass, NEW j \in Job, NEW M \in SUBSET Machine
  PROVE  /\ Starting(s, j, M) \in Pass
         /\ Starting(s, j, M).flags = [s.flags EXCEPT ![j] = "scheduled"]
         /\ Starting(s, j, M).starts = Mapping(s.starts, j, M)
         /\ Starting(s, j, M).jobs = s.jobs /\ Starting(s, j, M).jobmap = s.jobmap
         /\ Starting(s, j, M).completed = s.completed
         /\ Starting(s, j, M).allocations = s.allocations
         /\ Starting(s, j, M).promised = s.promised /\ Starting(s, j, M).dead = s.dead
         /\ Starting(s, j, M).stopped = s.stopped
<1>1. s.starts \in Partial(SUBSET Machine)
  BY DEF Pass
<1>2. Mapping(s.starts, j, M) \in Partial(SUBSET Machine)
  BY <1>1, Extended
<1> QED
  BY <1>2 DEF Pass, Starting

LEMMA RefusingHas ==
  ASSUME NEW s \in Pass, NEW j \in Job
  PROVE  /\ Refusing(s, j) \in Pass
         /\ Refusing(s, j).flags = [s.flags EXCEPT ![j] = "rejected"]
         /\ Refusing(s, j).jobmap = s.jobmap \ {j}
         /\ Refusing(s, j).starts = s.starts
         /\ Refusing(s, j).jobs = s.jobs
         /\ Refusing(s, j).completed = s.completed
         /\ Refusing(s, j).allocations = s.allocations
         /\ Refusing(s, j).promised = s.promised /\ Refusing(s, j).dead = s.dead
         /\ Refusing(s, j).stopped = s.stopped
  BY DEF Pass, Refusing

\* A job that is started on free machines is alone on them.
LEMMA ScheduleIs ==
  ASSUME Fixed, Late, NEW s \in Pass, ~s.dead, NEW j \in Job, Open(s, j), NEW M \in Wide(j),
         \A b \in s.allocations : b.job # j /\ b.machines \cap M = {},
         NEW c, c = Active(Allocation(j, now, M))
  PROVE  schedule(s, j, M) = Starting(Having(s, s.allocations \cup {c}), j, M)
<1> DEFINE a == Allocation(j, now, M)
           r == Created(s, a)
           u == Having(s, s.allocations \cup {c})
           t == Starting(u, j, M)
           d == ~Open(s, j) \/ \E b \in s.allocations : b.job = j
           e == \E m \in M : num_active(t, m) # 1
<1>1. /\ M \in SUBSET Machine /\ M # {} /\ IsFiniteSet(M) /\ Cardinality(M) = demand[j]
      /\ now \in Nat /\ demand[j] \in Nat /\ requested_time(j) \in Nat
  <2>1. now \in Nat /\ demand[j] \in Nat \ {0} /\ requested_time(j) \in Nat
    BY Sizes
  <2> QED
    BY <2>1, WideHas
<1>2. /\ a \in AllocationSet /\ ~a.allocated /\ a.job = j /\ a.start = now
      /\ a.walltime = requested_time(j) /\ a.machines = M
  BY <1>1, AllocationHas
<1> HIDE DEF a
<1>3. fits_job(a)
  BY <1>1, <1>2 DEF fits_job, fits_in_frame
<1>4. /\ allocate(r, a) = Having(s, s.allocations \cup {Active(a)})
      /\ AllocationOf(r, a.job) = a
      /\ r \in Pass /\ ~r.dead
  <2>1. /\ a.start > 0 \/ consumed
        /\ Open(s, a.job) /\ \A b \in s.allocations : b.job # a.job
    BY <1>1, <1>2 DEF Late
  <2>2. \A b \in s.allocations : a.machines \cap b.machines # {} => ~overlaps_with(a, b)
    BY <1>2
  <2> QED
    BY <1>2, <1>3, <2>1, <2>2, AllocateNew
<1>5. c = Active(a)
  BY DEF a
<1>6. c \in AllocationSet /\ c.allocated /\ c.machines = M
  BY <1>2, <1>5, ActiveHas
<1>7. u \in Pass /\ u.allocations = s.allocations \cup {c} /\ ~u.dead
  <2> DEFINE B == s.allocations \cup {c}
  <2>1. B \in SUBSET AllocationSet
    BY <1>6 DEF Pass
  <2> HIDE DEF B
  <2>2. Having(s, B) \in Pass /\ Having(s, B).allocations = B /\ ~Having(s, B).dead
    BY <2>1, HavingHas
  <2> QED
    BY <2>2 DEF B
<1>8. t \in Pass /\ t.allocations = s.allocations \cup {c} /\ ~t.dead
  <2>1. M \in SUBSET Machine /\ u \in Pass
    BY <1>1, <1>7
  <2> HIDE DEF u
  <2>2. t \in Pass /\ t.allocations = u.allocations /\ t.dead = u.dead
    BY <2>1, StartingHas
  <2> QED
    BY <1>7, <2>2
<1>9. ~d
  OBVIOUS
<1>10. reserve(s, j, M) = Failing(r, d)
  BY DEF reserve, a
<1>11. ~e
  <2> SUFFICES ASSUME NEW m \in M PROVE num_active(t, m) = 1
    OBVIOUS
  <2>1. {b \in On(t, m) : b.allocated} = {c}
    <3> HIDE DEF t
    <3>1. On(t, m) = {b \in s.allocations \cup {c} : m \in b.machines}
      BY <1>8 DEF On
    <3>2. \A b \in s.allocations : m \notin b.machines
      OBVIOUS
    <3> QED
      BY <1>6, <3>1, <3>2
  <2>2. Cardinality({c}) = 1
    BY FS_Singleton
  <2> QED
    BY <2>1, <2>2 DEF num_active
<1> HIDE DEF r, d
<1>12. reserve(s, j, M) = r
  BY <1>4, <1>9, <1>10, NotFailing
<1>13. allocate(r, AllocationOf(r, j)) = u
  BY <1>2, <1>4, <1>5
<1> HIDE DEF u
<1>14. schedule(s, j, M) = IF r.dead THEN r ELSE Failing(t, e)
  BY <1>12, <1>13 DEF schedule, Starting
<1> HIDE DEF t, e
<1>15. schedule(s, j, M) = t
  BY <1>4, <1>8, <1>11, <1>14, NotFailing
<1> QED
  BY <1>15 DEF t, u

LEMMA PassHas ==
  ASSUME NEW s \in Pass
  PROVE  /\ s.jobs \in Seq(Job) /\ s.jobmap \subseteq Job /\ s.completed \subseteq Job
         /\ s.flags \in [Job -> {"open", "scheduled", "rejected"}]
         /\ s.allocations \subseteq AllocationSet
         /\ s.promised \in Partial(Nat) /\ s.starts \in Partial(SUBSET Machine)
         /\ s.dead \in BOOLEAN /\ s.stopped \in BOOLEAN
         /\ ToSet(s.jobs) \subseteq Job
<1>1. s.jobs \in Seq(Job)
  BY DEF Pass
<1>2. ToSet(s.jobs) \subseteq Job
  BY <1>1, ElementOfSeq DEF ToSet
<1> QED
  BY <1>2 DEF Pass

LEMMA AllocationSetHas ==
  ASSUME NEW a \in AllocationSet
  PROVE  a.job \in Job /\ a.start \in Nat /\ a.walltime \in Nat /\ a.machines \subseteq Machine
  BY DEF AllocationSet

\* Starting an open job on machines that nothing is on.
LEMMA ScheduleHas ==
  ASSUME Fixed, Late, NEW s, PassInv(s), NEW j \in Job, Open(s, j), j \in ToSet(s.jobs),
         NEW M \in Wide(j), \A b \in s.allocations : b.machines \cap M = {},
         NEW t, t = schedule(s, j, M)
  PROVE  /\ PassInv(t)
         /\ t.jobs = s.jobs /\ t.completed = s.completed /\ t.promised = s.promised
         /\ t.stopped = s.stopped /\ t.flags = [s.flags EXCEPT ![j] = "scheduled"]
         /\ s.allocations \subseteq t.allocations
         /\ \A b \in t.allocations \ s.allocations :
              b.machines = M /\ estimated_end_time(b) = now + requested_time(j)
<1> DEFINE a == Allocation(j, now, M)
           c == Active(a)
           B == s.allocations \cup {c}
           u == Having(s, B)
<1>1. /\ s \in Pass /\ ~s.dead /\ Sound(s.allocations) /\ Known(s) /\ Placed(s) /\ Touched(s)
      /\ s.jobs \in Seq(Job) /\ s.jobmap \subseteq Job /\ s.completed \subseteq Job
      /\ s.flags \in [Job -> {"open", "scheduled", "rejected"}]
      /\ s.allocations \subseteq AllocationSet /\ s.starts \in Partial(SUBSET Machine)
  BY PassHas DEF PassInv
<1>2. s.flags[j] = "open" /\ j \notin s.completed
  BY DEF Open
<1>3. \A b \in s.allocations : b.job # j
  BY <1>1, <1>2 DEF Known
<1>4. now \in Nat /\ M \in SUBSET Machine
  BY Sizes DEF Wide
<1>5. /\ c \in AllocationSet /\ c.allocated = TRUE /\ c.job = j /\ c.start = now
      /\ c.walltime = requested_time(j) /\ c.machines = M
  <2>1. /\ a \in AllocationSet /\ a.job = j /\ a.start = now
        /\ a.walltime = requested_time(j) /\ a.machines = M
    BY <1>4, AllocationHas
  <2> HIDE DEF a
  <2> QED
    BY <2>1, ActiveHas
<1>6. t = Starting(Having(s, s.allocations \cup {c}), j, M)
  BY <1>1, <1>3, ScheduleIs
<1> HIDE DEF c
<1>7. B \in SUBSET AllocationSet
  BY <1>1, <1>5
<1>8. /\ u \in Pass /\ u.allocations = B
      /\ u.jobs = s.jobs /\ u.jobmap = s.jobmap /\ u.flags = s.flags
      /\ u.completed = s.completed /\ u.promised = s.promised /\ u.dead = s.dead
      /\ u.starts = s.starts /\ u.stopped = s.stopped
  <2> HIDE DEF B
  <2> QED
    BY <1>1, <1>7, HavingHas
<1>9. t = Starting(u, j, M)
  BY <1>6
<1> HIDE DEF u
<1>10. /\ t \in Pass /\ t.allocations = B
       /\ t.flags = [s.flags EXCEPT ![j] = "scheduled"]
       /\ t.starts = Mapping(s.starts, j, M)
       /\ t.jobs = s.jobs /\ t.jobmap = s.jobmap /\ t.completed = s.completed
       /\ t.promised = s.promised /\ t.dead = s.dead /\ t.stopped = s.stopped
  <2> HIDE DEF B
  <2> QED
    BY <1>4, <1>8, <1>9, StartingHas
<1>11. Sound(t.allocations)
  <2>1. \A b \in B : /\ b.allocated /\ b.start \in Times /\ b.start <= now
                     /\ b.walltime = requested_time(b.job)
    BY <1>1, <1>4, <1>5 DEF Sound, Fixed
  <2>2. \A b, d \in B : b # d => b.machines \cap d.machines = {} /\ b.job # d.job
    BY <1>1, <1>3, <1>5 DEF Sound
  <2> HIDE DEF B
  <2> QED
    BY <1>10, <2>1, <2>2 DEF Sound
<1>12. /\ t.flags[j] = "scheduled" /\ \A k \in Job : k # j => t.flags[k] = s.flags[k]
  BY <1>1, <1>10
<1>13. Known(t)
  <2>1. {b.job : b \in B} = {b.job : b \in s.allocations} \cup {j}
    BY <1>5
  <2>2. {k \in Job : t.flags[k] = "scheduled"} \ t.completed
        = ({k \in Job : s.flags[k] = "scheduled"} \ s.completed) \cup {j}
    BY <1>2, <1>10, <1>12
  <2>3. {b.job : b \in s.allocations} = {k \in Job : s.flags[k] = "scheduled"} \ s.completed
    BY <1>1 DEF Known
  <2>4. t.jobmap = {k \in ToSet(t.jobs) : t.flags[k] # "rejected"} \ t.completed
    <3>1. \A k \in Job : t.flags[k] # "rejected" <=> s.flags[k] # "rejected"
      BY <1>2, <1>12
    <3>2. ToSet(s.jobs) \subseteq Job
      BY <1>1, PassHas
    <3> QED
      BY <1>1, <1>10, <3>1, <3>2 DEF Known
  <2>5. IsInjective(t.jobs)
    BY <1>1, <1>10 DEF Known
  <2> QED
    BY <1>10, <2>1, <2>2, <2>3, <2>4, <2>5 DEF Known
<1>14. /\ DOMAIN t.starts = DOMAIN s.starts \cup {j} /\ t.starts[j] = M
       /\ \A k \in DOMAIN s.starts : k # j => t.starts[k] = s.starts[k]
  <2>1. PICK f : f = s.starts
    OBVIOUS
  <2>2. /\ DOMAIN Mapping(f, j, M) = DOMAIN f \cup {j} /\ Mapping(f, j, M)[j] = M
        /\ \A k \in DOMAIN f : k # j => Mapping(f, j, M)[k] = f[k]
    BY DEF Mapping
  <2>3. t.starts = Mapping(f, j, M)
    BY <1>10, <2>1
  <2> QED
    BY <2>1, <2>2, <2>3
<1>15. Placed(t)
  <2>1. c.machines = PlaceIn(t, c.job)
    BY <1>5, <1>14 DEF PlaceIn
  <2>2. ASSUME NEW b \in s.allocations PROVE b.machines = PlaceIn(t, b.job)
    BY <1>1, <1>3, <1>14 DEF PlaceIn, Placed
  <2> QED
    BY <1>10, <2>1, <2>2 DEF Placed
<1>16. Touched(t)
  <2>1. flags[j] = "open"
    BY <1>1, <1>2 DEF Touched
  <2>2. ASSUME NEW k \in Job, t.flags[k] # flags[k]
        PROVE  flags[k] = "open" /\ k \in ToSet(t.jobs) /\ k \notin t.completed
    BY <1>1, <1>2, <1>10, <1>12, <2>1, <2>2 DEF Touched
  <2>3. DOMAIN t.starts = {k \in Job : t.flags[k] = "scheduled" /\ flags[k] # "scheduled"}
    <3>1. DOMAIN s.starts = {k \in Job : s.flags[k] = "scheduled" /\ flags[k] # "scheduled"}
      BY <1>1 DEF Touched
    <3> QED
      BY <1>12, <1>14, <2>1, <3>1
  <2> QED
    BY <2>2, <2>3 DEF Touched
<1>17. \A b \in t.allocations \ s.allocations :
         b.machines = M /\ estimated_end_time(b) = now + requested_time(j)
  BY <1>5, <1>10 DEF estimated_end_time
<1>18. PassInv(t)
  BY <1>1, <1>10, <1>11, <1>13, <1>15, <1>16 DEF PassInv
<1> QED
  BY <1>10, <1>17, <1>18

\* Rejecting an open job.
LEMMA RejectHas ==
  ASSUME Fixed, NEW s, PassInv(s), NEW j \in Job, Open(s, j), j \in ToSet(s.jobs),
         NEW t, t = reject(s, j)
  PROVE  /\ PassInv(t)
         /\ t.jobs = s.jobs /\ t.completed = s.completed /\ t.promised = s.promised
         /\ t.stopped = s.stopped /\ t.flags = [s.flags EXCEPT ![j] = "rejected"]
         /\ t.allocations = s.allocations
<1> DEFINE d == ~Open(s, j) \/ j \notin s.jobmap
           u == Refusing(s, j)
<1>1. /\ s \in Pass /\ ~s.dead /\ Sound(s.allocations) /\ Known(s) /\ Placed(s) /\ Touched(s)
      /\ s.flags \in [Job -> {"open", "scheduled", "rejected"}]
      /\ ToSet(s.jobs) \subseteq Job
  BY PassHas DEF PassInv
<1>2. s.flags[j] = "open" /\ j \notin s.completed
  BY DEF Open
<1>3. ~d
  BY <1>1, <1>2 DEF Known
<1>4. /\ u \in Pass /\ u.flags = [s.flags EXCEPT ![j] = "rejected"]
      /\ u.jobmap = s.jobmap \ {j} /\ u.starts = s.starts /\ u.jobs = s.jobs
      /\ u.completed = s.completed /\ u.allocations = s.allocations
      /\ u.promised = s.promised /\ u.dead = s.dead /\ u.stopped = s.stopped
  BY <1>1, RefusingHas
<1>5. t = Failing(u, d)
  BY DEF reject, Refusing
<1> HIDE DEF u, d
<1>6. t = u
  BY <1>1, <1>3, <1>4, <1>5, NotFailing
<1>7. /\ t.flags[j] = "rejected" /\ \A k \in Job : k # j => t.flags[k] = s.flags[k]
  BY <1>1, <1>4, <1>6
<1>8. Known(t)
  <2>1. {k \in Job : t.flags[k] = "scheduled"} = {k \in Job : s.flags[k] = "scheduled"}
    BY <1>2, <1>7
  <2>2. t.jobmap = {k \in ToSet(t.jobs) : t.flags[k] # "rejected"} \ t.completed
    BY <1>1, <1>2, <1>4, <1>6, <1>7 DEF Known
  <2> QED
    BY <1>1, <1>4, <1>6, <2>1, <2>2 DEF Known
<1>9. Placed(t)
  <2>1. \A b \in s.allocations : b.machines = PlaceIn(s, b.job)
    BY <1>1 DEF Placed
  <2>2. \A k : PlaceIn(t, k) = PlaceIn(s, k)
    BY <1>4, <1>6 DEF PlaceIn
  <2> QED
    BY <1>4, <1>6, <2>1, <2>2 DEF Placed
<1>10. Touched(t)
  <2>1. flags[j] = "open"
    BY <1>1, <1>2 DEF Touched
  <2>2. ASSUME NEW k \in Job, t.flags[k] # flags[k]
        PROVE  flags[k] = "open" /\ k \in ToSet(t.jobs) /\ k \notin t.completed
    BY <1>1, <1>2, <1>4, <1>6, <1>7, <2>1, <2>2 DEF Touched
  <2>3. DOMAIN t.starts = {k \in Job : t.flags[k] = "scheduled" /\ flags[k] # "scheduled"}
    <3>1. DOMAIN s.starts = {k \in Job : s.flags[k] = "scheduled" /\ flags[k] # "scheduled"}
      BY <1>1 DEF Touched
    <3> QED
      BY <1>2, <1>4, <1>6, <1>7, <3>1
  <2> QED
    BY <2>2, <2>3 DEF Touched
<1> QED
  BY <1>1, <1>4, <1>6, <1>8, <1>9, <1>10 DEF PassInv

-----------------------------------------------------------------------------
\* The filler

\* When no allocation is in the future, machines are found that nothing is on,
\* or there are none side by side.
LEMMA FreeNow ==
  ASSUME Fixed, NEW s, PassInv(s), NEW j \in Job, NEW M,
         M = find_sufficient_resources_for_job(s, j)
  PROVE  /\ M # {} => M \in Wide(j) /\ \A b \in s.allocations : b.machines \cap M = {}
         /\ M = {} => NoRoom(s, j)
<1>1. demand[j] \in Nat \ {0} /\ now \in Nat
  BY Sizes
<1>2. \A a \in s.allocations : a.start <= now /\ a.start \in Nat
  BY PassHas, AllocationSetHas DEF PassInv, Sound
<1> DEFINE w == requested_time(j)
<1>3. /\ M # {} => M \in Wide(j) /\ \A m \in M : AvailableNow(s, m, w)
      /\ M = {} => \A L \in Wide(j) : \E m \in L : ~AvailableNow(s, m, w)
  BY <1>1, FoundNow
<1> HIDE DEF w
<1>4. \A m : AvailableNow(s, m, w) <=> \A a \in s.allocations : m \notin a.machines
  BY <1>1, <1>2, AvailableIsFree
<1>5. M # {} => M \in Wide(j) /\ \A b \in s.allocations : b.machines \cap M = {}
  BY <1>3, <1>4
<1>6. ASSUME M = {}, NEW L \in Wide(j) PROVE \E a \in s.allocations : a.machines \cap L # {}
  <2>1. PICK m \in L : ~AvailableNow(s, m, w)
    BY <1>3, <1>6
  <2>2. PICK a \in s.allocations : m \in a.machines
    BY <1>4, <2>1
  <2> QED
    BY <2>1, <2>2
<1> QED
  BY <1>5, <1>6 DEF NoRoom

\* What one job of the pass may change: its own flag, and more allocations.
Forward(s, t, j) ==
  /\ t.jobs = s.jobs /\ t.completed = s.completed /\ s.allocations \subseteq t.allocations
  /\ \A k \in Job : k # j => t.flags[k] = s.flags[k]

\* What is timely depends on what a pass leaves alone.
LEMMA TimelyStays ==
  ASSUME NEW s, Timely(s), NEW t, t.jobs = s.jobs, t.completed = s.completed
  PROVE  Timely(t)
  BY DEF Timely, Startable, dependencies_fulfilled

\* Machines are only found for a job that is not too large.
LEMMA WideFits ==
  ASSUME Fixed, NEW j \in Job, NEW M \in Wide(j)
  PROVE  demand[j] <= N
<1>1. demand[j] \in Nat \ {0} /\ N \in Nat
  BY Sizes
<1>2. PICK m \in Machine : M = Neighbours(m, demand[j]) /\ M \subseteq Machine
  BY DEF Wide
<1>3. m \in Nat /\ m + demand[j] - 1 \in M
  BY <1>1, <1>2 DEF Machine, Neighbours
<1>4. m + demand[j] - 1 <= N - 1
  BY <1>2, <1>3 DEF Machine
<1> QED
  BY <1>1, <1>3, <1>4

LEMMA FillOneHas ==
  ASSUME Fixed, NEW s, PassInv(s), Timely(s), NEW j \in ToSet(s.jobs), NEW b \in BOOLEAN, NEW t,
         t = FillOne(s, j, b)
  PROVE  /\ PassInv(t) /\ Forward(s, t, j) /\ t.promised = s.promised
         /\ s.stopped \/ ~Runnable(s, j) => t = s
         /\ ~s.stopped /\ ~t.stopped /\ b => ~Runnable(t, j)
         /\ ~s.stopped /\ t.stopped =>
              t = Stopping(s, TRUE) /\ Runnable(s, j) /\ demand[j] <= N /\ NoRoom(s, j)
<1> DEFINE M == find_sufficient_resources_for_job(s, j)
           u == Stopping(s, b)
<1>1. /\ s \in Pass /\ ~s.dead /\ s.flags \in [Job -> {"open", "scheduled", "rejected"}]
      /\ j \in Job /\ s.stopped \in BOOLEAN
  BY PassHas DEF PassInv
<1>2. /\ M # {} => M \in Wide(j) /\ \A a \in s.allocations : a.machines \cap M = {}
      /\ M = {} => NoRoom(s, j)
  BY <1>1, FreeNow
<1>3. demand[j] \in Nat /\ N \in Nat
  BY <1>1, Sizes
<1>4. t = IF s.dead \/ s.stopped \/ ~Runnable(s, j) THEN s
          ELSE IF M # {} THEN schedule(s, j, M)
          ELSE IF demand[j] > N THEN reject(s, j) ELSE u
  BY DEF FillOne, Stopping
<1> HIDE DEF M, u
<1>5. CASE s.stopped \/ ~Runnable(s, j)
  <2>1. t = s
    BY <1>1, <1>4, <1>5
  <2> QED
    BY <1>5, <2>1 DEF Forward
<1>6. ASSUME ~s.stopped, Runnable(s, j), M # {}
      PROVE  /\ PassInv(t) /\ Forward(s, t, j) /\ t.promised = s.promised /\ ~t.stopped
             /\ ~Runnable(t, j)
  <2>1. t = schedule(s, j, M)
    BY <1>1, <1>4, <1>6
  <2>2. Open(s, j)
    BY <1>6 DEF Runnable
  <2>3. /\ PassInv(t)
        /\ t.jobs = s.jobs /\ t.completed = s.completed /\ t.promised = s.promised
        /\ t.stopped = s.stopped /\ t.flags = [s.flags EXCEPT ![j] = "scheduled"]
        /\ s.allocations \subseteq t.allocations
    <3>1. Late
      BY <1>1, <1>2, <1>6, WideFits DEF Timely, Startable, Runnable
    <3> QED
      BY <1>1, <1>2, <1>6, <2>1, <2>2, <3>1, ScheduleHas
  <2>4. t.flags[j] # "open" /\ \A k \in Job : k # j => t.flags[k] = s.flags[k]
    BY <1>1, <2>3
  <2> QED
    BY <1>6, <2>3, <2>4 DEF Forward, Runnable, Open
<1>7. ASSUME ~s.stopped, Runnable(s, j), M = {}, demand[j] > N
      PROVE  /\ PassInv(t) /\ Forward(s, t, j) /\ t.promised = s.promised /\ ~t.stopped
             /\ ~Runnable(t, j)
  <2>1. t = reject(s, j)
    BY <1>1, <1>4, <1>7
  <2>2. Open(s, j)
    BY <1>7 DEF Runnable
  <2>3. /\ PassInv(t)
        /\ t.jobs = s.jobs /\ t.completed = s.completed /\ t.promised = s.promised
        /\ t.stopped = s.stopped /\ t.flags = [s.flags EXCEPT ![j] = "rejected"]
        /\ t.allocations = s.allocations
    BY <1>1, <2>1, <2>2, RejectHas
  <2>4. t.flags[j] # "open" /\ \A k \in Job : k # j => t.flags[k] = s.flags[k]
    BY <1>1, <2>3
  <2> QED
    BY <1>7, <2>3, <2>4 DEF Forward, Runnable, Open
<1>8. ASSUME ~s.stopped, Runnable(s, j), M = {}, ~(demand[j] > N)
      PROVE  /\ PassInv(t) /\ Forward(s, t, j) /\ t.promised = s.promised
             /\ t.stopped = b /\ t = Stopping(s, b) /\ demand[j] <= N /\ NoRoom(s, j)
  <2>1. t = u
    BY <1>1, <1>4, <1>8
  <2>2. /\ u \in Pass /\ u.stopped = b /\ u.jobs = s.jobs /\ u.jobmap = s.jobmap
        /\ u.flags = s.flags /\ u.completed = s.completed /\ u.allocations = s.allocations
        /\ u.dead = s.dead /\ u.starts = s.starts /\ u.promised = s.promised
    BY <1>1, StoppingHas DEF u
  <2>3. Known(t) /\ Placed(t) /\ Touched(t) /\ Sound(t.allocations)
    BY <2>1, <2>2 DEF PassInv, Known, Placed, PlaceIn, Touched
  <2>4. PassInv(t)
    BY <1>1, <2>1, <2>2, <2>3 DEF PassInv
  <2>5. Forward(s, t, j)
    BY <2>1, <2>2 DEF Forward
  <2>6. demand[j] <= N
    BY <1>3, <1>8
  <2> QED
    BY <1>2, <1>8, <2>1, <2>2, <2>4, <2>5, <2>6 DEF u
<1> QED
  BY <1>5, <1>6, <1>7, <1>8

\* The states of a pass that can follow s.
Passes(s) == {p \in Pass : PassInv(p) /\ p.jobs = s.jobs /\ p.completed = s.completed}

LEMMA OpenJobsHas ==
  ASSUME NEW s, PassInv(s)
  PROVE  /\ OpenJobs(s) \in Seq(Job) /\ IsInjective(OpenJobs(s))
         /\ ToSet(OpenJobs(s)) = {j \in ToSet(s.jobs) : Open(s, j)}
         /\ RunnableJobs(s) \in Seq(Job) /\ IsInjective(RunnableJobs(s))
         /\ ToSet(RunnableJobs(s)) = {j \in ToSet(s.jobs) : Runnable(s, j)}
<1>1. s.jobs \in Seq(Job) /\ IsInjective(s.jobs) /\ ToSet(s.jobs) \subseteq Job
  BY PassHas DEF PassInv, Known
<1>2. /\ OpenJobs(s) \in Seq(Job) /\ IsInjective(OpenJobs(s))
      /\ ToSet(OpenJobs(s)) = ToSet(s.jobs) \ {j \in Job : ~Open(s, j)}
  BY <1>1, WithoutHas DEF OpenJobs
<1>3. /\ RunnableJobs(s) \in Seq(Job) /\ IsInjective(RunnableJobs(s))
      /\ ToSet(RunnableJobs(s)) = ToSet(s.jobs) \ {j \in Job : ~Runnable(s, j)}
  BY <1>1, WithoutHas DEF RunnableJobs
<1> QED
  BY <1>1, <1>2, <1>3

\* The pass of the filler, one open job after another.
FillerRun(r, s, b) ==
  /\ r[0] = s /\ r[Len(OpenJobs(s))] = filler_sched(s, b)
  /\ \A n \in 1 .. Len(OpenJobs(s)) : r[n] = FillOne(r[n - 1], OpenJobs(s)[n], b)

FillerFold(f, s, b) ==
  f = [T \in SUBSET DOMAIN OpenJobs(s) |->
         IF T = {} THEN s ELSE FillOne(f[T \ {Max(T)}], OpenJobs(s)[Max(T)], b)]

\* A pass stays in V when each of its steps does.
LEMMA FillerRuns ==
  ASSUME NEW s, NEW b, NEW V, NEW E, s \in V, OpenJobs(s) \in Seq(E),
         \A v \in V, e \in E : FillOne(v, e, b) \in V
  PROVE  \E r \in [0 .. Len(OpenJobs(s)) -> V] : FillerRun(r, s, b)
<1> DEFINE q == OpenJobs(s)
           g == [p \in V \X E |-> FillOne(p[1], p[2], b)]
<1>1. \A v \in V, e \in E : g[<<v, e>>] = FillOne(v, e, b)
  OBVIOUS
<1>2. g \in [V \X E -> V]
  OBVIOUS
<1>3. q \in Seq(E) /\ DOMAIN q = 1 .. Len(q) /\ Len(q) \in Nat /\ \A i \in 1 .. Len(q) : q[i] \in E
  <2>1. q \in Seq(E)
    OBVIOUS
  <2> HIDE DEF q
  <2> QED
    BY <2>1, LenProperties, ElementOfSeq
<1> HIDE DEF g, q
<1>4. \A T \in SUBSET DOMAIN q : T # {} => q[Max(T)] \in E
  BY <1>3, MaxExists
<1>5. PICK h \in [SUBSET DOMAIN q -> V] : Folding(h, q, s, g)
  BY <1>2, <1>3, FoldExists
<1>6. ASSUME NEW T \in SUBSET DOMAIN q, T # {}
      PROVE  g[<<h[T \ {Max(T)}], q[Max(T)]>>] = FillOne(h[T \ {Max(T)}], q[Max(T)], b)
  BY <1>1, <1>4, <1>5, <1>6
<1>7. FillerFold(h, s, b)
  BY <1>5, <1>6 DEF Folding, FillerFold, q
<1> DEFINE k == CHOOSE f : FillerFold(f, s, b)
<1>8. FillerFold(k, s, b)
  BY <1>7
<1>9. filler_sched(s, b) = k[DOMAIN q]
  BY DEF filler_sched, FoldLeft, MapThenFoldSet, FillerFold, q
<1> HIDE DEF k
<1>10. k[{}] = s
  BY <1>8 DEF FillerFold
<1>11. ASSUME NEW T \in SUBSET DOMAIN q, T # {}, k[T \ {Max(T)}] \in V
       PROVE  k[T] = g[<<k[T \ {Max(T)}], q[Max(T)]>>]
  <2>1. k[T] = FillOne(k[T \ {Max(T)}], q[Max(T)], b)
    BY <1>8, <1>11 DEF FillerFold, q
  <2> QED
    BY <1>1, <1>4, <1>11, <2>1
<1>12. Follows(k, q, V, s, g)
  BY <1>10, <1>11 DEF Follows
<1>13. PICK r \in [0 .. Len(q) -> V] : FoldRun(r, q, s, g, k[DOMAIN q])
  BY <1>2, <1>3, <1>12, FoldSteps
<1>14. ASSUME NEW n \in 1 .. Len(q) PROVE r[n] = FillOne(r[n - 1], q[n], b)
  <2>1. n - 1 \in 0 .. Len(q) /\ q[n] \in E
    BY <1>3
  <2> QED
    BY <1>1, <1>13, <2>1 DEF FoldRun
<1>15. FillerRun(r, s, b)
  BY <1>9, <1>13, <1>14 DEF FillerRun, FoldRun, q
<1> QED
  BY <1>13, <1>15 DEF q

LEMMA FillerSteps ==
  ASSUME Fixed, NEW s, PassInv(s), Timely(s), NEW b \in BOOLEAN
  PROVE  \E r \in [0 .. Len(OpenJobs(s)) -> Passes(s)] : FillerRun(r, s, b)
<1> DEFINE V == Passes(s)
           E == ToSet(s.jobs)
<1>1. s \in V
  BY DEF PassInv, Passes
<1>2. ASSUME NEW v \in V, NEW e \in E PROVE FillOne(v, e, b) \in V
  <2>1. PassInv(v) /\ v.jobs = s.jobs /\ v.completed = s.completed /\ e \in ToSet(v.jobs)
    BY DEF Passes
  <2>2. Timely(v)
    BY <2>1, TimelyStays
  <2> DEFINE t == FillOne(v, e, b)
  <2>3. PassInv(t) /\ Forward(v, t, e)
    BY <2>1, <2>2, FillOneHas
  <2> HIDE DEF t
  <2>4. t \in V
    BY <2>1, <2>3 DEF Passes, Forward, PassInv
  <2> QED
    BY <2>4 DEF t
<1>3. OpenJobs(s) \in Seq(E)
  <2> DEFINE q == OpenJobs(s)
  <2>1. q \in Seq(Job) /\ IsInjective(q) /\ ToSet(q) \subseteq E
    BY OpenJobsHas
  <2> HIDE DEF q, E
  <2>2. DOMAIN q = 1 .. Len(q) /\ Len(q) \in Nat /\ \A i \in 1 .. Len(q) : q[i] \in E
    BY <2>1, ListApart
  <2>3. q \in Seq(E)
    BY <2>2, <2>1, SeqDef
  <2> QED
    BY <2>3 DEF q
<1> HIDE DEF V, E
<1>4. \E r \in [0 .. Len(OpenJobs(s)) -> V] : FillerRun(r, s, b)
  BY <1>1, <1>2, <1>3, FillerRuns
<1> QED
  BY <1>4 DEF V

\* No step of a pass opens a job again.
Closing(s, t) == \A k \in Job : Open(t, k) => Open(s, k)

LEMMA FillOneCloses ==
  ASSUME Fixed, NEW s, PassInv(s), Timely(s), NEW j \in ToSet(s.jobs), NEW b \in BOOLEAN, NEW t,
         t = FillOne(s, j, b)
  PROVE  Closing(s, t)
<1>1. /\ PassInv(t) /\ Forward(s, t, j)
      /\ s.stopped \/ ~Runnable(s, j) => t = s
  BY FillOneHas
<1>2. CASE ~Runnable(s, j)
  BY <1>1, <1>2 DEF Closing
<1>3. CASE Runnable(s, j)
  BY <1>1, <1>3 DEF Closing, Forward, Open, Runnable
<1> QED
  BY <1>2, <1>3

\* The job that ends the pass: machines for it are not free, and no job before
\* it can run.
Stopper(t, q, n) == \E k \in 1 .. n :
  /\ Runnable(t, q[k]) /\ demand[q[k]] <= N /\ NoRoom(t, q[k])
  /\ \A i \in 1 .. n : i < k => ~Runnable(t, q[i])

FillerAt(s, t, q, n) ==
  /\ t.promised = s.promised /\ Closing(s, t)
  /\ ~t.stopped => \A i \in 1 .. n : ~Runnable(t, q[i])
  /\ t.stopped => Stopper(t, q, n)
  /\ n > 0 /\ Keepable(s) => \A h \in Promised(t) : t = Stopping(s, TRUE) /\ NoRoom(s, h)

\* The first of the open jobs is the first that the filler looks at.
LEMMA FirstIsHead ==
  ASSUME NEW s, PassInv(s), NEW h, FirstOpen(s, h)
  PROVE  /\ OpenJobs(s) # <<>> /\ Head(OpenJobs(s)) = h /\ Len(OpenJobs(s)) > 0
         /\ OpenJobs(s)[1] = h
<1> DEFINE D == {j \in Job : ~Open(s, j)}
<1>1. s.jobs \in Seq(Job) /\ IsInjective(s.jobs)
  BY PassHas DEF PassInv, Known
<1>2. PICK i \in DOMAIN s.jobs : /\ s.jobs[i] = h /\ Open(s, h)
                                 /\ \A k \in DOMAIN s.jobs : k < i => ~Open(s, s.jobs[k])
  BY DEF FirstOpen
<1>3. \A k \in DOMAIN s.jobs : s.jobs[k] \in Job
  BY <1>1, ListApart
<1>4. s.jobs[i] \notin D /\ \A k \in DOMAIN s.jobs : k < i => s.jobs[k] \in D
  BY <1>2, <1>3
<1>5. OpenJobs(s) = Without(s.jobs, D)
  BY DEF OpenJobs
<1> HIDE DEF D
<1>6. OpenJobs(s) # <<>> /\ Head(OpenJobs(s)) = h
  BY <1>1, <1>2, <1>4, <1>5, WithoutFirst
<1>7. OpenJobs(s) \in Seq(Job) /\ Len(OpenJobs(s)) \in Nat
  BY OpenJobsHas, LenProperties
<1>8. Len(OpenJobs(s)) > 0 /\ Head(OpenJobs(s)) = OpenJobs(s)[1]
  BY <1>6, <1>7, EmptySeq, HeadTailProperties
<1> QED
  BY <1>6, <1>8

LEMMA FillerAtStep ==
  ASSUME Fixed, NEW s, PassInv(s), Timely(s), ~s.stopped, NEW q, q = OpenJobs(s),
         NEW n \in Nat, n < Len(q), NEW t, PassInv(t), t.jobs = s.jobs,
         t.completed = s.completed, FillerAt(s, t, q, n), n = 0 => t = s,
         NEW u, u = FillOne(t, q[n + 1], TRUE)
  PROVE  FillerAt(s, u, q, n + 1)
<1> DEFINE m == n + 1
           j == q[m]
<1>1. /\ Len(q) \in Nat /\ \A i \in 1 .. Len(q) : q[i] \in Job /\ q[i] \in ToSet(s.jobs)
      /\ \A i, k \in 1 .. Len(q) : q[i] = q[k] => i = k
  <2>1. q \in Seq(Job) /\ IsInjective(q) /\ ToSet(q) \subseteq ToSet(s.jobs)
    BY OpenJobsHas
  <2> QED
    BY <2>1, ListApart
<1>2. m \in 1 .. Len(q) /\ m \in Nat /\ 0 < m /\ n < m
      /\ \A i \in 1 .. m : i = m \/ (i \in 1 .. n /\ i # m /\ i \in 1 .. Len(q))
  BY <1>1
<1>3. j \in Job /\ j \in ToSet(t.jobs)
  BY <1>1, <1>2
<1>4. /\ PassInv(u) /\ Forward(t, u, j) /\ u.promised = t.promised
      /\ t.stopped \/ ~Runnable(t, j) => u = t
      /\ ~t.stopped /\ ~u.stopped => ~Runnable(u, j)
      /\ ~t.stopped /\ u.stopped =>
           u = Stopping(t, TRUE) /\ Runnable(t, j) /\ demand[j] <= N /\ NoRoom(t, j)
  <2>1. PICK b \in BOOLEAN : b = TRUE
    OBVIOUS
  <2>2. u = FillOne(t, j, b)
    BY <2>1
  <2>3. Timely(t)
    BY TimelyStays
  <2> HIDE DEF j
  <2> QED
    BY <1>3, <2>1, <2>2, <2>3, FillOneHas
<1>5. Closing(t, u)
  BY <1>3, TimelyStays, FillOneCloses
<1> HIDE DEF m, j
<1>6. Closing(s, u) /\ u.promised = s.promised
  BY <1>4, <1>5 DEF Closing, FillerAt
<1>7. t.stopped \in BOOLEAN /\ u.stopped \in BOOLEAN /\ t \in Pass /\ s \in Pass
  BY <1>4, PassHas DEF PassInv
<1>8. ASSUME ~u.stopped, NEW i \in 1 .. m PROVE ~Runnable(u, q[i])
  <2>1. ~t.stopped
    BY <1>4, <1>7, <1>8
  <2>2. CASE i = m
    BY <1>4, <1>8, <2>1, <2>2 DEF j
  <2>3. CASE i # m
    <3>1. ~Runnable(t, q[i])
      BY <1>2, <2>1, <2>3 DEF FillerAt
    <3>2. ~Runnable(u, q[i])
      BY <1>1, <1>2, <1>4, <1>5, <2>3, <3>1 DEF Forward, Closing, Runnable, dependencies_fulfilled
    <3> QED
      BY <3>2
  <2> QED
    BY <2>2, <2>3
<1>9. ASSUME t.stopped PROVE Stopper(u, q, m)
  <2>1. u = t
    BY <1>4, <1>9
  <2>2. PICK k \in 1 .. n :
          /\ Runnable(t, q[k]) /\ demand[q[k]] <= N /\ NoRoom(t, q[k])
          /\ \A i \in 1 .. n : i < k => ~Runnable(t, q[i])
    BY <1>9 DEF FillerAt, Stopper
  <2>3. k \in 1 .. m /\ \A i \in 1 .. m : i < k => i \in 1 .. n
    BY <1>2
  <2> QED
    BY <2>1, <2>2, <2>3 DEF Stopper
<1>10. ASSUME ~t.stopped, u.stopped PROVE Stopper(u, q, m)
  <2>1. u = Stopping(t, TRUE) /\ Runnable(t, j) /\ demand[j] <= N /\ NoRoom(t, j)
    BY <1>4, <1>10
  <2>2. u.flags = t.flags /\ u.completed = t.completed /\ u.allocations = t.allocations
    <3>1. TRUE \in BOOLEAN /\ t \in Pass
      BY <1>7
    <3>2. /\ Stopping(t, TRUE).flags = t.flags /\ Stopping(t, TRUE).completed = t.completed
          /\ Stopping(t, TRUE).allocations = t.allocations
      BY <3>1, StoppingHas
    <3> QED
      BY <2>1, <3>2
  <2>3. \A k : Runnable(u, k) <=> Runnable(t, k)
    BY <2>2 DEF Runnable, Open, dependencies_fulfilled
  <2>4. NoRoom(u, j)
    BY <2>1, <2>2 DEF NoRoom
  <2>5. m \in 1 .. m /\ \A i \in 1 .. m : i < m => i \in 1 .. n
    BY <1>2
  <2>6. \A i \in 1 .. n : ~Runnable(t, q[i])
    BY <1>10 DEF FillerAt
  <2> QED
    BY <2>1, <2>3, <2>4, <2>5, <2>6 DEF Stopper, j
<1>11. ASSUME Keepable(s), NEW h \in Promised(u) PROVE u = Stopping(s, TRUE) /\ NoRoom(s, h)
  <2>1. h \in Promised(s) /\ h \in Promised(t) /\ h \in Job /\ Open(u, h)
    <3>1. h \in DOMAIN s.promised /\ h \in DOMAIN t.promised /\ Open(u, h) /\ h \in Job
      <4>1. s.promised \in Partial(Nat)
        BY <1>7, PassHas
      <4>2. h \in DOMAIN u.promised /\ Open(u, h)
        BY <1>11 DEF Promised
      <4> QED
        BY <1>4, <1>6, <4>1, <4>2, PartialHas
    <3>2. Open(t, h) /\ Open(s, h)
      BY <1>5, <1>6, <3>1 DEF Closing
    <3> QED
      BY <3>1, <3>2 DEF Promised
  <2>2. CASE n > 0
    <3>1. t = Stopping(s, TRUE) /\ NoRoom(s, h)
      BY <1>11, <2>1, <2>2 DEF FillerAt
    <3>2. t.stopped
      BY <1>7, <3>1, StoppingHas
    <3> QED
      BY <1>4, <3>1, <3>2
  <2>3. CASE n = 0
    <3>1. t = s /\ m = 1
      BY <2>3 DEF m
    <3>2. FirstOpen(s, h) /\ Runnable(s, h)
      BY <1>11, <2>1 DEF Keepable
    <3>3. q[1] = h
      BY <3>2, FirstIsHead
    <3>4. j = h
      BY <3>1, <3>3 DEF j
    <3>5. Runnable(u, h)
      BY <1>4, <2>1, <3>1, <3>2 DEF Runnable, dependencies_fulfilled, Forward
    <3>6. u.stopped
      BY <1>4, <3>1, <3>4, <3>5
    <3> QED
      BY <1>4, <3>1, <3>4, <3>6
  <2>4. n > 0 \/ n = 0
    OBVIOUS
  <2> QED
    BY <2>2, <2>3, <2>4
<1>12. FillerAt(s, u, q, m)
  BY <1>6, <1>7, <1>8, <1>9, <1>10, <1>11 DEF FillerAt
<1> QED
  BY <1>12 DEF m

\* A whole pass of the filler.
LEMMA FillerKeeps ==
  ASSUME Fixed, NEW s, PassInv(s), Timely(s), NEW b \in BOOLEAN, NEW t, t = filler_sched(s, b)
  PROVE  PassInv(t) /\ t.jobs = s.jobs /\ t.completed = s.completed /\ t.promised = s.promised
<1> DEFINE q == OpenJobs(s)
           V == Passes(s)
<1>1. /\ Len(q) \in Nat /\ \A i \in 1 .. Len(q) : q[i] \in Job /\ q[i] \in ToSet(s.jobs)
  <2>1. q \in Seq(Job) /\ IsInjective(q) /\ ToSet(q) \subseteq ToSet(s.jobs)
    BY OpenJobsHas
  <2> HIDE DEF q
  <2> QED
    BY <2>1, ListApart
<1>2. PICK r \in [0 .. Len(q) -> V] : FillerRun(r, s, b)
  BY FillerSteps
<1>3. /\ r[0] = s /\ r[Len(q)] = t
      /\ \A n \in 1 .. Len(q) : r[n] = FillOne(r[n - 1], q[n], b)
  BY <1>2 DEF FillerRun
<1> HIDE DEF q
<1> DEFINE G == {n \in Nat : n <= Len(q) => r[n].promised = s.promised}
<1>4. 0 \in G
  BY <1>3
<1>5. ASSUME NEW n \in Nat, n \in G PROVE n + 1 \in G
  <2> SUFFICES ASSUME n + 1 <= Len(q) PROVE r[n + 1].promised = s.promised
    OBVIOUS
  <2>1. n + 1 \in 1 .. Len(q) /\ (n + 1) - 1 = n /\ n \in 0 .. Len(q) /\ n <= Len(q)
    BY <1>1
  <2>2. r[n + 1] = FillOne(r[n], q[n + 1], b) /\ r[n] \in V
    BY <1>2, <1>3, <2>1
  <2>3. PassInv(r[n]) /\ Timely(r[n]) /\ q[n + 1] \in ToSet(r[n].jobs)
    <3>1. PassInv(r[n]) /\ r[n].jobs = s.jobs /\ r[n].completed = s.completed
      BY <2>2 DEF Passes
    <3>2. \A v : v.jobs = s.jobs /\ v.completed = s.completed => Timely(v)
      BY TimelyStays
    <3> QED
      BY <1>1, <2>1, <3>1, <3>2
  <2>4. r[n + 1].promised = r[n].promised
    <3> DEFINE v == r[n]
               e == q[n + 1]
               w == r[n + 1]
    <3>1. PassInv(v) /\ Timely(v) /\ e \in ToSet(v.jobs) /\ w = FillOne(v, e, b)
      BY <2>2, <2>3
    <3> HIDE DEF v, e, w
    <3>2. w.promised = v.promised
      BY <3>1, FillOneHas
    <3> QED
      BY <3>2 DEF v, w
  <2> QED
    BY <1>5, <2>1, <2>4
<1> HIDE DEF G
<1>6. Len(q) \in G
  BY <1>1, <1>4, <1>5, Induction
<1>7. t.promised = s.promised
  BY <1>1, <1>3, <1>6 DEF G
<1>8. t \in V
  BY <1>1, <1>2, <1>3
<1> QED
  BY <1>7, <1>8 DEF Passes

\* When the first that does not fit ends it, that one is the first that can run.
LEMMA FillerStops ==
  ASSUME Fixed, NEW s, PassInv(s), Timely(s), ~s.stopped, NEW t, t = filler_sched(s, TRUE)
  PROVE  FillerAt(s, t, OpenJobs(s), Len(OpenJobs(s)))
<1> DEFINE q == OpenJobs(s)
           V == Passes(s)
<1>1. /\ Len(q) \in Nat /\ \A i \in 1 .. Len(q) : q[i] \in Job /\ q[i] \in ToSet(s.jobs)
  <2>1. q \in Seq(Job) /\ IsInjective(q) /\ ToSet(q) \subseteq ToSet(s.jobs)
    BY OpenJobsHas
  <2> HIDE DEF q
  <2> QED
    BY <2>1, ListApart
<1>2. PICK r \in [0 .. Len(q) -> V] : FillerRun(r, s, TRUE)
  BY FillerSteps
<1>3. /\ r[0] = s /\ r[Len(q)] = t
      /\ \A n \in 1 .. Len(q) : r[n] = FillOne(r[n - 1], q[n], TRUE)
  BY <1>2 DEF FillerRun
<1>q. q = OpenJobs(s)
  OBVIOUS
<1> HIDE DEF q
<1> DEFINE G == {n \in Nat : n <= Len(q) => FillerAt(s, r[n], q, n)}
<1>4. 0 \in G
  <2>1. FillerAt(s, s, q, 0)
    BY DEF FillerAt, Closing
  <2> QED
    BY <1>3, <2>1
<1>5. ASSUME NEW n \in Nat, n \in G PROVE n + 1 \in G
  <2> SUFFICES ASSUME n + 1 <= Len(q) PROVE FillerAt(s, r[n + 1], q, n + 1)
    OBVIOUS
  <2>1. n + 1 \in 1 .. Len(q) /\ (n + 1) - 1 = n /\ n \in 0 .. Len(q) /\ n <= Len(q) /\ n < Len(q)
    BY <1>1
  <2>2. r[n + 1] = FillOne(r[n], q[n + 1], TRUE) /\ r[n] \in V /\ FillerAt(s, r[n], q, n)
    BY <1>2, <1>3, <1>5, <2>1
  <2>3. PassInv(r[n]) /\ r[n].jobs = s.jobs /\ r[n].completed = s.completed
    BY <2>2 DEF Passes
  <2>4. n = 0 => r[n] = s
    BY <1>3
  <2> QED
    BY <1>q, <2>1, <2>2, <2>3, <2>4, FillerAtStep
<1> HIDE DEF G
<1>6. Len(q) \in G
  BY <1>1, <1>4, <1>5, Induction
<1>7. FillerAt(s, r[Len(q)], q, Len(q))
  BY <1>1, <1>6 DEF G
<1> QED
  BY <1>q, <1>3, <1>7

LEMMA FillerHas ==
  ASSUME Fixed, NEW s, PassInv(s), Timely(s), ~s.stopped, NEW t, t = filler_sched(s, TRUE)
  PROVE  /\ RunnableJobs(t) # <<>> =>
              demand[Head(RunnableJobs(t))] <= N /\ NoRoom(t, Head(RunnableJobs(t)))
         /\ Keepable(s) => Keepable(t) /\ Waiting(t)
<1> DEFINE q == OpenJobs(s)
           D == {j \in Job : ~Open(s, j)}
           R == {j \in Job : ~Runnable(t, j)}
<1>1. PassInv(t) /\ t.jobs = s.jobs /\ t.completed = s.completed /\ t.promised = s.promised
  BY FillerKeeps
<1>2. FillerAt(s, t, q, Len(q))
  BY FillerStops
<1>3. /\ q \in Seq(Job) /\ IsInjective(q) /\ q = Without(s.jobs, D)
      /\ ToSet(q) = {j \in ToSet(s.jobs) : Open(s, j)}
  BY OpenJobsHas DEF OpenJobs
<1>4. /\ s.jobs \in Seq(Job) /\ IsInjective(s.jobs) /\ RunnableJobs(t) = Without(s.jobs, R)
      /\ s \in Pass /\ s.stopped \in BOOLEAN /\ t.stopped \in BOOLEAN
  BY <1>1, PassHas DEF PassInv, Known, RunnableJobs
<1> HIDE DEF q, D
<1>5. /\ Len(q) \in Nat /\ \A x \in ToSet(q) : \E i \in 1 .. Len(q) : q[i] = x
      /\ \A i \in 1 .. Len(q) : q[i] \in Job
  BY <1>3, ListApart
<1>6. /\ DOMAIN s.jobs = 1 .. Len(s.jobs) /\ Len(s.jobs) \in Nat
      /\ \A i \in DOMAIN s.jobs : s.jobs[i] \in Job /\ s.jobs[i] \in ToSet(s.jobs)
      /\ \A i, k \in DOMAIN s.jobs : s.jobs[i] = s.jobs[k] => i = k
  BY <1>4, ListApart
<1>7. ASSUME RunnableJobs(t) # <<>>
      PROVE  demand[Head(RunnableJobs(t))] <= N /\ NoRoom(t, Head(RunnableJobs(t)))
  <2> DEFINE x == Head(RunnableJobs(t))
  <2>1. PICK i \in DOMAIN s.jobs :
          s.jobs[i] = x /\ x \notin R /\ \A k \in DOMAIN s.jobs : k < i => s.jobs[k] \in R
    <3> DEFINE l == s.jobs
               p == Without(l, R)
    <3>1. l \in Seq(Job) /\ IsInjective(l) /\ p # <<>> /\ x = Head(p)
      BY <1>4, <1>7
    <3> HIDE DEF R, l, x
    <3>2. \E i \in DOMAIN l : /\ l[i] = Head(p) /\ l[i] \notin R
                              /\ \A k \in DOMAIN l : k < i => l[k] \in R
      BY <3>1, WithoutFirst
    <3> QED
      BY <3>1, <3>2 DEF l
  <2> HIDE DEF x
  <2>2. x \in Job /\ Runnable(t, x) /\ Open(t, x) /\ Open(s, x) /\ x \in ToSet(q)
    BY <1>2, <1>3, <1>6, <2>1 DEF FillerAt, Closing, Runnable
  <2>3. PICK m \in 1 .. Len(q) : q[m] = x
    BY <1>5, <2>2
  <2>4. Stopper(t, q, Len(q))
    BY <1>2, <1>4, <2>2, <2>3 DEF FillerAt
  <2>5. PICK k \in 1 .. Len(q) :
          /\ Runnable(t, q[k]) /\ demand[q[k]] <= N /\ NoRoom(t, q[k])
          /\ \A l \in 1 .. Len(q) : l < k => ~Runnable(t, q[l])
    BY <2>4 DEF Stopper
  <2>6. PICK f \in [1 .. Len(q) -> 1 .. Len(s.jobs)] :
          /\ \A l \in 1 .. Len(q) : q[l] = s.jobs[f[l]]
          /\ \A l, n \in 1 .. Len(q) : l < n => f[l] < f[n]
    <3> DEFINE l == s.jobs
               p == Without(l, D)
    <3>1. l \in Seq(Job) /\ q = p
      BY <1>3, <1>4
    <3> HIDE DEF l
    <3>2. \E f \in [1 .. Len(p) -> 1 .. Len(l)] :
            /\ \A i0 \in 1 .. Len(p) : p[i0] = l[f[i0]]
            /\ \A i0, k0 \in 1 .. Len(p) : i0 < k0 => f[i0] < f[k0]
      BY <3>1, WithoutOrder
    <3> QED
      BY <3>1, <3>2 DEF l
  <2>7. f[m] = i /\ f[k] \in DOMAIN s.jobs /\ s.jobs[f[k]] \notin R
    <3>1. f[m] \in DOMAIN s.jobs /\ f[k] \in DOMAIN s.jobs
      BY <1>6, <2>6
    <3>2. s.jobs[f[m]] = q[m] /\ s.jobs[f[k]] = q[k]
      BY <2>6
    <3>3. f[m] = i
      BY <1>6, <2>1, <2>3, <3>1, <3>2
    <3>4. s.jobs[f[k]] \notin R
      BY <2>5, <3>2
    <3> QED
      BY <3>1, <3>3, <3>4
  <2>8. ~(f[k] < i)
    BY <2>1, <2>7
  <2>9. ~(k < m)
    BY <2>6, <2>7, <2>8
  <2>10. ~(m < k)
    BY <2>2, <2>3, <2>5
  <2>11. m = k
    BY <2>9, <2>10
  <2> QED
    BY <2>3, <2>5, <2>11 DEF x
<1>8. ASSUME Keepable(s) PROVE Keepable(t) /\ Waiting(t)
  <2> SUFFICES ASSUME NEW h \in Promised(t)
               PROVE  /\ FirstOpen(t, h) /\ Runnable(t, h)
                      /\ now <= t.promised[h] /\ ReservableBy(t, h, t.promised[h])
                      /\ NoRoom(t, h)
    BY DEF Keepable, Waiting
  <2>1. h \in DOMAIN s.promised /\ h \in Job /\ Open(t, h)
    <3>1. s.promised \in Partial(Nat)
      BY <1>4, PassHas
    <3> QED
      BY <1>1, <3>1, PartialHas DEF Promised
  <2>2. Open(s, h)
    BY <1>2, <2>1 DEF FillerAt, Closing
  <2>3. /\ FirstOpen(s, h) /\ Runnable(s, h)
        /\ now <= s.promised[h] /\ ReservableBy(s, h, s.promised[h])
    BY <1>8, <2>1, <2>2 DEF Keepable, Promised
  <2>4. Len(q) > 0
    BY <2>3, FirstIsHead DEF q
  <2>5. t = Stopping(s, TRUE) /\ NoRoom(s, h)
    BY <1>2, <1>8, <2>4 DEF FillerAt
  <2>6. t.flags = s.flags /\ t.allocations = s.allocations
    <3>1. TRUE \in BOOLEAN
      OBVIOUS
    <3>2. /\ Stopping(s, TRUE).flags = s.flags /\ Stopping(s, TRUE).allocations = s.allocations
      BY <1>4, <3>1, StoppingHas
    <3> QED
      BY <2>5, <3>2
  <2>7. \A k : Open(t, k) <=> Open(s, k)
    BY <1>1, <2>6 DEF Open
  <2>8. FirstOpen(t, h) /\ Runnable(t, h)
    BY <1>1, <2>3, <2>7 DEF FirstOpen, Runnable, dependencies_fulfilled
  <2>9. NoRoom(t, h) /\ ReservableBy(t, h, t.promised[h])
    BY <1>1, <2>3, <2>5, <2>6 DEF NoRoom, ReservableBy, FreeBy
  <2> QED
    BY <1>1, <2>3, <2>8, <2>9
<1> QED
  BY <1>7, <1>8

-----------------------------------------------------------------------------
\* The reservation of the job at the head

\* Some numbers that have a bound have a greatest one.
LEMMA GreatestExists ==
  ASSUME NEW p \in Nat, NEW U \in SUBSET Nat, U # {}, \A x \in U : x <= p
  PROVE  \E u \in U : \A x \in U : x <= u
<1> DEFINE L == {p - x : x \in U}
<1>1. L \subseteq Nat /\ L # {}
  <2>1. \A x \in U : p - x \in Nat
    OBVIOUS
  <2>2. PICK x \in U : TRUE
    OBVIOUS
  <2>3. p - x \in L
    BY <2>2
  <2> QED
    BY <2>1, <2>3
<1>2. \E u \in L : \A v \in L : u <= v
  <2> HIDE DEF L
  <2> QED
    BY <1>1, LeastExists
<1>3. PICK x \in U : \A v \in L : p - x <= v
  BY <1>2
<1>4. \A y \in U : p - x <= p - y
  BY <1>3
<1>5. \A y \in U : y <= x
  BY <1>4
<1> QED
  BY <1>5

\* No job is requested for ever.
LEMMA Longest ==
  ASSUME Fixed
  PROVE  \E b \in Nat : \A j \in Job : requested_time(j) <= b
<1> DEFINE G == {T \in SUBSET Job : \E b \in Nat : \A j \in T : requested_time(j) <= b}
<1>1. \A j \in Job : requested_time(j) \in Nat
  BY Sizes
<1>2. ASSUME NEW T \in SUBSET Job, \A U \in SUBSET T : U # T => U \in G PROVE T \in G
  <2>1. CASE T = {}
    <3>1. 0 \in Nat /\ \A j \in T : requested_time(j) <= 0
      BY <2>1
    <3> QED
      BY <3>1
  <2>2. CASE T # {}
    <3>1. PICK k \in T : TRUE
      BY <2>2
    <3>2. T \ {k} \in SUBSET T /\ T \ {k} # T
      BY <3>1
    <3>3. PICK b \in Nat : \A j \in T \ {k} : requested_time(j) <= b
      BY <1>2, <3>2
    <3> DEFINE c == b + requested_time(k)
    <3>4. c \in Nat /\ b <= c /\ requested_time(k) <= c /\ k \in Job
      BY <1>1, <3>1, <3>3
    <3> HIDE DEF c
    <3>5. ASSUME NEW j \in T PROVE requested_time(j) <= c
      <4>1. j \in Job /\ requested_time(j) \in Nat
        BY <1>1
      <4>2. CASE j = k
        BY <3>4, <4>2
      <4>3. CASE j # k
        BY <3>3, <3>4, <4>1, <4>3
      <4> QED
        BY <4>2, <4>3
    <3> QED
      BY <3>4, <3>5
  <2> QED
    BY <2>1, <2>2
<1>3. IsFiniteSet(Job)
  BY PlatformAssumption
<1> HIDE DEF G
<1>4. SUBSET Job \subseteq G
  BY <1>2, <1>3, SetInduction
<1>5. Job \in G
  BY <1>4
<1> QED
  BY <1>5 DEF G

LEMMA AllocationNow ==
  ASSUME Fixed, NEW s, PassInv(s), NEW a \in s.allocations
  PROVE  /\ a \in AllocationSet /\ a.job \in Job /\ a.start \in Nat /\ a.start <= now
         /\ a.walltime = requested_time(a.job) /\ a.walltime \in Nat
         /\ estimated_end_time(a) \in Nat /\ estimated_end_time(a) + TIME_DELTA \in Nat
         /\ estimated_end_time(a) = a.start + requested_time(a.job)
         /\ a.allocated /\ a.start \in Times /\ a.machines \subseteq Machine
<1>1. a \in AllocationSet
  BY PassHas DEF PassInv
<1>2. a.job \in Job /\ a.start \in Nat /\ a.walltime \in Nat /\ a.machines \subseteq Machine
  BY <1>1, AllocationSetHas
<1>3. a.start <= now /\ a.walltime = requested_time(a.job) /\ a.allocated /\ a.start \in Times
  BY DEF PassInv, Sound
<1> QED
  BY <1>1, <1>2, <1>3, Sizes DEF estimated_end_time

\* Machines that are free by p are found at p or before.
LEMMA FitsBy ==
  ASSUME Fixed, NEW s, PassInv(s), NEW h \in Job, NEW p \in Nat, now <= p, ReservableBy(s, h, p)
  PROVE  \E t \in {now} \cup {estimated_end_time(a) + TIME_DELTA : a \in s.allocations} :
           t \in Nat /\ now <= t /\ t <= p /\ ResourcesAt(s, h, t) # {}
<1> DEFINE w == requested_time(h)
<1>1. now \in Nat /\ demand[h] \in Nat \ {0} /\ w \in Nat
  BY Sizes
<1>2. PICK M \in Wide(h) : FreeBy(s, h, M, p)
  BY DEF ReservableBy
<1> DEFINE A == {a \in s.allocations : a.machines \cap M # {}}
           C == {now} \cup {estimated_end_time(a) + TIME_DELTA : a \in A}
<1>3. \A a \in A : /\ estimated_end_time(a) + TIME_DELTA \in Nat
                   /\ estimated_end_time(a) + TIME_DELTA <= p
  BY <1>2, AllocationNow DEF FreeBy
<1>4. C \in SUBSET Nat /\ now \in C /\ \A x \in C : x <= p
  BY <1>1, <1>3
<1>5. PICK t \in C : \A x \in C : x <= t
  <2> HIDE DEF C
  <2> QED
    BY <1>4, GreatestExists
<1>6. t \in Nat /\ now <= t /\ t <= p /\ \A a \in A : estimated_end_time(a) + TIME_DELTA <= t
  BY <1>4, <1>5
<1>7. t \in {now} \cup {estimated_end_time(a) + TIME_DELTA : a \in s.allocations}
  BY <1>5
<1> HIDE DEF C
<1>8. ASSUME NEW m \in M PROVE AvailableAt(s, m, w, t)
  <2> SUFFICES ASSUME NEW a \in s.allocations, m \in a.machines
               PROVE  a.start <= t /\ t >= estimated_end_time(a) + TIME_DELTA
    BY DEF AvailableAt, On
  <2>1. a \in A
    OBVIOUS
  <2>2. a.start \in Nat /\ a.start <= now /\ estimated_end_time(a) + TIME_DELTA \in Nat
    BY AllocationNow
  <2> QED
    BY <1>1, <1>6, <2>1, <2>2
<1>9. ResourcesAt(s, h, t) # {}
  <2> DEFINE R == ResourcesAt(s, h, t)
  <2>1. R = {} => \A L \in Wide(h) : \E m \in L : ~AvailableAt(s, m, w, t)
    BY <1>1, FoundAt
  <2> HIDE DEF R
  <2>2. R # {}
    BY <1>8, <2>1
  <2> QED
    BY <2>2 DEF R
<1> QED
  BY <1>6, <1>7, <1>9

\* There is a time by which they are.
LEMMA ReservableSome ==
  ASSUME Fixed, NEW s, PassInv(s), NEW h \in Job, demand[h] <= N
  PROVE  \E p \in Nat : now <= p /\ ReservableBy(s, h, p)
<1>1. /\ now \in Nat /\ demand[h] \in Nat \ {0} /\ N \in Nat \ {0} /\ TIME_DELTA = 1
      /\ \A j \in Job : requested_time(j) \in Nat
  BY Sizes
<1>2. PICK b \in Nat : \A j \in Job : requested_time(j) <= b
  BY Longest
<1> DEFINE p == now + b + 1
           M == Neighbours(0, demand[h])
<1>3. p \in Nat /\ now <= p
  BY <1>1, <1>2
<1>4. ASSUME NEW a \in s.allocations PROVE estimated_end_time(a) + TIME_DELTA <= p
  <2>1. /\ a.job \in Job /\ a.start \in Nat /\ a.start <= now
        /\ estimated_end_time(a) = a.start + requested_time(a.job)
    BY AllocationNow
  <2>2. requested_time(a.job) \in Nat /\ requested_time(a.job) <= b
    BY <1>1, <1>2, <2>1
  <2> QED
    BY <1>1, <2>1, <2>2
<1>5. M \in Wide(h)
  <2>1. 0 \in Machine /\ M \subseteq Machine
    BY <1>1 DEF Machine, Neighbours
  <2> QED
    BY <2>1 DEF Wide
<1> HIDE DEF p, M
<1>6. FreeBy(s, h, M, p)
  BY <1>4 DEF FreeBy
<1> QED
  BY <1>3, <1>5, <1>6 DEF ReservableBy

\* The earliest reservation: its machines are free by then, and no machines are
\* free before.
LEMMA EarliestHas ==
  ASSUME Fixed, NEW s, PassInv(s), NEW h \in Job, demand[h] <= N, NEW a,
         a = find_with_earliest_start_time(s, h)
  PROVE  /\ a \in AllocationSet /\ ~a.allocated /\ a.job = h /\ a.start \in Nat /\ now <= a.start
         /\ a.walltime = requested_time(h) /\ a.machines \in Wide(h)
         /\ FreeBy(s, h, a.machines, a.start)
         /\ \A p \in Nat : now <= p /\ ReservableBy(s, h, p) => a.start <= p
<1> DEFINE C == {now} \cup {estimated_end_time(b) + TIME_DELTA : b \in s.allocations}
           F == {t \in C : t >= now /\ ResourcesAt(s, h, t) # {}}
           x == CHOOSE t \in F : \A u \in F : t <= u
           R == ResourcesAt(s, h, x)
<1>1. now \in Nat /\ demand[h] \in Nat \ {0}
  BY Sizes
<1>2. C \in SUBSET Nat
  BY <1>1, AllocationNow
<1>3. a = IF F = {} THEN Allocation(h, now, {}) ELSE Allocation(h, x, R)
  BY DEF find_with_earliest_start_time
<1>4. ASSUME NEW p \in Nat, now <= p, ReservableBy(s, h, p) PROVE \E t \in F : t <= p
  <2>1. PICK t \in C : t \in Nat /\ now <= t /\ t <= p /\ ResourcesAt(s, h, t) # {}
    BY <1>4, FitsBy
  <2> HIDE DEF C
  <2>2. t \in F
    BY <1>1, <2>1
  <2> QED
    BY <2>1, <2>2
<1>5. F # {}
  <2>1. PICK p \in Nat : now <= p /\ ReservableBy(s, h, p)
    BY ReservableSome
  <2> HIDE DEF F
  <2> QED
    BY <1>4, <2>1
<1>6. F \in SUBSET Nat
  BY <1>2
<1>7. x \in F /\ \A u \in F : x <= u
  <2> HIDE DEF F
  <2>1. \E t \in F : \A u \in F : t <= u
    BY <1>5, <1>6, LeastExists
  <2> QED
    BY <2>1
<1>8. x \in Nat /\ now <= x /\ R # {}
  <2>1. x \in F
    BY <1>7
  <2> HIDE DEF x
  <2> QED
    BY <1>1, <1>6, <2>1
<1> HIDE DEF F, x
<1>9. R \in Wide(h) /\ \A m \in R : AvailableAt(s, m, requested_time(h), x)
  <2> HIDE DEF R
  <2>1. R = ResourcesAt(s, h, x)
    BY DEF R
  <2> QED
    BY <1>1, <1>8, <2>1, FoundAt
<1>10. a = Allocation(h, x, R)
  BY <1>3, <1>5
<1> HIDE DEF R
<1>11. /\ a \in AllocationSet /\ ~a.allocated /\ a.job = h /\ a.start = x
       /\ a.walltime = requested_time(h) /\ a.machines = R
  <2>1. R \in SUBSET Machine
    BY <1>9 DEF Wide
  <2> QED
    BY <1>8, <1>10, <2>1, AllocationHas
<1>12. ASSUME NEW b \in s.allocations, b.machines \cap R # {}
       PROVE  estimated_end_time(b) + TIME_DELTA <= x
  <2>1. PICK m \in R : m \in b.machines
    BY <1>12
  <2>2. b.start \in Nat /\ b.start <= now /\ estimated_end_time(b) + TIME_DELTA \in Nat
    BY AllocationNow
  <2>3. b.start <= x
    BY <1>1, <1>8, <2>2
  <2>4. x >= estimated_end_time(b) + TIME_DELTA
    BY <1>9, <2>1, <2>3 DEF AvailableAt, On
  <2> QED
    BY <1>8, <2>2, <2>4
<1>13. ASSUME NEW p \in Nat, now <= p, ReservableBy(s, h, p) PROVE x <= p
  <2>1. PICK t \in F : t <= p
    BY <1>4, <1>13
  <2>2. t \in Nat /\ x <= t
    BY <1>6, <1>7, <2>1
  <2> QED
    BY <1>8, <2>1, <2>2
<1> QED
  BY <1>8, <1>9, <1>11, <1>12, <1>13 DEF FreeBy

LEMMA ExtendedTimes ==
  ASSUME NEW f \in Partial(Nat), NEW h \in Job, NEW p \in Nat
  PROVE  /\ Mapping(f, h, p) \in Partial(Nat)
         /\ DOMAIN Mapping(f, h, p) = DOMAIN f \cup {h}
         /\ Mapping(f, h, p)[h] = p
         /\ \A k \in DOMAIN f : k # h => Mapping(f, h, p)[k] = f[k]
<1>1. PICK D \in SUBSET Job : f \in [D -> Nat]
  BY DEF Partial
<1>2. Mapping(f, h, p) = [k \in D \cup {h} |-> IF k = h THEN p ELSE f[k]]
  BY <1>1 DEF Mapping
<1>3. Mapping(f, h, p) \in [D \cup {h} -> Nat]
  BY <1>1, <1>2
<1>4. D \cup {h} \in SUBSET Job
  OBVIOUS
<1>5. Mapping(f, h, p) \in Partial(Nat)
  BY <1>3, <1>4 DEF Partial
<1> QED
  BY <1>1, <1>2, <1>5

LEMMA PromiseHas ==
  ASSUME NEW s \in Pass, NEW h \in Job, NEW p \in Nat
  PROVE  /\ Promise(s, h, p) \in Partial(Nat)
         /\ DOMAIN Promise(s, h, p) \subseteq DOMAIN s.promised \cup {h}
         /\ DOMAIN s.promised \subseteq DOMAIN Promise(s, h, p)
         /\ \A k \in DOMAIN s.promised : k # h => Promise(s, h, p)[k] = s.promised[k]
         /\ h \in DOMAIN Promise(s, h, p) /\ Head(OpenJobs(s)) = h =>
              \/ Promise(s, h, p)[h] = p
              \/ h \in DOMAIN s.promised /\ s.promised[h] <= p
                 /\ Promise(s, h, p)[h] = s.promised[h]
         /\ Head(OpenJobs(s)) # h => Promise(s, h, p) = s.promised
<1> DEFINE f == s.promised
           g == Promise(s, h, p)
<1>1. f \in Partial(Nat)
  BY PassHas
<1>2. g = IF Head(OpenJobs(s)) # h \/ (h \in DOMAIN f /\ f[h] <= p) THEN f ELSE Mapping(f, h, p)
  BY DEF Promise
<1> HIDE DEF f, g
<1>3. /\ Mapping(f, h, p) \in Partial(Nat) /\ DOMAIN Mapping(f, h, p) = DOMAIN f \cup {h}
      /\ Mapping(f, h, p)[h] = p /\ \A k \in DOMAIN f : k # h => Mapping(f, h, p)[k] = f[k]
  BY <1>1, ExtendedTimes
<1>4. CASE g = f
  <2>1. h \in DOMAIN f /\ Head(OpenJobs(s)) = h => f[h] <= p \/ f[h] = p
    <3>1. CASE Head(OpenJobs(s)) # h \/ (h \in DOMAIN f /\ f[h] <= p)
      BY <3>1
    <3>2. CASE ~(Head(OpenJobs(s)) # h \/ (h \in DOMAIN f /\ f[h] <= p))
      BY <1>2, <1>3, <1>4, <3>2
    <3> QED
      BY <3>1, <3>2
  <2> QED
    BY <1>1, <1>4, <2>1 DEF f, g
<1>5. CASE g # f
  <2>1. g = Mapping(f, h, p) /\ Head(OpenJobs(s)) = h
    BY <1>2, <1>5
  <2> QED
    BY <1>3, <2>1 DEF f, g
<1> QED
  BY <1>4, <1>5

LEMMA PassInvPromising ==
  ASSUME NEW s, PassInv(s), NEW P \in Partial(Nat), NEW t, t = Promising(s, P)
  PROVE  /\ PassInv(t) /\ t.promised = P /\ t.jobs = s.jobs /\ t.flags = s.flags
         /\ t.completed = s.completed /\ t.allocations = s.allocations
<1>1. s \in Pass
  BY DEF PassInv
<1>2. /\ t \in Pass /\ t.promised = P /\ t.jobs = s.jobs /\ t.jobmap = s.jobmap
      /\ t.flags = s.flags /\ t.completed = s.completed
      /\ t.allocations = s.allocations /\ t.dead = s.dead
      /\ t.starts = s.starts /\ t.stopped = s.stopped
  BY <1>1, PromisingHas
<1>3. \A k : PlaceIn(t, k) = PlaceIn(s, k)
  BY <1>2 DEF PlaceIn
<1>4. Known(t) /\ Placed(t) /\ Touched(t) /\ Sound(t.allocations)
  BY <1>2, <1>3 DEF PassInv, Known, Placed, Touched
<1> QED
  BY <1>2, <1>4 DEF PassInv

\* The temporary allocation comes and goes; the promise stays.
LEMMA ReservedHas ==
  ASSUME Fixed, Late, NEW s, PassInv(s), NEW h \in Job, Open(s, h), demand[h] <= N, NEW a,
         a = find_with_earliest_start_time(s, h), NEW P, P = Promise(s, h, a.start),
         NEW u, u = Promising(s, P), NEW r, r = Reserved(s, h)
  PROVE  /\ P \in Partial(Nat) /\ u \in Pass
         /\ r.allocations = s.allocations \cup {Active(a)}
         /\ free(r, AllocationOf(r, h)) = u
<1>1. /\ a \in AllocationSet /\ ~a.allocated /\ a.job = h /\ a.start \in Nat /\ now <= a.start
      /\ a.walltime = requested_time(h) /\ a.machines \in Wide(h)
      /\ FreeBy(s, h, a.machines, a.start)
  BY EarliestHas
<1>2. s \in Pass /\ now \in Nat /\ demand[h] \in Nat \ {0} /\ requested_time(h) \in Nat
  BY Sizes DEF PassInv
<1>3. P \in Partial(Nat)
  <2> DEFINE x == a.start
  <2>1. x \in Nat /\ P = Promise(s, h, x)
    BY <1>1
  <2> HIDE DEF x
  <2> QED
    BY <1>2, <2>1, PromiseHas
<1>4. /\ PassInv(u) /\ u.allocations = s.allocations /\ u.flags = s.flags
      /\ u.completed = s.completed
  BY <1>3, PassInvPromising
<1>5. u \in Pass /\ ~u.dead
  BY <1>4 DEF PassInv
<1>6. Open(u, a.job) /\ (a.start > 0 \/ consumed)
  <2>1. now > 0 => a.start > 0
    BY <1>1, <1>2
  <2> QED
    BY <1>1, <1>4, <2>1 DEF Open, Late
<1>7. fits_job(a)
  <2>1. Cardinality(a.machines) = demand[h]
    BY <1>1, <1>2, WideHas
  <2> QED
    BY <1>1, <1>2, <2>1 DEF fits_job, fits_in_frame
<1>8. \A b \in u.allocations : b.job # a.job
  BY <1>1, <1>4 DEF PassInv, Known, Open
<1>9. ASSUME NEW b \in u.allocations, a.machines \cap b.machines # {}
      PROVE  ~overlaps_with(a, b)
  <2>1. b \in s.allocations
    BY <1>4
  <2>2. estimated_end_time(b) \in Nat /\ b.start \in Nat /\ b.start <= now
    BY <2>1, AllocationNow
  <2>3. estimated_end_time(b) + TIME_DELTA <= a.start
    BY <1>1, <1>9, <2>1 DEF FreeBy
  <2>4. estimated_end_time(b) + 1 <= a.start /\ b.start <= a.start
    BY <1>1, <1>2, <2>2, <2>3 DEF TIME_DELTA
  <2> QED
    BY <1>1, <2>2, <2>4 DEF overlaps_with
<1> DEFINE c == Active(a)
           B == u.allocations \cup {c}
<1>10. allocate(Created(u, a), a) = Having(u, B)
  BY <1>1, <1>5, <1>6, <1>7, <1>8, <1>9, AllocateNew
<1>11. u = [s EXCEPT !.promised = Promise(s, h, a.start)]
  BY DEF Promising
<1>12. r = Having(u, B)
  BY <1>10, <1>11 DEF Reserved
<1>13. c \in AllocationSet /\ c.allocated = TRUE /\ c.job = h /\ c \in B
  BY <1>1, ActiveHas
<1>14. B \in SUBSET AllocationSet
  <2>1. u.allocations \subseteq AllocationSet
    BY <1>5, PassHas
  <2> QED
    BY <1>13, <2>1
<1>15. \A b \in B : b.job = h => b = c
  BY <1>1, <1>8
<1>16. B \ {c} = u.allocations
  BY <1>1, <1>8, <1>13
<1>17. B = s.allocations \cup {Active(a)}
  BY <1>4
<1> HIDE DEF B, c
<1>18. r \in Pass /\ r.allocations = B /\ ~r.dead
  BY <1>5, <1>12, <1>14, HavingHas
<1>19. AllocationOf(r, h) = c
  <2>1. AllocationOf(r, h) \in r.allocations /\ AllocationOf(r, h).job = h
    BY <1>13, <1>18, AllocationOfHas
  <2> QED
    BY <1>15, <1>18, <2>1
<1>20. free(r, c) = Having(r, r.allocations \ {c})
  BY <1>13, <1>18, FreeIs
<1>21. Having(r, u.allocations) = u
  BY <1>5, <1>12, HavingTwice
<1> QED
  BY <1>3, <1>5, <1>16, <1>17, <1>18, <1>19, <1>20, <1>21

-----------------------------------------------------------------------------
\* Backfilling

LEMMA HeadIsFirst ==
  ASSUME NEW s, PassInv(s), OpenJobs(s) # <<>>
  PROVE  FirstOpen(s, Head(OpenJobs(s)))
<1> DEFINE l == s.jobs
           D == {j \in Job : ~Open(s, j)}
           q == Without(l, D)
<1>1. l \in Seq(Job) /\ IsInjective(l) /\ q = OpenJobs(s)
  BY PassHas DEF PassInv, Known, OpenJobs
<1>2. \A i \in DOMAIN l : l[i] \in Job
  <2> HIDE DEF l
  <2> QED
    BY <1>1, ListApart
<1>3. \A j \in Job : j \in D <=> ~Open(s, j)
  OBVIOUS
<1> HIDE DEF l, D
<1>4. PICK i \in DOMAIN l : /\ l[i] = Head(q) /\ l[i] \notin D
                            /\ \A k \in DOMAIN l : k < i => l[k] \in D
  BY <1>1, WithoutFirst
<1>5. Open(s, l[i]) /\ \A k \in DOMAIN l : k < i => ~Open(s, l[k])
  BY <1>2, <1>3, <1>4
<1> QED
  BY <1>1, <1>4, <1>5 DEF FirstOpen, l

\* While jobs are backfilled, h is the first that can run, and waits; if a
\* promise is to be kept, it is the one made to h.
Behind(v, h, s) ==
  /\ PassInv(v) /\ v.jobs = s.jobs /\ v.completed = s.completed
  /\ h \in ToSet(v.jobs) /\ Runnable(v, h) /\ NoRoom(v, h)
  /\ Keepable(v) /\ Promised(v) \subseteq {h}

\* The reservation is the promise, or better: what leaves its machines free by
\* then keeps the promise.
LEMMA PromiseStays ==
  ASSUME Fixed, NEW s, NEW h \in Job, demand[h] <= N, NEW v, Behind(v, h, s), NEW a,
         a = find_with_earliest_start_time(v, h),
         NEW t, PassInv(t), t.jobs = v.jobs, t.completed = v.completed,
         t.promised = Promise(v, h, a.start), Open(t, h), Closing(v, t),
         v.allocations \subseteq t.allocations, FreeBy(t, h, a.machines, a.start)
  PROVE  Behind(t, h, s)
<1> DEFINE P == Promise(v, h, a.start)
           x == a.start
<1>1. PassInv(v) /\ v \in Pass
  BY DEF Behind, PassInv
<1>2. /\ x \in Nat /\ now <= x /\ a.machines \in Wide(h)
      /\ \A p \in Nat : now <= p /\ ReservableBy(v, h, p) => x <= p
  BY <1>1, EarliestHas
<1>3. v.promised \in Partial(Nat) /\ DOMAIN v.promised \subseteq Job
      /\ \A k \in DOMAIN v.promised : v.promised[k] \in Nat
  <2>1. v.promised \in Partial(Nat)
    BY <1>1, PassHas
  <2> QED
    BY <2>1, PartialHas
<1>4. /\ DOMAIN P \subseteq DOMAIN v.promised \cup {h}
      /\ h \in DOMAIN P /\ Head(OpenJobs(v)) = h =>
           \/ P[h] = x
           \/ h \in DOMAIN v.promised /\ v.promised[h] <= x /\ P[h] = v.promised[h]
      /\ Head(OpenJobs(v)) # h => P = v.promised
  <2>1. x \in Nat /\ P = Promise(v, h, x)
    BY <1>2
  <2> HIDE DEF x, P
  <2> QED
    BY <1>1, <2>1, PromiseHas
<1>5. t.promised = P
  OBVIOUS
<1> HIDE DEF P
<1>6. Promised(t) \subseteq {h}
  <2> SUFFICES ASSUME NEW k \in Promised(t), k # h PROVE FALSE
    OBVIOUS
  <2>1. k \in DOMAIN v.promised /\ k \in Job /\ Open(t, k)
    BY <1>3, <1>4, <1>5 DEF Promised
  <2>2. k \in Promised(v)
    BY <2>1 DEF Promised, Closing
  <2> QED
    BY <2>2 DEF Behind
<1>7. Open(v, h) /\ h \in ToSet(v.jobs)
  BY DEF Behind, Runnable
<1>8. Runnable(t, h) /\ NoRoom(t, h)
  BY DEF Behind, Runnable, dependencies_fulfilled, NoRoom
<1>9. ASSUME h \in Promised(t)
      PROVE  FirstOpen(t, h) /\ now <= t.promised[h] /\ ReservableBy(t, h, t.promised[h])
  <2>1. h \in DOMAIN P
    BY <1>5, <1>9 DEF Promised
  <2>2. ASSUME h \in DOMAIN v.promised
        PROVE  /\ FirstOpen(v, h) /\ now <= v.promised[h]
               /\ ReservableBy(v, h, v.promised[h])
    <3>1. h \in Promised(v)
      BY <1>7, <2>2 DEF Promised
    <3> QED
      BY <3>1 DEF Behind, Keepable
  <2>3. Head(OpenJobs(v)) = h
    <3> SUFFICES ASSUME Head(OpenJobs(v)) # h PROVE FALSE
      OBVIOUS
    <3>1. FirstOpen(v, h)
      BY <1>4, <2>1, <2>2
    <3> QED
      BY <1>1, <3>1, FirstIsHead
  <2>4. FirstOpen(v, h)
    <3>1. h \in ToSet(OpenJobs(v)) /\ OpenJobs(v) \in Seq(Job)
      BY <1>1, <1>7, OpenJobsHas
    <3>2. OpenJobs(v) # <<>>
      <4>1. ToSet(<<>>) = {}
        BY DEF ToSet
      <4> QED
        BY <3>1, <4>1
    <3> QED
      BY <1>1, <2>3, <3>2, HeadIsFirst
  <2>5. P[h] = x
    <3>1. CASE P[h] = x
      BY <3>1
    <3>2. CASE P[h] # x
      <4>1. h \in DOMAIN v.promised /\ v.promised[h] <= x /\ P[h] = v.promised[h]
        BY <1>4, <2>1, <2>3, <3>2
      <4>2. v.promised[h] \in Nat /\ x <= v.promised[h]
        BY <1>2, <1>3, <2>2, <4>1
      <4> QED
        BY <1>2, <4>1, <4>2
    <3> QED
      BY <3>1, <3>2
  <2>6. FirstOpen(t, h)
    <3>1. PICK i \in DOMAIN v.jobs : /\ v.jobs[i] = h
                                     /\ \A k \in DOMAIN v.jobs : k < i => ~Open(v, v.jobs[k])
      BY <2>4 DEF FirstOpen
    <3>2. \A k \in DOMAIN v.jobs : v.jobs[k] \in Job
      <4> DEFINE l == v.jobs
      <4>1. l \in Seq(Job) /\ IsInjective(l)
        BY <1>1, PassHas DEF PassInv, Known
      <4> HIDE DEF l
      <4>2. \A k \in DOMAIN l : l[k] \in Job
        BY <4>1, ListApart
      <4> QED
        BY <4>2 DEF l
    <3>3. \A k \in DOMAIN v.jobs : k < i => ~Open(t, v.jobs[k])
      BY <3>1, <3>2 DEF Closing
    <3> QED
      BY <3>1, <3>3 DEF FirstOpen
  <2> QED
    BY <1>2, <1>5, <2>5, <2>6 DEF ReservableBy
<1>10. Keepable(t)
  BY <1>6, <1>8, <1>9 DEF Keepable
<1> QED
  BY <1>6, <1>7, <1>8, <1>10 DEF Behind

LEMMA FailingHas ==
  ASSUME NEW s \in Pass, NEW c \in BOOLEAN
  PROVE  /\ Failing(s, c) \in Pass /\ Failing(s, c).allocations = s.allocations
         /\ Failing(s, c).jobs = s.jobs /\ Failing(s, c).flags = s.flags
         /\ Failing(s, c).completed = s.completed /\ Failing(s, c).promised = s.promised
         /\ Failing(s, c).dead = (s.dead \/ c)
<1>1. (s.dead \/ c) \in BOOLEAN
  OBVIOUS
<1> QED
  BY <1>1 DEF Pass, Failing

\* A job that is not open cannot be reserved for.
LEMMA ScheduleDead ==
  ASSUME Fixed, NEW s \in Pass, NEW j \in Job, ~Open(s, j), NEW M \in SUBSET Machine,
         NEW t, t = schedule(s, j, M)
  PROVE  t \in Pass /\ t.dead
<1> DEFINE a == Allocation(j, now, M)
           A == s.allocations \cup {a}
           u == Having(s, A)
           c == \/ a.start <= 0 /\ ~consumed
                \/ \E b \in UNION {On(s, m) : m \in a.machines} : overlaps_with(a, b)
           v == Failing(u, c)
           d == ~(Open(v, a.job) /\ fits_job(a))
           w == Failing(v, d)
           e == ~Open(s, j) \/ \E b \in s.allocations : b.job = j
           r == Failing(w, e)
<1>1. a \in AllocationSet
  BY Sizes, AllocationHas
<1>2. A \in SUBSET AllocationSet
  BY <1>1, PassHas
<1>3. c \in BOOLEAN /\ d \in BOOLEAN /\ e \in BOOLEAN /\ e
  OBVIOUS
<1>4. add_resources(s, a) = v
  BY DEF add_resources, Having
<1>5. Created(s, a) = w
  BY <1>4 DEF Created, _reserve_job_on_allocation
<1>6. reserve(s, j, M) = r
  BY <1>5 DEF reserve
<1> HIDE DEF a, A, c, d, e
<1>7. u \in Pass
  BY <1>2, HavingHas
<1> HIDE DEF u
<1>8. v \in Pass
  BY <1>3, <1>7, FailingHas
<1> HIDE DEF v
<1>9. w \in Pass
  BY <1>3, <1>8, FailingHas
<1> HIDE DEF w
<1>10. r \in Pass /\ r.dead
  BY <1>3, <1>9, FailingHas
<1> HIDE DEF r
<1>11. schedule(s, j, M) = r
  BY <1>6, <1>10 DEF schedule
<1> QED
  BY <1>10, <1>11

\* Only the flag of j may change.
OnlyOne(v, t, j) == \A k \in Job : k # j => t.flags[k] = v.flags[k]

\* One backfilled job.
LEMMA BackfillOneHas ==
  ASSUME Fixed, Late, NEW s, NEW h \in Job, demand[h] <= N, NEW v, Behind(v, h, s),
         NEW j \in ToSet(v.jobs), j # h, NEW t, t = BackfillOne(v, h, j)
  PROVE  /\ Open(v, j) => Behind(t, h, s) /\ OnlyOne(v, t, j)
         /\ Behind(t, h, s) \/ (t \in Pass /\ t.dead)
<1> DEFINE a == find_with_earliest_start_time(v, h)
           P == Promise(v, h, a.start)
           u == Promising(v, P)
           r == Reserved(v, h)
           M == find_sufficient_resources_for_job(r, j)
<1>1. /\ PassInv(v) /\ v \in Pass /\ ~v.dead /\ Runnable(v, h) /\ Open(v, h)
      /\ v.flags \in [Job -> {"open", "scheduled", "rejected"}]
      /\ j \in Job
  BY PassHas DEF Behind, PassInv, Runnable
<1>2. /\ a \in AllocationSet /\ a.start \in Nat /\ now <= a.start
      /\ FreeBy(v, h, a.machines, a.start)
  BY <1>1, EarliestHas
<1> HIDE DEF a
<1>3. a = find_with_earliest_start_time(v, h)
  BY DEF a
<1>4. /\ P \in Partial(Nat) /\ u \in Pass
      /\ r.allocations = v.allocations \cup {Active(a)}
      /\ free(r, AllocationOf(r, h)) = u
  BY <1>1, <1>3, ReservedHas
<1>5. t = IF M # {} THEN schedule(u, j, M) ELSE u
  BY <1>1, <1>4 DEF BackfillOne
<1>6. /\ PassInv(u) /\ u.promised = P /\ u.jobs = v.jobs /\ u.flags = v.flags
      /\ u.completed = v.completed /\ u.allocations = v.allocations
  BY <1>1, <1>4, PassInvPromising
<1>7. /\ now \in Nat /\ demand[j] \in Nat \ {0} /\ requested_time(j) \in Nat
  BY <1>1, Sizes
<1>8. M # {} => M \in Wide(j) /\ \A m \in M : AvailableNow(r, m, requested_time(j))
  <2> HIDE DEF r
  <2> QED
    BY <1>1, <1>7, FoundNow
<1>9. /\ Active(a) \in r.allocations /\ Active(a).start = a.start
      /\ Active(a).machines = a.machines
  BY <1>2, <1>4, ActiveHas
<1> HIDE DEF u, r, M
<1>10. \A k : Open(u, k) <=> Open(v, k)
  BY <1>6 DEF Open
<1>11. ASSUME M # {}
       PROVE  /\ \A b \in v.allocations : b.machines \cap M = {}
              /\ a.machines \cap M # {} => now + requested_time(j) + TIME_DELTA <= a.start
  <2>1. ASSUME NEW b \in v.allocations, NEW m \in M, m \in b.machines PROVE FALSE
    <3>1. b.start \in Nat /\ b.start <= now
      BY <1>1, AllocationNow
    <3>2. b \in On(r, m)
      BY <1>4, <2>1 DEF On
    <3>3. b.start > now
      BY <1>8, <1>11, <3>2 DEF AvailableNow
    <3> QED
      BY <1>7, <3>1, <3>3
  <2>2. ASSUME NEW m \in M, m \in a.machines
        PROVE  now + requested_time(j) + TIME_DELTA <= a.start
    <3>1. Active(a) \in On(r, m)
      BY <1>9, <2>2 DEF On
    <3>2. Active(a).start >= now + requested_time(j) + TIME_DELTA
      BY <1>8, <1>11, <3>1 DEF AvailableNow
    <3> QED
      BY <1>2, <1>7, <1>9, <3>2 DEF TIME_DELTA
  <2> QED
    BY <2>1, <2>2
<1>12. CASE M = {}
  <2>1. t = u
    BY <1>5, <1>12
  <2>2. Open(t, h) /\ Closing(v, t)
    BY <1>1, <1>10, <2>1 DEF Closing
  <2>3. FreeBy(t, h, a.machines, a.start)
    BY <1>2, <1>6, <2>1 DEF FreeBy
  <2>4. Behind(t, h, s)
    BY <1>3, <1>6, <2>1, <2>2, <2>3, PromiseStays
  <2> QED
    BY <1>6, <2>1, <2>4 DEF OnlyOne
<1>13. CASE M # {} /\ Open(v, j)
  <2>1. t = schedule(u, j, M) /\ Open(u, j) /\ j \in ToSet(u.jobs) /\ M \in Wide(j)
    BY <1>5, <1>6, <1>8, <1>10, <1>13
  <2>2. \A b \in u.allocations : b.machines \cap M = {}
    BY <1>6, <1>11, <1>13
  <2>3. /\ PassInv(t) /\ t.jobs = u.jobs /\ t.completed = u.completed
        /\ t.promised = u.promised /\ t.flags = [u.flags EXCEPT ![j] = "scheduled"]
        /\ u.allocations \subseteq t.allocations
        /\ \A b \in t.allocations \ u.allocations :
             b.machines = M /\ estimated_end_time(b) = now + requested_time(j)
    BY <1>1, <1>6, <2>1, <2>2, ScheduleHas
  <2>4. t.flags[j] = "scheduled" /\ \A k \in Job : k # j => t.flags[k] = v.flags[k]
    BY <1>1, <1>6, <2>3
  <2>5. Open(t, h) /\ Closing(v, t)
    BY <1>1, <1>6, <2>3, <2>4 DEF Closing, Open
  <2>6. FreeBy(t, h, a.machines, a.start)
    <3> SUFFICES ASSUME NEW b \in t.allocations, b.machines \cap a.machines # {}
                 PROVE  estimated_end_time(b) + TIME_DELTA <= a.start
      BY DEF FreeBy
    <3>1. CASE b \in v.allocations
      BY <1>2, <3>1 DEF FreeBy
    <3>2. CASE b \notin v.allocations
      <4>1. b.machines = M /\ estimated_end_time(b) = now + requested_time(j)
        BY <1>6, <2>3, <3>2
      <4> QED
        BY <1>11, <1>13, <4>1
    <3> QED
      BY <3>1, <3>2
  <2>7. Behind(t, h, s)
    BY <1>3, <1>6, <2>3, <2>5, <2>6, PromiseStays
  <2> QED
    BY <2>4, <2>7 DEF OnlyOne
<1>14. CASE M # {} /\ ~Open(v, j)
  <2>1. t = schedule(u, j, M) /\ ~Open(u, j) /\ M \in SUBSET Machine
    BY <1>5, <1>8, <1>10, <1>14 DEF Wide
  <2>2. t \in Pass /\ t.dead
    BY <1>1, <1>4, <2>1, ScheduleDead
  <2> QED
    BY <1>14, <2>2
<1> QED
  BY <1>12, <1>13, <1>14

\* Two lists with nothing in common, one after the other.
LEMMA ListsJoined ==
  ASSUME NEW a \in Seq(Job), NEW b \in Seq(Job), IsInjective(a), IsInjective(b),
         ToSet(a) \cap ToSet(b) = {}
  PROVE  /\ a \o b \in Seq(Job) /\ ToSet(a \o b) = ToSet(a) \cup ToSet(b)
         /\ IsInjective(a \o b)
<1> DEFINE c == a \o b
           m == Len(a)
           n == Len(b)
<1>1. /\ m \in Nat /\ DOMAIN a = 1 .. m /\ \A i \in 1 .. m : a[i] \in ToSet(a)
      /\ \A i, k \in 1 .. m : a[i] = a[k] => i = k
      /\ \A x \in ToSet(a) : \E i \in 1 .. m : a[i] = x
  BY ListApart
<1>2. /\ n \in Nat /\ DOMAIN b = 1 .. n /\ \A i \in 1 .. n : b[i] \in ToSet(b)
      /\ \A i, k \in 1 .. n : b[i] = b[k] => i = k
      /\ \A x \in ToSet(b) : \E i \in 1 .. n : b[i] = x
  BY ListApart
<1>3. /\ c \in Seq(Job) /\ Len(c) = m + n
      /\ \A i \in 1 .. m + n : c[i] = IF i <= m THEN a[i] ELSE b[i - m]
  BY ConcatProperties
<1>4. DOMAIN c = 1 .. m + n
  BY <1>3, LenProperties
<1> HIDE DEF c, m, n
<1>5. ASSUME NEW i \in 1 .. m + n
      PROVE  \/ i \in 1 .. m /\ c[i] = a[i] /\ c[i] \in ToSet(a)
             \/ i - m \in 1 .. n /\ c[i] = b[i - m] /\ c[i] \in ToSet(b) /\ ~(i <= m)
  <2>1. i <= m => i \in 1 .. m
    BY <1>1, <1>2
  <2>2. ~(i <= m) => i - m \in 1 .. n
    BY <1>1, <1>2
  <2> QED
    BY <1>1, <1>2, <1>3, <2>1, <2>2
<1>6. \A i \in 1 .. m : i \in 1 .. m + n /\ c[i] = a[i]
  BY <1>1, <1>2, <1>3
<1>7. \A i \in 1 .. n : i + m \in 1 .. m + n /\ c[i + m] = b[i]
  <2> SUFFICES ASSUME NEW i \in 1 .. n PROVE i + m \in 1 .. m + n /\ c[i + m] = b[i]
    OBVIOUS
  <2>1. i + m \in 1 .. m + n /\ ~(i + m <= m) /\ (i + m) - m = i
    BY <1>1, <1>2
  <2> QED
    BY <1>3, <2>1
<1>8. ToSet(c) = ToSet(a) \cup ToSet(b)
  <2>1. \A x \in ToSet(c) : x \in ToSet(a) \cup ToSet(b)
    BY <1>4, <1>5 DEF ToSet
  <2>2. \A x \in ToSet(a) : x \in ToSet(c)
    BY <1>1, <1>4, <1>6 DEF ToSet
  <2>3. \A x \in ToSet(b) : x \in ToSet(c)
    BY <1>2, <1>4, <1>7 DEF ToSet
  <2> QED
    BY <2>1, <2>2, <2>3
<1>9. IsInjective(c)
  <2> SUFFICES ASSUME NEW i \in 1 .. m + n, NEW k \in 1 .. m + n, c[i] = c[k] PROVE i = k
    BY <1>4 DEF IsInjective
  <2>1. CASE i \in 1 .. m /\ c[i] = a[i] /\ c[i] \in ToSet(a)
    <3>1. k \in 1 .. m /\ c[k] = a[k]
      BY <1>5, <2>1
    <3> QED
      BY <1>1, <2>1, <3>1
  <2>2. CASE i - m \in 1 .. n /\ c[i] = b[i - m] /\ c[i] \in ToSet(b)
    <3>1. k - m \in 1 .. n /\ c[k] = b[k - m]
      BY <1>5, <2>2
    <3>2. i - m = k - m
      BY <1>2, <2>2, <3>1
    <3> QED
      BY <1>1, <1>2, <3>2
  <2> QED
    BY <1>5, <2>1, <2>2
<1> QED
  BY <1>3, <1>8, <1>9 DEF c

LEMMA InsertedHas ==
  ASSUME NEW r \in Seq(Job), NEW j \in Job, IsInjective(r), j \notin ToSet(r)
  PROVE  /\ Inserted(r, j) \in Seq(Job) /\ IsInjective(Inserted(r, j))
         /\ ToSet(Inserted(r, j)) = ToSet(r) \cup {j}
<1> DEFINE L == {k \in Job : walltime[k] > walltime[j]}
           a == Without(r, L)
           b == Without(r, Job \ L)
           c == Append(a, j)
<1>1. ToSet(r) \subseteq Job
  BY ElementOfSeq DEF ToSet
<1>2. Inserted(r, j) = c \o b
  BY DEF Inserted
<1>3. L \subseteq Job
  OBVIOUS
<1> HIDE DEF L
<1>4. /\ a \in Seq(Job) /\ IsInjective(a) /\ ToSet(a) = ToSet(r) \ L
      /\ b \in Seq(Job) /\ IsInjective(b) /\ ToSet(b) = ToSet(r) \ (Job \ L)
  BY WithoutHas
<1> HIDE DEF a, b
<1>5. c \in Seq(Job) /\ IsInjective(c) /\ ToSet(c) = ToSet(a) \cup {j}
  BY <1>4, AppendedSet, AppendProperties
<1> HIDE DEF c
<1>6. ToSet(c) \cap ToSet(b) = {} /\ ToSet(c) \cup ToSet(b) = ToSet(r) \cup {j}
  BY <1>1, <1>3, <1>4, <1>5
<1>7. c \o b \in Seq(Job) /\ IsInjective(c \o b) /\ ToSet(c \o b) = ToSet(c) \cup ToSet(b)
  BY <1>4, <1>5, <1>6, ListsJoined
<1> QED
  BY <1>2, <1>6, <1>7

\* The lists that a job can be inserted into, and the sort.
SortFold(f, q) ==
  f = [T \in SUBSET DOMAIN q |->
         IF T = {} THEN <<>> ELSE Inserted(f[T \ {Max(T)}], q[Max(T)])]

LEMMA InsertedType ==
  ASSUME NEW r \in Seq(Job), NEW j \in Job
  PROVE  Inserted(r, j) \in Seq(Job)
<1> DEFINE L == {k \in Job : walltime[k] > walltime[j]}
           a == Without(r, L)
           b == Without(r, Job \ L)
<1>1. Inserted(r, j) = Append(a, j) \o b
  BY DEF Inserted
<1> HIDE DEF L
<1>2. a \in Seq(Job) /\ b \in Seq(Job)
  BY WithoutHas
<1> HIDE DEF a, b
<1>3. Append(a, j) \in Seq(Job)
  BY <1>2, AppendProperties
<1> QED
  BY <1>1, <1>2, <1>3, ConcatProperties

LEMMA SortSteps ==
  ASSUME NEW q \in Seq(Job)
  PROVE  \E r \in [0 .. Len(q) -> Seq(Job)] :
           /\ r[0] = <<>> /\ r[Len(q)] = backfilling_sort(q)
           /\ \A n \in 1 .. Len(q) : r[n] = Inserted(r[n - 1], q[n])
<1> DEFINE V == Seq(Job)
           g == [p \in V \X Job |-> Inserted(p[1], p[2])]
<1>1. \A v \in V, e \in Job : g[<<v, e>>] = Inserted(v, e)
  OBVIOUS
<1>2. <<>> \in V
  BY EmptySeq
<1>3. g \in [V \X Job -> V]
  <2>1. \A v \in V, e \in Job : Inserted(v, e) \in V
    BY InsertedType
  <2> QED
    BY <2>1
<1>4. DOMAIN q = 1 .. Len(q) /\ Len(q) \in Nat /\ \A i \in 1 .. Len(q) : q[i] \in Job
  BY LenProperties, ElementOfSeq
<1> HIDE DEF g, V
<1>6. \A T \in SUBSET DOMAIN q : T # {} => q[Max(T)] \in Job
  BY <1>4, MaxExists
<1>7. PICK h \in [SUBSET DOMAIN q -> V] : Folding(h, q, <<>>, g)
  BY <1>2, <1>3, FoldExists
<1>8. ASSUME NEW T \in SUBSET DOMAIN q, T # {}
      PROVE  g[<<h[T \ {Max(T)}], q[Max(T)]>>] = Inserted(h[T \ {Max(T)}], q[Max(T)])
  BY <1>1, <1>6, <1>7, <1>8
<1>9. SortFold(h, q)
  BY <1>7, <1>8 DEF Folding, SortFold
<1> DEFINE k == CHOOSE f : SortFold(f, q)
<1>10. SortFold(k, q)
  BY <1>9
<1>11. backfilling_sort(q) = k[DOMAIN q]
  BY DEF backfilling_sort, FoldLeft, MapThenFoldSet, SortFold
<1> HIDE DEF k
<1>12. k[{}] = <<>>
  BY <1>10 DEF SortFold
<1>13. ASSUME NEW T \in SUBSET DOMAIN q, T # {}, k[T \ {Max(T)}] \in V
       PROVE  k[T] = g[<<k[T \ {Max(T)}], q[Max(T)]>>]
  <2>1. k[T] = Inserted(k[T \ {Max(T)}], q[Max(T)])
    BY <1>10, <1>13 DEF SortFold
  <2> QED
    BY <1>1, <1>6, <1>13, <2>1
<1>14. Follows(k, q, V, <<>>, g)
  BY <1>12, <1>13 DEF Follows
<1>15. PICK r \in [0 .. Len(q) -> V] : FoldRun(r, q, <<>>, g, k[DOMAIN q])
  BY <1>2, <1>3, <1>14, FoldSteps
<1>16. ASSUME NEW n \in 1 .. Len(q) PROVE r[n] = Inserted(r[n - 1], q[n])
  <2>1. n - 1 \in 0 .. Len(q) /\ q[n] \in Job
    BY <1>4
  <2> QED
    BY <1>1, <1>15, <2>1 DEF FoldRun
<1> QED
  BY <1>11, <1>15, <1>16 DEF FoldRun, V

\* The sort changes the order only.
LEMMA SortHas ==
  ASSUME NEW q \in Seq(Job), IsInjective(q)
  PROVE  /\ backfilling_sort(q) \in Seq(Job) /\ IsInjective(backfilling_sort(q))
         /\ ToSet(backfilling_sort(q)) = ToSet(q)
<1>1. PICK r \in [0 .. Len(q) -> Seq(Job)] :
        /\ r[0] = <<>> /\ r[Len(q)] = backfilling_sort(q)
        /\ \A n \in 1 .. Len(q) : r[n] = Inserted(r[n - 1], q[n])
  BY SortSteps
<1>2. /\ Len(q) \in Nat /\ DOMAIN q = 1 .. Len(q)
      /\ \A i \in 1 .. Len(q) : q[i] \in Job
      /\ \A i, k \in 1 .. Len(q) : q[i] = q[k] => i = k
  BY ListApart
<1> DEFINE Upto(n) == {q[i] : i \in 1 .. n}
           G == {n \in Nat : n <= Len(q) => IsInjective(r[n]) /\ ToSet(r[n]) = Upto(n)}
<1>3. 0 \in G
  <2>1. IsInjective(<<>>) /\ ToSet(<<>>) = {}
    BY DEF IsInjective, ToSet
  <2>2. Upto(0) = {}
    OBVIOUS
  <2> QED
    BY <1>1, <2>1, <2>2
<1>4. ASSUME NEW n \in Nat, n \in G PROVE n + 1 \in G
  <2> DEFINE m == n + 1
  <2> SUFFICES ASSUME m <= Len(q) PROVE IsInjective(r[m]) /\ ToSet(r[m]) = Upto(m)
    OBVIOUS
  <2>1. /\ m \in 1 .. Len(q) /\ m - 1 = n /\ n \in 0 .. Len(q) /\ n <= Len(q)
        /\ \A i \in 1 .. n : i \in 1 .. Len(q) /\ i # m /\ i \in 1 .. m
        /\ \A i \in 1 .. m : i = m \/ i \in 1 .. n
        /\ m \in 1 .. m
    BY <1>2
  <2> HIDE DEF m
  <2>2. r[m] = Inserted(r[n], q[m]) /\ r[n] \in Seq(Job) /\ q[m] \in Job
    BY <1>1, <1>2, <2>1
  <2>3. IsInjective(r[n]) /\ ToSet(r[n]) = Upto(n)
    BY <1>4, <2>1
  <2>4. q[m] \notin Upto(n)
    BY <1>2, <2>1
  <2>5. Upto(m) = Upto(n) \cup {q[m]}
    BY <2>1
  <2> HIDE DEF Upto
  <2>6. IsInjective(r[m]) /\ ToSet(r[m]) = ToSet(r[n]) \cup {q[m]}
    BY <2>2, <2>3, <2>4, InsertedHas
  <2> QED
    BY <2>3, <2>5, <2>6
<1> HIDE DEF G
<1>5. Len(q) \in G
  BY <1>2, <1>3, <1>4, Induction
<1>6. Upto(Len(q)) = ToSet(q)
  BY <1>2 DEF ToSet
<1>7. Len(q) \in 0 .. Len(q)
  BY <1>2
<1>8. IsInjective(r[Len(q)]) /\ ToSet(r[Len(q)]) = Upto(Len(q))
  BY <1>2, <1>5 DEF G
<1> HIDE DEF Upto
<1> QED
  BY <1>1, <1>6, <1>7, <1>8

LEMMA TailApart ==
  ASSUME NEW q \in Seq(Job), IsInjective(q), q # <<>>
  PROVE  /\ Head(q) \in ToSet(q) /\ Tail(q) \in Seq(Job) /\ IsInjective(Tail(q))
         /\ ToSet(Tail(q)) = ToSet(q) \ {Head(q)}
<1> DEFINE t == Tail(q)
           l == Len(q)
<1>1. /\ l \in Nat /\ DOMAIN q = 1 .. l
      /\ \A i \in 1 .. l : q[i] \in Job /\ q[i] \in ToSet(q)
      /\ \A i, k \in 1 .. l : q[i] = q[k] => i = k
      /\ \A x \in ToSet(q) : \E i \in 1 .. l : q[i] = x
  BY ListApart
<1>2. /\ t \in Seq(Job) /\ Head(q) = q[1] /\ Len(t) = l - 1
      /\ \A i \in 1 .. Len(t) : t[i] = q[i + 1]
  BY HeadTailProperties
<1>3. l > 0
  BY <1>1, EmptySeq
<1>4. DOMAIN t = 1 .. Len(t) /\ Len(t) \in Nat
  BY <1>2, LenProperties
<1> HIDE DEF t, l
<1>5. 1 \in 1 .. l /\ \A i \in 1 .. Len(t) : i + 1 \in 1 .. l /\ i + 1 # 1
  BY <1>1, <1>2, <1>3, <1>4
<1>6. \A i \in 1 .. l : i # 1 => i - 1 \in 1 .. Len(t) /\ (i - 1) + 1 = i
  BY <1>1, <1>2, <1>3
<1>7. Head(q) \in ToSet(q)
  BY <1>1, <1>2, <1>5
<1>8. IsInjective(t)
  <2> SUFFICES ASSUME NEW i \in 1 .. Len(t), NEW k \in 1 .. Len(t), t[i] = t[k] PROVE i = k
    BY <1>4 DEF IsInjective
  <2>1. i + 1 = k + 1
    BY <1>1, <1>2, <1>5
  <2> QED
    BY <1>4, <2>1
<1>9. ASSUME NEW x \in ToSet(t) PROVE x \in ToSet(q) /\ x # Head(q)
  <2>1. PICK i \in 1 .. Len(t) : t[i] = x
    BY <1>4, <1>9 DEF ToSet
  <2> QED
    BY <1>1, <1>2, <1>5, <2>1
<1>10. ASSUME NEW x \in ToSet(q), x # Head(q) PROVE x \in ToSet(t)
  <2>1. PICK i \in 1 .. l : q[i] = x
    BY <1>1
  <2>2. i # 1
    BY <1>2, <1>10, <2>1
  <2>3. i - 1 \in 1 .. Len(t) /\ t[i - 1] = x
    BY <1>2, <1>6, <2>1, <2>2
  <2> QED
    BY <1>4, <2>3 DEF ToSet
<1> QED
  BY <1>2, <1>7, <1>8, <1>9, <1>10 DEF t

\* The jobs that are backfilled, one after another.
BackfillAll(s, h, q) == FoldLeft(LAMBDA t, j : BackfillOne(t, h, j), s, q)

BackFold(f, s, h, q) ==
  f = [T \in SUBSET DOMAIN q |->
         IF T = {} THEN s ELSE BackfillOne(f[T \ {Max(T)}], h, q[Max(T)])]

LEMMA BackSteps ==
  ASSUME Fixed, Late, NEW s, NEW h \in Job, demand[h] <= N, Behind(s, h, s),
         NEW q \in Seq(Job), ToSet(q) \subseteq ToSet(s.jobs) \ {h}
  PROVE  \E r \in [0 .. Len(q) -> Pass] :
           /\ r[0] = s
           /\ r[Len(q)] = BackfillAll(s, h, q)
           /\ \A n \in 1 .. Len(q) : r[n] = BackfillOne(r[n - 1], h, q[n])
<1> DEFINE V == {p \in Pass : p.dead \/ Behind(p, h, s)}
           E == ToSet(s.jobs) \ {h}
           g == [p \in V \X E |-> BackfillOne(p[1], h, p[2])]
<1>1. \A v \in V, e \in E : g[<<v, e>>] = BackfillOne(v, h, e)
  OBVIOUS
<1>2. s \in V
  BY DEF Behind, PassInv
<1>3. g \in [V \X E -> V]
  <2>1. ASSUME NEW v \in V, NEW e \in E PROVE BackfillOne(v, h, e) \in V
    <3> DEFINE t == BackfillOne(v, h, e)
    <3>1. CASE v.dead
      <4>1. t = v
        BY <3>1 DEF BackfillOne
      <4> QED
        BY <4>1
    <3>2. CASE ~v.dead
      <4>1. Behind(v, h, s) /\ e \in ToSet(v.jobs) /\ e # h
        BY <3>2 DEF Behind
      <4>2. Behind(t, h, s) \/ (t \in Pass /\ t.dead)
        BY <4>1, BackfillOneHas
      <4> HIDE DEF t
      <4>3. t \in V
        BY <4>2 DEF Behind, PassInv
      <4> QED
        BY <4>3 DEF t
    <3> QED
      BY <3>1, <3>2
  <2> QED
    BY <2>1
<1>4. /\ DOMAIN q = 1 .. Len(q) /\ Len(q) \in Nat /\ \A i \in 1 .. Len(q) : q[i] \in E
  <2>1. DOMAIN q = 1 .. Len(q) /\ Len(q) \in Nat
    BY LenProperties
  <2> QED
    BY <2>1 DEF ToSet
<1>5. q \in Seq(E)
  BY <1>4, SeqDef
<1> HIDE DEF g, V, E
<1>6. \A T \in SUBSET DOMAIN q : T # {} => q[Max(T)] \in E
  BY <1>4, MaxExists
<1>7. PICK f \in [SUBSET DOMAIN q -> V] : Folding(f, q, s, g)
  BY <1>2, <1>3, <1>5, FoldExists
<1>8. ASSUME NEW T \in SUBSET DOMAIN q, T # {}
      PROVE  g[<<f[T \ {Max(T)}], q[Max(T)]>>] = BackfillOne(f[T \ {Max(T)}], h, q[Max(T)])
  BY <1>1, <1>6, <1>7, <1>8
<1>9. BackFold(f, s, h, q)
  BY <1>7, <1>8 DEF Folding, BackFold
<1> DEFINE k == CHOOSE d : BackFold(d, s, h, q)
<1>10. BackFold(k, s, h, q)
  BY <1>9
<1>11. BackfillAll(s, h, q) = k[DOMAIN q]
  BY DEF BackfillAll, FoldLeft, MapThenFoldSet, BackFold
<1> HIDE DEF k
<1>12. k[{}] = s
  BY <1>10 DEF BackFold
<1>13. ASSUME NEW T \in SUBSET DOMAIN q, T # {}, k[T \ {Max(T)}] \in V
       PROVE  k[T] = g[<<k[T \ {Max(T)}], q[Max(T)]>>]
  <2>1. k[T] = BackfillOne(k[T \ {Max(T)}], h, q[Max(T)])
    BY <1>10, <1>13 DEF BackFold
  <2> QED
    BY <1>1, <1>6, <1>13, <2>1
<1>14. Follows(k, q, V, s, g)
  BY <1>12, <1>13 DEF Follows
<1>15. PICK r \in [0 .. Len(q) -> V] : FoldRun(r, q, s, g, k[DOMAIN q])
  BY <1>2, <1>3, <1>5, <1>14, FoldSteps
<1>16. ASSUME NEW n \in 1 .. Len(q) PROVE r[n] = BackfillOne(r[n - 1], h, q[n])
  <2>1. n - 1 \in 0 .. Len(q) /\ q[n] \in E
    BY <1>4
  <2> QED
    BY <1>1, <1>15, <2>1 DEF FoldRun
<1>17. r \in [0 .. Len(q) -> Pass]
  BY DEF V
<1> QED
  BY <1>11, <1>15, <1>16, <1>17 DEF FoldRun

LEMMA Backfilled ==
  ASSUME Fixed, Late, NEW s, NEW h \in Job, demand[h] <= N, Behind(s, h, s),
         NEW q \in Seq(Job), IsInjective(q),
         ToSet(q) \subseteq {j \in ToSet(s.jobs) : Open(s, j) /\ j # h}
  PROVE  Behind(BackfillAll(s, h, q), h, s)
<1> DEFINE result == BackfillAll(s, h, q)
<1>1. PICK r \in [0 .. Len(q) -> Pass] :
        /\ r[0] = s /\ r[Len(q)] = result
        /\ \A n \in 1 .. Len(q) : r[n] = BackfillOne(r[n - 1], h, q[n])
  BY BackSteps
<1>2. /\ Len(q) \in Nat
      /\ \A i \in 1 .. Len(q) : q[i] \in Job /\ q[i] \in ToSet(q)
      /\ \A i, k \in 1 .. Len(q) : q[i] = q[k] => i = k
  BY ListApart
<1> HIDE DEF result
<1> DEFINE At(n) == /\ Behind(r[n], h, s)
                    /\ \A i \in 1 .. Len(q) : n < i => Open(r[n], q[i])
           G == {n \in Nat : n <= Len(q) => At(n)}
<1>3. 0 \in G
  <2>1. \A i \in 1 .. Len(q) : Open(s, q[i])
    BY <1>2
  <2> QED
    BY <1>1, <2>1
<1>4. ASSUME NEW n \in Nat, n \in G PROVE n + 1 \in G
  <2> DEFINE m == n + 1
             v == r[n]
             j == q[m]
             t == r[m]
  <2> SUFFICES ASSUME m <= Len(q) PROVE At(m)
    OBVIOUS
  <2>1. /\ m \in 1 .. Len(q) /\ m - 1 = n /\ n \in 0 .. Len(q) /\ n <= Len(q) /\ n < m
        /\ \A i \in 1 .. Len(q) : m < i => n < i /\ i # m
    BY <1>2
  <2> HIDE DEF m
  <2>2. Behind(v, h, s) /\ \A i \in 1 .. Len(q) : n < i => Open(v, q[i])
    BY <1>4, <2>1
  <2>3. t = BackfillOne(v, h, j)
    BY <1>1, <2>1
  <2>4. j \in ToSet(s.jobs) /\ j # h /\ Open(v, j) /\ j \in Job
    BY <1>2, <2>1, <2>2
  <2>5. j \in ToSet(v.jobs)
    BY <2>2, <2>4 DEF Behind
  <2> HIDE DEF v, j, t, At, G
  <2>6. Behind(t, h, s) /\ OnlyOne(v, t, j)
    BY <2>2, <2>3, <2>4, <2>5, BackfillOneHas
  <2>7. ASSUME NEW i \in 1 .. Len(q), m < i PROVE Open(t, q[i])
    <3>1. Open(v, q[i]) /\ q[i] \in Job
      BY <1>2, <2>1, <2>2, <2>7
    <3>2. q[i] # j
      BY <1>2, <2>1, <2>7 DEF j
    <3>3. t.completed = v.completed
      BY <2>2, <2>6 DEF Behind
    <3> QED
      BY <2>6, <3>1, <3>2, <3>3 DEF Open, OnlyOne
  <2> QED
    BY <2>6, <2>7 DEF At, t
<1> HIDE DEF G
<1>5. Len(q) \in G
  BY <1>2, <1>3, <1>4, Induction
<1>6. At(Len(q))
  BY <1>2, <1>5 DEF G
<1>7. Behind(result, h, s)
  BY <1>1, <1>6
<1> QED
  BY <1>7 DEF result

\* A job with a promise is the first that can run.
LEMMA PromisedIsHead ==
  ASSUME NEW s, PassInv(s), Keepable(s), RunnableJobs(s) # <<>>
  PROVE  Promised(s) \subseteq {Head(RunnableJobs(s))}
<1> SUFFICES ASSUME NEW k \in Promised(s) PROVE k = Head(RunnableJobs(s))
  OBVIOUS
<1> DEFINE l == s.jobs
           D == {j \in Job : ~Runnable(s, j)}
           q == Without(l, D)
<1>1. l \in Seq(Job) /\ IsInjective(l) /\ q = RunnableJobs(s)
  BY PassHas DEF PassInv, Known, RunnableJobs
<1>2. FirstOpen(s, k) /\ Runnable(s, k)
  BY DEF Keepable
<1>3. PICK i \in DOMAIN l : /\ l[i] = k
                            /\ \A n \in DOMAIN l : n < i => ~Open(s, l[n])
  BY <1>2 DEF FirstOpen
<1>4. \A n \in DOMAIN l : l[n] \in Job
  <2> HIDE DEF l
  <2> QED
    BY <1>1, ListApart
<1>5. l[i] \notin D /\ \A n \in DOMAIN l : n < i => l[n] \in D
  BY <1>2, <1>3, <1>4 DEF Runnable
<1> HIDE DEF l, D
<1>6. q # <<>> /\ Head(q) = l[i]
  BY <1>1, <1>5, WithoutFirst
<1> QED
  BY <1>1, <1>3, <1>6

LEMMA BackfillingHas ==
  ASSUME Fixed, NEW s, PassInv(s), Timely(s), Keepable(s), Waiting(s),
         RunnableJobs(s) # <<>> =>
           demand[Head(RunnableJobs(s))] <= N /\ NoRoom(s, Head(RunnableJobs(s))),
         NEW t, t = do_backfilling(s)
  PROVE  /\ PassInv(t) /\ t.jobs = s.jobs /\ t.completed = s.completed
         /\ Keepable(t) /\ Waiting(t)
<1> DEFINE p == RunnableJobs(s)
           h == Head(p)
           q == backfilling_sort(Tail(p))
<1>1. CASE p = <<>>
  <2>1. t = s
    BY <1>1 DEF do_backfilling
  <2> QED
    BY <2>1
<1>2. CASE p # <<>>
  <2>1. t = BackfillAll(s, h, q)
    BY <1>2 DEF do_backfilling, BackfillAll
  <2>2. /\ p \in Seq(Job) /\ IsInjective(p)
        /\ ToSet(p) = {j \in ToSet(s.jobs) : Runnable(s, j)}
    BY OpenJobsHas
  <2>3. demand[h] <= N /\ NoRoom(s, h) /\ Promised(s) \subseteq {h}
    BY <1>2, PromisedIsHead
  <2>4. ToSet(s.jobs) \subseteq Job
    BY PassHas DEF PassInv
  <2> DEFINE l == Tail(p)
  <2>5. h \in ToSet(p) /\ l \in Seq(Job) /\ IsInjective(l) /\ ToSet(l) = ToSet(p) \ {h}
    <3> HIDE DEF p
    <3> QED
      BY <1>2, <2>2, TailApart
  <2> HIDE DEF l
  <2>6. q \in Seq(Job) /\ IsInjective(q) /\ ToSet(q) = ToSet(l)
    <3>1. q = backfilling_sort(l)
      BY DEF l
    <3> HIDE DEF q
    <3> QED
      BY <2>5, <3>1, SortHas
  <2> HIDE DEF q, h, p
  <2>7. h \in Job /\ h \in ToSet(s.jobs) /\ Runnable(s, h)
    BY <2>2, <2>4, <2>5
  <2>8. Behind(s, h, s)
    BY <2>3, <2>7 DEF Behind
  <2>9. ToSet(q) \subseteq {j \in ToSet(s.jobs) : Open(s, j) /\ j # h}
    BY <2>2, <2>5, <2>6 DEF Runnable
  <2>late. Late
    BY <2>3, <2>7 DEF Timely, Startable, Runnable
  <2>10. Behind(t, h, s)
    BY <2>late, <2>1, <2>3, <2>6, <2>7, <2>8, <2>9, Backfilled
  <2>11. Waiting(t)
    BY <2>10 DEF Behind, Waiting
  <2> QED
    BY <2>10, <2>11 DEF Behind
<1> QED
  BY <1>1, <1>2

-----------------------------------------------------------------------------
\* The iteration, whichever the scheduler

\* What a callback leaves behind, but for the messages.
Settled(s) ==
  /\ PassInv(s)
  /\ policy = "easy" => Keepable(s) /\ Waiting(s)
  /\ policy # "easy" => s.promised = <<>>

LEMMA IterationHas ==
  ASSUME Fixed, policy \in Policies, NEW s, PassInv(s), Timely(s), ~s.stopped,
         policy = "easy" => Keepable(s), policy # "easy" => s.promised = <<>>,
         NEW t, t = Iteration(s)
  PROVE  Settled(t) /\ t.jobs = s.jobs /\ t.completed = s.completed
<1>1. policy \in {"fcfs", "filler", "easy"}
  BY HighLevelAssumption
<1> DEFINE u == filler_sched(s, TRUE)
           f == filler_sched(s, FALSE)
<1>2. PassInv(u) /\ u.jobs = s.jobs /\ u.completed = s.completed /\ u.promised = s.promised
  <2>1. PICK b \in BOOLEAN : b = TRUE
    OBVIOUS
  <2>2. u = filler_sched(s, b)
    BY <2>1
  <2> HIDE DEF u
  <2> QED
    BY <2>2, FillerKeeps
<1>3. PassInv(f) /\ f.jobs = s.jobs /\ f.completed = s.completed /\ f.promised = s.promised
  <2>1. PICK b \in BOOLEAN : b = FALSE
    OBVIOUS
  <2>2. f = filler_sched(s, b)
    BY <2>1
  <2> HIDE DEF f
  <2> QED
    BY <2>2, FillerKeeps
<1>4. /\ RunnableJobs(u) # <<>> =>
           demand[Head(RunnableJobs(u))] <= N /\ NoRoom(u, Head(RunnableJobs(u)))
      /\ Keepable(s) => Keepable(u) /\ Waiting(u)
  BY FillerHas
<1>5. CASE policy = "fcfs"
  <2>1. t = u /\ policy # "easy"
    BY <1>5 DEF Iteration, SchedFcfs
  <2> HIDE DEF u
  <2> QED
    BY <1>2, <2>1 DEF Settled
<1>6. CASE policy = "filler"
  <2>1. t = f /\ policy # "easy"
    BY <1>6 DEF Iteration, SchedFiller
  <2> HIDE DEF f
  <2> QED
    BY <1>3, <2>1 DEF Settled
<1>7. CASE policy = "easy"
  <2>1. t = do_backfilling(u)
    BY <1>7 DEF Iteration, SchedEasySjfBackfill, backfilling_sched
  <2> HIDE DEF u
  <2>2. Keepable(u) /\ Waiting(u)
    BY <1>4, <1>7
  <2>3. /\ PassInv(t) /\ t.jobs = u.jobs /\ t.completed = u.completed
        /\ Keepable(t) /\ Waiting(t)
    BY <1>2, <1>4, <2>1, <2>2, TimelyStays, BackfillingHas
  <2> QED
    BY <1>2, <1>7, <2>3 DEF Settled
<1> QED
  BY <1>1, <1>5, <1>6, <1>7

-----------------------------------------------------------------------------
\* The first iteration, when the clock is still 0

\* Neither a list of one job nor one of none hides anything.
LEMMA SingleHas ==
  ASSUME NEW j \in Job, NEW q \in Seq(Job), IsInjective(q), ToSet(q) = {j}
  PROVE  Len(q) = 1 /\ q[1] = j /\ q # <<>> /\ Tail(q) = <<>> /\ q \in Seq({j})
<1>1. /\ Len(q) \in Nat /\ DOMAIN q = 1 .. Len(q)
      /\ \A i \in 1 .. Len(q) : q[i] \in {j}
      /\ \A i, k \in 1 .. Len(q) : q[i] = q[k] => i = k
      /\ \E i \in 1 .. Len(q) : q[i] = j
  BY ListApart
<1>2. 1 \in 1 .. Len(q)
  BY <1>1
<1>3. ~(Len(q) > 1)
  <2> SUFFICES ASSUME Len(q) > 1 PROVE FALSE
    OBVIOUS
  <2>1. 2 \in 1 .. Len(q) /\ q[1] = j /\ q[2] = j
    BY <1>1, <1>2
  <2> QED
    BY <1>1, <1>2, <2>1
<1>4. Len(q) = 1 /\ q[1] = j
  BY <1>1, <1>2, <1>3
<1>5. q # <<>>
  BY <1>4
<1>6. q \in Seq({j})
  BY <1>1, SeqDef
<1>7. Tail(q) = <<>>
  <2>1. Tail(q) \in Seq(Job) /\ Len(Tail(q)) = Len(q) - 1
    BY <1>5, HeadTailProperties
  <2>2. Len(Tail(q)) = 0
    BY <1>4, <2>1
  <2> QED
    BY <2>1, <2>2, EmptySeq
<1> QED
  BY <1>4, <1>5, <1>6, <1>7

LEMMA NoneBackfilled ==
  ASSUME NEW s, NEW h
  PROVE  BackfillAll(s, h, <<>>) = s
<1> DEFINE f == [T \in SUBSET DOMAIN <<>> |-> s]
           k == CHOOSE d : BackFold(d, s, h, <<>>)
<1>1. DOMAIN <<>> = {}
  OBVIOUS
<1>2. \A T \in SUBSET DOMAIN <<>> : T = {}
  BY <1>1
<1>3. BackFold(f, s, h, <<>>)
  BY <1>2 DEF BackFold
<1>4. BackFold(k, s, h, <<>>)
  BY <1>3
<1>5. BackfillAll(s, h, <<>>) = k[DOMAIN <<>>]
  BY DEF BackfillAll, FoldLeft, MapThenFoldSet, BackFold
<1> HIDE DEF k
<1>6. k[{}] = s
  BY <1>4 DEF BackFold
<1> QED
  BY <1>1, <1>5, <1>6

\* Allocation.__init__ refuses what would start at 0.
LEMMA ScheduleRefused ==
  ASSUME Fixed, ~Late, NEW s \in Pass, NEW j \in Job, NEW M \in SUBSET Machine,
         NEW t, t = schedule(s, j, M)
  PROVE  /\ t \in Pass /\ t.dead /\ t.jobs = s.jobs /\ t.flags = s.flags
         /\ t.completed = s.completed /\ t.promised = s.promised
<1> DEFINE a == Allocation(j, now, M)
           A == s.allocations \cup {a}
           u == Having(s, A)
           c == \/ a.start <= 0 /\ ~consumed
                \/ \E b \in UNION {On(s, m) : m \in a.machines} : overlaps_with(a, b)
           v == Failing(u, c)
           d == ~(Open(v, a.job) /\ fits_job(a))
           w == Failing(v, d)
           e == ~Open(s, j) \/ \E b \in s.allocations : b.job = j
           r == Failing(w, e)
<1>1. now \in Nat /\ now = 0 /\ ~consumed
  BY Sizes DEF Late
<1>2. a \in AllocationSet /\ a.start = now
  BY <1>1, AllocationHas
<1>3. A \in SUBSET AllocationSet
  BY <1>2, PassHas
<1>4. c \in BOOLEAN /\ d \in BOOLEAN /\ e \in BOOLEAN
  OBVIOUS
<1>5. c
  <2>1. a.start <= 0
    BY <1>1, <1>2
  <2> QED
    BY <1>1, <2>1
<1>6. add_resources(s, a) = v
  BY DEF add_resources, Having
<1>7. Created(s, a) = w
  BY <1>6 DEF Created, _reserve_job_on_allocation
<1>8. reserve(s, j, M) = r
  BY <1>7 DEF reserve
<1> HIDE DEF a, A, c, d, e
<1>9. /\ u \in Pass /\ u.jobs = s.jobs /\ u.flags = s.flags
      /\ u.completed = s.completed /\ u.promised = s.promised
  BY <1>3, HavingHas
<1> HIDE DEF u
<1>10. /\ v \in Pass /\ v.dead /\ v.jobs = s.jobs /\ v.flags = s.flags
       /\ v.completed = s.completed /\ v.promised = s.promised
  BY <1>4, <1>5, <1>9, FailingHas
<1> HIDE DEF v
<1>11. /\ w \in Pass /\ w.dead /\ w.jobs = s.jobs /\ w.flags = s.flags
       /\ w.completed = s.completed /\ w.promised = s.promised
  <2>1. /\ w \in Pass /\ w.jobs = v.jobs /\ w.flags = v.flags
        /\ w.completed = v.completed /\ w.promised = v.promised
        /\ w.dead = (v.dead \/ d)
    BY <1>4, <1>10, FailingHas
  <2>2. w.dead
    BY <1>10, <2>1, Zenon
  <2> QED
    BY <1>10, <2>1, <2>2, Zenon
<1> HIDE DEF w
<1>12. /\ r \in Pass /\ r.dead /\ r.jobs = s.jobs /\ r.flags = s.flags
       /\ r.completed = s.completed /\ r.promised = s.promised
  <2>1. /\ r \in Pass /\ r.jobs = w.jobs /\ r.flags = w.flags
        /\ r.completed = w.completed /\ r.promised = w.promised
        /\ r.dead = (w.dead \/ e)
    BY <1>4, <1>11, FailingHas
  <2>2. r.dead
    BY <1>11, <2>1, Zenon
  <2> QED
    BY <1>11, <2>1, <2>2, Zenon
<1> HIDE DEF r
<1>13. schedule(s, j, M) = r
  BY <1>8, <1>12 DEF schedule
<1> QED
  BY <1>12, <1>13

\* The first job, when it can run and fits, is started and refused.
LEMMA FirstRefused ==
  ASSUME Fixed, ~Late, NEW s, PassInv(s), ~s.stopped, s.allocations = {}, NEW j \in Job,
         Runnable(s, j), demand[j] <= N, NEW b, NEW t, t = FillOne(s, j, b)
  PROVE  /\ t \in Pass /\ t.dead /\ t.jobs = s.jobs /\ t.flags = s.flags
         /\ t.completed = s.completed /\ t.promised = s.promised
<1> DEFINE M == find_sufficient_resources_for_job(s, j)
           L == Neighbours(0, demand[j])
<1>1. s \in Pass /\ ~s.dead /\ demand[j] \in Nat \ {0} /\ N \in Nat \ {0}
  BY Sizes DEF PassInv
<1>2. L \in Wide(j)
  <2>1. 0 \in Machine /\ L \subseteq Machine
    BY <1>1 DEF Machine, Neighbours
  <2> QED
    BY <2>1 DEF Wide
<1>3. ~NoRoom(s, j)
  BY <1>2 DEF NoRoom
<1>4. M # {} /\ M \in Wide(j)
  BY <1>3, FreeNow
<1>5. M \in SUBSET Machine
  BY <1>1, <1>4, WideHas
<1>6. t = schedule(s, j, M)
  BY <1>1, <1>4 DEF FillOne
<1> HIDE DEF M
<1> QED
  BY <1>1, <1>5, <1>6, ScheduleRefused

LEMMA FirstFilled ==
  ASSUME Fixed, ~Late, NEW s, PassInv(s), ~s.stopped, s.allocations = {}, NEW j \in Job,
         ToSet(s.jobs) = {j}, Runnable(s, j), demand[j] <= N, NEW b,
         NEW t, t = filler_sched(s, b)
  PROVE  /\ t \in Pass /\ t.dead /\ t.jobs = s.jobs /\ t.flags = s.flags
         /\ t.completed = s.completed /\ t.promised = s.promised
<1> DEFINE u == FillOne(s, j, b)
           q == OpenJobs(s)
           V == {s, u}
<1>1. /\ u \in Pass /\ u.dead /\ u.jobs = s.jobs /\ u.flags = s.flags
      /\ u.completed = s.completed /\ u.promised = s.promised
  BY FirstRefused
<1>2. FillOne(u, j, b) = u
  <2> HIDE DEF u
  <2> QED
    BY <1>1 DEF FillOne
<1>3. Len(q) = 1 /\ q[1] = j /\ q \in Seq({j})
  <2>1. q \in Seq(Job) /\ IsInjective(q) /\ ToSet(q) = {j}
    BY OpenJobsHas DEF Runnable
  <2> HIDE DEF q
  <2> QED
    BY <2>1, SingleHas
<1>4. \A v \in V, e \in {j} : FillOne(v, e, b) \in V
  BY <1>2
<1>5. s \in V
  OBVIOUS
<1> HIDE DEF V
<1>6. PICK r \in [0 .. Len(q) -> V] : FillerRun(r, s, b)
  BY <1>3, <1>4, <1>5, FillerRuns
<1>7. r[0] = s /\ r[1] = t /\ r[1] = FillOne(r[0], j, b)
  <2>1. 1 \in 1 .. Len(OpenJobs(s)) /\ 1 - 1 = 0
    BY <1>3
  <2> QED
    BY <1>3, <1>6, <2>1 DEF FillerRun
<1>8. t = u
  BY <1>7
<1> QED
  BY <1>1, <1>8

LEMMA FirstPass ==
  ASSUME Fixed, ~Late, policy \in Policies, NEW s, PassInv(s), ~s.stopped,
         s.allocations = {}, NEW j \in Job, ToSet(s.jobs) = {j}, Runnable(s, j),
         demand[j] <= N, NEW t, t = Iteration(s)
  PROVE  t.dead = TRUE /\ t.promised = s.promised
<1>1. policy \in {"fcfs", "filler", "easy"}
  BY HighLevelAssumption
<1> DEFINE u == filler_sched(s, TRUE)
           f == filler_sched(s, FALSE)
<1>2. /\ u \in Pass /\ u.dead /\ u.jobs = s.jobs /\ u.flags = s.flags
      /\ u.completed = s.completed /\ u.promised = s.promised
  BY FirstFilled
<1>3. f \in Pass /\ f.dead /\ f.promised = s.promised
  BY FirstFilled
<1>4. u.dead = TRUE /\ f.dead = TRUE
  BY <1>2, <1>3, PassHas
<1>5. CASE policy = "fcfs"
  BY <1>2, <1>4, <1>5 DEF Iteration, SchedFcfs
<1>6. CASE policy = "filler"
  BY <1>3, <1>4, <1>6 DEF Iteration, SchedFiller
<1>7. CASE policy = "easy"
  <2>1. t = do_backfilling(u)
    BY <1>7 DEF Iteration, SchedEasySjfBackfill, backfilling_sched
  <2> HIDE DEF u
  <2> DEFINE p == RunnableJobs(u)
             l == Tail(p)
             q == backfilling_sort(l)
  <2>2. p = RunnableJobs(s)
    BY <1>2 DEF RunnableJobs, Runnable, Open, dependencies_fulfilled
  <2>3. p \in Seq(Job) /\ IsInjective(p) /\ ToSet(p) = {j}
    BY <2>2, OpenJobsHas
  <2>4. p # <<>> /\ l = <<>>
    <3> HIDE DEF p
    <3> QED
      BY <2>3, SingleHas
  <2>5. t = BackfillAll(u, Head(p), q)
    BY <2>1, <2>4 DEF do_backfilling, BackfillAll
  <2> HIDE DEF p, l
  <2>6. l \in Seq(Job) /\ IsInjective(l) /\ ToSet(l) = {}
    <3>1. DOMAIN <<>> = {} /\ <<>> \in Seq(Job)
      OBVIOUS
    <3> QED
      BY <2>4, <3>1 DEF ToSet, IsInjective
  <2>7. q \in Seq(Job) /\ ToSet(q) = {}
    BY <2>6, SortHas
  <2> HIDE DEF q
  <2>8. q = <<>>
    <3>1. Len(q) \in Nat /\ DOMAIN q = 1 .. Len(q)
      BY <2>7, LenProperties
    <3>2. \A i \in DOMAIN q : q[i] \in ToSet(q)
      BY DEF ToSet
    <3>3. 1 \notin 1 .. Len(q)
      BY <2>7, <3>1, <3>2
    <3>4. Len(q) = 0
      BY <3>1, <3>3
    <3> QED
      BY <2>7, <3>4, EmptySeq
  <2>9. t = u
    BY <2>5, <2>8, NoneBackfilled
  <2> QED
    BY <1>2, <1>4, <2>9
<1> QED
  BY <1>1, <1>5, <1>6, <1>7

-----------------------------------------------------------------------------
\* The callbacks

\* What a pass does to the variables when it ends.
Commits(s) ==
  /\ jobs' = s.jobs /\ jobmap' = s.jobmap /\ flags' = s.flags
  /\ completed' = s.completed /\ allocations' = s.allocations
  /\ promised' = s.promised /\ dead' = s.dead
  /\ consumed' = (consumed \/ ~s.dead)
  /\ place' = [j \in DOMAIN place \cup DOMAIN s.starts |->
                 IF j \in DOMAIN s.starts THEN s.starts[j] ELSE place[j]]
  /\ status' = [j \in Job |-> IF j \in DOMAIN s.starts THEN "running"
                              ELSE IF s.flags[j] = "rejected" THEN "rejected"
                              ELSE status[j]]
  /\ UNCHANGED <<demand, now, rigid>>

LEMMA ObjectsHas ==
  /\ Objects.jobs = jobs /\ Objects.jobmap = jobmap /\ Objects.flags = flags
  /\ Objects.completed = completed /\ Objects.allocations = allocations
  /\ Objects.promised = promised /\ Objects.dead = dead
  /\ Objects.starts = <<>> /\ Objects.stopped = FALSE
  BY DEF Objects

\* The objects between two callbacks are those of a pass that has not begun.
LEMMA ObjectsPass ==
  ASSUME jobs \in Seq(Job), jobmap \subseteq Job,
         flags \in [Job -> {"open", "scheduled", "rejected"}], completed \subseteq Job,
         allocations \subseteq AllocationSet, promised \in Partial(Nat), dead \in BOOLEAN
  PROVE  Objects \in Pass
<1>1. <<>> \in Partial(SUBSET Machine)
  BY EmptyPartial
<1> QED
  BY <1>1 DEF Objects, Pass

\* A job that a pass has touched was waiting.
LEMMA LifeGoesOn ==
  ASSUME status \in [Job -> {"future", "waiting", "rejected", "running", "completed"}],
         NEW m, m.flags = flags, NEW t, t \in Pass, Touched(t), t.jobs = m.jobs,
         t.completed = m.completed, NEW q, NEW k \in Job, Life(m, q, k),
         flags \in [Job -> {"open", "scheduled", "rejected"}], Commits(t)
  PROVE  Life(Objects, q, k)'
<1>1. /\ Objects'.jobs = m.jobs /\ Objects'.completed = m.completed
      /\ Objects'.flags = t.flags
  BY DEF Objects, Commits
<1>2. t.flags \in [Job -> {"open", "scheduled", "rejected"}]
  BY PassHas
<1>3. /\ DOMAIN t.starts = {j \in Job : t.flags[j] = "scheduled" /\ flags[j] # "scheduled"}
      /\ status'[k] = IF k \in DOMAIN t.starts THEN "running"
                      ELSE IF t.flags[k] = "rejected" THEN "rejected" ELSE status[k]
  BY DEF Touched, Commits
<1>4. CASE t.flags[k] = flags[k]
  <2>1. k \notin DOMAIN t.starts
    BY <1>3, <1>4
  <2>2. flags[k] = "rejected" => status[k] = "rejected"
    BY DEF Life
  <2>3. status'[k] = status[k]
    BY <1>3, <1>4, <2>1, <2>2
  <2> QED
    BY <1>1, <1>4, <2>3 DEF Life
<1>5. CASE t.flags[k] # flags[k]
  <2>1. flags[k] = "open" /\ k \in ToSet(m.jobs) /\ k \notin m.completed
    BY <1>5 DEF Touched
  <2>2. status[k] = "waiting" /\ ~Has(q, <<"JOB_SUBMITTED", k>>) /\ ~Has(q, <<"JOB_COMPLETED", k>>)
    BY <2>1 DEF Life
  <2>3. CASE t.flags[k] = "scheduled"
    <3>1. status'[k] = "running"
      BY <1>3, <2>1, <2>3
    <3> QED
      BY <1>1, <2>1, <2>2, <2>3, <3>1 DEF Life
  <2>4. CASE t.flags[k] = "rejected"
    <3>1. status'[k] = "rejected"
      BY <1>3, <2>4
    <3> QED
      BY <1>1, <2>1, <2>2, <2>4, <3>1 DEF Life
  <2> QED
    BY <1>2, <1>5, <2>1, <2>3, <2>4
<1> QED
  BY <1>4, <1>5

\* When a pass has ended, the invariant holds again.
LEMMA AfterPass ==
  ASSUME Typed, flags \in [Job -> {"open", "scheduled", "rejected"}],
         NEW m, m.flags = flags, NEW t, Settled(t), t.jobs = m.jobs,
         t.completed = m.completed, inbox' \in Seq(Message), loop' = loop, Once(inbox'),
         \A k \in Job : Life(m, inbox', k), Commits(t)
  PROVE  Inv'
<1>1. /\ PassInv(t) /\ t \in Pass /\ ~t.dead /\ Sound(t.allocations) /\ Known(t) /\ Placed(t)
      /\ Touched(t)
  BY DEF Settled, PassInv
<1>2. /\ t.jobs \in Seq(Job) /\ t.jobmap \subseteq Job /\ t.completed \subseteq Job
      /\ t.flags \in [Job -> {"open", "scheduled", "rejected"}]
      /\ t.allocations \subseteq AllocationSet /\ t.promised \in Partial(Nat)
      /\ t.starts \in Partial(SUBSET Machine) /\ t.dead \in BOOLEAN
  BY <1>1, PassHas
<1>3. /\ jobs' = t.jobs /\ jobmap' = t.jobmap /\ flags' = t.flags
      /\ completed' = t.completed /\ allocations' = t.allocations
      /\ promised' = t.promised /\ dead' = t.dead
      /\ demand' = demand /\ now' = now /\ policy' = policy /\ walltime' = walltime
      /\ dependencies' = dependencies
  BY DEF Commits, rigid
<1>4. /\ Objects'.jobs = t.jobs /\ Objects'.jobmap = t.jobmap /\ Objects'.flags = t.flags
      /\ Objects'.completed = t.completed /\ Objects'.allocations = t.allocations
      /\ Objects'.promised = t.promised /\ Objects'.dead = t.dead
      /\ Objects'.starts = <<>> /\ Objects'.stopped = FALSE
  BY <1>3 DEF Objects
<1>5. DOMAIN t.starts = {j \in Job : t.flags[j] = "scheduled" /\ flags[j] # "scheduled"}
  BY <1>1 DEF Touched
<1>6. /\ DOMAIN place = {j \in Job : flags[j] = "scheduled"}
      /\ place \in Partial(SUBSET Machine)
  BY DEF Typed
<1>7. \A j \in Job : flags[j] = "scheduled" => t.flags[j] = "scheduled"
  BY <1>1 DEF Touched
<1>8. /\ place' = [j \in {k \in Job : t.flags[k] = "scheduled"} |-> PlaceIn(t, j)]
      /\ \A j \in Job : t.flags[j] = "scheduled" => PlaceIn(t, j) \in SUBSET Machine
  <2>1. DOMAIN place \cup DOMAIN t.starts = {k \in Job : t.flags[k] = "scheduled"}
    BY <1>5, <1>6, <1>7
  <2>2. place' = [j \in DOMAIN place \cup DOMAIN t.starts |-> PlaceIn(t, j)]
    BY DEF Commits, PlaceIn
  <2>3. \A j \in DOMAIN place : place[j] \in SUBSET Machine
    BY <1>6, PartialHas
  <2>4. \A j \in DOMAIN t.starts : t.starts[j] \in SUBSET Machine
    <3> DEFINE f == t.starts
    <3>1. f \in Partial(SUBSET Machine)
      BY <1>2
    <3> HIDE DEF f
    <3>2. \A j \in DOMAIN f : f[j] \in SUBSET Machine
      BY <3>1, PartialHas
    <3> QED
      BY <3>2 DEF f
  <2> QED
    BY <1>5, <1>6, <2>1, <2>2, <2>3, <2>4 DEF PlaceIn
<1>late. consumed' = TRUE /\ Late'
  <2>1. consumed' = TRUE
    BY <1>1 DEF Commits
  <2> QED
    BY <2>1 DEF Late
<1>9. Typed'
  <2>1. /\ demand' \in Demands /\ walltime' \in Walltimes /\ dependencies' \in Dependencies
        /\ policy' \in Policies /\ loop' \in {"simulator", "scheduler"}
    BY <1>3 DEF Typed
  <2>6. consumed' \in BOOLEAN
    BY <1>late
  <2>2. (now \in Times)'
    BY <1>3 DEF Typed, Times
  <2>3. status' \in [Job -> {"future", "waiting", "rejected", "running", "completed"}]
    BY DEF Typed, Commits
  <2>4. place' \in Partial(SUBSET Machine)
    <3> DEFINE D == {k \in Job : t.flags[k] = "scheduled"}
    <3>1. place' \in [D -> SUBSET Machine]
      BY <1>8
    <3>2. D \in SUBSET Job
      OBVIOUS
    <3> QED
      BY <3>1, <3>2 DEF Partial
  <2>5. DOMAIN place' = {j \in Job : flags'[j] = "scheduled"}
    BY <1>3, <1>8
  <2> QED
    BY <2>1, <2>2, <2>3, <2>4, <2>5, <2>6 DEF Typed, Partial, Message, Machine
<1>10. (Objects \in Pass)'
  <2>1. <<>> \in Partial(SUBSET Machine)
    BY EmptyPartial
  <2>2. Objects' \in Pass
    BY <1>2, <1>3, <2>1 DEF Objects, Pass
  <2> QED
    BY <2>2 DEF Pass, Partial, AllocationSet, Machine
<1>11. Sound(Objects.allocations)'
  <2>1. \A j \in Job : requested_time(j)' = requested_time(j)
    BY <1>3 DEF requested_time
  <2>2. \A a \in t.allocations : a.job \in Job
    BY <1>2, AllocationSetHas
  <2> QED
    BY <1>1, <1>3, <1>4, <2>1, <2>2 DEF Sound, Times
<1>12. Known(Objects)'
  BY <1>1, <1>4 DEF Known
<1>13. Placed(Objects)'
  <2> SUFFICES ASSUME NEW a \in t.allocations PROVE a.machines = PlaceIn(Objects, a.job)'
    BY <1>4 DEF Placed
  <2>1. a.machines = PlaceIn(t, a.job)
    BY <1>1 DEF Placed
  <2>2. a.job \in Job /\ t.flags[a.job] = "scheduled"
    BY <1>1 DEF Known
  <2>3. PlaceIn(Objects, a.job)' = place'[a.job]
    BY <1>4, EmptyPartial DEF PlaceIn
  <2> QED
    BY <1>8, <2>1, <2>2, <2>3
<1>14. Touched(Objects)'
  <2>1. DOMAIN <<>> = {}
    BY EmptyPartial
  <2> QED
    BY <1>3, <1>4, <2>1 DEF Touched
<1>15. PassInv(Objects)'
  BY <1>1, <1>4, <1>10, <1>11, <1>12, <1>13, <1>14 DEF PassInv
<1>16. Lives(Objects, inbox)'
  <2>1. PICK q : q = inbox'
    OBVIOUS
  <2>2. status \in [Job -> {"future", "waiting", "rejected", "running", "completed"}]
    BY DEF Typed
  <2>3. ASSUME NEW k \in Job PROVE Life(Objects, inbox, k)'
    <3>1. Life(m, q, k)
      BY <2>1
    <3>2. Life(Objects, q, k)'
      BY <1>1, <2>2, <3>1, LifeGoesOn
    <3> QED
      BY <2>1, <3>2 DEF Life, Has
  <2>4. Once(inbox)'
    BY DEF Once
  <2> QED
    BY <2>3, <2>4 DEF Lives
<1>17. policy' = "easy" => (Keepable(Objects) /\ Waiting(Objects))'
  <2> SUFFICES ASSUME policy = "easy" PROVE (Keepable(Objects) /\ Waiting(Objects))'
    BY <1>3
  <2>1. Keepable(t) /\ Waiting(t)
    BY DEF Settled
  <2>2. \A k : Open(Objects, k)' <=> Open(t, k)
    BY <1>4 DEF Open
  <2>3. \A k : Runnable(Objects, k)' <=> Runnable(t, k)
    BY <1>3, <1>4, <2>2 DEF Runnable, dependencies_fulfilled
  <2>4. \A k : FirstOpen(Objects, k)' <=> FirstOpen(t, k)
    BY <1>4, <2>2 DEF FirstOpen
  <2>5. Promised(Objects)' = Promised(t)
    BY <1>4, <2>2 DEF Promised
  <2>6. \A k : Wide(k)' = Wide(k)
    BY <1>3 DEF Wide, Neighbours, Machine
  <2>7. \A k, p : ReservableBy(Objects, k, p)' <=> ReservableBy(t, k, p)
    BY <1>4, <2>6 DEF ReservableBy, FreeBy, estimated_end_time, TIME_DELTA
  <2>8. \A k : NoRoom(Objects, k)' <=> NoRoom(t, k)
    BY <1>4, <2>6 DEF NoRoom
  <2>9. Keepable(Objects)'
    BY <1>3, <1>4, <2>1, <2>3, <2>4, <2>5, <2>7 DEF Keepable
  <2>10. Waiting(Objects)'
    BY <2>1, <2>5, <2>8 DEF Waiting
  <2> QED
    BY <2>9, <2>10
<1>18. policy' # "easy" => promised' = <<>>
  BY <1>3 DEF Settled
<1> QED
  BY <1>late, <1>9, <1>15, <1>16, <1>17, <1>18 DEF Inv

-----------------------------------------------------------------------------
\* Messages

LEMMA AppendHas ==
  ASSUME NEW S, NEW q \in Seq(S), NEW e \in S
  PROVE  /\ Append(q, e) \in Seq(S)
         /\ \A x : Has(Append(q, e), x) <=> (Has(q, x) \/ x = e)
         /\ Once(q) /\ ~Has(q, e) => Once(Append(q, e))
<1>1. /\ DOMAIN q = 1 .. Len(q)
      /\ DOMAIN Append(q, e) = 1 .. Len(q) + 1
      /\ \A i \in 1 .. Len(q) : Append(q, e)[i] = q[i]
      /\ Append(q, e)[Len(q) + 1] = e
      /\ Append(q, e) \in Seq(S)
  BY AppendProperties, LenProperties
<1>2. Len(q) \in Nat
  BY LenProperties
<1>3. \A x : Has(Append(q, e), x) <=> (Has(q, x) \/ x = e)
  BY <1>1, <1>2 DEF Has
<1>4. Once(q) /\ ~Has(q, e) => Once(Append(q, e))
  BY <1>1, <1>2 DEF Has, Once
<1> QED
  BY <1>1, <1>3, <1>4

LEMMA TailHas ==
  ASSUME NEW S, NEW q \in Seq(S), q # <<>>, Once(q)
  PROVE  /\ Once(Tail(q)) /\ Tail(q) \in Seq(S)
         /\ \A x : Has(q, x) <=> (Has(Tail(q), x) \/ x = Head(q))
         /\ ~Has(Tail(q), Head(q))
<1>1. /\ DOMAIN q = 1 .. Len(q) /\ Len(q) \in Nat \ {0}
      /\ Head(q) = q[1]
      /\ Tail(q) \in Seq(S) /\ Len(Tail(q)) = Len(q) - 1
      /\ \A i \in 1 .. Len(q) - 1 : Tail(q)[i] = q[i + 1]
  BY HeadTailProperties, LenProperties, EmptySeq
<1>2. DOMAIN Tail(q) = 1 .. Len(q) - 1
  BY <1>1, LenProperties
<1>3. Once(Tail(q))
  BY <1>1, <1>2 DEF Once
<1>4. ASSUME NEW x PROVE Has(q, x) <=> (Has(Tail(q), x) \/ x = Head(q))
  <2>1. ASSUME Has(q, x), x # Head(q) PROVE Has(Tail(q), x)
    <3>1. PICK i \in 1 .. Len(q) : q[i] = x
      BY <1>1, <2>1 DEF Has
    <3>2. i - 1 \in 1 .. Len(q) - 1 /\ Tail(q)[i - 1] = x
      BY <1>1, <2>1, <3>1
    <3> QED
      BY <1>2, <3>2 DEF Has
  <2> QED
    BY <1>1, <1>2, <2>1 DEF Has
<1>5. ~Has(Tail(q), Head(q))
  <2> SUFFICES ASSUME Has(Tail(q), Head(q)) PROVE FALSE
    OBVIOUS
  <2>1. PICK i \in 1 .. Len(q) - 1 : Tail(q)[i] = Head(q)
    BY <1>2 DEF Has
  <2>2. q[i + 1] = q[1] /\ i + 1 \in DOMAIN q /\ 1 \in DOMAIN q
    BY <1>1, <2>1
  <2>3. i + 1 = 1
    BY <1>1, <2>2 DEF Once
  <2> QED
    BY <2>1, <2>3
<1> QED
  BY <1>1, <1>3, <1>4, <1>5

\* The message that is handled is there no more.
LEMMA Handled ==
  ASSUME Typed, Once(inbox), NEW type, NEW x, Handling(type, x)
  PROVE  /\ inbox' \in Seq(Message) /\ Once(inbox') /\ loop' = loop
         /\ \A e : Has(inbox, e) <=> (Has(inbox', e) \/ e = <<type, x>>)
         /\ ~Has(inbox', <<type, x>>) /\ Has(inbox, <<type, x>>)
<1>1. inbox \in Seq(Message) /\ inbox # <<>> /\ Head(inbox) = <<type, x>>
      /\ inbox' = Tail(inbox) /\ loop' = loop
  BY DEF Typed, Handling
<1>2. PICK q : q = Tail(inbox)
  OBVIOUS
<1>3. /\ Once(q) /\ q \in Seq(Message) /\ ~Has(q, <<type, x>>)
      /\ \A e : Has(inbox, e) <=> (Has(q, e) \/ e = <<type, x>>)
  BY <1>1, <1>2, TailHas
<1>4. inbox' = q
  BY <1>1, <1>2
<1> QED
  BY <1>1, <1>3, <1>4

-----------------------------------------------------------------------------
\* A submission

Submitted(s, j) == [s EXCEPT !.jobs = Append(@, j), !.jobmap = @ \cup {j}]

LEMMA SubmittedHas ==
  ASSUME NEW s \in Pass, NEW j \in Job
  PROVE  /\ Submitted(s, j) \in Pass
         /\ Submitted(s, j).jobs = Append(s.jobs, j)
         /\ Submitted(s, j).jobmap = s.jobmap \cup {j}
         /\ Submitted(s, j).flags = s.flags /\ Submitted(s, j).completed = s.completed
         /\ Submitted(s, j).allocations = s.allocations
         /\ Submitted(s, j).promised = s.promised /\ Submitted(s, j).dead = s.dead
         /\ Submitted(s, j).starts = s.starts /\ Submitted(s, j).stopped = s.stopped
<1>1. Append(s.jobs, j) \in Seq(Job)
  BY AppendProperties DEF Pass
<1> QED
  BY <1>1 DEF Pass, Submitted

\* A job that is submitted comes last.
LEMMA SubmittedKeeps ==
  ASSUME Fixed, NEW s, PassInv(s), NEW j \in Job, j \notin ToSet(s.jobs), Open(s, j),
         NEW m, m = Submitted(s, j)
  PROVE  /\ PassInv(m) /\ ToSet(m.jobs) = ToSet(s.jobs) \cup {j}
         /\ m.flags = s.flags /\ m.completed = s.completed /\ m.promised = s.promised
         /\ m.stopped = s.stopped
         /\ Keepable(s) => Keepable(m)
<1>1. s \in Pass /\ ~s.dead /\ Sound(s.allocations) /\ Known(s) /\ Placed(s) /\ Touched(s)
  BY DEF PassInv
<1>2. /\ m \in Pass /\ m.jobs = Append(s.jobs, j) /\ m.jobmap = s.jobmap \cup {j}
      /\ m.flags = s.flags /\ m.completed = s.completed /\ m.allocations = s.allocations
      /\ m.promised = s.promised /\ m.dead = s.dead /\ m.starts = s.starts
      /\ m.stopped = s.stopped
  BY <1>1, SubmittedHas
<1> DEFINE q == s.jobs
           r == m.jobs
<1>3. q \in Seq(Job) /\ IsInjective(q) /\ j \notin ToSet(q) /\ r = Append(q, j)
  BY <1>1, <1>2, PassHas DEF Known
<1> HIDE DEF q, r
<1>4. /\ DOMAIN q = 1 .. Len(q) /\ Len(q) \in Nat
      /\ DOMAIN r = 1 .. Len(q) + 1
      /\ \A i \in 1 .. Len(q) : r[i] = q[i]
      /\ r[Len(q) + 1] = j
  BY <1>3, AppendProperties, LenProperties
<1>5. ToSet(r) = ToSet(q) \cup {j}
  BY <1>4 DEF ToSet
<1>6. IsInjective(r)
  <2>1. \A i \in 1 .. Len(q) : q[i] # j
    BY <1>3, <1>4 DEF ToSet
  <2>2. \A i, k \in 1 .. Len(q) : q[i] = q[k] => i = k
    BY <1>3, <1>4 DEF IsInjective
  <2> QED
    BY <1>4, <2>1, <2>2 DEF IsInjective
<1>7. ToSet(m.jobs) = ToSet(s.jobs) \cup {j} /\ IsInjective(m.jobs)
  BY <1>5, <1>6 DEF q, r
<1>8. Known(m)
  BY <1>1, <1>2, <1>7 DEF Known, Open
<1>9. Placed(m)
  BY <1>1, <1>2 DEF Placed, PlaceIn
<1>10. Touched(m)
  BY <1>1, <1>2, <1>7 DEF Touched
<1>11. PassInv(m)
  BY <1>1, <1>2, <1>8, <1>9, <1>10 DEF PassInv
<1>12. ASSUME Keepable(s) PROVE Keepable(m)
  <2> SUFFICES ASSUME NEW h \in Promised(m)
               PROVE  /\ FirstOpen(m, h) /\ Runnable(m, h)
                      /\ now <= m.promised[h] /\ ReservableBy(m, h, m.promised[h])
    BY DEF Keepable
  <2>1. h \in Promised(s)
    BY <1>2 DEF Promised, Open
  <2>2. /\ FirstOpen(s, h) /\ Runnable(s, h)
        /\ now <= s.promised[h] /\ ReservableBy(s, h, s.promised[h])
    BY <1>12, <2>1 DEF Keepable
  <2>3. PICK i \in DOMAIN q : /\ q[i] = h /\ \A k \in DOMAIN q : k < i => ~Open(s, q[k])
    BY <2>2 DEF FirstOpen, q
  <2>4. i \in DOMAIN r /\ r[i] = h /\ \A k \in DOMAIN r : k < i => ~Open(s, r[k])
    BY <1>4, <2>3
  <2>5. \A k : Open(m, k) <=> Open(s, k)
    BY <1>2 DEF Open
  <2>6. FirstOpen(m, h)
    BY <2>2, <2>4, <2>5 DEF FirstOpen, r
  <2>7. Runnable(m, h)
    BY <1>2, <2>2, <2>5 DEF Runnable, dependencies_fulfilled
  <2> QED
    BY <1>2, <2>2, <2>6, <2>7 DEF ReservableBy, FreeBy
<1> QED
  BY <1>2, <1>7, <1>11, <1>12

\* A pass that begins with m ends well, or at 0 with the refusal of the first job.
LEMMA PassEnds ==
  ASSUME Inv, NEW m, PassInv(m), ~m.stopped, m.flags = flags,
         policy = "easy" => Keepable(m), policy # "easy" => m.promised = <<>>,
         inbox' \in Seq(Message), loop' = loop, Once(inbox'),
         \A k \in Job : Life(m, inbox', k), _do_schedule(m), loop = "scheduler",
         ~Late => /\ m.allocations = {} /\ m.promised = <<>>
                  /\ \E j \in Job : ToSet(m.jobs) = {j} /\ Open(m, j)
  PROVE  Inv' \/ Broken'
<1>1. Typed /\ Fixed /\ policy \in Policies
  BY DEF Inv, Typed, Fixed
<1>2. ~m.dead
  BY DEF PassInv
<1>3. PICK t : t = Iteration(m)
  OBVIOUS
<1>4. Commits(t)
  BY <1>2, <1>3 DEF _do_schedule, Commits
<1>5. CASE Timely(m)
  <2>1. Settled(t) /\ t.jobs = m.jobs /\ t.completed = m.completed
    BY <1>1, <1>3, <1>5, IterationHas
  <2>2. flags \in [Job -> {"open", "scheduled", "rejected"}]
    BY ObjectsHas, PassHas DEF Inv, PassInv
  <2> QED
    BY <1>1, <1>4, <2>1, <2>2, AfterPass
<1>6. CASE ~Timely(m)
  <2>1. PICK j \in Job : ToSet(m.jobs) = {j} /\ Open(m, j)
    BY <1>6 DEF Timely
  <2>2. ~Late /\ Startable(m, j)
    BY <1>6, <2>1 DEF Timely
  <2>3. Runnable(m, j) /\ demand[j] <= N
    BY <2>1, <2>2 DEF Startable, Runnable
  <2>4. t.dead = TRUE /\ t.promised = <<>>
    BY <1>1, <1>3, <2>1, <2>2, <2>3, FirstPass
  <2>5. now = 0 /\ consumed = FALSE
    BY <1>1, <2>2, Sizes DEF Typed, Late
  <2>6. /\ now' = now /\ dead' = TRUE /\ promised' = <<>> /\ consumed' = FALSE
    BY <1>4, <2>4, <2>5 DEF Commits
  <2> QED
    BY <2>5, <2>6 DEF Broken
<1> QED
  BY <1>5, <1>6

LEMMA SubmissionKeeps ==
  ASSUME Inv, NEW j \in Job, onJobSubmission(j)
  PROVE  Inv' \/ Broken'
<1>1. /\ Typed /\ PassInv(Objects) /\ Lives(Objects, inbox) /\ Fixed
      /\ policy = "easy" => Keepable(Objects)
      /\ policy # "easy" => promised = <<>>
  BY DEF Inv, Typed, Fixed
<1> DEFINE e == <<"JOB_SUBMITTED", j>>
<1>2. /\ inbox' \in Seq(Message) /\ Once(inbox') /\ loop' = loop
      /\ \A x : Has(inbox, x) <=> (Has(inbox', x) \/ x = e)
      /\ ~Has(inbox', e) /\ Has(inbox, e)
  <2>1. Handling("JOB_SUBMITTED", j) /\ Once(inbox)
    BY <1>1 DEF onJobSubmission, Lives
  <2> QED
    BY <1>1, <2>1, Handled
<1>3. PICK q : q = inbox'
  OBVIOUS
<1>4. Life(Objects, inbox, j)
  BY <1>1 DEF Lives
<1>5. /\ status[j] = "waiting" /\ Open(Objects, j) /\ j \notin ToSet(Objects.jobs)
      /\ ~Has(inbox, <<"JOB_COMPLETED", j>>)
  BY <1>2, <1>4 DEF Life, Open
<1>6. PICK m : m = Submitted(Objects, j)
  OBVIOUS
<1>7. /\ PassInv(m) /\ ToSet(m.jobs) = ToSet(Objects.jobs) \cup {j}
      /\ m.flags = flags /\ m.completed = completed /\ m.promised = promised
      /\ ~m.stopped
      /\ Keepable(Objects) => Keepable(m)
  <2> DEFINE s == Objects
  <2>1. PassInv(s) /\ j \notin ToSet(s.jobs) /\ Open(s, j) /\ m = Submitted(s, j)
    BY <1>1, <1>5, <1>6
  <2>2. s.flags = flags /\ s.completed = completed /\ s.promised = promised /\ s.stopped = FALSE
    BY ObjectsHas
  <2> HIDE DEF s
  <2>3. /\ PassInv(m) /\ ToSet(m.jobs) = ToSet(s.jobs) \cup {j}
        /\ m.flags = s.flags /\ m.completed = s.completed /\ m.promised = s.promised
        /\ m.stopped = s.stopped
        /\ Keepable(s) => Keepable(m)
    BY <1>1, <2>1, SubmittedKeeps
  <2> QED
    BY <2>2, <2>3 DEF s
<1>8. _do_schedule(m)
  <2>1. add(jobs, j) = Append(jobs, j)
    BY <1>5, ObjectsHas DEF add
  <2>2. m = [Objects EXCEPT !.jobs = Append(jobs, j), !.jobmap = @ \cup {j}]
    BY <1>6, ObjectsHas DEF Submitted
  <2>3. m = [Objects EXCEPT !.jobs = add(@, j), !.jobmap = @ \cup {j}]
    BY <2>1, <2>2, ObjectsHas
  <2> QED
    BY <2>3 DEF onJobSubmission
<1>9. ASSUME NEW k \in Job PROVE Life(m, q, k)
  <2>1. Life(Objects, inbox, k) /\ Objects.flags = flags /\ Objects.completed = completed
    BY <1>1, ObjectsHas DEF Lives
  <2>2. CASE k = j
    <3>1. ~Has(q, <<"JOB_SUBMITTED", j>>) /\ ~Has(q, <<"JOB_COMPLETED", j>>)
      BY <1>2, <1>3, <1>5
    <3> QED
      BY <1>5, <1>7, <2>1, <2>2, <3>1 DEF Life, Open
  <2>3. CASE k # j
    <3>1. /\ Has(q, <<"JOB_SUBMITTED", k>>) <=> Has(inbox, <<"JOB_SUBMITTED", k>>)
          /\ Has(q, <<"JOB_COMPLETED", k>>) <=> Has(inbox, <<"JOB_COMPLETED", k>>)
      BY <1>2, <1>3, <2>3
    <3>2. k \in ToSet(m.jobs) <=> k \in ToSet(Objects.jobs)
      BY <1>7, <2>3
    <3> QED
      BY <1>7, <2>1, <3>1, <3>2 DEF Life
  <2> QED
    BY <2>2, <2>3
<1>10. \A k \in Job : Life(m, inbox', k)
  BY <1>3, <1>9
<1>11. ASSUME ~Late
       PROVE  /\ m.allocations = {} /\ m.promised = <<>>
              /\ \E k \in Job : ToSet(m.jobs) = {k} /\ Open(m, k)
  <2>1. Objects.jobs = <<>> /\ Objects.allocations = {} /\ promised = <<>>
    BY <1>11, ObjectsHas DEF Inv, Fresh
  <2>2. m.allocations = Objects.allocations
    <3> DEFINE s == Objects
    <3>1. s \in Pass /\ m = Submitted(s, j)
      BY <1>1, <1>6 DEF PassInv
    <3> HIDE DEF s
    <3>2. m.allocations = s.allocations
      BY <3>1, SubmittedHas
    <3> QED
      BY <3>2 DEF s
  <2>3. ToSet(<<>>) = {}
    BY DEF ToSet
  <2>4. ToSet(m.jobs) = {j}
    BY <1>7, <2>1, <2>3
  <2>5. Open(m, j)
    BY <1>5, <1>7, ObjectsHas DEF Open
  <2> QED
    BY <1>7, <2>1, <2>2, <2>4, <2>5
<1>12. loop = "scheduler"
  BY DEF onJobSubmission, Handling
<1> QED
  BY <1>1, <1>2, <1>7, <1>8, <1>10, <1>11, <1>12, PassEnds

-----------------------------------------------------------------------------
\* A completion

Ended(s, j) == [s EXCEPT !.completed = @ \cup {j}, !.jobmap = @ \ {j}]

LEMMA EndedHas ==
  ASSUME NEW s \in Pass, NEW j \in Job
  PROVE  /\ Ended(s, j) \in Pass
         /\ Ended(s, j).completed = s.completed \cup {j}
         /\ Ended(s, j).jobmap = s.jobmap \ {j}
         /\ Ended(s, j).flags = s.flags /\ Ended(s, j).jobs = s.jobs
         /\ Ended(s, j).allocations = s.allocations
         /\ Ended(s, j).promised = s.promised /\ Ended(s, j).dead = s.dead
         /\ Ended(s, j).starts = s.starts /\ Ended(s, j).stopped = s.stopped
  BY DEF Pass, Ended

\* A job that has ended leaves its machines, and nothing else changes there.
LEMMA EndedKeeps ==
  ASSUME Fixed, NEW s, PassInv(s), NEW j \in Job, j \in ToSet(s.jobs), j \notin s.completed,
         s.flags = flags, s.flags[j] = "scheduled",
         NEW m, m = _do_complete_job(Ended(s, j), j)
  PROVE  /\ PassInv(m) /\ m.jobs = s.jobs /\ m.flags = s.flags
         /\ m.completed = s.completed \cup {j} /\ m.promised = s.promised
         /\ m.stopped = s.stopped
         /\ Keepable(s) => Keepable(m)
<1>1. s \in Pass /\ ~s.dead /\ Sound(s.allocations) /\ Known(s) /\ Placed(s) /\ Touched(s)
  BY DEF PassInv
<1>2. PICK u : u = Ended(s, j)
  OBVIOUS
<1>3. /\ u \in Pass /\ u.completed = s.completed \cup {j} /\ u.jobmap = s.jobmap \ {j}
      /\ u.flags = s.flags /\ u.jobs = s.jobs /\ u.allocations = s.allocations
      /\ u.promised = s.promised /\ u.dead = s.dead /\ u.starts = s.starts
      /\ u.stopped = s.stopped
  BY <1>1, <1>2, EndedHas
<1>4. \E a \in u.allocations : a.job = j
  BY <1>1, <1>3 DEF Known
<1>5. PICK a : a = AllocationOf(u, j)
  OBVIOUS
<1>6. a \in u.allocations /\ a.job = j /\ a.allocated
  <2>1. a \in u.allocations /\ a.job = j
    BY <1>4, <1>5, AllocationOfHas
  <2> QED
    BY <1>1, <1>3, <2>1 DEF Sound
<1>7. m = Having(u, u.allocations \ {a})
  <2>1. m = free(u, a)
    BY <1>2, <1>4, <1>5 DEF _do_complete_job
  <2>2. ~u.dead
    BY <1>1, <1>3
  <2> QED
    BY <1>3, <1>6, <2>1, <2>2, FreeIs
<1>8. /\ m \in Pass /\ m.allocations = s.allocations \ {a}
      /\ m.completed = s.completed \cup {j} /\ m.jobmap = s.jobmap \ {j}
      /\ m.flags = s.flags /\ m.jobs = s.jobs /\ m.promised = s.promised
      /\ m.dead = s.dead /\ m.starts = s.starts /\ m.stopped = s.stopped
  <2> DEFINE A == u.allocations \ {a}
  <2>1. A \in SUBSET AllocationSet /\ A = s.allocations \ {a}
    BY <1>3 DEF Pass
  <2> HIDE DEF A
  <2>2. m = Having(u, A)
    BY <1>7 DEF A
  <2> QED
    BY <1>3, <2>1, <2>2, HavingHas
<1>9. Known(m)
  <2>1. \A b \in s.allocations : b.job = j => b = a
    BY <1>1, <1>3, <1>6 DEF Sound
  <2>2. {b.job : b \in m.allocations} = {b.job : b \in s.allocations} \ {j}
    BY <1>3, <1>6, <1>8, <2>1
  <2>3. {b.job : b \in m.allocations} = {k \in Job : m.flags[k] = "scheduled"} \ m.completed
    BY <1>1, <1>8, <2>2 DEF Known
  <2>4. m.jobmap = {k \in ToSet(m.jobs) : m.flags[k] # "rejected"} \ m.completed
    BY <1>1, <1>8 DEF Known
  <2> QED
    BY <1>1, <1>8, <2>3, <2>4 DEF Known
<1>10. Sound(m.allocations) /\ Placed(m) /\ Touched(m)
  BY <1>1, <1>8 DEF Sound, Placed, PlaceIn, Touched
<1>11. PassInv(m)
  BY <1>1, <1>8, <1>9, <1>10 DEF PassInv
<1>12. ASSUME Keepable(s) PROVE Keepable(m)
  <2> SUFFICES ASSUME NEW h \in Promised(m)
               PROVE  /\ FirstOpen(m, h) /\ Runnable(m, h)
                      /\ now <= m.promised[h] /\ ReservableBy(m, h, m.promised[h])
    BY DEF Keepable
  <2>1. h \in Promised(s) /\ Open(m, h)
    BY <1>8 DEF Promised, Open
  <2>2. /\ FirstOpen(s, h) /\ Runnable(s, h)
        /\ now <= s.promised[h] /\ ReservableBy(s, h, s.promised[h])
    BY <1>12, <2>1 DEF Keepable
  <2>3. \A k : Open(m, k) => Open(s, k)
    BY <1>8 DEF Open
  <2>4. FirstOpen(m, h)
    BY <1>8, <2>1, <2>2, <2>3 DEF FirstOpen
  <2>5. Runnable(m, h)
    BY <1>8, <2>1, <2>2 DEF Runnable, dependencies_fulfilled
  <2>6. ReservableBy(m, h, m.promised[h])
    BY <1>8, <2>2 DEF ReservableBy, FreeBy
  <2> QED
    BY <1>8, <2>2, <2>4, <2>5, <2>6
<1> QED
  BY <1>8, <1>11, <1>12

LEMMA CompletionKeeps ==
  ASSUME Inv, NEW j \in Job, onJobCompletion(j)
  PROVE  Inv' \/ Broken'
<1>1. /\ Typed /\ PassInv(Objects) /\ Lives(Objects, inbox) /\ Fixed
      /\ policy = "easy" => Keepable(Objects)
      /\ policy # "easy" => promised = <<>>
  BY DEF Inv, Typed, Fixed
<1> DEFINE e == <<"JOB_COMPLETED", j>>
<1>2. /\ inbox' \in Seq(Message) /\ Once(inbox') /\ loop' = loop
      /\ \A x : Has(inbox, x) <=> (Has(inbox', x) \/ x = e)
      /\ ~Has(inbox', e) /\ Has(inbox, e)
  <2>1. Handling("JOB_COMPLETED", j) /\ Once(inbox)
    BY <1>1 DEF onJobCompletion, Lives
  <2> QED
    BY <1>1, <2>1, Handled
<1>3. PICK q : q = inbox'
  OBVIOUS
<1>4. Life(Objects, inbox, j)
  BY <1>1 DEF Lives
<1>5. /\ status[j] = "completed" /\ Objects.flags[j] = "scheduled"
      /\ j \in ToSet(Objects.jobs) /\ j \notin Objects.completed
      /\ ~Has(inbox, <<"JOB_SUBMITTED", j>>)
  BY <1>2, <1>4 DEF Life
<1>6. j \in jobmap
  <2>1. Objects.jobmap = {k \in ToSet(Objects.jobs) : Objects.flags[k] # "rejected"}
                           \ Objects.completed
    BY <1>1 DEF PassInv, Known
  <2> QED
    BY <1>5, <2>1, ObjectsHas
<1>7. PICK m : m = _do_complete_job(Ended(Objects, j), j)
  OBVIOUS
<1>8. /\ PassInv(m) /\ m.jobs = Objects.jobs
      /\ m.flags = flags /\ m.completed = completed \cup {j} /\ m.promised = promised
      /\ ~m.stopped
      /\ Keepable(Objects) => Keepable(m)
  <2> DEFINE s == Objects
  <2>1. /\ PassInv(s) /\ j \in ToSet(s.jobs) /\ j \notin s.completed
        /\ s.flags[j] = "scheduled" /\ m = _do_complete_job(Ended(s, j), j)
    BY <1>1, <1>5, <1>7
  <2>2. s.flags = flags /\ s.completed = completed /\ s.promised = promised /\ s.stopped = FALSE
    BY ObjectsHas
  <2> HIDE DEF s
  <2>3. /\ PassInv(m) /\ m.jobs = s.jobs /\ m.flags = s.flags
        /\ m.completed = s.completed \cup {j} /\ m.promised = s.promised
        /\ m.stopped = s.stopped
        /\ Keepable(s) => Keepable(m)
    BY <1>1, <2>1, <2>2, EndedKeeps
  <2> QED
    BY <2>2, <2>3 DEF s
<1>9. _do_schedule(m)
  <2>1. Objects \in Pass /\ ~Objects.dead
    BY <1>1 DEF PassInv
  <2>2. PICK c : c = (j \notin jobmap)
    OBVIOUS
  <2>3. Failing(Objects, c) = Objects
    <3> DEFINE s == Objects
    <3>1. s \in Pass /\ ~s.dead /\ ~c
      BY <1>6, <2>1, <2>2
    <3> HIDE DEF s
    <3>2. Failing(s, c) = s
      BY <3>1, NotFailing
    <3> QED
      BY <3>2 DEF s
  <2>4. Failing(Objects, j \notin jobmap) = Objects
    BY <2>2, <2>3
  <2>5. _do_schedule(_do_complete_job(Ended(Failing(Objects, j \notin jobmap), j), j))
    BY DEF onJobCompletion, Ended
  <2> QED
    BY <1>7, <2>4, <2>5
<1>10. ASSUME NEW k \in Job PROVE Life(m, q, k)
  <2>1. Life(Objects, inbox, k) /\ Objects.flags = flags /\ Objects.completed = completed
    BY <1>1, ObjectsHas DEF Lives
  <2>2. CASE k = j
    <3>1. ~Has(q, <<"JOB_SUBMITTED", j>>) /\ ~Has(q, <<"JOB_COMPLETED", j>>)
      BY <1>2, <1>3, <1>5
    <3> QED
      BY <1>5, <1>8, <2>1, <2>2, <3>1 DEF Life
  <2>3. CASE k # j
    <3>1. /\ Has(q, <<"JOB_SUBMITTED", k>>) <=> Has(inbox, <<"JOB_SUBMITTED", k>>)
          /\ Has(q, <<"JOB_COMPLETED", k>>) <=> Has(inbox, <<"JOB_COMPLETED", k>>)
      BY <1>2, <1>3, <2>3
    <3>2. k \in m.completed <=> k \in Objects.completed
      BY <1>8, <2>1, <2>3
    <3> QED
      BY <1>8, <2>1, <3>1, <3>2 DEF Life
  <2> QED
    BY <2>2, <2>3
<1>11. \A k \in Job : Life(m, inbox', k)
  BY <1>3, <1>10
<1>12. Late
  <2>1. Objects.jobs # <<>>
    BY <1>5 DEF ToSet
  <2> QED
    BY <2>1, ObjectsHas DEF Inv, Fresh
<1>13. loop = "scheduler"
  BY DEF onJobCompletion, Handling
<1> QED
  BY <1>1, <1>2, <1>8, <1>9, <1>11, <1>12, <1>13, PassEnds

-----------------------------------------------------------------------------
\* The simulator

\* While the books stay as they are, only the lives of the jobs can change.
LEMMA BooksStay ==
  ASSUME Inv, UNCHANGED <<demand, place, now, rigid, books>>,
         loop' \in {"simulator", "scheduler"}, inbox' \in Seq(Message),
         status' \in [Job -> {"future", "waiting", "rejected", "running", "completed"}],
         Lives(Objects, inbox)'
  PROVE  Inv'
<1>1. /\ demand' = demand /\ place' = place /\ now' = now /\ policy' = policy
      /\ walltime' = walltime /\ dependencies' = dependencies /\ jobs' = jobs
      /\ jobmap' = jobmap /\ flags' = flags /\ completed' = completed
      /\ allocations' = allocations /\ promised' = promised /\ dead' = dead
      /\ consumed' = consumed
  BY DEF rigid, books
<1>2. Objects' = Objects
  BY <1>1 DEF Objects
<1>3. Typed'
  BY <1>1 DEF Inv, Typed, Times, Partial, Message, Machine
<1>4. PassInv(Objects)'
  <2>1. (Objects \in Pass)' /\ ~Objects'.dead
    BY <1>2 DEF Inv, PassInv, Pass, Partial, AllocationSet, Machine
  <2>2. Sound(Objects.allocations)'
    BY <1>1, <1>2 DEF Inv, PassInv, Sound, Times, requested_time
  <2>3. Known(Objects)' /\ Placed(Objects)' /\ Touched(Objects)'
    BY <1>1, <1>2 DEF Inv, PassInv, Known, Placed, PlaceIn, Touched
  <2> QED
    BY <2>1, <2>2, <2>3 DEF PassInv
<1>5. policy' = "easy" => (Keepable(Objects) /\ Waiting(Objects))'
  <2> SUFFICES ASSUME policy = "easy" PROVE (Keepable(Objects) /\ Waiting(Objects))'
    BY <1>1
  <2>1. Keepable(Objects) /\ Waiting(Objects)
    BY DEF Inv
  <2>2. \A k : Wide(k)' = Wide(k)
    BY <1>1 DEF Wide, Neighbours, Machine
  <2>3. \A k : Runnable(Objects, k)' <=> Runnable(Objects, k)
    BY <1>1, <1>2 DEF Runnable, dependencies_fulfilled, Open
  <2>4. /\ \A k : FirstOpen(Objects, k)' <=> FirstOpen(Objects, k)
        /\ Promised(Objects)' = Promised(Objects)
    BY <1>2 DEF FirstOpen, Promised, Open
  <2>5. \A k, p : ReservableBy(Objects, k, p)' <=> ReservableBy(Objects, k, p)
    BY <1>2, <2>2 DEF ReservableBy, FreeBy, estimated_end_time, TIME_DELTA
  <2>6. \A k : NoRoom(Objects, k)' <=> NoRoom(Objects, k)
    BY <1>2, <2>2 DEF NoRoom
  <2>7. Keepable(Objects)'
    BY <1>1, <1>2, <2>1, <2>3, <2>4, <2>5 DEF Keepable
  <2>8. Waiting(Objects)'
    BY <2>1, <2>4, <2>6 DEF Waiting
  <2> QED
    BY <2>7, <2>8
<1>6. policy' # "easy" => promised' = <<>>
  BY <1>1 DEF Inv
<1>7. ~Late' => Fresh'
  BY <1>1 DEF Inv, Late, Fresh
<1> QED
  BY <1>3, <1>4, <1>5, <1>6, <1>7 DEF Inv

\* The life of a job none of whose messages came or went.
LEMMA LifeStays ==
  ASSUME UNCHANGED books, NEW q, q = inbox', NEW k \in Job, status'[k] = status[k],
         Life(Objects, inbox, k),
         Has(q, <<"JOB_SUBMITTED", k>>) <=> Has(inbox, <<"JOB_SUBMITTED", k>>),
         Has(q, <<"JOB_COMPLETED", k>>) <=> Has(inbox, <<"JOB_COMPLETED", k>>)
  PROVE  Life(Objects, inbox, k)'
<1>1. Objects' = Objects
  BY DEF Objects, books
<1>2. /\ Has(inbox, <<"JOB_SUBMITTED", k>>)' <=> Has(q, <<"JOB_SUBMITTED", k>>)
      /\ Has(inbox, <<"JOB_COMPLETED", k>>)' <=> Has(q, <<"JOB_COMPLETED", k>>)
  BY DEF Has
<1> QED
  BY <1>1, <1>2 DEF Life

\* The turn passes from one to the other.
LEMMA TurnKeeps ==
  ASSUME Inv, UNCHANGED <<inbox, status, demand, place, now, rigid, books>>,
         loop' \in {"simulator", "scheduler"}
  PROVE  Inv'
<1>1. /\ inbox' = inbox /\ status' = status /\ UNCHANGED books
      /\ inbox \in Seq(Message) /\ Lives(Objects, inbox)
      /\ status \in [Job -> {"future", "waiting", "rejected", "running", "completed"}]
  BY DEF Inv, Typed
<1>2. PICK q : q = inbox'
  OBVIOUS
<1>3. \A k \in Job : Life(Objects, inbox, k)'
  BY <1>1, <1>2, LifeStays DEF Lives
<1>4. Lives(Objects, inbox)'
  BY <1>1, <1>3 DEF Lives, Once
<1> QED
  BY <1>1, <1>4, BooksStay

LEMMA EventHas ==
  ASSUME inbox \in Seq(Message), Once(inbox), NEW j \in Job,
         NEW type \in {"JOB_SUBMITTED", "JOB_COMPLETED"}, ~Has(inbox, <<type, j>>),
         Event(type, j)
  PROVE  /\ inbox' \in Seq(Message) /\ Once(inbox') /\ loop' \in {"simulator", "scheduler"}
         /\ \A x : Has(inbox', x) <=> (Has(inbox, x) \/ x = <<type, j>>)
<1>1. PICK e \in Message : e = <<type, j>>
  BY DEF Message
<1>2. PICK q : q = Append(inbox, e)
  OBVIOUS
<1>3. /\ q \in Seq(Message) /\ Once(q)
      /\ \A x : Has(q, x) <=> (Has(inbox, x) \/ x = <<type, j>>)
  BY <1>1, <1>2, AppendHas
<1>4. /\ inbox' = Append(inbox, <<type, j>>)
      /\ loop' \in {"simulator", "scheduler"}
  BY DEF Event
<1>5. inbox' = q
  BY <1>1, <1>2, <1>4
<1> QED
  BY <1>3, <1>4, <1>5

\* A job enters: there is one message about it.
LEMMA SubmitKeeps ==
  ASSUME Inv, NEW j \in Job, Submit(j), UNCHANGED <<now, rigid, books>>
  PROVE  Inv'
<1> DEFINE e == <<"JOB_SUBMITTED", j>>
<1>1. /\ inbox \in Seq(Message) /\ Lives(Objects, inbox) /\ Once(inbox)
      /\ status \in [Job -> {"future", "waiting", "rejected", "running", "completed"}]
      /\ Life(Objects, inbox, j)
  BY DEF Inv, Typed, Lives
<1>2. /\ status[j] = "future" /\ Event("JOB_SUBMITTED", j)
      /\ status' = [status EXCEPT ![j] = "waiting"] /\ demand' = demand /\ place' = place
  BY DEF Submit
<1>3. /\ Objects.flags[j] = "open" /\ j \notin ToSet(Objects.jobs)
      /\ j \notin Objects.completed /\ ~Has(inbox, e) /\ ~Has(inbox, <<"JOB_COMPLETED", j>>)
  BY <1>1, <1>2 DEF Life
<1>4. PICK q : q = inbox'
  OBVIOUS
<1>5. /\ q \in Seq(Message) /\ Once(q) /\ loop' \in {"simulator", "scheduler"}
      /\ \A x : Has(q, x) <=> (Has(inbox, x) \/ x = e)
  BY <1>1, <1>2, <1>3, <1>4, EventHas
<1>6. /\ status' \in [Job -> {"future", "waiting", "rejected", "running", "completed"}]
      /\ status'[j] = "waiting" /\ \A k \in Job : k # j => status'[k] = status[k]
  BY <1>1, <1>2
<1>7. Objects' = Objects /\ UNCHANGED books
  BY DEF Objects, books
<1>8. ASSUME NEW k \in Job PROVE Life(Objects, inbox, k)'
  <2>1. CASE k = j
    <3>1. /\ Has(inbox, <<"JOB_SUBMITTED", j>>)' <=> Has(q, <<"JOB_SUBMITTED", j>>)
          /\ Has(inbox, <<"JOB_COMPLETED", j>>)' <=> Has(q, <<"JOB_COMPLETED", j>>)
      BY <1>4 DEF Has
    <3>2. Has(q, <<"JOB_SUBMITTED", j>>) /\ ~Has(q, <<"JOB_COMPLETED", j>>)
      BY <1>3, <1>5
    <3> QED
      BY <1>3, <1>6, <1>7, <2>1, <3>1, <3>2 DEF Life
  <2>2. CASE k # j
    <3>1. /\ Has(q, <<"JOB_SUBMITTED", k>>) <=> Has(inbox, <<"JOB_SUBMITTED", k>>)
          /\ Has(q, <<"JOB_COMPLETED", k>>) <=> Has(inbox, <<"JOB_COMPLETED", k>>)
      BY <1>5, <2>2
    <3>2. Life(Objects, inbox, k) /\ status'[k] = status[k]
      BY <1>1, <1>6, <2>2 DEF Lives
    <3> QED
      BY <1>4, <1>7, <3>1, <3>2, LifeStays
  <2> QED
    BY <2>1, <2>2
<1>9. Lives(Objects, inbox)'
  <2>1. Once(inbox)'
    BY <1>4, <1>5 DEF Once
  <2> QED
    BY <1>8, <2>1 DEF Lives
<1>10. inbox' \in Seq(Message)
  BY <1>4, <1>5
<1>11. UNCHANGED <<demand, place, now, rigid, books>>
  BY <1>2
<1> QED
  BY <1>5, <1>6, <1>9, <1>10, <1>11, BooksStay

\* A job ends: there is one message about it, and the scheduler still counts it.
LEMMA CompleteKeeps ==
  ASSUME Inv, NEW j \in Job, Complete(j), UNCHANGED <<now, rigid, books>>
  PROVE  Inv'
<1> DEFINE e == <<"JOB_COMPLETED", j>>
<1>1. /\ inbox \in Seq(Message) /\ Lives(Objects, inbox) /\ Once(inbox)
      /\ status \in [Job -> {"future", "waiting", "rejected", "running", "completed"}]
      /\ Life(Objects, inbox, j)
  BY DEF Inv, Typed, Lives
<1>2. /\ status[j] = "running" /\ Event("JOB_COMPLETED", j)
      /\ status' = [status EXCEPT ![j] = "completed"] /\ demand' = demand /\ place' = place
  BY DEF Complete
<1>3. /\ Objects.flags[j] = "scheduled" /\ j \in ToSet(Objects.jobs)
      /\ j \notin Objects.completed /\ ~Has(inbox, e) /\ ~Has(inbox, <<"JOB_SUBMITTED", j>>)
  BY <1>1, <1>2 DEF Life
<1>4. PICK q : q = inbox'
  OBVIOUS
<1>5. /\ q \in Seq(Message) /\ Once(q) /\ loop' \in {"simulator", "scheduler"}
      /\ \A x : Has(q, x) <=> (Has(inbox, x) \/ x = e)
  BY <1>1, <1>2, <1>3, <1>4, EventHas
<1>6. /\ status' \in [Job -> {"future", "waiting", "rejected", "running", "completed"}]
      /\ status'[j] = "completed" /\ \A k \in Job : k # j => status'[k] = status[k]
  BY <1>1, <1>2
<1>7. Objects' = Objects /\ UNCHANGED books
  BY DEF Objects, books
<1>8. ASSUME NEW k \in Job PROVE Life(Objects, inbox, k)'
  <2>1. CASE k = j
    <3>1. /\ Has(inbox, <<"JOB_SUBMITTED", j>>)' <=> Has(q, <<"JOB_SUBMITTED", j>>)
          /\ Has(inbox, <<"JOB_COMPLETED", j>>)' <=> Has(q, <<"JOB_COMPLETED", j>>)
      BY <1>4 DEF Has
    <3>2. Has(q, <<"JOB_COMPLETED", j>>) /\ ~Has(q, <<"JOB_SUBMITTED", j>>)
      BY <1>3, <1>5
    <3> QED
      BY <1>3, <1>6, <1>7, <2>1, <3>1, <3>2 DEF Life
  <2>2. CASE k # j
    <3>1. /\ Has(q, <<"JOB_SUBMITTED", k>>) <=> Has(inbox, <<"JOB_SUBMITTED", k>>)
          /\ Has(q, <<"JOB_COMPLETED", k>>) <=> Has(inbox, <<"JOB_COMPLETED", k>>)
      BY <1>5, <2>2
    <3>2. Life(Objects, inbox, k) /\ status'[k] = status[k]
      BY <1>1, <1>6, <2>2 DEF Lives
    <3> QED
      BY <1>4, <1>7, <3>1, <3>2, LifeStays
  <2> QED
    BY <2>1, <2>2
<1>9. Lives(Objects, inbox)'
  <2>1. Once(inbox)'
    BY <1>4, <1>5 DEF Once
  <2> QED
    BY <1>8, <2>1 DEF Lives
<1>10. inbox' \in Seq(Message)
  BY <1>4, <1>5
<1>11. UNCHANGED <<demand, place, now, rigid, books>>
  BY <1>2
<1> QED
  BY <1>5, <1>6, <1>9, <1>10, <1>11, BooksStay

-----------------------------------------------------------------------------
\* Time passes

\* When no message is waiting, the jobs that hold machines run, and the clock
\* stops before the first of them is over.
LEMMA TickStops ==
  ASSUME Inv, Tick, NEW a \in allocations
  PROVE  now + Unit <= estimated_end_time(a)
<1>1. /\ Typed /\ PassInv(Objects) /\ Lives(Objects, inbox) /\ Fixed
      /\ Objects.allocations = allocations /\ Objects.flags = flags
      /\ Objects.completed = completed
  BY ObjectsHas DEF Inv, Typed, Fixed
<1>2. inbox = <<>> /\ \A j \in Job : status[j] = "running" => now < EndOf(j)
  BY DEF Tick
<1> DEFINE j == a.job
<1>3. /\ j \in Job /\ a.start \in Times
      /\ estimated_end_time(a) = a.start + requested_time(j)
  <2> DEFINE s == Objects
  <2>1. PassInv(s) /\ a \in s.allocations
    BY <1>1
  <2> HIDE DEF s
  <2> QED
    BY <1>1, <2>1, AllocationNow
<1>4. flags[j] = "scheduled" /\ j \notin completed
  BY <1>1 DEF PassInv, Known
<1>5. ~Has(inbox, <<"JOB_COMPLETED", j>>)
  <2>1. DOMAIN <<>> = {}
    OBVIOUS
  <2> QED
    BY <1>2, <2>1 DEF Has
<1>6. Life(Objects, inbox, j)
  BY <1>1, <1>3 DEF Lives
<1>7. status[j] = "running"
  BY <1>1, <1>4, <1>5, <1>6 DEF Life
<1>8. \A b \in allocations : b.job = j => b = a
  BY <1>1 DEF PassInv, Sound
<1>9. (CHOOSE b \in allocations : b.job = j) = a
  <2> HIDE DEF j
  <2>1. a.job = j
    BY DEF j
  <2> QED
    BY <1>8, <2>1
<1>10. now < estimated_end_time(a)
  BY <1>2, <1>3, <1>7, <1>9 DEF EndOf
<1>11. estimated_end_time(a) \in Times /\ now \in Times
  BY <1>1, <1>3, Sizes, TimesAdd DEF Fixed
<1> QED
  BY <1>10, <1>11, TimesApart

LEMMA TickKeeps ==
  ASSUME Inv, Tick
  PROVE  Inv'
<1>1. /\ demand' = demand /\ place' = place /\ now' = now + Unit /\ policy' = policy
      /\ walltime' = walltime /\ dependencies' = dependencies /\ jobs' = jobs
      /\ jobmap' = jobmap /\ flags' = flags /\ completed' = completed
      /\ allocations' = allocations /\ promised' = promised /\ dead' = dead
      /\ consumed' = consumed /\ loop' = loop /\ inbox' = inbox /\ status' = status
  BY DEF Tick, platform_vars, rigid, books
<1>2. Objects' = Objects
  BY <1>1 DEF Objects
<1>3. /\ Typed /\ PassInv(Objects) /\ Lives(Objects, inbox) /\ Fixed
  BY DEF Inv, Typed, Fixed
<1>4. now' \in Times /\ now' > 0 /\ now \in Nat /\ Unit \in Nat
  <2>1. Unit \in Nat /\ now \in Nat /\ Unit > 0
    BY <1>3, Sizes
  <2>2. Unit \in Times
    <3>1. Unit = Unit * 1 /\ 1 \in Nat
      BY <2>1
    <3> QED
      BY <3>1 DEF Times
  <2>3. now + Unit \in Times
    BY <1>3, <2>2, TimesAdd DEF Fixed
  <2> QED
    BY <1>1, <2>1, <2>3
<1>5. Typed'
  <2>1. (now \in Times)'
    BY <1>4 DEF Times
  <2> QED
    BY <1>1, <1>3, <1>4, <2>1 DEF Typed, Partial, Message, Machine
<1>6. PassInv(Objects)'
  <2>1. (Objects \in Pass)' /\ ~Objects'.dead
    BY <1>2, <1>3 DEF PassInv, Pass, Partial, AllocationSet, Machine
  <2>2. Sound(Objects.allocations)'
    <3>0. PICK A : A = Objects.allocations
      OBVIOUS
    <3>1. Sound(A) /\ \A a \in A : a.start \in Nat
      <4>1. PassInv(Objects)
        BY <1>3
      <4> QED
        BY <3>0, <4>1, PassHas, AllocationSetHas DEF PassInv
    <3>2. Objects'.allocations = A
      BY <1>2, <3>0
    <3>3. \A a \in A : a.start <= now'
      BY <1>1, <1>4, <3>1 DEF Sound
    <3>4. Sound(A)'
      BY <1>1, <3>1, <3>3 DEF Sound, Times, requested_time
    <3> QED
      BY <3>2, <3>4 DEF Sound, requested_time
  <2>3. Known(Objects)' /\ Placed(Objects)' /\ Touched(Objects)'
    BY <1>1, <1>2, <1>3 DEF PassInv, Known, Placed, PlaceIn, Touched
  <2> QED
    BY <2>1, <2>2, <2>3 DEF PassInv
<1>7. Lives(Objects, inbox)'
  BY <1>1, <1>2, <1>3 DEF Lives, Once, Life, Has
<1>8. policy' = "easy" => (Keepable(Objects) /\ Waiting(Objects))'
  <2> SUFFICES ASSUME policy = "easy" PROVE (Keepable(Objects) /\ Waiting(Objects))'
    BY <1>1
  <2>1. Keepable(Objects) /\ Waiting(Objects)
    BY DEF Inv
  <2>2. \A k : Wide(k)' = Wide(k)
    BY <1>1 DEF Wide, Neighbours, Machine
  <2>3. \A k : Runnable(Objects, k)' <=> Runnable(Objects, k)
    BY <1>1, <1>2 DEF Runnable, dependencies_fulfilled, Open
  <2>4. /\ \A k : FirstOpen(Objects, k)' <=> FirstOpen(Objects, k)
        /\ Promised(Objects)' = Promised(Objects)
    BY <1>2 DEF FirstOpen, Promised, Open
  <2>5. \A k, p : ReservableBy(Objects, k, p)' <=> ReservableBy(Objects, k, p)
    BY <1>2, <2>2 DEF ReservableBy, FreeBy, estimated_end_time, TIME_DELTA
  <2>6. \A k : NoRoom(Objects, k)' <=> NoRoom(Objects, k)
    BY <1>2, <2>2 DEF NoRoom
  <2>7. ASSUME NEW h \in Promised(Objects) PROVE now + Unit <= Objects.promised[h]
    <3> DEFINE p == Objects.promised[h]
    <3>1. p \in Nat
      <4> DEFINE f == Objects.promised
      <4>1. f \in Partial(Nat) /\ h \in DOMAIN f
        BY <1>3, PassHas DEF PassInv, Promised
      <4> HIDE DEF f
      <4>2. f[h] \in Nat
        BY <4>1, PartialHas
      <4> QED
        BY <4>2 DEF f
    <3>2. NoRoom(Objects, h) /\ ReservableBy(Objects, h, p)
      BY <2>1 DEF Keepable, Waiting
    <3> HIDE DEF p
    <3>3. PICK M \in Wide(h) : FreeBy(Objects, h, M, p)
      BY <3>2 DEF ReservableBy
    <3>4. PICK a \in Objects.allocations : a.machines \cap M # {}
      BY <3>2 DEF NoRoom
    <3>5. estimated_end_time(a) + TIME_DELTA <= p
      BY <3>3, <3>4 DEF FreeBy
    <3>6. now + Unit <= estimated_end_time(a)
      BY <3>4, TickStops, ObjectsHas
    <3>7. estimated_end_time(a) \in Nat /\ TIME_DELTA = 1
      <4> DEFINE s == Objects
      <4>1. PassInv(s) /\ a \in s.allocations
        BY <1>3, <3>4
      <4> HIDE DEF s
      <4> QED
        BY <1>3, <4>1, AllocationNow, Sizes
    <3>8. now + Unit <= p
      BY <1>4, <3>1, <3>5, <3>6, <3>7
    <3> QED
      BY <3>8 DEF p
  <2>8. Keepable(Objects)'
    BY <1>1, <1>2, <2>1, <2>3, <2>4, <2>5, <2>7 DEF Keepable
  <2>9. Waiting(Objects)'
    BY <2>1, <2>4, <2>6 DEF Waiting
  <2> QED
    BY <2>8, <2>9
<1>9. policy' # "easy" => promised' = <<>>
  BY <1>1 DEF Inv
<1>10. Late'
  BY <1>4 DEF Late
<1> QED
  BY <1>5, <1>6, <1>7, <1>8, <1>9, <1>10 DEF Inv

-----------------------------------------------------------------------------
\* The invariant holds

LEMMA InitHas ==
  ASSUME Init
  PROVE  Inv
<1>1. /\ loop = "simulator" /\ inbox = <<>> /\ place = <<>>
      /\ status = [j \in Job |-> "future"] /\ demand \in Demands
      /\ now \in {0, Unit} /\ consumed = FALSE /\ policy \in Policies
      /\ walltime \in Walltimes /\ dependencies \in Dependencies
      /\ jobs = <<>> /\ jobmap = {} /\ flags = [j \in Job |-> "open"]
      /\ completed = {} /\ allocations = {} /\ promised = <<>> /\ dead = FALSE
  BY DEF Init, PlatformInit, NoPlace
<1>2. /\ DOMAIN <<>> = {} /\ <<>> \in Partial(SUBSET Machine) /\ <<>> \in Partial(Nat)
  BY EmptyPartial
<1>3. Unit \in Times /\ Unit > 0 /\ 0 \in Times
  <2>1. Unit \in Nat /\ Unit > 0
    BY HighLevelAssumption DEF TIME_DELTA
  <2>2. Unit = Unit * 1 /\ 1 \in Nat /\ 0 = Unit * 0 /\ 0 \in Nat
    BY <2>1
  <2> QED
    BY <2>1, <2>2 DEF Times
<1>4. Typed
  <2>1. /\ loop \in {"simulator", "scheduler"} /\ inbox \in Seq(Message)
        /\ status \in [Job -> {"future", "waiting", "rejected", "running", "completed"}]
    BY <1>1
  <2>2. now \in Times /\ consumed \in BOOLEAN
    <3>1. now \in Times
      BY <1>1, <1>3
    <3>2. consumed \in BOOLEAN
      BY <1>1
    <3> QED
      BY <3>1, <3>2
  <2>3. place \in Partial(SUBSET Machine)
    BY <1>1, <1>2
  <2>4. DOMAIN place = {j \in Job : flags[j] = "scheduled"}
    <3>1. \A j \in Job : flags[j] # "scheduled"
      BY <1>1
    <3>2. DOMAIN place = {}
      BY <1>1, <1>2
    <3> QED
      BY <3>1, <3>2
  <2> QED
    BY <1>1, <2>1, <2>2, <2>3, <2>4 DEF Typed
<1>5. /\ Objects.jobs = <<>> /\ Objects.jobmap = {} /\ Objects.flags = flags
      /\ Objects.completed = {} /\ Objects.allocations = {} /\ Objects.promised = <<>>
      /\ Objects.dead = FALSE /\ Objects.starts = <<>>
  BY <1>1, ObjectsHas
<1>6. ToSet(<<>>) = {} /\ IsInjective(<<>>)
  BY <1>2 DEF ToSet, IsInjective
<1>7. PassInv(Objects)
  <2>1. Objects \in Pass
    <3>1. /\ jobs \in Seq(Job) /\ jobmap \subseteq Job /\ completed \subseteq Job
          /\ flags \in [Job -> {"open", "scheduled", "rejected"}]
          /\ allocations \subseteq AllocationSet /\ promised \in Partial(Nat)
      BY <1>1, <1>2
    <3>2. dead \in BOOLEAN
      BY <1>1
    <3> QED
      BY <3>1, <3>2, ObjectsPass
  <2>2. Sound(Objects.allocations) /\ Placed(Objects)
    BY <1>5 DEF Sound, Placed
  <2>3. Known(Objects)
    BY <1>1, <1>5, <1>6 DEF Known
  <2>4. Touched(Objects)
    BY <1>2, <1>5 DEF Touched
  <2> QED
    BY <1>5, <2>1, <2>2, <2>3, <2>4 DEF PassInv
<1>8. Lives(Objects, inbox)
  <2>1. \A e : ~Has(inbox, e)
    BY <1>1, <1>2 DEF Has
  <2>2. Once(inbox)
    BY <1>1, <1>2 DEF Once
  <2>3. \A j \in Job : Life(Objects, inbox, j)
    BY <1>1, <1>5, <1>6, <2>1 DEF Life
  <2> QED
    BY <2>2, <2>3 DEF Lives
<1>9. Keepable(Objects) /\ Waiting(Objects)
  BY <1>2, <1>5 DEF Keepable, Waiting, Promised
<1>10. Fresh
  BY <1>1 DEF Fresh
<1> QED
  BY <1>1, <1>4, <1>7, <1>8, <1>9, <1>10 DEF Inv

LEMMA NextKeeps ==
  ASSUME Inv, [Next]_vars
  PROVE  Inv' \/ Broken'
<1>1. loop \in {"simulator", "scheduler"}
  BY DEF Inv, Typed
<1>2. ASSUME NEW j \in Job, onJobSubmission(j) PROVE Inv' \/ Broken'
  BY <1>2, SubmissionKeeps
<1>3. ASSUME NEW j \in Job, onJobCompletion(j) PROVE Inv' \/ Broken'
  BY <1>3, CompletionKeeps
<1>4. CASE onNoMoreEvents
  <2>1. /\ UNCHANGED <<inbox, status, demand, place, now, rigid, books>>
        /\ loop' \in {"simulator", "scheduler"}
    BY <1>4 DEF onNoMoreEvents, MessageEnds, NoCommand
  <2> QED
    BY <2>1, TurnKeeps
<1>5. CASE Send /\ UNCHANGED <<now, rigid, books>>
  <2>1. /\ UNCHANGED <<inbox, status, demand, place, now, rigid, books>>
        /\ loop' \in {"simulator", "scheduler"}
    BY <1>5 DEF Send
  <2> QED
    BY <2>1, TurnKeeps
<1>6. ASSUME NEW j \in Job, Submit(j), UNCHANGED <<now, rigid, books>> PROVE Inv'
  BY <1>6, SubmitKeeps
<1>7. ASSUME NEW j \in Job, Complete(j), UNCHANGED <<now, rigid, books>> PROVE Inv'
  BY <1>7, CompleteKeeps
<1>8. CASE Tick
  BY <1>8, TickKeeps
<1>9. CASE UNCHANGED vars
  <2>1. /\ UNCHANGED <<inbox, status, demand, place, now, rigid, books>>
        /\ loop' \in {"simulator", "scheduler"}
    BY <1>1, <1>9 DEF vars, platform_vars
  <2> QED
    BY <2>1, TurnKeeps
<1> QED
  BY <1>2, <1>3, <1>4, <1>5, <1>6, <1>7, <1>8, <1>9 DEF Next, Simulator, Callbacks

\* Once an exception has left a callback, nothing moves.
LEMMA BrokenStays ==
  ASSUME Broken, [Next]_vars
  PROVE  Broken'
<1>1. ~Next
  <2>1. dead /\ loop = "scheduler"
    BY DEF Broken
  <2>2. ~Simulator
    BY <2>1 DEF Simulator, Send, Submit, Complete, Event
  <2>3. ~Tick
    BY <2>1 DEF Tick
  <2>4. ~Callbacks
    BY <2>1 DEF Callbacks, onJobSubmission, onJobCompletion, onNoMoreEvents
  <2> QED
    BY <2>2, <2>3, <2>4 DEF Next
<1>2. /\ dead' = dead /\ now' = now /\ consumed' = consumed /\ loop' = loop
      /\ promised' = promised
  BY <1>1 DEF vars, platform_vars, books
<1> QED
  BY <1>2 DEF Broken

\* The invariant Inv: what the books, the simulator, the messages under way and the
\* promises have to do with one another between two callbacks; or the first
\* iteration has failed at 0.
THEOREM InvHolds == Spec => [](Inv \/ Broken)
<1>1. Init => Inv \/ Broken
  BY InitHas
<1>2. (Inv \/ Broken) /\ [Next]_vars => (Inv \/ Broken)'
  <2>1. ASSUME Inv, [Next]_vars PROVE Inv' \/ Broken'
    BY <2>1, NextKeeps
  <2>2. ASSUME Broken, [Next]_vars PROVE Broken'
    BY <2>2, BrokenStays
  <2> QED
    BY <2>1, <2>2
<1> QED
  BY <1>1, <1>2, PTL DEF Spec

\* What the invariant says of the machines, _jobmap and the jobs.
LEMMA InvExact ==
  ASSUME Inv
  PROVE  MachinesExact
<1>1. /\ Typed /\ PassInv(Objects) /\ Lives(Objects, inbox)
      /\ Objects.jobs = jobs /\ Objects.jobmap = jobmap /\ Objects.flags = flags
      /\ Objects.completed = completed /\ Objects.allocations = allocations
      /\ Objects.dead = dead /\ Objects.starts = <<>>
  BY ObjectsHas DEF Inv
<1>2. /\ ~dead /\ Sound(allocations)
      /\ {a.job : a \in allocations} = {j \in Job : flags[j] = "scheduled"} \ completed
      /\ jobmap = {j \in ToSet(jobs) : flags[j] # "rejected"} \ completed
  BY <1>1 DEF PassInv, Known
<1>3. \A a \in allocations : a.machines = place[a.job]
  <2>1. DOMAIN <<>> = {}
    OBVIOUS
  <2> QED
    BY <1>1, <2>1 DEF PassInv, Placed, PlaceIn
<1>4. ASSUME NEW j \in Job, status[j] = "running" PROVE \E a \in allocations : a.job = j
  <2>1. Life(Objects, inbox, j)
    BY <1>1 DEF Lives
  <2>2. flags[j] = "scheduled" /\ j \notin completed
    BY <1>1, <1>4, <2>1 DEF Life
  <2> QED
    BY <1>2, <2>2
<1> QED
  BY <1>2, <1>3, <1>4 DEF MachinesExact, Sound

LEMMA BrokenExact ==
  ASSUME Broken
  PROVE  MachinesExact /\ PriorityKept
<1>1. promised = <<>> /\ DOMAIN <<>> = {}
  BY DEF Broken
<1> QED
  BY <1>1 DEF Broken, MachinesExact, PriorityKept

LEMMA InvKept ==
  ASSUME Inv
  PROVE  PriorityKept
<1>1. CASE policy = "easy"
  <2> SUFFICES ASSUME NEW h \in DOMAIN promised, Open(Objects, h) PROVE now <= promised[h]
    BY DEF PriorityKept
  <2>1. Keepable(Objects) /\ Objects.promised = promised
    BY <1>1, ObjectsHas DEF Inv
  <2>2. h \in Promised(Objects)
    BY <2>1 DEF Promised
  <2> QED
    BY <2>1, <2>2 DEF Keepable
<1>2. CASE policy # "easy"
  <2>1. promised = <<>> /\ DOMAIN <<>> = {}
    BY <1>2 DEF Inv
  <2> QED
    BY <2>1 DEF PriorityKept
<1> QED
  BY <1>1, <1>2

\* With any of the three schedulers, any jobs, sizes, walltimes and dependencies
\* and any number of machines, an assertion of the high-level API fails only in
\* the first iteration of a simulation, and only when that begins at 0, where
\* Allocation.__init__ refuses the job to be started; otherwise no assertion fails
\* and fatal() is never called, and between two callbacks the allocations on the
\* resources, the Job objects and _jobmap agree with what Batsim runs.
THEOREM MachinesAreExact == Spec => []MachinesExact
<1>1. Inv \/ Broken => MachinesExact
  BY InvExact, BrokenExact
<1> QED
  BY <1>1, InvHolds, PTL

\* do_backfilling of the EASY scheduler never makes the first of the open jobs
\* wait longer than the earliest temporary allocation it was given.
THEOREM PriorityIsKept == Spec => []PriorityKept
<1>1. Inv \/ Broken => PriorityKept
  BY InvKept, BrokenExact
<1> QED
  BY <1>1, InvHolds, PTL
=============================================================================
