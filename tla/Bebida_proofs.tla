--------------------------- MODULE Bebida_proofs ---------------------------
(***************************************************************************)
(* Bebida never runs two jobs on one machine, gives no machine back that a *)
(* job still runs on, and closes registration only when nothing will be    *)
(* registered again, for every number of machines and jobs and all loans.  *)
(*                                                                         *)
(* Every message about a job, or about a loan, is part of one exchange:    *)
(* the invariant says, for each job, what the simulator and the scheduler  *)
(* know about it and which messages about it are on their way (Stage), and *)
(* the same for each loan (LoanStage). A job that is about to be killed is *)
(* still on its machines, and the machines can be given back, and even     *)
(* lent again, in the same exchange of messages: Leaves says that it is    *)
(* gone before, by the order of the messages in the queues. The predicates *)
(* on queues (None, One, Two, Precedes) and what appending and taking      *)
(* messages does to them come first; then each action is shown to move the *)
(* jobs and loans its messages are about, and to leave the others where    *)
(* they are.                                                               *)
(***************************************************************************)
EXTENDS Bebida, Sums_proofs

-----------------------------------------------------------------------------
\* Queues of messages, seen by those a message of A is about.

None(q, A)      == \A i \in DOMAIN q : q[i] \notin A
One(q, A, t)    == \E i \in DOMAIN q : /\ q[i] \in A /\ q[i].type = t
                                       /\ \A k \in DOMAIN q : q[k] \in A => k = i
Two(q, A, t, u) == \E i, k \in DOMAIN q : /\ i < k /\ q[i] \in A /\ q[k] \in A
                                          /\ q[i].type = t /\ q[k].type = u
                                          /\ \A n \in DOMAIN q : q[n] \in A => n \in {i, k}

\* A message of A comes before all those of B.
Precedes(q, A, B) == \E i \in DOMAIN q : q[i] \in A /\ \A k \in DOMAIN q : q[k] \in B => i < k

\* r says of A what q says.
Kept(q, r, A) ==
  /\ None(q, A) => None(r, A)
  /\ \A t : One(q, A, t) => One(r, A, t)
  /\ \A t, u : Two(q, A, t, u) => Two(r, A, t, u)

\* Where the elements of a queue are once its head has left.
LEMMA TailPlaces ==
  ASSUME NEW S, NEW q \in Seq(S), q # <<>>
  PROVE  /\ DOMAIN q = 1 .. Len(q) /\ Len(q) \in Nat /\ 1 \in DOMAIN q /\ Head(q) = q[1]
         /\ Tail(q) \in Seq(S) /\ DOMAIN Tail(q) = 1 .. (Len(q) - 1)
         /\ \A i \in DOMAIN q : i = 1 \/ (i - 1 \in DOMAIN Tail(q) /\ Tail(q)[i - 1] = q[i])
         /\ \A i \in DOMAIN Tail(q) : i + 1 \in DOMAIN q /\ Tail(q)[i] = q[i + 1]
<1>1. /\ Len(q) \in Nat /\ Len(q) > 0 /\ Head(q) = q[1] /\ DOMAIN q = 1 .. Len(q)
      /\ Tail(q) \in Seq(S) /\ Len(Tail(q)) = Len(q) - 1
      /\ \A i \in 1 .. Len(Tail(q)) : Tail(q)[i] = q[i + 1]
  BY LenProperties, HeadTailProperties
<1>2. DOMAIN Tail(q) = 1 .. (Len(q) - 1)
  BY <1>1, LenProperties
<1>3. \A i \in DOMAIN q : i = 1 \/ (i - 1 \in DOMAIN Tail(q) /\ Tail(q)[i - 1] = q[i])
  <2> SUFFICES ASSUME NEW i \in 1 .. Len(q), i # 1
               PROVE  i - 1 \in 1 .. (Len(q) - 1) /\ Tail(q)[i - 1] = q[i]
    BY <1>1, <1>2
  <2>1. i - 1 \in 1 .. (Len(q) - 1) /\ (i - 1) + 1 = i
    BY <1>1
  <2> QED
    BY <1>1, <2>1
<1>4. \A i \in DOMAIN Tail(q) : i + 1 \in DOMAIN q /\ Tail(q)[i] = q[i + 1]
  BY <1>1, <1>2
<1> QED
  BY <1>1, <1>2, <1>3, <1>4

\* A head of which A has nothing to say leaves.
LEMMA TailKeeps ==
  ASSUME NEW S, NEW q \in Seq(S), q # <<>>, NEW A, Head(q) \notin A
  PROVE  Kept(q, Tail(q), A)
<1> DEFINE r == Tail(q)
<1>1. /\ DOMAIN q \subseteq Nat /\ DOMAIN r \subseteq Nat /\ Head(q) = q[1]
      /\ \A i \in DOMAIN q : i = 1 \/ (i - 1 \in DOMAIN r /\ r[i - 1] = q[i])
      /\ \A i \in DOMAIN r : i + 1 \in DOMAIN q /\ r[i] = q[i + 1]
  BY TailPlaces
<1> HIDE DEF r
<1>2. None(q, A) => None(r, A)
  BY <1>1 DEF None
<1>3. ASSUME NEW t, One(q, A, t) PROVE One(r, A, t)
  <2>1. PICK i \in DOMAIN q : /\ q[i] \in A /\ q[i].type = t
                              /\ \A k \in DOMAIN q : q[k] \in A => k = i
    BY <1>3 DEF One
  <2>2. i - 1 \in DOMAIN r /\ r[i - 1] = q[i]
    BY <1>1, <2>1
  <2>3. \A k \in DOMAIN r : r[k] \in A => k = i - 1
    BY <1>1, <2>1
  <2> QED
    BY <2>1, <2>2, <2>3 DEF One
<1>4. ASSUME NEW t, NEW u, Two(q, A, t, u) PROVE Two(r, A, t, u)
  <2>1. PICK i, k \in DOMAIN q :
               /\ i < k /\ q[i] \in A /\ q[k] \in A /\ q[i].type = t /\ q[k].type = u
               /\ \A n \in DOMAIN q : q[n] \in A => n \in {i, k}
    BY <1>4 DEF Two
  <2> DEFINE a == i - 1
             b == k - 1
  <2>2. a \in DOMAIN r /\ r[a] = q[i] /\ b \in DOMAIN r /\ r[b] = q[k]
    BY <1>1, <2>1
  <2>3. a < b
    BY <1>1, <2>1
  <2>4. \A n \in DOMAIN r : r[n] \in A => n \in {a, b}
    <3> SUFFICES ASSUME NEW n \in DOMAIN r, r[n] \in A PROVE n \in {a, b}
      OBVIOUS
    <3>1. n + 1 \in {i, k} /\ n \in Nat
      BY <1>1, <2>1
    <3> QED
      BY <1>1, <3>1
  <2> HIDE DEF a, b
  <2>5. r[a] \in A /\ r[a].type = t /\ r[b] \in A /\ r[b].type = u
    BY <2>1, <2>2
  <2> QED
    BY <2>2, <2>3, <2>4, <2>5 DEF Two
<1> QED
  BY <1>2, <1>3, <1>4 DEF Kept, r

\* A head about which A has something to say leaves: it was the first.
LEMMA TailTakes ==
  ASSUME NEW S, NEW q \in Seq(S), q # <<>>, NEW A, Head(q) \in A
  PROVE  /\ ~None(q, A)
         /\ \A t : One(q, A, t) => Head(q).type = t /\ None(Tail(q), A)
         /\ \A t, u : Two(q, A, t, u) => Head(q).type = t /\ One(Tail(q), A, u)
<1> DEFINE r == Tail(q)
<1>1. /\ DOMAIN q \subseteq Nat \ {0} /\ DOMAIN r \subseteq Nat \ {0} /\ Head(q) = q[1] /\ 1 \in DOMAIN q
      /\ \A i \in DOMAIN q : i = 1 \/ (i - 1 \in DOMAIN r /\ r[i - 1] = q[i])
      /\ \A i \in DOMAIN r : i + 1 \in DOMAIN q /\ r[i] = q[i + 1]
  BY TailPlaces
<1> HIDE DEF r
<1>2. ~None(q, A)
  BY <1>1 DEF None
<1>3. ASSUME NEW t, One(q, A, t) PROVE Head(q).type = t /\ None(r, A)
  <2>1. PICK i \in DOMAIN q : /\ q[i] \in A /\ q[i].type = t
                              /\ \A k \in DOMAIN q : q[k] \in A => k = i
    BY <1>3 DEF One
  <2>2. i = 1
    BY <1>1, <2>1
  <2>3. \A k \in DOMAIN r : r[k] \notin A
    <3> SUFFICES ASSUME NEW k \in DOMAIN r, r[k] \in A PROVE FALSE
      OBVIOUS
    <3>1. k + 1 = 1
      BY <1>1, <2>1, <2>2
    <3> QED
      BY <1>1, <3>1
  <2> QED
    BY <1>1, <2>1, <2>2, <2>3 DEF None
<1>4. ASSUME NEW t, NEW u, Two(q, A, t, u) PROVE Head(q).type = t /\ One(r, A, u)
  <2>1. PICK i, k \in DOMAIN q :
               /\ i < k /\ q[i] \in A /\ q[k] \in A /\ q[i].type = t /\ q[k].type = u
               /\ \A n \in DOMAIN q : q[n] \in A => n \in {i, k}
    BY <1>4 DEF Two
  <2>2. i = 1
    BY <1>1, <2>1
  <2>3. k - 1 \in DOMAIN r /\ r[k - 1] = q[k]
    BY <1>1, <2>1
  <2>4. \A n \in DOMAIN r : r[n] \in A => n = k - 1
    <3> SUFFICES ASSUME NEW n \in DOMAIN r, r[n] \in A PROVE n = k - 1
      OBVIOUS
    <3>1. n + 1 \in {i, k} /\ n + 1 # 1
      BY <1>1, <2>1
    <3> QED
      BY <1>1, <2>1, <2>2, <3>1
  <2> QED
    BY <1>1, <2>1, <2>2, <2>3, <2>4 DEF One
<1> QED
  BY <1>2, <1>3, <1>4 DEF r

\* Where the elements of a concatenation come from.
LEMMA JoinPlaces ==
  ASSUME NEW S, NEW q \in Seq(S), NEW r \in Seq(S)
  PROVE  /\ Len(q) \in Nat /\ DOMAIN q = 1 .. Len(q) /\ DOMAIN r \subseteq Nat \ {0}
         /\ q \o r \in Seq(S)
         /\ \A i \in DOMAIN q : i \in DOMAIN (q \o r) /\ (q \o r)[i] = q[i]
         /\ \A i \in DOMAIN r : i + Len(q) \in DOMAIN (q \o r) /\ (q \o r)[i + Len(q)] = r[i]
         /\ \A i \in DOMAIN (q \o r) : \/ i \in DOMAIN q
                                       \/ \E k \in DOMAIN r : i = k + Len(q)
<1>1. /\ Len(q) \in Nat /\ DOMAIN q = 1 .. Len(q) /\ Len(r) \in Nat /\ DOMAIN r = 1 .. Len(r)
      /\ q \o r \in Seq(S) /\ Len(q \o r) = Len(q) + Len(r)
      /\ \A i \in 1 .. Len(q) + Len(r) : (q \o r)[i] = IF i <= Len(q) THEN q[i] ELSE r[i - Len(q)]
  BY LenProperties, ConcatProperties
<1>2. DOMAIN (q \o r) = 1 .. Len(q) + Len(r)
  BY <1>1, LenProperties
<1>3. \A i \in DOMAIN q : i \in DOMAIN (q \o r) /\ (q \o r)[i] = q[i]
  BY <1>1, <1>2
<1>4. ASSUME NEW i \in DOMAIN r
      PROVE  i + Len(q) \in DOMAIN (q \o r) /\ (q \o r)[i + Len(q)] = r[i]
  <2>1. i + Len(q) \in 1 .. Len(q) + Len(r) /\ ~(i + Len(q) <= Len(q)) /\ (i + Len(q)) - Len(q) = i
    BY <1>1
  <2> QED
    BY <1>1, <1>2, <2>1
<1>5. ASSUME NEW i \in DOMAIN (q \o r), i \notin DOMAIN q
      PROVE  \E k \in DOMAIN r : i = k + Len(q)
  <2>1. i - Len(q) \in DOMAIN r /\ i = (i - Len(q)) + Len(q)
    BY <1>1, <1>2, <1>5
  <2> QED
    BY <2>1
<1> QED
  BY <1>1, <1>3, <1>4, <1>5

\* What arrives has nothing for A.
LEMMA JoinKeeps ==
  ASSUME NEW S, NEW q \in Seq(S), NEW r \in Seq(S), NEW A, None(r, A)
  PROVE  Kept(q, q \o r, A)
<1> DEFINE all == q \o r
<1>1. /\ Len(q) \in Nat
      /\ \A i \in DOMAIN q : i \in DOMAIN all /\ all[i] = q[i]
      /\ \A i \in DOMAIN r : i + Len(q) \in DOMAIN all /\ all[i + Len(q)] = r[i]
      /\ \A i \in DOMAIN all : i \in DOMAIN q \/ \E k \in DOMAIN r : i = k + Len(q)
  BY JoinPlaces
<1> HIDE DEF all
<1>2. \A i \in DOMAIN all : all[i] \in A => i \in DOMAIN q
  BY <1>1 DEF None
<1>3. None(q, A) => None(all, A)
  BY <1>1, <1>2 DEF None
<1>4. \A t : One(q, A, t) => One(all, A, t)
  BY <1>1, <1>2 DEF One
<1>5. ASSUME NEW t, NEW u, Two(q, A, t, u) PROVE Two(all, A, t, u)
  <2>1. PICK i, k \in DOMAIN q :
               /\ i < k /\ q[i] \in A /\ q[k] \in A /\ q[i].type = t /\ q[k].type = u
               /\ \A n \in DOMAIN q : q[n] \in A => n \in {i, k}
    BY <1>5 DEF Two
  <2>2. /\ i \in DOMAIN all /\ k \in DOMAIN all /\ all[i] = q[i] /\ all[k] = q[k]
        /\ \A n \in DOMAIN all : all[n] \in A => n \in {i, k}
    BY <1>1, <1>2, <2>1
  <2> QED
    BY <2>1, <2>2 DEF Two
<1> QED
  BY <1>3, <1>4, <1>5 DEF Kept, all

\* What arrives is all there is for A.
LEMMA JoinBrings ==
  ASSUME NEW S, NEW q \in Seq(S), NEW r \in Seq(S), NEW A, None(q, A)
  PROVE  Kept(r, q \o r, A)
<1> DEFINE all == q \o r
<1>1. /\ Len(q) \in Nat /\ DOMAIN r \subseteq Nat
      /\ \A i \in DOMAIN q : i \in DOMAIN all /\ all[i] = q[i]
      /\ \A i \in DOMAIN r : i + Len(q) \in DOMAIN all /\ all[i + Len(q)] = r[i]
      /\ \A i \in DOMAIN all : i \in DOMAIN q \/ \E k \in DOMAIN r : i = k + Len(q)
  BY JoinPlaces
<1> HIDE DEF all
<1>2. \A i \in DOMAIN all : all[i] \in A => \E k \in DOMAIN r : i = k + Len(q) /\ r[k] \in A
  BY <1>1 DEF None
<1>3. None(r, A) => None(all, A)
  BY <1>2 DEF None
<1>4. ASSUME NEW t, One(r, A, t) PROVE One(all, A, t)
  <2>1. PICK i \in DOMAIN r : /\ r[i] \in A /\ r[i].type = t
                              /\ \A k \in DOMAIN r : r[k] \in A => k = i
    BY <1>4 DEF One
  <2>2. /\ i + Len(q) \in DOMAIN all /\ all[i + Len(q)] = r[i]
        /\ \A n \in DOMAIN all : all[n] \in A => n = i + Len(q)
    BY <1>1, <1>2, <2>1
  <2> QED
    BY <2>1, <2>2 DEF One
<1>5. ASSUME NEW t, NEW u, Two(r, A, t, u) PROVE Two(all, A, t, u)
  <2>1. PICK i, k \in DOMAIN r :
               /\ i < k /\ r[i] \in A /\ r[k] \in A /\ r[i].type = t /\ r[k].type = u
               /\ \A n \in DOMAIN r : r[n] \in A => n \in {i, k}
    BY <1>5 DEF Two
  <2>2. /\ i + Len(q) \in DOMAIN all /\ all[i + Len(q)] = r[i]
        /\ k + Len(q) \in DOMAIN all /\ all[k + Len(q)] = r[k]
        /\ i + Len(q) < k + Len(q)
    BY <1>1, <2>1
  <2>3. \A n \in DOMAIN all : all[n] \in A => n \in {i + Len(q), k + Len(q)}
    BY <1>1, <1>2, <2>1
  <2> QED
    BY <2>1, <2>2, <2>3 DEF Two
<1> QED
  BY <1>3, <1>4, <1>5 DEF Kept, all

\* One for A, then another.
LEMMA JoinPairs ==
  ASSUME NEW S, NEW q \in Seq(S), NEW r \in Seq(S), NEW A, NEW t, NEW u,
         One(q, A, t), One(r, A, u)
  PROVE  Two(q \o r, A, t, u)
<1> DEFINE all == q \o r
<1>1. /\ Len(q) \in Nat /\ DOMAIN r \subseteq Nat \ {0} /\ DOMAIN q = 1 .. Len(q)
      /\ \A i \in DOMAIN q : i \in DOMAIN all /\ all[i] = q[i]
      /\ \A i \in DOMAIN r : i + Len(q) \in DOMAIN all /\ all[i + Len(q)] = r[i]
      /\ \A i \in DOMAIN all : i \in DOMAIN q \/ \E k \in DOMAIN r : i = k + Len(q)
  BY JoinPlaces
<1> HIDE DEF all
<1>2. PICK i \in DOMAIN q : q[i] \in A /\ q[i].type = t /\ \A n \in DOMAIN q : q[n] \in A => n = i
  BY DEF One
<1>3. PICK k \in DOMAIN r : r[k] \in A /\ r[k].type = u /\ \A n \in DOMAIN r : r[n] \in A => n = k
  BY DEF One
<1>4. /\ i \in DOMAIN all /\ all[i] = q[i]
      /\ k + Len(q) \in DOMAIN all /\ all[k + Len(q)] = r[k]
      /\ i < k + Len(q)
  BY <1>1, <1>2, <1>3
<1>5. \A n \in DOMAIN all : all[n] \in A => n \in {i, k + Len(q)}
  BY <1>1, <1>2, <1>3
<1> QED
  BY <1>2, <1>3, <1>4, <1>5 DEF Two, all

\* Nothing for A in either part, nothing for A in the whole, and conversely.
LEMMA JoinNone ==
  ASSUME NEW S, NEW q \in Seq(S), NEW r \in Seq(S), NEW A
  PROVE  None(q \o r, A) <=> None(q, A) /\ None(r, A)
<1> DEFINE all == q \o r
<1>1. /\ \A i \in DOMAIN q : i \in DOMAIN all /\ all[i] = q[i]
      /\ \A i \in DOMAIN r : i + Len(q) \in DOMAIN all /\ all[i + Len(q)] = r[i]
      /\ \A i \in DOMAIN all : i \in DOMAIN q \/ \E k \in DOMAIN r : i = k + Len(q)
  BY JoinPlaces
<1> HIDE DEF all
<1> QED
  BY <1>1 DEF None, all

\* A message of A stays before those of B ...
LEMMA PrecedesTail ==
  ASSUME NEW S, NEW q \in Seq(S), q # <<>>, NEW A, NEW B, Precedes(q, A, B)
  PROVE  /\ Head(q) \notin A => Precedes(Tail(q), A, B)
         /\ Head(q) \notin B
<1> DEFINE r == Tail(q)
<1>1. /\ DOMAIN q \subseteq Nat \ {0} /\ Head(q) = q[1] /\ 1 \in DOMAIN q
      /\ \A i \in DOMAIN q : i = 1 \/ (i - 1 \in DOMAIN r /\ r[i - 1] = q[i])
      /\ \A i \in DOMAIN r : i \in Nat /\ i + 1 \in DOMAIN q /\ r[i] = q[i + 1]
  BY TailPlaces
<1> HIDE DEF r
<1>2. PICK i \in DOMAIN q : q[i] \in A /\ \A k \in DOMAIN q : q[k] \in B => i < k
  BY DEF Precedes
<1>3. Head(q) \notin B
  BY <1>1, <1>2
<1>4. ASSUME Head(q) \notin A PROVE Precedes(r, A, B)
  <2>1. i - 1 \in DOMAIN r /\ r[i - 1] = q[i]
    BY <1>1, <1>2, <1>4
  <2>2. \A k \in DOMAIN r : r[k] \in B => i - 1 < k
    BY <1>1, <1>2
  <2> QED
    BY <1>2, <2>1, <2>2 DEF Precedes
<1> QED
  BY <1>3, <1>4 DEF r

\* ... whatever arrives, and is before those that arrive when there was none.
LEMMA PrecedesJoin ==
  ASSUME NEW S, NEW q \in Seq(S), NEW r \in Seq(S), NEW A, NEW B
  PROVE  /\ Precedes(q, A, B) => Precedes(q \o r, A, B)
         /\ ~None(q, A) /\ None(q, B) => Precedes(q \o r, A, B)
<1> DEFINE all == q \o r
<1>1. /\ Len(q) \in Nat /\ DOMAIN r \subseteq Nat \ {0} /\ DOMAIN q = 1 .. Len(q)
      /\ \A i \in DOMAIN q : i \in DOMAIN all /\ all[i] = q[i]
      /\ \A i \in DOMAIN r : i + Len(q) \in DOMAIN all /\ all[i + Len(q)] = r[i]
      /\ \A i \in DOMAIN all : i \in DOMAIN q \/ \E k \in DOMAIN r : i = k + Len(q)
  BY JoinPlaces
<1> HIDE DEF all
<1>2. ASSUME NEW i \in DOMAIN q, q[i] \in A, \A k \in DOMAIN q : q[k] \in B => i < k
      PROVE  Precedes(all, A, B)
  <2>1. i \in DOMAIN all /\ all[i] \in A
    BY <1>1, <1>2
  <2>2. \A k \in DOMAIN all : all[k] \in B => i < k
    BY <1>1, <1>2
  <2> QED
    BY <2>1, <2>2 DEF Precedes
<1>3. Precedes(q, A, B) => Precedes(all, A, B)
  BY <1>2 DEF Precedes
<1>4. ~None(q, A) /\ None(q, B) => Precedes(all, A, B)
  BY <1>2 DEF None
<1> QED
  BY <1>3, <1>4 DEF all

\* What the head of a queue is to those it is about, and to the others.
LEMMA Pop ==
  ASSUME NEW S, NEW q \in Seq(S), q # <<>>
  PROVE  /\ Head(q) \in S /\ Tail(q) \in Seq(S)
         /\ \A A : Head(q) \notin A => Kept(q, Tail(q), A)
         /\ \A A : None(q, A) => Head(q) \notin A /\ None(Tail(q), A)
<1>1. Head(q) \in S /\ Tail(q) \in Seq(S)
  BY HeadTailProperties
<1>2. \A A : Head(q) \notin A => Kept(q, Tail(q), A)
  BY TailKeeps
<1>3. \A A : Head(q) \in A => ~None(q, A)
  BY TailTakes
<1> QED
  BY <1>1, <1>2, <1>3 DEF Kept

\* One message.
LEMMA Single ==
  ASSUME NEW e, NEW A
  PROVE  /\ e \notin A => None(<<e>>, A)
         /\ e \in A => One(<<e>>, A, e.type)
<1>1. DOMAIN <<e>> = {1} /\ <<e>>[1] = e
  OBVIOUS
<1> QED
  BY <1>1 DEF None, One

\* No message.
LEMMA Nobody == \A A : None(<<>>, A)
BY DEF None

-----------------------------------------------------------------------------
\* Messages about the elements of a set, one for each.

OneEach(f, S) ==
  /\ f \in [1 .. Cardinality(S) -> S] /\ Cardinality(S) \in Nat
  /\ \A i, k \in DOMAIN f : f[i] = f[k] => i = k
  /\ \A x \in S : \E i \in DOMAIN f : f[i] = x

\* A list without repetition that is as long as the set has all of it.
LEMMA OneEachOf ==
  ASSUME NEW S, IsFiniteSet(S), NEW f \in [1 .. Cardinality(S) -> S],
         \A i, k \in DOMAIN f : f[i] = f[k] => i = k
  PROVE  OneEach(f, S)
<1> DEFINE n == Cardinality(S)
           D == 1 .. n
<1>1. n \in Nat
  BY FS_CardinalityType
<1>2. IsFiniteSet(D) /\ Cardinality(D) = n
  <2> HIDE DEF n
  <2>1. IsFiniteSet(1 .. n)
    BY <1>1, FS_Interval
  <2>2. Cardinality(1 .. n) = IF 1 > n THEN 0 ELSE n - 1 + 1
    BY <1>1, FS_Interval
  <2> QED
    BY <1>1, <2>1, <2>2
<1>3. f \in Injection(D, S)
  BY DEF Injection, IsInjective
<1>4. Cardinality(D) = Cardinality(S)
  BY <1>2
<1> HIDE DEF D
<1>5. f \in Surjection(D, S)
  BY <1>3, <1>4, FS_Injection
<1>6. \A x \in S : \E i \in D : f[i] = x
  BY <1>5 DEF Surjection
<1> QED
  BY <1>1, <1>6 DEF OneEach, D

\* Numbers can be put in order.
LEMMA CanBeSorted ==
  ASSUME NEW n \in Nat, NEW S \in SUBSET (1 .. n)
  PROVE  \E q \in [1 .. Cardinality(S) -> S] : \A i, k \in DOMAIN q : i < k => q[i] < q[k]
<1> DEFINE Sorted(q, T) == q \in [1 .. Cardinality(T) -> T] /\ \A i, k \in DOMAIN q : i < k => q[i] < q[k]
           G == {T \in SUBSET S : \E q : Sorted(q, T)}
<1>1. IsFiniteSet(1 .. n)
  BY FS_Interval
<1>2. IsFiniteSet(S)
  BY <1>1, FS_Subset
<1>3. ASSUME NEW T \in SUBSET S, \A U \in SUBSET T : U # T => U \in G
      PROVE  T \in G
  <2>1. CASE T = {}
    <3>1. Cardinality(T) = 0
      BY <2>1, FS_EmptySet
    <3>2. Sorted(<<>>, T)
      BY <2>1, <3>1
    <3> QED
      BY <3>2
  <2>2. CASE T # {}
    <3> DEFINE m == Max(T)
               U == T \ {m}
    <3>1. m \in T /\ \A x \in T : x <= m
      <4>1. T \in SUBSET (1 .. n)
        OBVIOUS
      <4> QED
        BY <2>2, <4>1, MaxExists
    <3>2. PICK q : Sorted(q, U)
      BY <1>3, <3>1
    <3>3. Cardinality(U) = Cardinality(T) - 1 /\ Cardinality(T) \in Nat /\ Cardinality(U) \in Nat
      <4>1. IsFiniteSet(T) /\ IsFiniteSet(U)
        BY <1>2, FS_Subset
      <4>2. Cardinality(T) \in Nat
        BY <4>1, FS_CardinalityType
      <4>3. Cardinality(U) \in Nat
        BY <4>1, FS_CardinalityType
      <4>4. Cardinality(U) = Cardinality(T) - 1
        BY <3>1, <4>1, FS_RemoveElement
      <4> QED
        BY <4>2, <4>3, <4>4
    <3> DEFINE c == Cardinality(T)
               p == [i \in 1 .. c |-> IF i = c THEN m ELSE q[i]]
    <3>4. Cardinality(U) = c - 1 /\ c \in Nat
      BY <3>3
    <3>5. q \in [1 .. (c - 1) -> U] /\ \A i, k \in 1 .. (c - 1) : i < k => q[i] < q[k]
      BY <3>2, <3>4
    <3> HIDE DEF c, m
    <3>6. p \in [1 .. c -> T]
      BY <3>1, <3>4, <3>5
    <3>7. ASSUME NEW i \in 1 .. c, NEW k \in 1 .. c, i < k PROVE p[i] < p[k]
      <4>1. i \in 1 .. (c - 1) /\ p[i] = q[i] /\ q[i] \in U
        BY <3>4, <3>5, <3>7
      <4>2. CASE k = c
        <5>1. q[i] <= m /\ q[i] # m /\ q[i] \in 1 .. n /\ m \in 1 .. n
          BY <3>1, <4>1
        <5> QED
          BY <4>1, <4>2, <5>1
      <4>3. CASE k # c
        <5>1. k \in 1 .. (c - 1) /\ p[k] = q[k]
          BY <3>4, <4>3
        <5> QED
          BY <3>5, <3>7, <4>1, <5>1
      <4> QED
        BY <4>2, <4>3
    <3>8. DOMAIN p = 1 .. c
      OBVIOUS
    <3> HIDE DEF p
    <3>9. Sorted(p, T)
      BY <3>6, <3>7, <3>8 DEF c
    <3> QED
      BY <3>9
  <2> QED
    BY <2>1, <2>2
<1>4. SUBSET S \subseteq G
  <2> HIDE DEF G
  <2> QED
    BY <1>2, <1>3, SetInduction
<1> QED
  BY <1>4

\* sort_by_id gives each job once.
LEMMA InOrderHasEach ==
  ASSUME NEW S \in SUBSET Job
  PROVE  OneEach(InOrder(S), S)
<1> DEFINE f == InOrder(S)
<1>1. NbJobs \in Nat /\ S \in SUBSET (1 .. NbJobs)
  BY BebidaAssumption DEF Job
<1>2. \E q \in [1 .. Cardinality(S) -> S] : \A i, k \in DOMAIN q : i < k => q[i] < q[k]
  BY <1>1, CanBeSorted
<1>3. f \in [1 .. Cardinality(S) -> S] /\ \A i, k \in DOMAIN f : i < k => f[i] < f[k]
  BY <1>2 DEF InOrder
<1>4. IsFiniteSet(1 .. NbJobs)
  BY <1>1, FS_Interval
<1>5. IsFiniteSet(S)
  BY <1>1, <1>4, FS_Subset
<1>6. Cardinality(S) \in Nat
  BY <1>5, FS_CardinalityType
<1>9. \A x \in S : x \in Nat
  BY <1>1
<1> HIDE DEF f
<1>7. ASSUME NEW i \in DOMAIN f, NEW k \in DOMAIN f, f[i] = f[k], i # k PROVE FALSE
  <2>1. i \in 1 .. Cardinality(S) /\ k \in 1 .. Cardinality(S)
    BY <1>3
  <2>2. i < k \/ k < i
    BY <1>6, <1>7, <2>1
  <2>3. f[i] \in S /\ f[k] \in S
    BY <1>3, <2>1
  <2>4. f[i] \in Nat /\ f[k] \in Nat
    BY <1>9, <2>3
  <2> QED
    BY <1>3, <1>7, <2>2, <2>4
<1>8. OneEach(f, S)
  BY <1>3, <1>5, <1>7, OneEachOf
<1> QED
  BY <1>8 DEF f

\* So does any list of the loans.
LEMMA SetToSeqHasEach ==
  ASSUME NEW S \in SUBSET Loans
  PROVE  OneEach(SetToSeq(S), S)
<1> DEFINE f == SetToSeq(S)
<1>1. IsFiniteSet(Machine)
  BY BebidaAssumption, FS_Interval DEF Machine
<1>2. IsFiniteSet(SUBSET Machine)
  BY <1>1, FS_SUBSET
<1>3. S \in SUBSET (SUBSET Machine)
  BY BebidaAssumption
<1>4. IsFiniteSet(S)
  BY <1>2, <1>3, FS_Subset
<1>5. PICK g : g \in Bijection(1 .. Cardinality(S), S)
  BY <1>4, FS_CardinalityType DEF ExistsBijection
<1>6. g \in [1 .. Cardinality(S) -> S] /\ IsInjective(g)
  BY <1>5 DEF Bijection, Injection
<1>7. f \in [1 .. Cardinality(S) -> S] /\ IsInjective(f)
  BY <1>6 DEF SetToSeq
<1> HIDE DEF f
<1>8. OneEach(f, S)
  BY <1>4, <1>7, OneEachOf DEF IsInjective
<1> QED
  BY <1>8 DEF f

\* Messages of one type, each about one element of S, where A is those about x.
LEMMA EachOnce ==
  ASSUME NEW S, NEW f, OneEach(f, S), NEW r, DOMAIN r = DOMAIN f, NEW A, NEW x, NEW t,
         \A i \in DOMAIN r : r[i].type = t /\ (r[i] \in A <=> f[i] = x)
  PROVE  /\ x \in S => One(r, A, t)
         /\ x \notin S => None(r, A)
<1>1. ASSUME x \in S PROVE One(r, A, t)
  <2>1. PICK i \in DOMAIN f : f[i] = x
    BY <1>1 DEF OneEach
  <2>2. \A k \in DOMAIN r : r[k] \in A => k = i
    BY <2>1 DEF OneEach
  <2> QED
    BY <2>1, <2>2 DEF One
<1>2. ASSUME x \notin S PROVE None(r, A)
  <2>1. \A i \in DOMAIN f : f[i] \in S
    BY DEF OneEach
  <2> QED
    BY <1>2, <2>1 DEF None
<1> QED
  BY <1>1, <1>2

-----------------------------------------------------------------------------
\* The invariant

Lifecycle == {"JOB_SUBMITTED", "JOB_COMPLETED", "COMPLETED_KILLED"}
LoanEvent == {"REMOVE_RESOURCES", "ADD_RESOURCES"}

BebidaEvent ==
  {e \in [type : Lifecycle \cup LoanEvent \cup {"NOTIFY", "JOB_KILLED"},
          jobs : SUBSET Job, hit : SUBSET Job, machines : SUBSET Machine] :
     /\ e.type \in Lifecycle => \E j \in Job : e.jobs = {j}
     /\ e.type \in LoanEvent => e.machines \in Loans}

JobCommand == {"EXECUTE_JOB", "REGISTER_JOB", "KILL_JOB"}

BebidaCommand ==
  {c \in [type : JobCommand \cup {"RESOURCES_REMOVED", "NOTIFY"},
          jobs : SUBSET Job, machines : SUBSET Machine] :
     /\ c.type = "REGISTER_JOB" => \E j \in Job : c.jobs = {j}
     /\ c.type = "RESOURCES_REMOVED" => c.machines \in Loans}

TypeInv ==
  /\ loop \in {"simulator", "scheduler", "raised"}
  /\ inbox \in Seq(BebidaEvent) /\ commands \in Seq(BebidaCommand)
  /\ truth \in [Job -> {"future", "queued", "running", "over"}]
  /\ loan \in [Loans -> {"lent", "asked", "taken"}]
  /\ demand \in [Job -> Nat \ {0}]
  /\ job_state \in [Job -> {"UNKNOWN", "IN_SUBMISSON", "SUBMITTED", "RUNNING", "IN_KILLING",
                            "COMPLETED_SUCCESSFULLY", "COMPLETED_KILLED"}]
  /\ allocation \in [Job -> SUBSET Machine]
  /\ free_resources \in SUBSET Machine /\ available_resources \in SUBSET Machine
  /\ DOMAIN to_be_removed_resources \subseteq Loans

\* Who is told what: a job by the events on its attempt and the commands for
\* it, a loan by those on its machines.
EventsOf(j)   == {e \in BebidaEvent : \/ e.type \in Lifecycle /\ j \in e.jobs
                                      \/ e.type = "JOB_KILLED" /\ j \in e.hit}
CommandsOf(j) == {c \in BebidaCommand : c.type \in JobCommand /\ j \in c.jobs}
KillsOf(j)    == {c \in CommandsOf(j) : c.type = "KILL_JOB"}
EventsOn(R)   == {e \in BebidaEvent : e.type \in LoanEvent /\ e.machines = R}
AddsOf(R)     == {e \in EventsOn(R) : e.type = "ADD_RESOURCES"}
CommandsOn(R) == {c \in BebidaCommand : c.type = "RESOURCES_REMOVED" /\ c.machines = R}

\* How far a job is: what the simulator knows, what the scheduler knows, and
\* the messages about it that are on their way.
Stage(j, t, s, q, c) ==
  LET E == EventsOf(j)
      C == CommandsOf(j)
  IN  \/ t = "future" /\ s = "UNKNOWN" /\ None(q, E) /\ None(c, C)
      \/ t = "queued" /\ s \in {"UNKNOWN", "IN_SUBMISSON"} /\ One(q, E, "JOB_SUBMITTED") /\ None(c, C)
      \/ t = "queued" /\ s = "SUBMITTED" /\ None(q, E) /\ None(c, C)
      \/ t = "queued" /\ s = "RUNNING" /\ None(q, E) /\ One(c, C, "EXECUTE_JOB")
      \/ t = "running" /\ s = "RUNNING" /\ None(q, E) /\ None(c, C)
      \/ t = "running" /\ s = "IN_KILLING" /\ None(q, E) /\ One(c, C, "KILL_JOB")
      \/ t = "over" /\ s = "RUNNING" /\ One(q, E, "JOB_COMPLETED") /\ None(c, C)
      \/ t = "over" /\ s = "IN_KILLING" /\ One(q, E, "JOB_COMPLETED")
           /\ (None(c, C) \/ One(c, C, "KILL_JOB"))
      \/ t = "over" /\ s = "COMPLETED_SUCCESSFULLY" /\ None(q, E)
           /\ (None(c, C) \/ One(c, C, "KILL_JOB"))
      \/ t = "over" /\ s = "IN_KILLING" /\ Two(q, E, "COMPLETED_KILLED", "JOB_KILLED") /\ None(c, C)
      \/ t = "over" /\ s = "COMPLETED_KILLED" /\ One(q, E, "JOB_KILLED") /\ None(c, C)
      \/ t = "over" /\ s = "IN_SUBMISSON" /\ None(q, E) /\ One(c, C, "REGISTER_JOB")

\* The same of a loan: awaited is it when jobs must be over before it is given
\* back, out when no machine of it is available.
LoanStage(R, l, q, c, awaited, out) ==
  LET E == EventsOn(R)
      C == CommandsOn(R)
  IN  \/ l = "lent"  /\ ~awaited /\ None(q, E) /\ None(c, C)
      \/ l = "lent"  /\ ~awaited /\ One(q, E, "ADD_RESOURCES") /\ None(c, C) /\ out
      \/ l = "asked" /\ ~awaited /\ One(q, E, "REMOVE_RESOURCES") /\ None(c, C)
      \/ l = "asked" /\ ~awaited /\ Two(q, E, "ADD_RESOURCES", "REMOVE_RESOURCES") /\ None(c, C) /\ out
      \/ l = "asked" /\ awaited  /\ None(q, E) /\ None(c, C) /\ out
      \/ l = "asked" /\ ~awaited /\ None(q, E) /\ One(c, C, "RESOURCES_REMOVED") /\ out
      \/ l = "taken" /\ ~awaited /\ None(q, E) /\ None(c, C) /\ out

\* The jobs the scheduler takes for running.
Holders == InState(job_state, "RUNNING") \cup InState(job_state, "IN_KILLING")

\* A job on machines that were asked back leaves them in time: before they are
\* given back, and before the scheduler hears that they are lent again.
Leaves(R, j) ==
  /\ R \in DOMAIN to_be_removed_resources => job_state[j] = "IN_KILLING"
  /\ loan[R] = "taken" => truth[j] = "over"
  /\ None(commands, CommandsOn(R)) \/ truth[j] = "over" \/ Precedes(commands, KillsOf(j), CommandsOn(R))
  /\ None(inbox, AddsOf(R)) \/ Precedes(inbox, EventsOf(j), AddsOf(R))

Lives   == \A j \in Job : Stage(j, truth[j], job_state[j], inbox, commands)
Loaned  == \A R \in Loans : LoanStage(R, loan[R], inbox, commands,
                                      R \in DOMAIN to_be_removed_resources,
                                      R \cap available_resources = {})
Vacated == \A R \in Loans : \A j \in Holders : allocation[j] \cap R # {} => Leaves(R, j)
Apart   == \A j, k \in Holders : j # k => allocation[j] \cap allocation[k] = {}
NotFree == \A j \in Holders : allocation[j] \cap free_resources \cap available_resources = {}
Quiet   == loop = "scheduler" => \A i \in DOMAIN commands : commands[i].type # "EXECUTE_JOB"
Closed  == (~registration \/ \E i \in DOMAIN commands : commands[i].type = "NOTIFY") =>
             \A j \in Job : job_state[j] = "COMPLETED_SUCCESSFULLY"

Sound == Lives /\ Loaned /\ Vacated /\ Apart /\ NotFree /\ Quiet /\ Closed

\* A dispatch that raises is the last step.
Inv ==
  /\ TypeInv
  /\ loop # "raised" => Sound
  /\ loop = "raised" => MachinesSound /\ ClosedOnlyAtTheEnd

-----------------------------------------------------------------------------
\* The messages

\* What an event is, by its type.
LEMMA EventKinds ==
  ASSUME NEW e \in BebidaEvent
  PROVE  /\ e.type \in Lifecycle => \E j \in Job : /\ e.jobs = {j}
                                                   /\ \A k \in Job : e \in EventsOf(k) <=> k = j
         /\ e.type = "JOB_KILLED" => \A k \in Job : e \in EventsOf(k) <=> k \in e.hit
         /\ e.type \notin Lifecycle \cup {"JOB_KILLED"} => \A k \in Job : e \notin EventsOf(k)
         /\ e.type \in LoanEvent => /\ e.machines \in Loans
                                    /\ \A R : e \in EventsOn(R) <=> R = e.machines
         /\ e.type \notin LoanEvent => \A R : e \notin EventsOn(R)
         /\ e.jobs \in SUBSET Job /\ e.hit \in SUBSET Job
<1>1. /\ e.type \in Lifecycle => \E j \in Job : e.jobs = {j}
      /\ e.type \in LoanEvent => e.machines \in Loans
      /\ e.jobs \in SUBSET Job /\ e.hit \in SUBSET Job
  BY DEF BebidaEvent
<1>2. e.type = "JOB_KILLED" => e.type \notin Lifecycle
  BY DEF Lifecycle
<1> QED
  BY <1>1, <1>2 DEF EventsOf, EventsOn

\* What a command is, by its type.
LEMMA CommandKinds ==
  ASSUME NEW c \in BebidaCommand
  PROVE  /\ c.type \in JobCommand => \A k \in Job : c \in CommandsOf(k) <=> k \in c.jobs
         /\ c.type \notin JobCommand => \A k \in Job : c \notin CommandsOf(k)
         /\ c.type = "REGISTER_JOB" => \E j \in Job : c.jobs = {j}
         /\ c.type = "RESOURCES_REMOVED" => /\ c.machines \in Loans
                                            /\ \A R : c \in CommandsOn(R) <=> R = c.machines
         /\ c.type # "RESOURCES_REMOVED" => \A R : c \notin CommandsOn(R)
         /\ c.jobs \in SUBSET Job
BY DEF BebidaCommand, CommandsOf, CommandsOn

\* The messages the program makes.
LEMMA Made ==
  /\ \A j \in Job : \A t \in Lifecycle : /\ JobEvent(t, j) \in BebidaEvent
                                         /\ JobEvent(t, j).type = t /\ JobEvent(t, j).jobs = {j}
  /\ Event("NOTIFY", {}, {}, {}) \in BebidaEvent /\ Event("NOTIFY", {}, {}, {}).type = "NOTIFY"
  /\ \A R \in Loans : \A t \in LoanEvent :
       /\ Event(t, {}, {}, R) \in BebidaEvent
       /\ Event(t, {}, {}, R).type = t /\ Event(t, {}, {}, R).machines = R
  /\ \A J, H \in SUBSET Job :
       /\ Event("JOB_KILLED", J, H, {}) \in BebidaEvent
       /\ Event("JOB_KILLED", J, H, {}).type = "JOB_KILLED" /\ Event("JOB_KILLED", J, H, {}).hit = H
  /\ \A j \in Job : \A M \in SUBSET Machine :
       /\ Command("EXECUTE_JOB", {j}, M) \in BebidaCommand
       /\ Command("EXECUTE_JOB", {j}, M).type = "EXECUTE_JOB"
       /\ Command("EXECUTE_JOB", {j}, M).jobs = {j}
  /\ \A j \in Job : /\ Command("REGISTER_JOB", {j}, {}) \in BebidaCommand
                    /\ Command("REGISTER_JOB", {j}, {}).type = "REGISTER_JOB"
                    /\ Command("REGISTER_JOB", {j}, {}).jobs = {j}
  /\ \A J \in SUBSET Job : /\ Command("KILL_JOB", J, {}) \in BebidaCommand
                           /\ Command("KILL_JOB", J, {}).type = "KILL_JOB"
                           /\ Command("KILL_JOB", J, {}).jobs = J
  /\ \A R \in Loans : /\ Command("RESOURCES_REMOVED", {}, R) \in BebidaCommand
                      /\ Command("RESOURCES_REMOVED", {}, R).type = "RESOURCES_REMOVED"
                      /\ Command("RESOURCES_REMOVED", {}, R).machines = R
  /\ Command("NOTIFY", {}, {}) \in BebidaCommand /\ Command("NOTIFY", {}, {}).type = "NOTIFY"
<1>1. \A R \in Loans : R \in SUBSET Machine
  BY BebidaAssumption
<1>2. \A j \in Job : \A t \in Lifecycle : /\ JobEvent(t, j) \in BebidaEvent
                                         /\ JobEvent(t, j).type = t /\ JobEvent(t, j).jobs = {j}
  BY DEF JobEvent, Event, BebidaEvent, Lifecycle, LoanEvent
<1>3. Event("NOTIFY", {}, {}, {}) \in BebidaEvent /\ Event("NOTIFY", {}, {}, {}).type = "NOTIFY"
  BY DEF Event, BebidaEvent, Lifecycle, LoanEvent
<1>4. \A R \in Loans : \A t \in LoanEvent :
        /\ Event(t, {}, {}, R) \in BebidaEvent
        /\ Event(t, {}, {}, R).type = t /\ Event(t, {}, {}, R).machines = R
  BY <1>1 DEF Event, BebidaEvent, Lifecycle, LoanEvent
<1>5. \A J, H \in SUBSET Job :
        /\ Event("JOB_KILLED", J, H, {}) \in BebidaEvent
        /\ Event("JOB_KILLED", J, H, {}).type = "JOB_KILLED" /\ Event("JOB_KILLED", J, H, {}).hit = H
  BY DEF Event, BebidaEvent, Lifecycle, LoanEvent
<1>6. \A j \in Job : \A M \in SUBSET Machine :
        /\ Command("EXECUTE_JOB", {j}, M) \in BebidaCommand
        /\ Command("EXECUTE_JOB", {j}, M).type = "EXECUTE_JOB"
        /\ Command("EXECUTE_JOB", {j}, M).jobs = {j}
  BY DEF Command, BebidaCommand, JobCommand
<1>7. \A j \in Job : /\ Command("REGISTER_JOB", {j}, {}) \in BebidaCommand
                     /\ Command("REGISTER_JOB", {j}, {}).type = "REGISTER_JOB"
                     /\ Command("REGISTER_JOB", {j}, {}).jobs = {j}
  BY DEF Command, BebidaCommand, JobCommand
<1>8. \A J \in SUBSET Job : /\ Command("KILL_JOB", J, {}) \in BebidaCommand
                            /\ Command("KILL_JOB", J, {}).type = "KILL_JOB"
                            /\ Command("KILL_JOB", J, {}).jobs = J
  BY DEF Command, BebidaCommand, JobCommand
<1>9. \A R \in Loans : /\ Command("RESOURCES_REMOVED", {}, R) \in BebidaCommand
                       /\ Command("RESOURCES_REMOVED", {}, R).type = "RESOURCES_REMOVED"
                       /\ Command("RESOURCES_REMOVED", {}, R).machines = R
  BY <1>1 DEF Command, BebidaCommand, JobCommand
<1>10. Command("NOTIFY", {}, {}) \in BebidaCommand /\ Command("NOTIFY", {}, {}).type = "NOTIFY"
  BY DEF Command, BebidaCommand, JobCommand
<1> QED
  BY <1>2, <1>3, <1>4, <1>5, <1>6, <1>7, <1>8, <1>9, <1>10

\* A job stays where it is as long as the queues say the same about it.
LEMMA StageKept ==
  ASSUME NEW j, NEW t, NEW s, NEW q, NEW r, NEW c, NEW d,
         Stage(j, t, s, q, c), Kept(q, r, EventsOf(j)), Kept(c, d, CommandsOf(j))
  PROVE  Stage(j, t, s, r, d)
BY DEF Stage, Kept

\* So does a loan.
LEMMA LoanStageKept ==
  ASSUME NEW R, NEW l, NEW q, NEW r, NEW c, NEW d, NEW awaited, NEW again, NEW out, NEW still,
         LoanStage(R, l, q, c, awaited, out), awaited <=> again, out => still,
         Kept(q, r, EventsOn(R)), Kept(c, d, CommandsOn(R))
  PROVE  LoanStage(R, l, r, d, again, still)
BY DEF LoanStage, Kept

\* A queue that has not changed says what it said.
LEMMA KeptAlways == \A q, A : Kept(q, q, A)
BY DEF Kept

-----------------------------------------------------------------------------
\* The simulator

\* The jobs whose attempt is not over are not lost of sight.
LEMMA HoldersAre ==
  ASSUME TypeInv, Lives, NEW j \in Job
  PROVE  /\ j \in Holders <=> job_state[j] \in {"RUNNING", "IN_KILLING"}
         /\ truth[j] = "running" => j \in Holders
<1>1. Stage(j, truth[j], job_state[j], inbox, commands)
  BY DEF Lives
<1>2. j \in Holders <=> job_state[j] \in {"RUNNING", "IN_KILLING"}
  BY DEF Holders, InState
<1>3. truth[j] = "running" => job_state[j] \in {"RUNNING", "IN_KILLING"}
  BY <1>1 DEF Stage
<1> QED
  BY <1>2, <1>3

\* What the invariant is for.
LEMMA SoundIsSafe ==
  ASSUME TypeInv, Sound
  PROVE  MachinesSound /\ ClosedOnlyAtTheEnd
<1>1. Running \subseteq Holders
  BY HoldersAre DEF Running, Sound
<1>2. \A j, k \in Running : j # k => allocation[j] \cap allocation[k] = {}
  BY <1>1 DEF Sound, Apart
<1>3. ASSUME NEW j \in Running, NEW R \in Loans, loan[R] = "taken"
      PROVE  allocation[j] \cap R = {}
  <2>1. truth[j] = "running"
    BY DEF Running
  <2> QED
    BY <1>1, <1>3, <2>1 DEF Sound, Vacated, Leaves
<1>4. \A j \in InState(job_state, "RUNNING") \cup InState(job_state, "IN_KILLING") :
        allocation[j] \cap free_resources \cap available_resources = {}
  BY DEF Sound, NotFree, Holders
<1>5. MachinesSound
  BY <1>2, <1>3, <1>4 DEF MachinesSound
<1>6. ASSUME ~registration PROVE \A j \in Job : truth[j] = "over"
  <2> SUFFICES ASSUME NEW j \in Job PROVE truth[j] = "over"
    OBVIOUS
  <2>1. job_state[j] = "COMPLETED_SUCCESSFULLY" /\ Stage(j, truth[j], job_state[j], inbox, commands)
    BY <1>6 DEF Sound, Closed, Lives
  <2> QED
    BY <2>1 DEF Stage
<1>7. ASSUME ~registration, NEW i \in DOMAIN commands, commands[i].type = "REGISTER_JOB"
      PROVE  FALSE
  <2>1. commands[i] \in BebidaCommand
    BY ElementOfSeq, LenProperties DEF TypeInv
  <2>2. PICK j \in Job : commands[i].jobs = {j}
    BY <1>7, <2>1, CommandKinds
  <2>3. commands[i] \in CommandsOf(j)
    BY <1>7, <2>1, <2>2 DEF CommandsOf, JobCommand
  <2>4. job_state[j] = "COMPLETED_SUCCESSFULLY" /\ Stage(j, truth[j], job_state[j], inbox, commands)
    BY <1>7 DEF Sound, Closed, Lives
  <2>5. None(commands, CommandsOf(j)) \/ One(commands, CommandsOf(j), "KILL_JOB")
    BY <2>4 DEF Stage
  <2> QED
    BY <1>7, <2>3, <2>5 DEF None, One
<1> QED
  BY <1>5, <1>6, <1>7 DEF ClosedOnlyAtTheEnd

\* Those an arrival is not about.
LEMMA ArrivalKeeps ==
  ASSUME TypeInv, Sound, NEW new \in Seq(BebidaEvent), Happens(new)
  PROVE  /\ \A j \in Job : None(new, EventsOf(j)) /\ truth'[j] = truth[j]
                             => Stage(j, truth'[j], job_state'[j], inbox', commands')
         /\ \A R \in Loans : None(new, EventsOn(R)) /\ loan'[R] = loan[R]
              => LoanStage(R, loan'[R], inbox', commands', R \in DOMAIN to_be_removed_resources',
                           R \cap available_resources' = {})
         /\ \A R \in Loans : \A j \in Holders :
              /\ allocation[j] \cap R # {}
              /\ truth[j] = "over" => truth'[j] = "over"
              /\ loan'[R] = "taken" => loan[R] = "taken"
              /\ None(new, AddsOf(R))
              => Leaves(R, j)'
         /\ Holders' = Holders /\ allocation' = allocation
         /\ Apart' /\ NotFree' /\ Quiet' /\ Closed'
<1>1. /\ inbox \in Seq(BebidaEvent) /\ inbox' = inbox \o new
      /\ UNCHANGED <<loop, commands, registration, sched_vars>>
  BY DEF Happens, TypeInv
<1>2. UNCHANGED <<job_state, allocation, free_resources, available_resources,
                  to_be_removed_resources>>
  BY <1>1 DEF sched_vars
<1>3. ASSUME NEW j \in Job, None(new, EventsOf(j)), truth'[j] = truth[j]
      PROVE  Stage(j, truth'[j], job_state'[j], inbox', commands')
  <2>1. Kept(inbox, inbox', EventsOf(j))
    BY <1>1, <1>3, JoinKeeps
  <2>2. Kept(commands, commands', CommandsOf(j))
    BY <1>1, KeptAlways
  <2>3. Stage(j, truth[j], job_state[j], inbox, commands)
    BY DEF Sound, Lives
  <2>4. Stage(j, truth[j], job_state[j], inbox', commands')
    BY <2>1, <2>2, <2>3, StageKept
  <2> QED
    BY <1>2, <1>3, <2>4
<1>4. ASSUME NEW R \in Loans, None(new, EventsOn(R)), loan'[R] = loan[R]
      PROVE  LoanStage(R, loan'[R], inbox', commands', R \in DOMAIN to_be_removed_resources',
                       R \cap available_resources' = {})
  <2>1. Kept(inbox, inbox', EventsOn(R))
    BY <1>1, <1>4, JoinKeeps
  <2>2. Kept(commands, commands', CommandsOn(R))
    BY <1>1, KeptAlways
  <2> DEFINE awaited == R \in DOMAIN to_be_removed_resources
             out     == R \cap available_resources = {}
  <2>3. LoanStage(R, loan[R], inbox, commands, awaited, out)
    BY DEF Sound, Loaned
  <2> HIDE DEF awaited, out
  <2>4. LoanStage(R, loan[R], inbox', commands', awaited, out)
    BY <2>1, <2>2, <2>3, LoanStageKept
  <2> QED
    BY <1>2, <1>4, <2>4 DEF awaited, out
<1>5. Holders' = Holders
  BY <1>2 DEF Holders, InState
<1>6. ASSUME NEW R \in Loans, NEW j \in Holders,
             allocation[j] \cap R # {}, truth[j] = "over" => truth'[j] = "over",
             loan'[R] = "taken" => loan[R] = "taken", None(new, AddsOf(R))
      PROVE  Leaves(R, j)'
  <2>1. Leaves(R, j)
    BY <1>6 DEF Sound, Vacated
  <2>2. None(inbox, AddsOf(R)) => None(inbox', AddsOf(R))
    BY <1>1, <1>6, JoinNone
  <2>3. Precedes(inbox, EventsOf(j), AddsOf(R)) => Precedes(inbox', EventsOf(j), AddsOf(R))
    BY <1>1, PrecedesJoin
  <2> QED
    BY <1>1, <1>2, <1>6, <2>1, <2>2, <2>3 DEF Leaves
<1>7. Apart' /\ NotFree' /\ Quiet' /\ Closed'
  BY <1>1, <1>2, <1>5 DEF Sound, Apart, NotFree, Quiet, Closed
<1> QED
  BY <1>2, <1>3, <1>4, <1>5, <1>6, <1>7

\* A job is submitted.
LEMMA SubmitSound ==
  ASSUME TypeInv, Sound, NEW j \in Job, Submit(j)
  PROVE  Sound'
<1> DEFINE first == <<JobEvent("JOB_SUBMITTED", j)>>
           notice == <<Event("NOTIFY", {}, {}, {})>>
           last == IF \A k \in Job \ {j} : truth[k] # "future" THEN notice ELSE <<>>
           new == first \o last
<1>1. /\ truth[j] = "future" /\ truth' = [truth EXCEPT ![j] = "queued"] /\ Happens(new)
      /\ UNCHANGED loan
  BY DEF Submit
<1>2. /\ JobEvent("JOB_SUBMITTED", j) \in BebidaEvent /\ Event("NOTIFY", {}, {}, {}) \in BebidaEvent
      /\ JobEvent("JOB_SUBMITTED", j).type = "JOB_SUBMITTED" /\ JobEvent("JOB_SUBMITTED", j).jobs = {j}
      /\ Event("NOTIFY", {}, {}, {}).type = "NOTIFY"
  BY Made DEF Lifecycle
<1>3. /\ \A k \in Job : JobEvent("JOB_SUBMITTED", j) \in EventsOf(k) <=> k = j
      /\ \A R : JobEvent("JOB_SUBMITTED", j) \notin EventsOn(R)
  BY <1>2 DEF EventsOf, EventsOn, Lifecycle, LoanEvent
<1>4. /\ \A k \in Job : Event("NOTIFY", {}, {}, {}) \notin EventsOf(k)
      /\ \A R : Event("NOTIFY", {}, {}, {}) \notin EventsOn(R)
  BY <1>2 DEF EventsOf, EventsOn, Lifecycle, LoanEvent
<1>5. first \in Seq(BebidaEvent) /\ last \in Seq(BebidaEvent)
  BY <1>2
<1>6. /\ \A k \in Job : None(last, EventsOf(k))
      /\ \A R : None(last, EventsOn(R))
  BY <1>4, Single, Nobody
<1>7. /\ One(first, EventsOf(j), "JOB_SUBMITTED")
      /\ \A k \in Job \ {j} : None(first, EventsOf(k))
      /\ \A R : None(first, EventsOn(R))
  BY <1>2, <1>3, Single
<1> HIDE DEF first, last, new
<1>8. /\ new \in Seq(BebidaEvent)
      /\ One(new, EventsOf(j), "JOB_SUBMITTED")
      /\ \A k \in Job \ {j} : None(new, EventsOf(k))
      /\ \A R : None(new, EventsOn(R))
  <2>1. new \in Seq(BebidaEvent)
    BY <1>5, JoinPlaces DEF new
  <2>2. One(new, EventsOf(j), "JOB_SUBMITTED")
    BY <1>5, <1>6, <1>7, JoinKeeps DEF new, Kept
  <2>3. \A k \in Job \ {j} : None(new, EventsOf(k))
    BY <1>5, <1>6, <1>7, JoinNone DEF new
  <2>4. \A R : None(new, EventsOn(R))
    BY <1>5, <1>6, <1>7, JoinNone DEF new
  <2> QED
    BY <2>1, <2>2, <2>3, <2>4
<1>9. truth'[j] = "queued" /\ \A k \in Job \ {j} : truth'[k] = truth[k]
  BY <1>1 DEF TypeInv
<1>10. Lives'
  <2>1. Stage(j, truth[j], job_state[j], inbox, commands)
    BY DEF Sound, Lives
  <2>2. job_state[j] = "UNKNOWN" /\ None(inbox, EventsOf(j)) /\ None(commands, CommandsOf(j))
    BY <1>1, <2>1 DEF Stage
  <2>3. inbox' = inbox \o new /\ commands' = commands /\ job_state' = job_state
    BY <1>1 DEF Happens, sched_vars
  <2>4. One(inbox', EventsOf(j), "JOB_SUBMITTED")
    BY <1>8, <2>2, <2>3, JoinBrings DEF Kept, TypeInv
  <2>5. Stage(j, truth'[j], job_state'[j], inbox', commands')
    BY <1>9, <2>2, <2>3, <2>4 DEF Stage
  <2>6. \A k \in Job \ {j} : Stage(k, truth'[k], job_state'[k], inbox', commands')
    BY <1>1, <1>8, <1>9, ArrivalKeeps
  <2> QED
    BY <2>5, <2>6 DEF Lives
<1>11. Loaned'
  BY <1>1, <1>8, ArrivalKeeps DEF Loaned
<1>12. Vacated'
  <2>1. \A R : None(new, AddsOf(R))
    BY <1>8 DEF None, AddsOf
  <2>2. \A k \in Holders : k \in Job /\ (truth[k] = "over" => truth'[k] = "over")
    BY <1>1, <1>9 DEF Holders, InState
  <2> QED
    BY <1>1, <1>8, <2>1, <2>2, ArrivalKeeps DEF Vacated
<1>13. Apart' /\ NotFree' /\ Quiet' /\ Closed'
  BY <1>1, <1>8, ArrivalKeeps
<1> QED
  BY <1>10, <1>11, <1>12, <1>13 DEF Sound

\* A job ends by itself.
LEMMA CompleteSound ==
  ASSUME TypeInv, Sound, NEW j \in Job, Complete(j)
  PROVE  Sound'
<1> DEFINE e == JobEvent("JOB_COMPLETED", j)
           new == <<e>>
<1>1. /\ truth[j] = "running" /\ truth' = [truth EXCEPT ![j] = "over"] /\ Happens(new)
      /\ UNCHANGED loan
  BY DEF Complete
<1>2. e \in BebidaEvent /\ e.type = "JOB_COMPLETED" /\ e.jobs = {j}
  BY Made DEF Lifecycle
<1>3. /\ \A k \in Job : e \in EventsOf(k) <=> k = j
      /\ \A R : e \notin EventsOn(R)
  BY <1>2 DEF EventsOf, EventsOn, Lifecycle, LoanEvent
<1> HIDE DEF e
<1>4. /\ new \in Seq(BebidaEvent)
      /\ One(new, EventsOf(j), "JOB_COMPLETED")
      /\ \A k \in Job \ {j} : None(new, EventsOf(k))
      /\ \A R : None(new, EventsOn(R))
  BY <1>2, <1>3, Single
<1> HIDE DEF new
<1>9. truth'[j] = "over" /\ \A k \in Job \ {j} : truth'[k] = truth[k]
  BY <1>1 DEF TypeInv
<1>10. Lives'
  <2>1. Stage(j, truth[j], job_state[j], inbox, commands)
    BY DEF Sound, Lives
  <2>2. /\ None(inbox, EventsOf(j))
        /\ \/ job_state[j] = "RUNNING" /\ None(commands, CommandsOf(j))
           \/ job_state[j] = "IN_KILLING" /\ One(commands, CommandsOf(j), "KILL_JOB")
    BY <1>1, <2>1 DEF Stage
  <2>3. inbox' = inbox \o new /\ commands' = commands /\ job_state' = job_state
    BY <1>1 DEF Happens, sched_vars
  <2>4. One(inbox', EventsOf(j), "JOB_COMPLETED")
    BY <1>4, <2>2, <2>3, JoinBrings DEF Kept, TypeInv
  <2>5. Stage(j, truth'[j], job_state'[j], inbox', commands')
    BY <1>9, <2>2, <2>3, <2>4 DEF Stage
  <2>6. \A k \in Job \ {j} : Stage(k, truth'[k], job_state'[k], inbox', commands')
    BY <1>1, <1>4, <1>9, ArrivalKeeps
  <2> QED
    BY <2>5, <2>6 DEF Lives
<1>11. Loaned'
  BY <1>1, <1>4, ArrivalKeeps DEF Loaned
<1>12. Vacated'
  <2>1. \A R : None(new, AddsOf(R))
    BY <1>4 DEF None, AddsOf
  <2>2. \A k \in Holders : k \in Job /\ (truth[k] = "over" => truth'[k] = "over")
    BY <1>1, <1>9 DEF Holders, InState
  <2> QED
    BY <1>1, <1>4, <2>1, <2>2, ArrivalKeeps DEF Vacated
<1>13. Apart' /\ NotFree' /\ Quiet' /\ Closed'
  BY <1>1, <1>4, ArrivalKeeps
<1> QED
  BY <1>10, <1>11, <1>12, <1>13 DEF Sound

\* Machines are asked back.
LEMMA AskBackSound ==
  ASSUME TypeInv, Sound, NEW R \in Loans, AskBack(R)
  PROVE  Sound'
<1> DEFINE e == Event("REMOVE_RESOURCES", {}, {}, R)
           new == <<e>>
<1>1. /\ loan[R] = "lent" /\ loan' = [loan EXCEPT ![R] = "asked"] /\ Happens(new)
      /\ UNCHANGED truth
  BY DEF AskBack
<1>2. e \in BebidaEvent /\ e.type = "REMOVE_RESOURCES" /\ e.machines = R
  BY Made DEF LoanEvent
<1>3. /\ \A k \in Job : e \notin EventsOf(k)
      /\ \A Q : e \in EventsOn(Q) <=> Q = R
      /\ \A Q : e \notin AddsOf(Q)
  BY <1>2 DEF EventsOf, EventsOn, AddsOf, Lifecycle, LoanEvent
<1> HIDE DEF e
<1>4. /\ new \in Seq(BebidaEvent)
      /\ One(new, EventsOn(R), "REMOVE_RESOURCES")
      /\ \A k \in Job : None(new, EventsOf(k))
      /\ \A Q : Q # R => None(new, EventsOn(Q))
      /\ \A Q : None(new, AddsOf(Q))
  BY <1>2, <1>3, Single
<1> HIDE DEF new
<1>9. loan'[R] = "asked" /\ \A Q \in Loans \ {R} : loan'[Q] = loan[Q]
  BY <1>1 DEF TypeInv
<1>10. Lives'
  BY <1>1, <1>4, ArrivalKeeps DEF Lives
<1>11. Loaned'
  <2> DEFINE awaited == R \in DOMAIN to_be_removed_resources
             out     == R \cap available_resources = {}
  <2>1. LoanStage(R, loan[R], inbox, commands, awaited, out)
    BY DEF Sound, Loaned
  <2>2. /\ inbox' = inbox \o new /\ commands' = commands
        /\ UNCHANGED <<available_resources, to_be_removed_resources>>
    BY <1>1 DEF Happens, sched_vars
  <2> HIDE DEF awaited, out
  <2>3. /\ ~awaited /\ None(commands, CommandsOn(R))
        /\ \/ None(inbox, EventsOn(R))
           \/ One(inbox, EventsOn(R), "ADD_RESOURCES") /\ out
    BY <1>1, <2>1 DEF LoanStage
  <2>4. \/ One(inbox', EventsOn(R), "REMOVE_RESOURCES")
        \/ Two(inbox', EventsOn(R), "ADD_RESOURCES", "REMOVE_RESOURCES") /\ out
    <3>1. CASE None(inbox, EventsOn(R))
      BY <1>4, <2>2, <3>1, JoinBrings DEF Kept, TypeInv
    <3>2. CASE One(inbox, EventsOn(R), "ADD_RESOURCES") /\ out
      BY <1>4, <2>2, <3>2, JoinPairs DEF TypeInv
    <3> QED
      BY <2>3, <3>1, <3>2
  <2>5. LoanStage(R, loan'[R], inbox', commands', awaited, out)
    BY <1>9, <2>2, <2>3, <2>4 DEF LoanStage
  <2>6. LoanStage(R, loan'[R], inbox', commands', R \in DOMAIN to_be_removed_resources',
                  R \cap available_resources' = {})
    BY <2>2, <2>5 DEF awaited, out
  <2>7. \A Q \in Loans \ {R} :
          LoanStage(Q, loan'[Q], inbox', commands', Q \in DOMAIN to_be_removed_resources',
                    Q \cap available_resources' = {})
    BY <1>1, <1>4, <1>9, ArrivalKeeps
  <2> QED
    BY <2>6, <2>7 DEF Loaned
<1>12. Vacated'
  <2>1. \A Q \in Loans : loan'[Q] = "taken" => loan[Q] = "taken"
    BY <1>9
  <2> QED
    BY <1>1, <1>4, <2>1, ArrivalKeeps DEF Vacated
<1>13. Apart' /\ NotFree' /\ Quiet' /\ Closed'
  BY <1>1, <1>4, ArrivalKeeps
<1> QED
  BY <1>10, <1>11, <1>12, <1>13 DEF Sound

\* Machines are lent again: the jobs that were on them have ended, and what
\* the scheduler hears first is that.
LEMMA LendSound ==
  ASSUME TypeInv, Sound, NEW R \in Loans, Lend(R)
  PROVE  Sound'
<1> DEFINE e == Event("ADD_RESOURCES", {}, {}, R)
           new == <<e>>
<1>1. /\ loan[R] = "taken" /\ loan' = [loan EXCEPT ![R] = "lent"] /\ Happens(new)
      /\ UNCHANGED truth
  BY DEF Lend
<1>2. e \in BebidaEvent /\ e.type = "ADD_RESOURCES" /\ e.machines = R
  BY Made DEF LoanEvent
<1>3. /\ \A k \in Job : e \notin EventsOf(k)
      /\ \A Q : e \in EventsOn(Q) <=> Q = R
      /\ \A Q : Q # R => e \notin AddsOf(Q)
  BY <1>2 DEF EventsOf, EventsOn, AddsOf, Lifecycle, LoanEvent
<1> HIDE DEF e
<1>4. /\ new \in Seq(BebidaEvent)
      /\ One(new, EventsOn(R), "ADD_RESOURCES")
      /\ \A k \in Job : None(new, EventsOf(k))
      /\ \A Q : Q # R => None(new, EventsOn(Q))
      /\ \A Q : Q # R => None(new, AddsOf(Q))
  BY <1>2, <1>3, Single
<1> HIDE DEF new
<1>5. /\ inbox' = inbox \o new /\ commands' = commands /\ inbox \in Seq(BebidaEvent)
      /\ UNCHANGED <<available_resources, to_be_removed_resources, job_state>>
  BY <1>1 DEF Happens, sched_vars, TypeInv
<1> DEFINE awaited == R \in DOMAIN to_be_removed_resources
           out     == R \cap available_resources = {}
<1>6. LoanStage(R, loan[R], inbox, commands, awaited, out)
  BY DEF Sound, Loaned
<1> HIDE DEF awaited, out
<1>7. ~awaited /\ None(commands, CommandsOn(R)) /\ None(inbox, EventsOn(R)) /\ out
  BY <1>1, <1>6 DEF LoanStage
<1>9. loan'[R] = "lent" /\ \A Q \in Loans \ {R} : loan'[Q] = loan[Q]
  BY <1>1 DEF TypeInv
<1>10. Lives'
  BY <1>1, <1>4, ArrivalKeeps DEF Lives
<1>11. Loaned'
  <2>1. One(inbox', EventsOn(R), "ADD_RESOURCES")
    BY <1>4, <1>5, <1>7, JoinBrings DEF Kept
  <2>2. LoanStage(R, loan'[R], inbox', commands', awaited, out)
    BY <1>5, <1>7, <1>9, <2>1 DEF LoanStage
  <2>3. LoanStage(R, loan'[R], inbox', commands', R \in DOMAIN to_be_removed_resources',
                  R \cap available_resources' = {})
    BY <1>5, <2>2 DEF awaited, out
  <2>4. \A Q \in Loans \ {R} :
          LoanStage(Q, loan'[Q], inbox', commands', Q \in DOMAIN to_be_removed_resources',
                    Q \cap available_resources' = {})
    BY <1>1, <1>4, <1>9, ArrivalKeeps
  <2> QED
    BY <2>3, <2>4 DEF Loaned
<1>12. Vacated'
  <2>1. \A Q \in Loans : loan'[Q] = "taken" => loan[Q] = "taken"
    BY <1>9
  <2>2. \A Q \in Loans \ {R} : \A j \in Holders : allocation[j] \cap Q # {} => Leaves(Q, j)'
    BY <1>1, <1>4, <2>1, ArrivalKeeps
  <2>3. ASSUME NEW j \in Holders, allocation[j] \cap R # {} PROVE Leaves(R, j)'
    <3>1. truth[j] = "over"
      BY <1>1, <2>3 DEF Sound, Vacated, Leaves
    <3>2. j \in Job /\ job_state[j] \in {"RUNNING", "IN_KILLING"}
      BY DEF Holders, InState
    <3>3. Stage(j, truth[j], job_state[j], inbox, commands)
      BY <3>2 DEF Sound, Lives
    <3>4. \/ One(inbox, EventsOf(j), "JOB_COMPLETED")
          \/ Two(inbox, EventsOf(j), "COMPLETED_KILLED", "JOB_KILLED")
      BY <3>1, <3>2, <3>3 DEF Stage
    <3>5. ~None(inbox, EventsOf(j))
      BY <3>4 DEF None, One, Two
    <3>6. None(inbox, AddsOf(R))
      BY <1>7 DEF None, AddsOf
    <3>7. Precedes(inbox', EventsOf(j), AddsOf(R))
      BY <1>4, <1>5, <3>5, <3>6, PrecedesJoin
    <3> QED
      BY <1>1, <1>5, <1>7, <1>9, <3>1, <3>7 DEF Leaves, awaited
  <2> QED
    BY <1>1, <1>4, <2>2, <2>3, ArrivalKeeps DEF Vacated
<1>13. Apart' /\ NotFree' /\ Quiet' /\ Closed'
  BY <1>1, <1>4, ArrivalKeeps
<1> QED
  BY <1>10, <1>11, <1>12, <1>13 DEF Sound

\* The message is sent.
LEMMA SendSound ==
  ASSUME TypeInv, Sound, Send
  PROVE  Sound'
<1>1. /\ commands = <<>> /\ UNCHANGED <<inbox, commands, truth, loan, registration>>
      /\ UNCHANGED <<job_state, allocation, free_resources, available_resources,
                     to_be_removed_resources>>
  BY DEF Send, sim_vars, sched_vars
<1>2. Holders' = Holders
  BY <1>1 DEF Holders, InState
<1>3. Lives' /\ Loaned' /\ Apart' /\ NotFree' /\ Closed'
  BY <1>1, <1>2 DEF Sound, Lives, Loaned, Apart, NotFree, Closed
<1>4. Vacated'
  BY <1>1, <1>2 DEF Sound, Vacated, Leaves
<1>5. Quiet'
  BY <1>1 DEF Quiet
<1> QED
  BY <1>3, <1>4, <1>5 DEF Sound

\* Those a command that is obeyed is not about.
LEMMA ObeyKeeps ==
  ASSUME TypeInv, Sound, NEW type, Obeys(type), NEW new \in Seq(BebidaEvent),
         inbox' = inbox \o new
  PROVE  /\ Head(commands) \in BebidaCommand /\ Head(commands).type = type
         /\ \A j \in Job :
              Head(commands) \notin CommandsOf(j) /\ None(new, EventsOf(j)) /\ truth'[j] = truth[j]
                => Stage(j, truth'[j], job_state'[j], inbox', commands')
         /\ \A R \in Loans :
              Head(commands) \notin CommandsOn(R) /\ None(new, EventsOn(R)) /\ loan'[R] = loan[R]
                => LoanStage(R, loan'[R], inbox', commands', R \in DOMAIN to_be_removed_resources',
                             R \cap available_resources' = {})
         /\ \A R \in Loans : \A j \in Holders :
              /\ allocation[j] \cap R # {}
              /\ Head(commands) \notin KillsOf(j) \/ truth'[j] = "over"
              /\ truth[j] = "over" => truth'[j] = "over"
              /\ loan'[R] = "taken" => loan[R] = "taken"
              /\ None(new, AddsOf(R))
              => Leaves(R, j)'
         /\ Holders' = Holders /\ allocation' = allocation /\ job_state' = job_state
         /\ Apart' /\ NotFree' /\ Quiet'
         /\ registration' = registration \/ type = "NOTIFY" => Closed'
<1>1. /\ inbox \in Seq(BebidaEvent) /\ commands \in Seq(BebidaCommand) /\ commands # <<>>
      /\ commands' = Tail(commands) /\ Head(commands).type = type
      /\ UNCHANGED <<loop, sched_vars>> /\ loop = "simulator"
  BY DEF Obeys, TypeInv
<1>2. UNCHANGED <<job_state, allocation, free_resources, available_resources,
                  to_be_removed_resources>>
  BY <1>1 DEF sched_vars
<1> DEFINE head == Head(commands)
<1>3. /\ head \in BebidaCommand
      /\ \A A : head \notin A => Kept(commands, commands', A)
      /\ \A A : None(commands, A) => head \notin A /\ None(commands', A)
  BY <1>1, Pop
<1>4. \A A : None(new, A) => Kept(inbox, inbox', A)
  BY <1>1, JoinKeeps
<1>5. ASSUME NEW j \in Job, head \notin CommandsOf(j), None(new, EventsOf(j)), truth'[j] = truth[j]
      PROVE  Stage(j, truth'[j], job_state'[j], inbox', commands')
  <2>1. Kept(inbox, inbox', EventsOf(j)) /\ Kept(commands, commands', CommandsOf(j))
    BY <1>3, <1>4, <1>5
  <2>2. Stage(j, truth[j], job_state[j], inbox, commands)
    BY DEF Sound, Lives
  <2>3. Stage(j, truth[j], job_state[j], inbox', commands')
    BY <2>1, <2>2, StageKept
  <2> QED
    BY <1>2, <1>5, <2>3
<1>6. ASSUME NEW R \in Loans, head \notin CommandsOn(R), None(new, EventsOn(R)), loan'[R] = loan[R]
      PROVE  LoanStage(R, loan'[R], inbox', commands', R \in DOMAIN to_be_removed_resources',
                       R \cap available_resources' = {})
  <2>1. Kept(inbox, inbox', EventsOn(R)) /\ Kept(commands, commands', CommandsOn(R))
    BY <1>3, <1>4, <1>6
  <2> DEFINE awaited == R \in DOMAIN to_be_removed_resources
             out     == R \cap available_resources = {}
  <2>2. LoanStage(R, loan[R], inbox, commands, awaited, out)
    BY DEF Sound, Loaned
  <2> HIDE DEF awaited, out
  <2>3. LoanStage(R, loan[R], inbox', commands', awaited, out)
    BY <2>1, <2>2, LoanStageKept
  <2> QED
    BY <1>2, <1>6, <2>3 DEF awaited, out
<1>7. Holders' = Holders
  BY <1>2 DEF Holders, InState
<1>8. ASSUME NEW R \in Loans, NEW j \in Holders,
             allocation[j] \cap R # {}, head \notin KillsOf(j) \/ truth'[j] = "over",
             truth[j] = "over" => truth'[j] = "over",
             loan'[R] = "taken" => loan[R] = "taken", None(new, AddsOf(R))
      PROVE  Leaves(R, j)'
  <2>1. Leaves(R, j)
    BY <1>8 DEF Sound, Vacated
  <2>2. None(inbox, AddsOf(R)) => None(inbox', AddsOf(R))
    BY <1>4, <1>8 DEF Kept
  <2>3. Precedes(inbox, EventsOf(j), AddsOf(R)) => Precedes(inbox', EventsOf(j), AddsOf(R))
    BY <1>1, PrecedesJoin
  <2>4. Precedes(commands, KillsOf(j), CommandsOn(R)) /\ head \notin KillsOf(j)
          => Precedes(commands', KillsOf(j), CommandsOn(R))
    BY <1>1, PrecedesTail
  <2> QED
    BY <1>2, <1>3, <1>8, <2>1, <2>2, <2>3, <2>4 DEF Leaves
<1>9. Apart' /\ NotFree' /\ Quiet'
  BY <1>1, <1>2, <1>7 DEF Sound, Apart, NotFree, Quiet
<1>10. ASSUME registration' = registration \/ type = "NOTIFY" PROVE Closed'
  <2>1. \A i \in DOMAIN commands' : \E k \in DOMAIN commands : commands'[i] = commands[k]
    BY <1>1, TailPlaces
  <2>2. 1 \in DOMAIN commands /\ Head(commands) = commands[1]
    BY <1>1, TailPlaces
  <2>3. CASE registration' = registration
    BY <1>2, <2>1, <2>3 DEF Sound, Closed
  <2>4. CASE type = "NOTIFY"
    BY <1>1, <1>2, <2>2, <2>4 DEF Sound, Closed
  <2> QED
    BY <1>10, <2>3, <2>4
<1>11. /\ head \in BebidaCommand /\ head.type = type
       /\ Holders' = Holders /\ allocation' = allocation /\ job_state' = job_state
  BY <1>1, <1>2, <1>3, <1>7
<1>12. \A R \in Loans : \A j \in Holders :
         /\ allocation[j] \cap R # {}
         /\ head \notin KillsOf(j) \/ truth'[j] = "over"
         /\ truth[j] = "over" => truth'[j] = "over"
         /\ loan'[R] = "taken" => loan[R] = "taken"
         /\ None(new, AddsOf(R))
         => Leaves(R, j)'
  BY <1>8
<1>13. \A j \in Job : head \notin CommandsOf(j) /\ None(new, EventsOf(j)) /\ truth'[j] = truth[j]
                        => Stage(j, truth'[j], job_state'[j], inbox', commands')
  BY <1>5
<1>14. \A R \in Loans :
         head \notin CommandsOn(R) /\ None(new, EventsOn(R)) /\ loan'[R] = loan[R]
           => LoanStage(R, loan'[R], inbox', commands', R \in DOMAIN to_be_removed_resources',
                        R \cap available_resources' = {})
  BY <1>6
<1> QED
  BY <1>9, <1>10, <1>11, <1>12, <1>13, <1>14

\* What holders know of their fate.
LEMMA HolderStage ==
  ASSUME TypeInv, Sound, NEW j \in Holders
  PROVE  /\ j \in Job /\ Stage(j, truth[j], job_state[j], inbox, commands)
         /\ job_state[j] \in {"RUNNING", "IN_KILLING"}
         /\ truth[j] \in {"queued", "running", "over"}
         /\ truth[j] = "queued" => One(commands, CommandsOf(j), "EXECUTE_JOB")
<1>1. j \in Job /\ job_state[j] \in {"RUNNING", "IN_KILLING"}
  BY DEF Holders, InState
<1>2. Stage(j, truth[j], job_state[j], inbox, commands)
  BY <1>1 DEF Sound, Lives
<1> QED
  BY <1>1, <1>2 DEF Stage

\* The head is the only command for a job.
LEMMA HeadIsTheOne ==
  ASSUME TypeInv, commands # <<>>, NEW A, Head(commands) \in A
  PROVE  /\ ~None(commands, A)
         /\ \A t : One(commands, A, t) => Head(commands).type = t /\ None(Tail(commands), A)
BY TailTakes DEF TypeInv

\* A job starts.
LEMMA ObeyExecuteSound ==
  ASSUME TypeInv, Sound, ObeyExecute
  PROVE  Sound'
<1> DEFINE c == Head(commands)
           none == <<>>
<1>1. /\ Obeys("EXECUTE_JOB") /\ UNCHANGED <<inbox, loan, registration>>
      /\ truth' = [j \in Job |-> IF j \in c.jobs THEN "running" ELSE truth[j]]
  BY DEF ObeyExecute
<1>2. none \in Seq(BebidaEvent) /\ inbox' = inbox \o none /\ \A A : None(none, A)
  BY <1>1, Nobody DEF TypeInv
<1> HIDE DEF none
<1>3. c \in BebidaCommand /\ c.type = "EXECUTE_JOB" /\ job_state' = job_state
  BY <1>1, <1>2, ObeyKeeps
<1>4. /\ \A j \in Job : c \in CommandsOf(j) <=> j \in c.jobs
      /\ \A R : c \notin CommandsOn(R)
      /\ \A j : c \notin KillsOf(j)
  BY <1>3 DEF CommandsOf, CommandsOn, KillsOf, JobCommand
<1>5. \A j \in Job : truth'[j] = IF j \in c.jobs THEN "running" ELSE truth[j]
  BY <1>1
<1>6. ASSUME NEW j \in Job, j \in c.jobs
      PROVE  truth[j] = "queued" /\ Stage(j, truth'[j], job_state'[j], inbox', commands')
  <2>1. Stage(j, truth[j], job_state[j], inbox, commands)
    BY DEF Sound, Lives
  <2>2. commands # <<>> /\ commands' = Tail(commands)
    BY <1>1 DEF Obeys
  <2>3. /\ ~None(commands, CommandsOf(j))
        /\ \A t : One(commands, CommandsOf(j), t) => "EXECUTE_JOB" = t /\ None(commands', CommandsOf(j))
    BY <1>3, <1>4, <1>6, <2>2, HeadIsTheOne
  <2>4. /\ truth[j] = "queued" /\ job_state[j] = "RUNNING" /\ None(inbox, EventsOf(j))
        /\ None(commands', CommandsOf(j))
    BY <2>1, <2>3 DEF Stage
  <2> QED
    BY <1>1, <1>3, <1>5, <1>6, <2>4 DEF Stage
<1>7. Lives'
  <2>1. \A j \in Job : j \notin c.jobs => Stage(j, truth'[j], job_state'[j], inbox', commands')
    BY <1>1, <1>2, <1>4, <1>5, ObeyKeeps
  <2> QED
    BY <1>6, <2>1 DEF Lives
<1>8. Loaned'
  <2>1. \A R \in Loans : LoanStage(R, loan'[R], inbox', commands', R \in DOMAIN to_be_removed_resources',
                                   R \cap available_resources' = {})
    BY <1>1, <1>2, <1>4, ObeyKeeps
  <2> QED
    BY <2>1 DEF Loaned
<1>9. Vacated'
  <2>1. \A j \in Holders : j \in Job /\ (truth[j] = "over" => truth'[j] = "over")
    BY <1>5, <1>6 DEF Holders, InState
  <2>2. \A R \in Loans : \A j \in Holders : allocation[j] \cap R # {} => Leaves(R, j)'
    BY <1>1, <1>2, <1>4, <2>1, ObeyKeeps
  <2> QED
    BY <1>1, <1>2, <2>2, ObeyKeeps DEF Vacated
<1>10. Apart' /\ NotFree' /\ Quiet' /\ Closed'
  BY <1>1, <1>2, ObeyKeeps
<1> QED
  BY <1>7, <1>8, <1>9, <1>10 DEF Sound

\* A killed job is registered again.
LEMMA ObeyRegisterSound ==
  ASSUME TypeInv, Sound, ObeyRegister
  PROVE  Sound'
<1> DEFINE c == Head(commands)
           e == Event("JOB_SUBMITTED", c.jobs, {}, {})
           new == <<e>>
<1>1. /\ Obeys("REGISTER_JOB") /\ UNCHANGED <<loan, registration>> /\ inbox' = Append(inbox, e)
      /\ truth' = [j \in Job |-> IF j \in c.jobs THEN "queued" ELSE truth[j]]
  BY DEF ObeyRegister
<1>2. commands # <<>> /\ commands' = Tail(commands) /\ c.type = "REGISTER_JOB" /\ c \in BebidaCommand
  BY <1>1, Pop DEF Obeys, TypeInv
<1>3. PICK j \in Job : c.jobs = {j}
  BY <1>2, CommandKinds
<1>4. e \in BebidaEvent /\ e.type = "JOB_SUBMITTED" /\ e.jobs = {j}
  <2>1. e = JobEvent("JOB_SUBMITTED", j)
    BY <1>3 DEF JobEvent, Event
  <2> QED
    BY <2>1, Made DEF Lifecycle
<1>5. /\ \A k \in Job : e \in EventsOf(k) <=> k = j
      /\ \A R : e \notin EventsOn(R)
  BY <1>4 DEF EventsOf, EventsOn, Lifecycle, LoanEvent
<1>6. /\ \A k \in Job : c \in CommandsOf(k) <=> k = j
      /\ \A R : c \notin CommandsOn(R)
      /\ \A k : c \notin KillsOf(k)
  BY <1>2, <1>3 DEF CommandsOf, CommandsOn, KillsOf, JobCommand
<1> HIDE DEF e, c
<1>7. /\ new \in Seq(BebidaEvent) /\ inbox' = inbox \o new
      /\ One(new, EventsOf(j), "JOB_SUBMITTED")
      /\ \A k \in Job \ {j} : None(new, EventsOf(k))
      /\ \A R : None(new, EventsOn(R)) /\ None(new, AddsOf(R))
  <2>1. new \in Seq(BebidaEvent) /\ inbox' = inbox \o new
    BY <1>1, <1>4, AppendIsConcat DEF TypeInv
  <2>2. \A R : e \notin AddsOf(R)
    BY <1>5 DEF AddsOf
  <2> QED
    BY <1>4, <1>5, <2>1, <2>2, Single
<1> HIDE DEF new
<1>8. truth'[j] = "queued" /\ \A k \in Job \ {j} : truth'[k] = truth[k]
  BY <1>1, <1>3
<1>9. job_state[j] = "IN_SUBMISSON" /\ Stage(j, truth'[j], job_state'[j], inbox', commands')
  <2>1. Stage(j, truth[j], job_state[j], inbox, commands)
    BY DEF Sound, Lives
  <2>2. c = Head(commands)
    BY DEF c
  <2>3. /\ ~None(commands, CommandsOf(j))
        /\ \A t : One(commands, CommandsOf(j), t) => "REGISTER_JOB" = t /\ None(commands', CommandsOf(j))
    BY <1>2, <1>6, <2>2, HeadIsTheOne
  <2>4. /\ job_state[j] = "IN_SUBMISSON" /\ None(inbox, EventsOf(j))
        /\ None(commands', CommandsOf(j))
    BY <2>1, <2>3 DEF Stage
  <2>5. One(inbox', EventsOf(j), "JOB_SUBMITTED")
    BY <1>7, <2>4, JoinBrings DEF Kept, TypeInv
  <2>6. job_state' = job_state
    BY <1>1, <1>7, ObeyKeeps
  <2> QED
    BY <1>8, <2>4, <2>5, <2>6 DEF Stage
<1>10. Lives'
  <2>1. \A k \in Job \ {j} : Stage(k, truth'[k], job_state'[k], inbox', commands')
    BY <1>1, <1>6, <1>7, <1>8, ObeyKeeps DEF c
  <2> QED
    BY <1>9, <2>1 DEF Lives
<1>11. Loaned'
  <2>1. \A R \in Loans : LoanStage(R, loan'[R], inbox', commands', R \in DOMAIN to_be_removed_resources',
                                   R \cap available_resources' = {})
    BY <1>1, <1>6, <1>7, ObeyKeeps DEF c
  <2> QED
    BY <2>1 DEF Loaned
<1>12. Vacated'
  <2>1. \A k \in Holders : k \in Job /\ (truth[k] = "over" => truth'[k] = "over")
    BY <1>8, <1>9 DEF Holders, InState
  <2>2. \A R \in Loans : \A k \in Holders : allocation[k] \cap R # {} => Leaves(R, k)'
    BY <1>1, <1>6, <1>7, <2>1, ObeyKeeps DEF c
  <2> QED
    BY <1>1, <1>7, <2>2, ObeyKeeps DEF Vacated
<1>13. Apart' /\ NotFree' /\ Quiet' /\ Closed'
  BY <1>1, <1>7, ObeyKeeps
<1> QED
  BY <1>10, <1>11, <1>12, <1>13 DEF Sound

\* Machines are given back: no job runs on them.
LEMMA ObeyRemovedSound ==
  ASSUME TypeInv, Sound, ObeyRemoved
  PROVE  Sound'
<1> DEFINE c == Head(commands)
           none == <<>>
<1>1. /\ Obeys("RESOURCES_REMOVED") /\ UNCHANGED <<inbox, truth, registration>>
      /\ loan' = [loan EXCEPT ![c.machines] = "taken"]
  BY DEF ObeyRemoved
<1>2. none \in Seq(BebidaEvent) /\ inbox' = inbox \o none /\ \A A : None(none, A)
  BY <1>1, Nobody DEF TypeInv
<1> HIDE DEF none
<1>3. /\ c \in BebidaCommand /\ c.type = "RESOURCES_REMOVED"
      /\ UNCHANGED <<job_state, available_resources, to_be_removed_resources>>
  BY <1>1, <1>2, ObeyKeeps DEF Obeys, sched_vars
<1>4. PICK R \in Loans : R = c.machines
  BY <1>3, CommandKinds
<1>5. /\ \A j \in Job : c \notin CommandsOf(j)
      /\ \A Q : c \in CommandsOn(Q) <=> Q = R
      /\ \A j : c \notin KillsOf(j)
  BY <1>3, <1>4 DEF CommandsOf, CommandsOn, KillsOf, JobCommand
<1>6. loan'[R] = "taken" /\ \A Q \in Loans \ {R} : loan'[Q] = loan[Q]
  BY <1>1, <1>4 DEF TypeInv
<1>7. commands # <<>> /\ commands' = Tail(commands) /\ commands \in Seq(BebidaCommand)
  BY <1>1 DEF Obeys, TypeInv
<1> HIDE DEF c
<1>8. Lives'
  <2>1. \A j \in Job : Stage(j, truth'[j], job_state'[j], inbox', commands')
    BY <1>1, <1>2, <1>5, ObeyKeeps DEF c
  <2> QED
    BY <2>1 DEF Lives
<1>9. Loaned'
  <2> DEFINE awaited == R \in DOMAIN to_be_removed_resources
             out     == R \cap available_resources = {}
  <2>1. LoanStage(R, loan[R], inbox, commands, awaited, out)
    BY DEF Sound, Loaned
  <2>2. /\ ~None(commands, CommandsOn(R))
        /\ \A t : One(commands, CommandsOn(R), t) => None(commands', CommandsOn(R))
    BY <1>5, <1>7, HeadIsTheOne DEF c
  <2> HIDE DEF awaited, out
  <2>3. ~awaited /\ None(inbox, EventsOn(R)) /\ None(commands', CommandsOn(R)) /\ out
    BY <2>1, <2>2 DEF LoanStage
  <2>4. LoanStage(R, loan'[R], inbox', commands', awaited, out)
    BY <1>1, <1>6, <2>3 DEF LoanStage
  <2>5. LoanStage(R, loan'[R], inbox', commands', R \in DOMAIN to_be_removed_resources',
                  R \cap available_resources' = {})
    BY <1>3, <2>4 DEF awaited, out
  <2>6. \A Q \in Loans \ {R} :
          LoanStage(Q, loan'[Q], inbox', commands', Q \in DOMAIN to_be_removed_resources',
                    Q \cap available_resources' = {})
    BY <1>1, <1>2, <1>5, <1>6, ObeyKeeps DEF c
  <2> QED
    BY <2>5, <2>6 DEF Loaned
<1>10. Vacated'
  <2>1. \A Q \in Loans \ {R} : \A j \in Holders : allocation[j] \cap Q # {} => Leaves(Q, j)'
    BY <1>1, <1>2, <1>5, <1>6, ObeyKeeps DEF c
  <2>2. ASSUME NEW j \in Holders, allocation[j] \cap R # {} PROVE Leaves(R, j)'
    <3>1. Leaves(R, j)
      BY <2>2 DEF Sound, Vacated
    <3>2. ~None(commands, CommandsOn(R)) /\ ~Precedes(commands, KillsOf(j), CommandsOn(R))
      BY <1>5, <1>7, HeadIsTheOne, PrecedesTail DEF c
    <3>3. truth[j] = "over"
      BY <3>1, <3>2 DEF Leaves
    <3> QED
      BY <1>1, <1>3, <3>1, <3>3 DEF Leaves
  <2> QED
    BY <1>1, <1>2, <2>1, <2>2, ObeyKeeps DEF Vacated
<1>11. Apart' /\ NotFree' /\ Quiet' /\ Closed'
  BY <1>1, <1>2, ObeyKeeps
<1> QED
  BY <1>8, <1>9, <1>10, <1>11 DEF Sound

\* The registration is closed.
LEMMA ObeyFinishedSound ==
  ASSUME TypeInv, Sound, ObeyFinished
  PROVE  Sound'
<1> DEFINE c == Head(commands)
           none == <<>>
<1>1. Obeys("NOTIFY") /\ UNCHANGED <<inbox, truth, loan>>
  BY DEF ObeyFinished
<1>2. none \in Seq(BebidaEvent) /\ inbox' = inbox \o none /\ \A A : None(none, A)
  BY <1>1, Nobody DEF TypeInv
<1> HIDE DEF none
<1>3. c \in BebidaCommand /\ c.type = "NOTIFY"
  BY <1>1, <1>2, ObeyKeeps
<1>4. /\ \A j \in Job : c \notin CommandsOf(j)
      /\ \A R : c \notin CommandsOn(R)
      /\ \A j : c \notin KillsOf(j)
  BY <1>3 DEF CommandsOf, CommandsOn, KillsOf, JobCommand
<1>5. Lives'
  <2>1. \A j \in Job : Stage(j, truth'[j], job_state'[j], inbox', commands')
    BY <1>1, <1>2, <1>4, ObeyKeeps
  <2> QED
    BY <2>1 DEF Lives
<1>6. Loaned'
  <2>1. \A R \in Loans : LoanStage(R, loan'[R], inbox', commands', R \in DOMAIN to_be_removed_resources',
                                   R \cap available_resources' = {})
    BY <1>1, <1>2, <1>4, ObeyKeeps
  <2> QED
    BY <2>1 DEF Loaned
<1>7. Vacated'
  <2>1. \A R \in Loans : \A j \in Holders : allocation[j] \cap R # {} => Leaves(R, j)'
    BY <1>1, <1>2, <1>4, ObeyKeeps
  <2> QED
    BY <1>1, <1>2, <2>1, ObeyKeeps DEF Vacated
<1>8. Apart' /\ NotFree' /\ Quiet' /\ Closed'
  BY <1>1, <1>2, ObeyKeeps
<1> QED
  BY <1>5, <1>6, <1>7, <1>8 DEF Sound

\* Jobs are killed, those that have not ended by themselves.
LEMMA ObeyKillSound ==
  ASSUME TypeInv, Sound, ObeyKill
  PROVE  Sound' /\ inbox' \in Seq(BebidaEvent)
<1> DEFINE c    == Head(commands)
           jobs == c.jobs
           hit  == {j \in jobs : truth[j] = "running"}
           f    == InOrder(hit)
           ended  == [i \in 1 .. Cardinality(hit) |-> JobEvent("COMPLETED_KILLED", f[i])]
           e      == Event("JOB_KILLED", jobs, hit, {})
           killed == <<e>>
           new    == ended \o killed
<1>1. /\ Obeys("KILL_JOB") /\ UNCHANGED <<loan, registration>>
      /\ truth' = [j \in Job |-> IF j \in hit THEN "over" ELSE truth[j]]
      /\ inbox' = inbox \o ended \o killed
  BY DEF ObeyKill
<1>2. commands # <<>> /\ commands' = Tail(commands) /\ c.type = "KILL_JOB" /\ c \in BebidaCommand
  BY <1>1, Pop DEF Obeys, TypeInv
<1>3. /\ jobs \in SUBSET Job /\ hit \in SUBSET Job
      /\ \A k \in Job : c \in CommandsOf(k) <=> k \in jobs
      /\ \A k \in Job : c \in KillsOf(k) <=> k \in jobs
      /\ \A R : c \notin CommandsOn(R)
  BY <1>2, CommandKinds DEF KillsOf, JobCommand
<1>4. OneEach(f, hit)
  BY <1>3, InOrderHasEach
<1>5. \A k \in Job : /\ truth'[k] = IF k \in hit THEN "over" ELSE truth[k]
                     /\ k \in hit <=> k \in jobs /\ truth[k] = "running"
  BY <1>1, <1>3
<1>6. /\ e \in BebidaEvent /\ e.type = "JOB_KILLED" /\ e.hit = hit
      /\ \A k \in Job : e \in EventsOf(k) <=> k \in hit
      /\ \A R : e \notin EventsOn(R)
  <2>1. e \in BebidaEvent /\ e.type = "JOB_KILLED" /\ e.hit = hit
    BY <1>3, Made
  <2> QED
    BY <2>1 DEF EventsOf, EventsOn, Lifecycle, LoanEvent
<1> HIDE DEF c, jobs, hit, f, e
<1>7. \A i \in DOMAIN f : f[i] \in Job
  BY <1>3, <1>4 DEF OneEach
<1>8. /\ DOMAIN ended = DOMAIN f /\ Cardinality(hit) \in Nat
      /\ \A i \in DOMAIN ended :
           /\ ended[i] \in BebidaEvent /\ ended[i].type = "COMPLETED_KILLED"
           /\ ended[i].jobs = {f[i]}
  BY <1>4, <1>7, Made DEF OneEach, Lifecycle
<1>9. \A i \in DOMAIN ended : /\ \A k \in Job : ended[i] \in EventsOf(k) <=> f[i] = k
                              /\ \A R : ended[i] \notin EventsOn(R)
  BY <1>8 DEF EventsOf, EventsOn, Lifecycle, LoanEvent
<1>10. ended \in Seq(BebidaEvent)
  <2>1. \A i \in 1 .. Cardinality(hit) : ended[i] \in BebidaEvent
    BY <1>8
  <2> QED
    BY <1>8, <2>1
<1> HIDE DEF ended
<1>11. /\ \A k \in Job : k \in hit => One(ended, EventsOf(k), "COMPLETED_KILLED")
       /\ \A k \in Job : k \notin hit => None(ended, EventsOf(k))
       /\ \A R : None(ended, EventsOn(R))
  <2>1. ASSUME NEW k \in Job
        PROVE  /\ k \in hit => One(ended, EventsOf(k), "COMPLETED_KILLED")
               /\ k \notin hit => None(ended, EventsOf(k))
    <3>1. \A i \in DOMAIN ended : /\ ended[i].type = "COMPLETED_KILLED"
                                  /\ ended[i] \in EventsOf(k) <=> f[i] = k
      BY <1>8, <1>9
    <3> QED
      BY <1>4, <1>8, <3>1, EachOnce
  <2> QED
    BY <1>9, <2>1 DEF None
<1>12. /\ killed \in Seq(BebidaEvent)
       /\ \A k \in Job : k \in hit => One(killed, EventsOf(k), "JOB_KILLED")
       /\ \A k \in Job : k \notin hit => None(killed, EventsOf(k))
       /\ \A R : None(killed, EventsOn(R))
  BY <1>6, Single
<1> HIDE DEF killed
<1>13. new \in Seq(BebidaEvent) /\ inbox' = inbox \o new
  BY <1>1, <1>10, <1>12, ConcatProperties, ConcatAssociative DEF TypeInv
<1>14. \A k \in Job : k \in hit => Two(new, EventsOf(k), "COMPLETED_KILLED", "JOB_KILLED")
  BY <1>10, <1>11, <1>12, JoinPairs
<1>15. \A k \in Job : k \notin hit => None(new, EventsOf(k))
  BY <1>10, <1>11, <1>12, JoinNone
<1>16. \A R : None(new, EventsOn(R))
  BY <1>10, <1>11, <1>12, JoinNone
<1>17. \A R : None(new, AddsOf(R))
  BY <1>16 DEF None, AddsOf
<1> HIDE DEF new
<1>18. job_state' = job_state
  BY <1>1, <1>13, ObeyKeeps
<1>19. ASSUME NEW k \in Job, k \in jobs
       PROVE  truth'[k] = "over" /\ Stage(k, truth'[k], job_state'[k], inbox', commands')
  <2>1. Stage(k, truth[k], job_state[k], inbox, commands)
    BY DEF Sound, Lives
  <2>2. /\ ~None(commands, CommandsOf(k))
        /\ \A t : One(commands, CommandsOf(k), t) => "KILL_JOB" = t /\ None(commands', CommandsOf(k))
    BY <1>2, <1>3, <1>19, HeadIsTheOne DEF c
  <2>3. /\ None(commands', CommandsOf(k))
        /\ \/ truth[k] = "running" /\ job_state[k] = "IN_KILLING" /\ None(inbox, EventsOf(k))
           \/ truth[k] = "over" /\ job_state[k] = "IN_KILLING" /\ One(inbox, EventsOf(k), "JOB_COMPLETED")
           \/ truth[k] = "over" /\ job_state[k] = "COMPLETED_SUCCESSFULLY" /\ None(inbox, EventsOf(k))
    BY <2>1, <2>2 DEF Stage
  <2>4. CASE truth[k] = "running"
    <3>1. k \in hit /\ truth'[k] = "over"
      BY <1>5, <1>19, <2>4
    <3>2. Two(inbox', EventsOf(k), "COMPLETED_KILLED", "JOB_KILLED")
      BY <1>13, <1>14, <2>3, <2>4, <3>1, JoinBrings DEF Kept, TypeInv
    <3> QED
      BY <1>18, <2>3, <2>4, <3>1, <3>2 DEF Stage
  <2>5. CASE truth[k] = "over"
    <3>1. k \notin hit /\ truth'[k] = "over"
      BY <1>5, <2>5
    <3>2. Kept(inbox, inbox', EventsOf(k))
      BY <1>13, <1>15, <3>1, JoinKeeps DEF TypeInv
    <3> QED
      BY <1>18, <2>3, <2>5, <3>1, <3>2 DEF Stage, Kept
  <2> QED
    BY <2>3, <2>4, <2>5
<1>20. Lives'
  <2>1. \A k \in Job : k \notin jobs => Stage(k, truth'[k], job_state'[k], inbox', commands')
    BY <1>1, <1>3, <1>5, <1>13, <1>15, ObeyKeeps DEF c
  <2> QED
    BY <1>19, <2>1 DEF Lives
<1>21. Loaned'
  <2>1. \A R \in Loans : LoanStage(R, loan'[R], inbox', commands', R \in DOMAIN to_be_removed_resources',
                                   R \cap available_resources' = {})
    BY <1>1, <1>3, <1>13, <1>16, ObeyKeeps DEF c
  <2> QED
    BY <2>1 DEF Loaned
<1>22. Vacated'
  <2>1. \A k \in Holders : k \in Job /\ (truth[k] = "over" => truth'[k] = "over")
    BY <1>5 DEF Holders, InState
  <2>2. \A k \in Holders : Head(commands) \notin KillsOf(k) \/ truth'[k] = "over"
    BY <1>3, <1>19, <2>1 DEF c
  <2>3. \A R \in Loans : \A k \in Holders : allocation[k] \cap R # {} => Leaves(R, k)'
    BY <1>1, <1>13, <1>17, <2>1, <2>2, ObeyKeeps
  <2> QED
    BY <1>1, <1>13, <2>3, ObeyKeeps DEF Vacated
<1>23. Apart' /\ NotFree' /\ Quiet' /\ Closed'
  BY <1>1, <1>13, ObeyKeeps
<1>24. inbox' \in Seq(BebidaEvent)
  BY <1>13, JoinPlaces DEF TypeInv
<1> QED
  BY <1>20, <1>21, <1>22, <1>23, <1>24 DEF Sound

-----------------------------------------------------------------------------
\* The callbacks

\* Those an event that is handled is not about, and those its callback kills.
LEMMA HandlingKeeps ==
  ASSUME TypeInv, Sound, NEW type, Handling(type), NEW new \in Seq(BebidaCommand),
         commands' = commands \o new
  PROVE  /\ \A j \in Job :
              Head(inbox) \notin EventsOf(j) /\ None(new, CommandsOf(j)) /\ job_state'[j] = job_state[j]
                => Stage(j, truth'[j], job_state'[j], inbox', commands')
         /\ \A j \in Job :
              /\ Head(inbox) \notin EventsOf(j) /\ One(new, CommandsOf(j), "KILL_JOB")
              /\ job_state[j] = "RUNNING" /\ job_state'[j] = "IN_KILLING"
              => Stage(j, truth'[j], job_state'[j], inbox', commands')
         /\ \A R \in Loans :
              /\ Head(inbox) \notin EventsOn(R) /\ None(new, CommandsOn(R))
              /\ R \in DOMAIN to_be_removed_resources' <=> R \in DOMAIN to_be_removed_resources
              /\ R \cap available_resources = {} => R \cap available_resources' = {}
              => LoanStage(R, loan'[R], inbox', commands', R \in DOMAIN to_be_removed_resources',
                           R \cap available_resources' = {})
         /\ \A R \in Loans : \A j \in Holders :
              /\ allocation[j] \cap R # {}
              /\ Head(inbox) \notin EventsOf(j) /\ None(new, CommandsOn(R))
              /\ \/ R \in DOMAIN to_be_removed_resources' => R \in DOMAIN to_be_removed_resources
                 \/ job_state'[j] = "IN_KILLING"
              /\ job_state'[j] \in {job_state[j], "IN_KILLING"}
              => Leaves(R, j)'
         /\ /\ \A i \in DOMAIN new : new[i].type \notin {"EXECUTE_JOB", "NOTIFY"}
            /\ \A j \in Job : job_state[j] = "COMPLETED_SUCCESSFULLY"
                                => job_state'[j] = "COMPLETED_SUCCESSFULLY"
            => Quiet' /\ Closed'
<1>1. /\ inbox \in Seq(BebidaEvent) /\ commands \in Seq(BebidaCommand) /\ inbox # <<>>
      /\ inbox' = Tail(inbox) /\ loop = "scheduler"
      /\ UNCHANGED <<truth, loan, registration>>
  BY DEF Handling, TypeInv, sim_vars
<1> DEFINE e == Head(inbox)
<1>2. /\ \A A : e \notin A => Kept(inbox, inbox', A)
      /\ \A A : None(inbox, A) => e \notin A /\ None(inbox', A)
  BY <1>1, Pop
<1>3. \A A : None(new, A) => Kept(commands, commands', A)
  BY <1>1, JoinKeeps
<1>4. ASSUME NEW j \in Job, e \notin EventsOf(j), None(new, CommandsOf(j)), job_state'[j] = job_state[j]
      PROVE  Stage(j, truth'[j], job_state'[j], inbox', commands')
  <2>1. Kept(inbox, inbox', EventsOf(j)) /\ Kept(commands, commands', CommandsOf(j))
    BY <1>2, <1>3, <1>4
  <2>2. Stage(j, truth[j], job_state[j], inbox, commands)
    BY DEF Sound, Lives
  <2>3. Stage(j, truth[j], job_state[j], inbox', commands')
    BY <2>1, <2>2, StageKept
  <2> QED
    BY <1>1, <1>4, <2>3
<1>5. ASSUME NEW j \in Job, e \notin EventsOf(j), One(new, CommandsOf(j), "KILL_JOB"),
             job_state[j] = "RUNNING", job_state'[j] = "IN_KILLING"
      PROVE  Stage(j, truth'[j], job_state'[j], inbox', commands')
  <2>1. Stage(j, truth[j], job_state[j], inbox, commands)
    BY DEF Sound, Lives
  <2>2. ~One(commands, CommandsOf(j), "EXECUTE_JOB")
    BY <1>1 DEF Sound, Quiet, One
  <2>3. /\ None(commands, CommandsOf(j))
        /\ \/ truth[j] = "running" /\ None(inbox, EventsOf(j))
           \/ truth[j] = "over" /\ One(inbox, EventsOf(j), "JOB_COMPLETED")
    BY <1>5, <2>1, <2>2 DEF Stage
  <2>4. One(commands', CommandsOf(j), "KILL_JOB")
    BY <1>1, <1>5, <2>3, JoinBrings DEF Kept
  <2>5. Kept(inbox, inbox', EventsOf(j))
    BY <1>2, <1>5
  <2> QED
    BY <1>1, <1>5, <2>3, <2>4, <2>5 DEF Stage, Kept
<1>6. ASSUME NEW R \in Loans, e \notin EventsOn(R), None(new, CommandsOn(R)),
             R \in DOMAIN to_be_removed_resources' <=> R \in DOMAIN to_be_removed_resources,
             R \cap available_resources = {} => R \cap available_resources' = {}
      PROVE  LoanStage(R, loan'[R], inbox', commands', R \in DOMAIN to_be_removed_resources',
                       R \cap available_resources' = {})
  <2>1. Kept(inbox, inbox', EventsOn(R)) /\ Kept(commands, commands', CommandsOn(R))
    BY <1>2, <1>3, <1>6
  <2> DEFINE awaited == R \in DOMAIN to_be_removed_resources
             again   == R \in DOMAIN to_be_removed_resources'
             out     == R \cap available_resources = {}
             still   == R \cap available_resources' = {}
  <2>2. LoanStage(R, loan[R], inbox, commands, awaited, out)
    BY DEF Sound, Loaned
  <2>3. (awaited <=> again) /\ (out => still)
    BY <1>6
  <2> HIDE DEF awaited, out, again, still
  <2>4. LoanStage(R, loan[R], inbox', commands', again, still)
    BY <2>1, <2>2, <2>3, LoanStageKept
  <2> QED
    BY <1>1, <2>4 DEF again, still
<1>7. ASSUME NEW R \in Loans, NEW j \in Holders, allocation[j] \cap R # {},
             e \notin EventsOf(j), None(new, CommandsOn(R)),
             \/ R \in DOMAIN to_be_removed_resources' => R \in DOMAIN to_be_removed_resources
             \/ job_state'[j] = "IN_KILLING",
             job_state'[j] \in {job_state[j], "IN_KILLING"}
      PROVE  Leaves(R, j)'
  <2>1. Leaves(R, j)
    BY <1>7 DEF Sound, Vacated
  <2>2. None(commands, CommandsOn(R)) => None(commands', CommandsOn(R))
    BY <1>3, <1>7 DEF Kept
  <2>3. Precedes(commands, KillsOf(j), CommandsOn(R)) => Precedes(commands', KillsOf(j), CommandsOn(R))
    BY <1>1, PrecedesJoin
  <2>4. Precedes(inbox, EventsOf(j), AddsOf(R)) => Precedes(inbox', EventsOf(j), AddsOf(R))
    BY <1>1, <1>7, PrecedesTail
  <2>5. None(inbox, AddsOf(R)) => None(inbox', AddsOf(R))
    BY <1>2
  <2> QED
    BY <1>1, <1>7, <2>1, <2>2, <2>3, <2>4, <2>5 DEF Leaves
<1>8. ASSUME \A i \in DOMAIN new : new[i].type \notin {"EXECUTE_JOB", "NOTIFY"},
             \A j \in Job : job_state[j] = "COMPLETED_SUCCESSFULLY"
                              => job_state'[j] = "COMPLETED_SUCCESSFULLY"
      PROVE  Quiet' /\ Closed'
  <2>1. \A i \in DOMAIN commands' :
          \/ \E k \in DOMAIN commands : commands'[i] = commands[k]
          \/ commands'[i].type \notin {"EXECUTE_JOB", "NOTIFY"}
    BY <1>1, <1>8, JoinPlaces
  <2>2. Quiet'
    BY <1>1, <2>1 DEF Sound, Quiet
  <2>3. Closed'
    BY <1>1, <1>8, <2>1 DEF Sound, Closed
  <2> QED
    BY <2>2, <2>3
<1>9. \A j \in Job :
        Head(inbox) \notin EventsOf(j) /\ None(new, CommandsOf(j)) /\ job_state'[j] = job_state[j]
          => Stage(j, truth'[j], job_state'[j], inbox', commands')
  BY <1>4
<1>10. \A j \in Job :
         /\ Head(inbox) \notin EventsOf(j) /\ One(new, CommandsOf(j), "KILL_JOB")
         /\ job_state[j] = "RUNNING" /\ job_state'[j] = "IN_KILLING"
         => Stage(j, truth'[j], job_state'[j], inbox', commands')
  BY <1>5
<1>11. \A R \in Loans :
         /\ Head(inbox) \notin EventsOn(R) /\ None(new, CommandsOn(R))
         /\ R \in DOMAIN to_be_removed_resources' <=> R \in DOMAIN to_be_removed_resources
         /\ R \cap available_resources = {} => R \cap available_resources' = {}
         => LoanStage(R, loan'[R], inbox', commands', R \in DOMAIN to_be_removed_resources',
                      R \cap available_resources' = {})
  BY <1>6
<1>12. \A R \in Loans : \A j \in Holders :
         /\ allocation[j] \cap R # {}
         /\ Head(inbox) \notin EventsOf(j) /\ None(new, CommandsOn(R))
         /\ \/ R \in DOMAIN to_be_removed_resources' => R \in DOMAIN to_be_removed_resources
            \/ job_state'[j] = "IN_KILLING"
         /\ job_state'[j] \in {job_state[j], "IN_KILLING"}
         => Leaves(R, j)'
  BY <1>7
<1> QED
  BY <1>8, <1>9, <1>10, <1>11, <1>12

\* What is handled.
LEMMA HandlingIs ==
  ASSUME TypeInv, NEW type, Handling(type)
  PROVE  /\ Head(inbox) \in BebidaEvent /\ Head(inbox).type = type
         /\ inbox \in Seq(BebidaEvent) /\ inbox # <<>> /\ inbox' = Tail(inbox)
         /\ commands \in Seq(BebidaCommand) /\ loop = "scheduler"
         /\ UNCHANGED <<truth, loan, registration, demand>>
BY Pop DEF Handling, TypeInv, sim_vars

\* An event about one job.
LEMMA HandlingJob ==
  ASSUME TypeInv, NEW type \in Lifecycle, Handling(type)
  PROVE  /\ TheJob \in Job
         /\ \A k \in Job : Head(inbox) \in EventsOf(k) <=> k = TheJob
         /\ \A R : Head(inbox) \notin EventsOn(R)
         /\ ~None(inbox, EventsOf(TheJob))
         /\ \A t : One(inbox, EventsOf(TheJob), t) => type = t /\ None(inbox', EventsOf(TheJob))
         /\ \A t, u : Two(inbox, EventsOf(TheJob), t, u) => type = t /\ One(inbox', EventsOf(TheJob), u)
<1>1. Head(inbox) \in BebidaEvent /\ Head(inbox).type = type
  BY HandlingIs
<1>2. PICK j \in Job : Head(inbox).jobs = {j} /\ \A k \in Job : Head(inbox) \in EventsOf(k) <=> k = j
  BY <1>1, EventKinds
<1>3. TheJob = j
  BY <1>2 DEF TheJob
<1>4. \A R : Head(inbox) \notin EventsOn(R)
  BY <1>1 DEF EventsOn, Lifecycle, LoanEvent
<1>5. /\ inbox \in Seq(BebidaEvent) /\ inbox # <<>> /\ inbox' = Tail(inbox)
      /\ Head(inbox) \in EventsOf(j)
  BY <1>2, HandlingIs
<1>6. /\ ~None(inbox, EventsOf(j))
      /\ \A t : One(inbox, EventsOf(j), t) => type = t /\ None(inbox', EventsOf(j))
      /\ \A t, u : Two(inbox, EventsOf(j), t, u) => type = t /\ One(inbox', EventsOf(j), u)
  BY <1>1, <1>5, TailTakes
<1> QED
  BY <1>2, <1>3, <1>4, <1>6

\* The command of bs.kill_jobs.
LEMMA KillCommandIs ==
  ASSUME NEW jobs \in SUBSET Job
  PROVE  /\ KillCommand(jobs) \in Seq(BebidaCommand)
         /\ \A k \in Job : k \in jobs => One(KillCommand(jobs), CommandsOf(k), "KILL_JOB")
         /\ \A k \in Job : k \notin jobs => None(KillCommand(jobs), CommandsOf(k))
         /\ \A R : None(KillCommand(jobs), CommandsOn(R))
         /\ \A i \in DOMAIN KillCommand(jobs) : KillCommand(jobs)[i].type \notin {"EXECUTE_JOB", "NOTIFY"}
<1> DEFINE c == Command("KILL_JOB", jobs, {})
<1>1. c \in BebidaCommand /\ c.type = "KILL_JOB" /\ c.jobs = jobs
  BY Made
<1>2. /\ \A k \in Job : c \in CommandsOf(k) <=> k \in jobs
      /\ \A R : c \notin CommandsOn(R)
  BY <1>1 DEF CommandsOf, CommandsOn, JobCommand
<1>3. KillCommand(jobs) = IF jobs = {} THEN <<>> ELSE <<c>>
  BY DEF KillCommand
<1> HIDE DEF c
<1>4. CASE jobs = {}
  BY <1>3, <1>4, Nobody
<1>5. CASE jobs # {}
  <2> DEFINE one == <<c>>
  <2>1. KillCommand(jobs) = one
    BY <1>3, <1>5
  <2>2. one \in Seq(BebidaCommand) /\ \A i \in DOMAIN one : one[i].type \notin {"EXECUTE_JOB", "NOTIFY"}
    BY <1>1
  <2>3. /\ \A k \in Job : k \in jobs => One(one, CommandsOf(k), "KILL_JOB")
        /\ \A k \in Job : k \notin jobs => None(one, CommandsOf(k))
        /\ \A R : None(one, CommandsOn(R))
    BY <1>1, <1>2, Single
  <2> HIDE DEF one
  <2> QED
    BY <2>1, <2>2, <2>3
<1> QED
  BY <1>4, <1>5

\* A job is in the queue.
LEMMA onJobSubmissionSound ==
  ASSUME TypeInv, Sound, onJobSubmission
  PROVE  Sound'
<1> DEFINE j == TheJob
           none == <<>>
<1>1. /\ Handling("JOB_SUBMITTED")
      /\ job_state'  = [job_state EXCEPT ![j] = "SUBMITTED"]
      /\ allocation' = [allocation EXCEPT ![j] = {}]
      /\ UNCHANGED <<loop, commands, free_resources, available_resources, to_be_removed_resources>>
  BY DEF onJobSubmission
<1>2. none \in Seq(BebidaCommand) /\ commands' = commands \o none /\ \A A : None(none, A)
      /\ \A i \in DOMAIN none : none[i].type \notin {"EXECUTE_JOB", "NOTIFY"}
  BY <1>1, Nobody DEF TypeInv
<1>3. /\ j \in Job
      /\ \A k \in Job : Head(inbox) \in EventsOf(k) <=> k = j
      /\ \A R : Head(inbox) \notin EventsOn(R)
      /\ ~None(inbox, EventsOf(j))
      /\ \A t : One(inbox, EventsOf(j), t) => "JOB_SUBMITTED" = t /\ None(inbox', EventsOf(j))
      /\ \A t, u : Two(inbox, EventsOf(j), t, u) => "JOB_SUBMITTED" = t
  BY <1>1, HandlingJob DEF Lifecycle
<1> HIDE DEF j, none
<1>4. Stage(j, truth[j], job_state[j], inbox, commands)
  BY <1>3 DEF Sound, Lives
<1>5. /\ truth[j] = "queued" /\ job_state[j] \in {"UNKNOWN", "IN_SUBMISSON"}
      /\ None(inbox', EventsOf(j)) /\ None(commands, CommandsOf(j))
  BY <1>3, <1>4 DEF Stage
<1>6. /\ job_state'[j] = "SUBMITTED" /\ \A k \in Job \ {j} : job_state'[k] = job_state[k]
      /\ \A k \in Job \ {j} : allocation'[k] = allocation[k]
      /\ UNCHANGED truth
  BY <1>1, <1>3, HandlingIs DEF TypeInv
<1>7. Lives'
  <2>1. Stage(j, truth'[j], job_state'[j], inbox', commands')
    BY <1>1, <1>5, <1>6 DEF Stage
  <2>2. \A k \in Job \ {j} : Stage(k, truth'[k], job_state'[k], inbox', commands')
    BY <1>1, <1>2, <1>3, <1>6, HandlingKeeps
  <2> QED
    BY <2>1, <2>2 DEF Lives
<1>8. Loaned'
  <2>1. \A R \in Loans : LoanStage(R, loan'[R], inbox', commands', R \in DOMAIN to_be_removed_resources',
                                   R \cap available_resources' = {})
    BY <1>1, <1>2, <1>3, HandlingKeeps
  <2> QED
    BY <2>1 DEF Loaned
<1>9. Holders' = Holders /\ \A k \in Holders : k \in Job \ {j} /\ allocation'[k] = allocation[k]
  BY <1>3, <1>5, <1>6 DEF Holders, InState
<1>10. Vacated'
  <2>1. \A R \in Loans : \A k \in Holders : allocation[k] \cap R # {} => Leaves(R, k)'
    BY <1>1, <1>2, <1>3, <1>6, <1>9, HandlingKeeps
  <2> QED
    BY <1>9, <2>1 DEF Vacated
<1>11. Apart' /\ NotFree'
  BY <1>1, <1>9 DEF Sound, Apart, NotFree
<1>12. Quiet' /\ Closed'
  <2>1. \A k \in Job : job_state[k] = "COMPLETED_SUCCESSFULLY" => job_state'[k] = "COMPLETED_SUCCESSFULLY"
    BY <1>5, <1>6
  <2> QED
    BY <1>1, <1>2, <2>1, HandlingKeeps
<1> QED
  BY <1>7, <1>8, <1>10, <1>11, <1>12 DEF Sound

\* There are no more static jobs.
LEMMA onNoMoreJobsInWorkloadsSound ==
  ASSUME TypeInv, Sound, onNoMoreJobsInWorkloads
  PROVE  Sound'
<1> DEFINE none == <<>>
<1>1. /\ Handling("NOTIFY")
      /\ UNCHANGED <<loop, commands, job_state, allocation, free_resources, available_resources,
                     to_be_removed_resources>>
  BY DEF onNoMoreJobsInWorkloads
<1>2. none \in Seq(BebidaCommand) /\ commands' = commands \o none /\ \A A : None(none, A)
      /\ \A i \in DOMAIN none : none[i].type \notin {"EXECUTE_JOB", "NOTIFY"}
  BY <1>1, Nobody DEF TypeInv
<1> HIDE DEF none
<1>3. /\ \A k \in Job : Head(inbox) \notin EventsOf(k)
      /\ \A R : Head(inbox) \notin EventsOn(R)
  BY <1>1, HandlingIs, EventKinds DEF Lifecycle, LoanEvent
<1>4. Holders' = Holders
  BY <1>1 DEF Holders, InState
<1>5. Lives'
  BY <1>1, <1>2, <1>3, HandlingKeeps DEF Lives
<1>6. Loaned'
  <2>1. \A R \in Loans : LoanStage(R, loan'[R], inbox', commands', R \in DOMAIN to_be_removed_resources',
                                   R \cap available_resources' = {})
    BY <1>1, <1>2, <1>3, HandlingKeeps
  <2> QED
    BY <2>1 DEF Loaned
<1>7. Vacated'
  <2>1. \A k \in Holders : k \in Job
    BY DEF Holders, InState
  <2>2. \A R \in Loans : \A k \in Holders : allocation[k] \cap R # {} => Leaves(R, k)'
    BY <1>1, <1>2, <1>3, <2>1, HandlingKeeps
  <2> QED
    BY <1>1, <1>4, <2>2 DEF Vacated
<1>8. Apart' /\ NotFree'
  BY <1>1, <1>4 DEF Sound, Apart, NotFree
<1>9. Quiet' /\ Closed'
  BY <1>1, <1>2, HandlingKeeps
<1> QED
  BY <1>5, <1>6, <1>7, <1>8, <1>9 DEF Sound

\* A job has ended by itself; others are killed that want its machines.
LEMMA onJobCompletionSound ==
  ASSUME TypeInv, Sound, onJobCompletion
  PROVE  Sound'
<1> DEFINE j      == TheJob
           states == [job_state EXCEPT ![j] = "COMPLETED_SUCCESSFULLY"]
           jobs   == Unbalanced(states, free_resources')
           new    == KillCommand(jobs)
<1>1. /\ Handling("JOB_COMPLETED")
      /\ free_resources' = free_resources \cup allocation[j]
      /\ job_state' = Killing(jobs, states) /\ commands' = commands \o new
      /\ UNCHANGED <<loop, allocation, available_resources, to_be_removed_resources>>
  BY DEF onJobCompletion, load_balance_jobs
<1>2. /\ j \in Job
      /\ \A k \in Job : Head(inbox) \in EventsOf(k) <=> k = j
      /\ \A R : Head(inbox) \notin EventsOn(R)
      /\ ~None(inbox, EventsOf(j))
      /\ \A t : One(inbox, EventsOf(j), t) => "JOB_COMPLETED" = t /\ None(inbox', EventsOf(j))
      /\ \A t, u : Two(inbox, EventsOf(j), t, u) => "JOB_COMPLETED" = t
  BY <1>1, HandlingJob DEF Lifecycle
<1> HIDE DEF j
<1>3. jobs \in SUBSET Job /\ \A k \in jobs : states[k] = "RUNNING"
  BY DEF Unbalanced, InState
<1>4. /\ states[j] = "COMPLETED_SUCCESSFULLY"
      /\ \A k \in Job \ {j} : states[k] = job_state[k]
  BY <1>2 DEF TypeInv
<1> HIDE DEF states, jobs
<1>5. /\ job_state'[j] = "COMPLETED_SUCCESSFULLY" /\ j \notin jobs
      /\ \A k \in jobs : k \in Job \ {j} /\ job_state[k] = "RUNNING" /\ job_state'[k] = "IN_KILLING"
      /\ \A k \in Job \ {j} : k \notin jobs => job_state'[k] = job_state[k]
  BY <1>1, <1>2, <1>3, <1>4 DEF Killing
<1>6. /\ new \in Seq(BebidaCommand)
      /\ \A k \in Job : k \in jobs => One(new, CommandsOf(k), "KILL_JOB")
      /\ \A k \in Job : k \notin jobs => None(new, CommandsOf(k))
      /\ \A R : None(new, CommandsOn(R))
      /\ \A i \in DOMAIN new : new[i].type \notin {"EXECUTE_JOB", "NOTIFY"}
  BY <1>3, KillCommandIs
<1> HIDE DEF new
<1>7. Stage(j, truth[j], job_state[j], inbox, commands)
  BY <1>2 DEF Sound, Lives
<1>8. /\ truth[j] = "over" /\ job_state[j] \in {"RUNNING", "IN_KILLING"}
      /\ None(inbox', EventsOf(j))
      /\ None(commands, CommandsOf(j)) \/ One(commands, CommandsOf(j), "KILL_JOB")
  BY <1>2, <1>7 DEF Stage
<1>9. Lives'
  <2>1. Kept(commands, commands', CommandsOf(j))
    BY <1>1, <1>2, <1>5, <1>6, JoinKeeps DEF TypeInv
  <2>2. truth' = truth
    BY <1>1, HandlingIs
  <2>3. Stage(j, truth'[j], job_state'[j], inbox', commands')
    BY <1>5, <1>8, <2>1, <2>2 DEF Stage, Kept
  <2>4. \A k \in jobs : Stage(k, truth'[k], job_state'[k], inbox', commands')
    BY <1>1, <1>2, <1>5, <1>6, HandlingKeeps
  <2>5. \A k \in Job \ {j} : k \notin jobs => Stage(k, truth'[k], job_state'[k], inbox', commands')
    BY <1>1, <1>2, <1>5, <1>6, HandlingKeeps
  <2> QED
    BY <2>3, <2>4, <2>5 DEF Lives
<1>10. Loaned'
  <2>1. \A R \in Loans : LoanStage(R, loan'[R], inbox', commands', R \in DOMAIN to_be_removed_resources',
                                   R \cap available_resources' = {})
    BY <1>1, <1>2, <1>6, HandlingKeeps
  <2> QED
    BY <2>1 DEF Loaned
<1>11. j \in Holders /\ Holders' = Holders \ {j} /\ \A k \in Holders : k \in Job
  BY <1>2, <1>5, <1>8 DEF Holders, InState
<1>12. Vacated'
  <2>1. \A k \in Holders' : k \in Holders /\ k \in Job \ {j} /\ job_state'[k] \in {job_state[k], "IN_KILLING"}
    BY <1>5, <1>11
  <2>2. \A R \in Loans : \A k \in Holders' : allocation[k] \cap R # {} => Leaves(R, k)'
    BY <1>1, <1>2, <1>6, <2>1, HandlingKeeps
  <2> QED
    BY <1>1, <2>2 DEF Vacated
<1>13. Apart' /\ NotFree'
  <2>1. \A k \in Holders' : k \in Holders /\ k # j
    BY <1>11
  <2>2. Apart'
    BY <1>1, <2>1 DEF Sound, Apart
  <2>3. \A k \in Holders' : /\ allocation[k] \cap allocation[j] = {}
                            /\ allocation[k] \cap free_resources \cap available_resources = {}
    BY <1>11, <2>1 DEF Sound, Apart, NotFree
  <2>4. NotFree'
    BY <1>1, <2>3 DEF NotFree
  <2> QED
    BY <2>2, <2>4
<1>14. Quiet' /\ Closed'
  <2>1. \A k \in Job : job_state[k] = "COMPLETED_SUCCESSFULLY" => job_state'[k] = "COMPLETED_SUCCESSFULLY"
    BY <1>5
  <2> QED
    BY <1>1, <1>6, <2>1, HandlingKeeps
<1> QED
  BY <1>9, <1>10, <1>12, <1>13, <1>14 DEF Sound

\* A job was killed.
LEMMA onKilledJobCompletionSound ==
  ASSUME TypeInv, Sound, onKilledJobCompletion
  PROVE  Sound'
<1> DEFINE j == TheJob
           none == <<>>
<1>1. /\ Handling("COMPLETED_KILLED")
      /\ job_state' = [job_state EXCEPT ![j] = "COMPLETED_KILLED"]
      /\ free_resources' = free_resources \cup (allocation[j] \cap available_resources)
      /\ UNCHANGED <<loop, commands, allocation, available_resources, to_be_removed_resources>>
  BY DEF onKilledJobCompletion
<1>2. none \in Seq(BebidaCommand) /\ commands' = commands \o none /\ \A A : None(none, A)
      /\ \A i \in DOMAIN none : none[i].type \notin {"EXECUTE_JOB", "NOTIFY"}
  BY <1>1, Nobody DEF TypeInv
<1>3. /\ j \in Job
      /\ \A k \in Job : Head(inbox) \in EventsOf(k) <=> k = j
      /\ \A R : Head(inbox) \notin EventsOn(R)
      /\ ~None(inbox, EventsOf(j))
      /\ \A t : One(inbox, EventsOf(j), t) => "COMPLETED_KILLED" = t
      /\ \A t, u : Two(inbox, EventsOf(j), t, u) => One(inbox', EventsOf(j), u)
  BY <1>1, HandlingJob DEF Lifecycle
<1> HIDE DEF j, none
<1>4. Stage(j, truth[j], job_state[j], inbox, commands)
  BY <1>3 DEF Sound, Lives
<1>5. /\ truth[j] = "over" /\ job_state[j] = "IN_KILLING"
      /\ One(inbox', EventsOf(j), "JOB_KILLED") /\ None(commands, CommandsOf(j))
  BY <1>3, <1>4 DEF Stage
<1>6. /\ job_state'[j] = "COMPLETED_KILLED" /\ \A k \in Job \ {j} : job_state'[k] = job_state[k]
      /\ UNCHANGED truth
  BY <1>1, <1>3, HandlingIs DEF TypeInv
<1>7. Lives'
  <2>1. Stage(j, truth'[j], job_state'[j], inbox', commands')
    BY <1>1, <1>5, <1>6 DEF Stage
  <2>2. \A k \in Job \ {j} : Stage(k, truth'[k], job_state'[k], inbox', commands')
    BY <1>1, <1>2, <1>3, <1>6, HandlingKeeps
  <2> QED
    BY <2>1, <2>2 DEF Lives
<1>8. Loaned'
  <2>1. \A R \in Loans : LoanStage(R, loan'[R], inbox', commands', R \in DOMAIN to_be_removed_resources',
                                   R \cap available_resources' = {})
    BY <1>1, <1>2, <1>3, HandlingKeeps
  <2> QED
    BY <2>1 DEF Loaned
<1>9. j \in Holders /\ Holders' = Holders \ {j} /\ \A k \in Holders : k \in Job
  BY <1>3, <1>5, <1>6 DEF Holders, InState
<1>10. Vacated'
  <2>1. \A k \in Holders' : k \in Holders /\ k \in Job \ {j} /\ job_state'[k] = job_state[k]
    BY <1>6, <1>9
  <2>2. \A R \in Loans : \A k \in Holders' : allocation[k] \cap R # {} => Leaves(R, k)'
    BY <1>1, <1>2, <1>3, <2>1, HandlingKeeps
  <2> QED
    BY <1>1, <2>2 DEF Vacated
<1>11. Apart' /\ NotFree'
  <2>1. \A k \in Holders' : k \in Holders /\ k # j
    BY <1>9
  <2>2. Apart'
    BY <1>1, <2>1 DEF Sound, Apart
  <2>3. \A k \in Holders' : /\ allocation[k] \cap allocation[j] = {}
                            /\ allocation[k] \cap free_resources \cap available_resources = {}
    BY <1>9, <2>1 DEF Sound, Apart, NotFree
  <2>4. NotFree'
    BY <1>1, <2>3 DEF NotFree
  <2> QED
    BY <2>2, <2>4
<1>12. Quiet' /\ Closed'
  <2>1. \A k \in Job : job_state[k] = "COMPLETED_SUCCESSFULLY" => job_state'[k] = "COMPLETED_SUCCESSFULLY"
    BY <1>5, <1>6
  <2> QED
    BY <1>1, <1>2, <2>1, HandlingKeeps
<1> QED
  BY <1>7, <1>8, <1>10, <1>11, <1>12 DEF Sound

\* An event about a loan.
LEMMA HandlingLoan ==
  ASSUME TypeInv, NEW type \in LoanEvent, Handling(type)
  PROVE  /\ Head(inbox).machines \in Loans
         /\ \A R : Head(inbox) \in EventsOn(R) <=> R = Head(inbox).machines
         /\ \A k \in Job : Head(inbox) \notin EventsOf(k)
         /\ \A A : Head(inbox) \in A =>
              /\ ~None(inbox, A)
              /\ \A t : One(inbox, A, t) => type = t /\ None(inbox', A)
              /\ \A t, u : Two(inbox, A, t, u) => type = t /\ One(inbox', A, u)
<1>1. /\ Head(inbox) \in BebidaEvent /\ Head(inbox).type = type
      /\ inbox \in Seq(BebidaEvent) /\ inbox # <<>> /\ inbox' = Tail(inbox)
  BY HandlingIs
<1>2. type \notin Lifecycle \cup {"JOB_KILLED"}
  BY DEF Lifecycle, LoanEvent
<1>3. \A A : Head(inbox) \in A =>
              /\ ~None(inbox, A)
              /\ \A t : One(inbox, A, t) => type = t /\ None(inbox', A)
              /\ \A t, u : Two(inbox, A, t, u) => type = t /\ One(inbox', A, u)
  BY <1>1, TailTakes
<1>4. /\ Head(inbox).machines \in Loans
      /\ \A R : Head(inbox) \in EventsOn(R) <=> R = Head(inbox).machines
      /\ \A k \in Job : Head(inbox) \notin EventsOf(k)
  BY <1>1, <1>2, EventKinds
<1> QED
  BY <1>3, <1>4

\* Machines are lent again: no job is on them any more.
LEMMA onAddResourcesSound ==
  ASSUME TypeInv, Sound, onAddResources
  PROVE  Sound'
<1> DEFINE R    == Head(inbox).machines
           jobs == Unbalanced(job_state, free_resources')
           new  == KillCommand(jobs)
<1>1. /\ Handling("ADD_RESOURCES")
      /\ available_resources' = available_resources \cup R
      /\ free_resources' = free_resources \cup R
      /\ job_state' = Killing(jobs, job_state) /\ commands' = commands \o new
      /\ UNCHANGED <<loop, allocation, to_be_removed_resources>>
  BY DEF onAddResources, load_balance_jobs
<1>2. /\ R \in Loans
      /\ \A Q : Head(inbox) \in EventsOn(Q) <=> Q = R
      /\ \A k \in Job : Head(inbox) \notin EventsOf(k)
      /\ ~None(inbox, EventsOn(R))
      /\ \A t : One(inbox, EventsOn(R), t) => "ADD_RESOURCES" = t /\ None(inbox', EventsOn(R))
      /\ \A t, u : Two(inbox, EventsOn(R), t, u) => "ADD_RESOURCES" = t /\ One(inbox', EventsOn(R), u)
  BY <1>1, HandlingLoan DEF LoanEvent
<1> HIDE DEF R
<1>3. Head(inbox) \in AddsOf(R)
  BY <1>1, <1>2, HandlingIs DEF AddsOf
<1>4. jobs \in SUBSET Job /\ \A k \in jobs : job_state[k] = "RUNNING"
  BY DEF Unbalanced, InState
<1> HIDE DEF jobs
<1>5. /\ \A k \in jobs : k \in Job /\ job_state[k] = "RUNNING" /\ job_state'[k] = "IN_KILLING"
      /\ \A k \in Job : k \notin jobs => job_state'[k] = job_state[k]
  BY <1>1, <1>4 DEF Killing
<1>6. /\ new \in Seq(BebidaCommand)
      /\ \A k \in Job : k \in jobs => One(new, CommandsOf(k), "KILL_JOB")
      /\ \A k \in Job : k \notin jobs => None(new, CommandsOf(k))
      /\ \A Q : None(new, CommandsOn(Q))
      /\ \A i \in DOMAIN new : new[i].type \notin {"EXECUTE_JOB", "NOTIFY"}
  BY <1>4, KillCommandIs
<1> HIDE DEF new
<1>7. Lives'
  <2>1. \A k \in jobs : Stage(k, truth'[k], job_state'[k], inbox', commands')
    BY <1>1, <1>2, <1>5, <1>6, HandlingKeeps
  <2>2. \A k \in Job : k \notin jobs => Stage(k, truth'[k], job_state'[k], inbox', commands')
    BY <1>1, <1>2, <1>5, <1>6, HandlingKeeps
  <2> QED
    BY <2>1, <2>2 DEF Lives
<1>8. Loaned'
  <2>1. \A Q \in Loans \ {R} : Q \cap R = {}
    BY <1>2, BebidaAssumption
  <2>2. \A Q \in Loans \ {R} : Q \cap available_resources = {} => Q \cap available_resources' = {}
    BY <1>1, <2>1
  <2>3. \A Q \in Loans \ {R} : LoanStage(Q, loan'[Q], inbox', commands', Q \in DOMAIN to_be_removed_resources',
                                         Q \cap available_resources' = {})
    BY <1>1, <1>2, <1>6, <2>2, HandlingKeeps
  <2> DEFINE awaited == R \in DOMAIN to_be_removed_resources
             out     == R \cap available_resources = {}
             still   == R \cap available_resources' = {}
  <2>4. LoanStage(R, loan[R], inbox, commands, awaited, out)
    BY <1>2 DEF Sound, Loaned
  <2> HIDE DEF awaited, out, still
  <2>5. /\ ~awaited /\ None(commands, CommandsOn(R))
        /\ \/ loan[R] = "lent" /\ None(inbox', EventsOn(R))
           \/ loan[R] = "asked" /\ One(inbox', EventsOn(R), "REMOVE_RESOURCES")
    BY <1>2, <2>4 DEF LoanStage
  <2>6. None(commands', CommandsOn(R))
    BY <1>1, <1>6, <2>5, JoinNone DEF TypeInv
  <2>7. LoanStage(R, loan'[R], inbox', commands', awaited, still)
    BY <1>1, <2>5, <2>6, HandlingIs DEF LoanStage
  <2>8. LoanStage(R, loan'[R], inbox', commands', R \in DOMAIN to_be_removed_resources',
                  R \cap available_resources' = {})
    BY <1>1, <2>7 DEF awaited, still
  <2> QED
    BY <2>3, <2>8 DEF Loaned
<1>9. Holders' = Holders /\ \A k \in Holders : k \in Job /\ job_state'[k] \in {job_state[k], "IN_KILLING"}
  BY <1>5 DEF Holders, InState
<1>10. \A k \in Holders : allocation[k] \cap R = {}
  <2> SUFFICES ASSUME NEW k \in Holders, allocation[k] \cap R # {} PROVE FALSE
    OBVIOUS
  <2>1. ~None(inbox, AddsOf(R)) /\ ~Precedes(inbox, EventsOf(k), AddsOf(R))
    BY <1>1, <1>3, HandlingIs, TailTakes, PrecedesTail
  <2>2. Leaves(R, k)
    BY <1>2 DEF Sound, Vacated
  <2> QED
    BY <2>1, <2>2 DEF Leaves
<1>11. Vacated'
  <2>1. \A Q \in Loans : \A k \in Holders : allocation[k] \cap Q # {} => Leaves(Q, k)'
    BY <1>1, <1>2, <1>6, <1>9, HandlingKeeps
  <2> QED
    BY <1>1, <1>9, <2>1 DEF Vacated
<1>12. Apart' /\ NotFree'
  <2>1. Apart'
    BY <1>1, <1>9 DEF Sound, Apart
  <2>2. \A k \in Holders : /\ allocation[k] \cap R = {}
                           /\ allocation[k] \cap free_resources \cap available_resources = {}
    BY <1>10 DEF Sound, NotFree
  <2>3. NotFree'
    BY <1>1, <1>9, <2>2 DEF NotFree
  <2> QED
    BY <2>1, <2>3
<1>13. Quiet' /\ Closed'
  <2>1. \A k \in Job : job_state[k] = "COMPLETED_SUCCESSFULLY" => job_state'[k] = "COMPLETED_SUCCESSFULLY"
    BY <1>5
  <2> QED
    BY <1>1, <1>6, <2>1, HandlingKeeps
<1> QED
  BY <1>7, <1>8, <1>11, <1>12, <1>13 DEF Sound

\* Machines are asked back: the jobs on them are killed, or there is none and
\* they are given back at once.
LEMMA onRemoveResourcesSound ==
  ASSUME TypeInv, Sound, onRemoveResources
  PROVE  Sound'
<1> DEFINE R    == Head(inbox).machines
           jobs == On(R, InState(job_state, "RUNNING"))
           back == Command("RESOURCES_REMOVED", {}, R)
           given == <<back>>
           new  == IF Blockers(R) = {} THEN given ELSE KillCommand(jobs)
<1>1. /\ Handling("REMOVE_RESOURCES")
      /\ available_resources' = available_resources \ R
      /\ job_state' = Killing(jobs, job_state)
      /\ UNCHANGED <<loop, allocation, free_resources>>
  BY DEF onRemoveResources
<1>2. /\ R \in Loans
      /\ \A Q : Head(inbox) \in EventsOn(Q) <=> Q = R
      /\ \A k \in Job : Head(inbox) \notin EventsOf(k)
      /\ ~None(inbox, EventsOn(R))
      /\ \A t : One(inbox, EventsOn(R), t) => "REMOVE_RESOURCES" = t /\ None(inbox', EventsOn(R))
      /\ \A t, u : Two(inbox, EventsOn(R), t, u) => "REMOVE_RESOURCES" = t
  BY <1>1, HandlingLoan DEF LoanEvent
<1>3. /\ back \in BebidaCommand /\ back.type = "RESOURCES_REMOVED" /\ back.machines = R
      /\ \A k \in Job : back \notin CommandsOf(k)
      /\ \A Q : back \in CommandsOn(Q) <=> Q = R
  <2>1. back \in BebidaCommand /\ back.type = "RESOURCES_REMOVED" /\ back.machines = R
    BY <1>2, Made
  <2> QED
    BY <2>1 DEF CommandsOf, CommandsOn, JobCommand
<1>4. /\ Blockers(R) = {} => UNCHANGED to_be_removed_resources
      /\ Blockers(R) # {} => DOMAIN to_be_removed_resources' = DOMAIN to_be_removed_resources \cup {R}
  BY DEF onRemoveResources
<1>5. commands' = commands \o new
  BY AppendIsConcat, <1>3 DEF onRemoveResources, TypeInv
<1> HIDE DEF R, back
<1>6. /\ jobs \in SUBSET Job /\ \A k \in Job : k \in jobs <=> job_state[k] = "RUNNING" /\ allocation[k] \cap R # {}
      /\ \A k \in Job : k \in Blockers(R) <=> k \in Holders /\ allocation[k] \cap R # {}
      /\ Blockers(R) = {} => jobs = {}
  BY DEF On, Blockers, Holders, InState
<1> HIDE DEF jobs
<1>7. /\ \A k \in jobs : k \in Job /\ job_state[k] = "RUNNING" /\ job_state'[k] = "IN_KILLING"
      /\ \A k \in Job : k \notin jobs => job_state'[k] = job_state[k]
  BY <1>1, <1>6 DEF Killing
<1>8. /\ given \in Seq(BebidaCommand)
      /\ \A k \in Job : None(given, CommandsOf(k))
      /\ One(given, CommandsOn(R), "RESOURCES_REMOVED")
      /\ \A Q : Q # R => None(given, CommandsOn(Q))
      /\ \A i \in DOMAIN given : given[i].type \notin {"EXECUTE_JOB", "NOTIFY"}
  BY <1>3, Single
<1> HIDE DEF given
<1>9. /\ new \in Seq(BebidaCommand)
      /\ \A k \in Job : k \in jobs => One(new, CommandsOf(k), "KILL_JOB")
      /\ \A k \in Job : k \notin jobs => None(new, CommandsOf(k))
      /\ \A Q : Q # R => None(new, CommandsOn(Q))
      /\ \A i \in DOMAIN new : new[i].type \notin {"EXECUTE_JOB", "NOTIFY"}
      /\ Blockers(R) = {} => One(new, CommandsOn(R), "RESOURCES_REMOVED")
      /\ Blockers(R) # {} => None(new, CommandsOn(R))
  <2>1. CASE Blockers(R) = {}
    BY <1>6, <1>8, <2>1
  <2>2. CASE Blockers(R) # {}
    BY <1>6, <2>2, KillCommandIs
  <2> QED
    BY <2>1, <2>2
<1> HIDE DEF new
<1>10. Lives'
  <2>1. \A k \in jobs : Stage(k, truth'[k], job_state'[k], inbox', commands')
    BY <1>1, <1>2, <1>5, <1>7, <1>9, HandlingKeeps
  <2>2. \A k \in Job : k \notin jobs => Stage(k, truth'[k], job_state'[k], inbox', commands')
    BY <1>1, <1>2, <1>5, <1>7, <1>9, HandlingKeeps
  <2> QED
    BY <2>1, <2>2 DEF Lives
<1>11. Loaned'
  <2>1. ASSUME NEW Q \in Loans, Q # R
        PROVE  LoanStage(Q, loan'[Q], inbox', commands', Q \in DOMAIN to_be_removed_resources',
                         Q \cap available_resources' = {})
    <3>1. Q \in DOMAIN to_be_removed_resources' <=> Q \in DOMAIN to_be_removed_resources
      BY <1>4, <2>1
    <3>2. Q \cap available_resources = {} => Q \cap available_resources' = {}
      BY <1>1
    <3>3. Head(inbox) \notin EventsOn(Q) /\ None(new, CommandsOn(Q))
      BY <1>2, <1>9, <2>1
    <3> QED
      BY <1>1, <1>5, <1>9, <3>1, <3>2, <3>3, HandlingKeeps
  <2> DEFINE awaited == R \in DOMAIN to_be_removed_resources
             out     == R \cap available_resources = {}
  <2>2. LoanStage(R, loan[R], inbox, commands, awaited, out)
    BY <1>2 DEF Sound, Loaned
  <2>3. loan[R] = "asked" /\ ~awaited /\ None(inbox', EventsOn(R)) /\ None(commands, CommandsOn(R))
    <3> HIDE DEF awaited, out
    <3> QED
      BY <1>2, <2>2 DEF LoanStage
  <2>4. loan'[R] = "asked" /\ R \cap available_resources' = {}
    BY <1>1, <2>3, HandlingIs
  <2>5. CASE Blockers(R) = {}
    <3>1. One(commands', CommandsOn(R), "RESOURCES_REMOVED")
      BY <1>5, <1>9, <2>3, <2>5, JoinBrings DEF Kept, TypeInv
    <3>2. R \notin DOMAIN to_be_removed_resources'
      BY <1>4, <2>3, <2>5
    <3> QED
      BY <2>1, <2>3, <2>4, <3>1, <3>2 DEF Loaned, LoanStage
  <2>6. CASE Blockers(R) # {}
    <3>1. None(commands', CommandsOn(R))
      BY <1>5, <1>9, <2>3, <2>6, JoinNone DEF TypeInv
    <3>2. R \in DOMAIN to_be_removed_resources'
      BY <1>4, <2>6
    <3> QED
      BY <2>1, <2>3, <2>4, <3>1, <3>2 DEF Loaned, LoanStage
  <2> QED
    BY <2>5, <2>6
<1>12. Holders' = Holders /\ \A k \in Holders : k \in Job /\ job_state'[k] \in {job_state[k], "IN_KILLING"}
  BY <1>7 DEF Holders, InState
<1>13. Vacated'
  <2>1. ASSUME NEW Q \in Loans, NEW k \in Holders, allocation[k] \cap Q # {}
        PROVE  Leaves(Q, k)'
    <3>1. CASE Q = R
      <4>1. k \in Blockers(R)
        BY <1>6, <1>12, <2>1, <3>1
      <4>2. job_state'[k] = "IN_KILLING"
        BY <1>6, <1>7, <1>12, <2>1, <3>1 DEF Holders, InState
      <4>3. None(new, CommandsOn(Q)) /\ Head(inbox) \notin EventsOf(k)
        BY <1>2, <1>9, <1>12, <3>1, <4>1
      <4> QED
        BY <1>1, <1>5, <1>9, <2>1, <4>2, <4>3, HandlingKeeps
    <3>2. CASE Q # R
      <4>1. Q \in DOMAIN to_be_removed_resources' => Q \in DOMAIN to_be_removed_resources
        BY <1>4, <3>2
      <4>2. None(new, CommandsOn(Q)) /\ Head(inbox) \notin EventsOf(k)
        BY <1>2, <1>9, <1>12, <3>2
      <4> QED
        BY <1>1, <1>5, <1>9, <1>12, <2>1, <4>1, <4>2, HandlingKeeps
    <3> QED
      BY <3>1, <3>2
  <2> QED
    BY <1>1, <1>12, <2>1 DEF Vacated
<1>14. Apart' /\ NotFree'
  BY <1>1, <1>12 DEF Sound, Apart, NotFree
<1>15. Quiet' /\ Closed'
  <2>1. \A k \in Job : job_state[k] = "COMPLETED_SUCCESSFULLY" => job_state'[k] = "COMPLETED_SUCCESSFULLY"
    BY <1>7
  <2> QED
    BY <1>1, <1>5, <1>9, <2>1, HandlingKeeps
<1> QED
  BY <1>10, <1>11, <1>13, <1>14, <1>15 DEF Sound

\* The commands of onJobsKilled: the loans that are given back ...
LEMMA GivenBack ==
  ASSUME NEW given \in SUBSET Loans, NEW f, OneEach(f, given), NEW rr, DOMAIN rr = DOMAIN f,
         \A i \in DOMAIN rr : /\ rr[i] \in BebidaCommand
                              /\ rr[i].type = "RESOURCES_REMOVED" /\ rr[i].machines = f[i]
  PROVE  /\ \A R \in Loans : R \in given => One(rr, CommandsOn(R), "RESOURCES_REMOVED")
         /\ \A R \in Loans : R \notin given => None(rr, CommandsOn(R))
         /\ \A k : None(rr, CommandsOf(k))
<1>1. \A i \in DOMAIN rr : /\ \A k : rr[i] \notin CommandsOf(k)
                           /\ \A R : rr[i] \in CommandsOn(R) <=> f[i] = R
  BY DEF CommandsOf, CommandsOn, JobCommand
<1>2. ASSUME NEW R \in Loans
      PROVE  /\ R \in given => One(rr, CommandsOn(R), "RESOURCES_REMOVED")
             /\ R \notin given => None(rr, CommandsOn(R))
  <2> DEFINE A == CommandsOn(R)
  <2>1. \A i \in DOMAIN rr : rr[i].type = "RESOURCES_REMOVED" /\ (rr[i] \in A <=> f[i] = R)
    BY <1>1
  <2> HIDE DEF A
  <2>2. R \in given => One(rr, A, "RESOURCES_REMOVED")
    BY <2>1, EachOnce
  <2>3. R \notin given => None(rr, A)
    BY <2>1 DEF None, OneEach
  <2> QED
    BY <2>2, <2>3 DEF A
<1> QED
  BY <1>1, <1>2 DEF None

\* ... and the jobs that are registered again.
LEMMA RegisteredAgain ==
  ASSUME NEW jobs \in SUBSET Job, NEW g, OneEach(g, jobs), NEW reg, DOMAIN reg = DOMAIN g,
         \A i \in DOMAIN reg : /\ reg[i] \in BebidaCommand
                               /\ reg[i].type = "REGISTER_JOB" /\ reg[i].jobs = {g[i]}
  PROVE  /\ \A k \in Job : k \in jobs => One(reg, CommandsOf(k), "REGISTER_JOB")
         /\ \A k \in Job : k \notin jobs => None(reg, CommandsOf(k))
         /\ \A R : None(reg, CommandsOn(R))
<1>1. \A i \in DOMAIN reg : /\ \A k : reg[i] \in CommandsOf(k) <=> g[i] = k
                            /\ \A R : reg[i] \notin CommandsOn(R)
  BY DEF CommandsOf, CommandsOn, JobCommand
<1>2. ASSUME NEW k \in Job
      PROVE  /\ k \in jobs => One(reg, CommandsOf(k), "REGISTER_JOB")
             /\ k \notin jobs => None(reg, CommandsOf(k))
  <2>1. \A i \in DOMAIN reg : reg[i].type = "REGISTER_JOB" /\ (reg[i] \in CommandsOf(k) <=> g[i] = k)
    BY <1>1
  <2> QED
    BY <2>1, EachOnce
<1> QED
  BY <1>1, <1>2 DEF None

\* Both, one after the other.
LEMMA KilledCommands ==
  ASSUME NEW given, NEW jobs, NEW rr \in Seq(BebidaCommand), NEW reg \in Seq(BebidaCommand),
         \A R \in Loans : R \in given => One(rr, CommandsOn(R), "RESOURCES_REMOVED"),
         \A R \in Loans : R \notin given => None(rr, CommandsOn(R)),
         \A k : None(rr, CommandsOf(k)),
         \A k \in Job : k \in jobs => One(reg, CommandsOf(k), "REGISTER_JOB"),
         \A k \in Job : k \notin jobs => None(reg, CommandsOf(k)),
         \A R : None(reg, CommandsOn(R)),
         \A i \in DOMAIN rr : rr[i].type = "RESOURCES_REMOVED",
         \A i \in DOMAIN reg : reg[i].type = "REGISTER_JOB"
  PROVE  /\ rr \o reg \in Seq(BebidaCommand)
         /\ \A k \in Job : k \in jobs => One(rr \o reg, CommandsOf(k), "REGISTER_JOB")
         /\ \A k \in Job : k \notin jobs => None(rr \o reg, CommandsOf(k))
         /\ \A R \in Loans : R \in given => One(rr \o reg, CommandsOn(R), "RESOURCES_REMOVED")
         /\ \A R \in Loans : R \notin given => None(rr \o reg, CommandsOn(R))
         /\ \A i \in DOMAIN (rr \o reg) : (rr \o reg)[i].type \notin {"EXECUTE_JOB", "NOTIFY"}
<1> DEFINE all == rr \o reg
<1>1. /\ all \in Seq(BebidaCommand)
      /\ \A i \in DOMAIN rr : i \in DOMAIN all /\ all[i] = rr[i]
      /\ \A i \in DOMAIN reg : i + Len(rr) \in DOMAIN all /\ all[i + Len(rr)] = reg[i]
      /\ \A i \in DOMAIN all : i \in DOMAIN rr \/ \E k \in DOMAIN reg : i = k + Len(rr)
  BY JoinPlaces
<1>2. \A k \in Job : k \in jobs => One(all, CommandsOf(k), "REGISTER_JOB")
  BY JoinBrings DEF Kept
<1>3. \A k \in Job : k \notin jobs => None(all, CommandsOf(k))
  BY JoinNone
<1>4. \A R \in Loans : R \in given => One(all, CommandsOn(R), "RESOURCES_REMOVED")
  BY JoinKeeps DEF Kept
<1>5. \A R \in Loans : R \notin given => None(all, CommandsOn(R))
  BY JoinNone
<1> HIDE DEF all
<1>6. \A i \in DOMAIN all : all[i].type \notin {"EXECUTE_JOB", "NOTIFY"}
  <2>1. ASSUME NEW i \in DOMAIN all PROVE all[i].type \notin {"EXECUTE_JOB", "NOTIFY"}
    <3>1. CASE i \in DOMAIN rr
      BY <1>1, <3>1
    <3>2. CASE \E k \in DOMAIN reg : i = k + Len(rr)
      <4>1. PICK k \in DOMAIN reg : i = k + Len(rr)
        BY <3>2
      <4>2. all[i] = reg[k]
        BY <1>1, <4>1
      <4> QED
        BY <4>1, <4>2
    <3> QED
      BY <1>1, <3>1, <3>2
  <2> QED
    BY <2>1
<1> QED
  BY <1>1, <1>2, <1>3, <1>4, <1>5, <1>6 DEF all

\* The jobs that were killed are registered again, the machines they were on
\* given back: those that are still to be killed there are killed before.
LEMMA onJobsKilledSound ==
  ASSUME TypeInv, Sound, DispatchJobKilled, Head(inbox).hit # {},
         Head(inbox).hit = Head(inbox).jobs
  PROVE  Sound' /\ commands' \in Seq(BebidaCommand)
<1> DEFINE e     == Head(inbox)
           jobs  == e.hit
           given == Answered(jobs)
           rr  == [i \in 1 .. Cardinality(given) |-> Command("RESOURCES_REMOVED", {}, SetToSeq(given)[i])]
           reg == [i \in 1 .. Cardinality(jobs) |-> Command("REGISTER_JOB", {InOrder(jobs)[i]}, {})]
           new == rr \o reg
<1>1. /\ Handling("JOB_KILLED") /\ UNCHANGED <<loop, allocation, available_resources>>
      /\ commands' = commands \o rr \o reg
      /\ free_resources' = free_resources \ UNION given
      /\ to_be_removed_resources' =
           [R \in DOMAIN to_be_removed_resources \ given |-> to_be_removed_resources[R]]
      /\ job_state' = [j \in Job |-> IF j \in jobs THEN "IN_SUBMISSON" ELSE job_state[j]]
  BY DEF DispatchJobKilled, onJobsKilled
<1>2. /\ e \in BebidaEvent /\ e.type = "JOB_KILLED"
      /\ inbox \in Seq(BebidaEvent) /\ inbox # <<>> /\ inbox' = Tail(inbox)
      /\ commands \in Seq(BebidaCommand)
      /\ UNCHANGED <<truth, loan, registration, demand>>
  BY <1>1, HandlingIs
<1>3. /\ jobs \in SUBSET Job
      /\ \A k \in Job : e \in EventsOf(k) <=> k \in jobs
      /\ \A R : e \notin EventsOn(R)
  BY <1>2, EventKinds DEF LoanEvent
<1>4. given \subseteq DOMAIN to_be_removed_resources /\ given \in SUBSET Loans
  BY DEF Answered, TypeInv
<1> HIDE DEF e, jobs, given
<1> DEFINE f == SetToSeq(given)
           g == InOrder(jobs)
<1>5. OneEach(f, given) /\ OneEach(g, jobs)
  BY <1>3, <1>4, SetToSeqHasEach, InOrderHasEach
<1> HIDE DEF f, g
<1>6. /\ DOMAIN rr = 1 .. Cardinality(given) /\ DOMAIN rr = DOMAIN f /\ Cardinality(given) \in Nat
      /\ \A i \in DOMAIN rr : /\ rr[i] \in BebidaCommand
                              /\ rr[i].type = "RESOURCES_REMOVED" /\ rr[i].machines = f[i]
  <2>1. DOMAIN rr = 1 .. Cardinality(given) /\ DOMAIN rr = DOMAIN f /\ Cardinality(given) \in Nat
    BY <1>5 DEF OneEach
  <2>2. \A i \in DOMAIN rr : rr[i] = Command("RESOURCES_REMOVED", {}, f[i]) /\ f[i] \in Loans
    BY <1>4, <1>5 DEF f, OneEach
  <2> HIDE DEF rr
  <2>3. \A i \in DOMAIN rr : f[i] \in Loans
    BY <2>2
  <2> QED
    BY <2>1, <2>2, <2>3, Made
<1>7. /\ DOMAIN reg = 1 .. Cardinality(jobs) /\ DOMAIN reg = DOMAIN g /\ Cardinality(jobs) \in Nat
      /\ \A i \in DOMAIN reg : /\ reg[i] \in BebidaCommand
                               /\ reg[i].type = "REGISTER_JOB" /\ reg[i].jobs = {g[i]}
  <2>1. DOMAIN reg = 1 .. Cardinality(jobs) /\ DOMAIN reg = DOMAIN g /\ Cardinality(jobs) \in Nat
    BY <1>5 DEF OneEach
  <2>2. \A i \in DOMAIN reg : reg[i] = Command("REGISTER_JOB", {g[i]}, {}) /\ g[i] \in Job
    BY <1>3, <1>5 DEF g, OneEach
  <2> HIDE DEF reg
  <2>3. ASSUME NEW i \in DOMAIN reg
        PROVE  reg[i] \in BebidaCommand /\ reg[i].type = "REGISTER_JOB" /\ reg[i].jobs = {g[i]}
    <3> DEFINE x == g[i]
    <3>1. x \in Job /\ reg[i] = Command("REGISTER_JOB", {x}, {})
      BY <2>2
    <3> HIDE DEF x
    <3>2. reg[i] \in BebidaCommand /\ reg[i].type = "REGISTER_JOB" /\ reg[i].jobs = {x}
      BY <3>1, Made
    <3> QED
      BY <3>2 DEF x
  <2> QED
    BY <2>1, <2>3
<1>8. rr \in Seq(BebidaCommand)
  <2>1. \A i \in 1 .. Cardinality(given) : rr[i] \in BebidaCommand
    BY <1>6
  <2> QED
    BY <1>6, <2>1
<1>9. reg \in Seq(BebidaCommand)
  <2>1. \A i \in 1 .. Cardinality(jobs) : reg[i] \in BebidaCommand
    BY <1>7
  <2>2. Cardinality(jobs) \in Nat
    BY <1>7
  <2>3. reg \in [1 .. Cardinality(jobs) -> BebidaCommand]
    BY <2>1
  <2> HIDE DEF reg
  <2> QED
    BY <2>2, <2>3, SeqDef
<1> HIDE DEF rr, reg
<1>10. /\ \A R \in Loans : R \in given => One(rr, CommandsOn(R), "RESOURCES_REMOVED")
       /\ \A R \in Loans : R \notin given => None(rr, CommandsOn(R))
       /\ \A k : None(rr, CommandsOf(k))
  BY <1>4, <1>5, <1>6, GivenBack
<1>11. /\ \A k \in Job : k \in jobs => One(reg, CommandsOf(k), "REGISTER_JOB")
       /\ \A k \in Job : k \notin jobs => None(reg, CommandsOf(k))
       /\ \A R : None(reg, CommandsOn(R))
  BY <1>3, <1>5, <1>7, RegisteredAgain
<1>12. /\ \A i \in DOMAIN rr : rr[i].type = "RESOURCES_REMOVED"
       /\ \A i \in DOMAIN reg : reg[i].type = "REGISTER_JOB"
  BY <1>6, <1>7
<1>13. /\ new \in Seq(BebidaCommand)
       /\ \A k \in Job : k \in jobs => One(new, CommandsOf(k), "REGISTER_JOB")
       /\ \A k \in Job : k \notin jobs => None(new, CommandsOf(k))
       /\ \A R \in Loans : R \in given => One(new, CommandsOn(R), "RESOURCES_REMOVED")
       /\ \A R \in Loans : R \notin given => None(new, CommandsOn(R))
       /\ \A i \in DOMAIN new : new[i].type \notin {"EXECUTE_JOB", "NOTIFY"}
  <2>1. new \in Seq(BebidaCommand)
    BY <1>8, <1>9, JoinPlaces
  <2>2. /\ \A k \in Job : k \in jobs => One(new, CommandsOf(k), "REGISTER_JOB")
        /\ \A k \in Job : k \notin jobs => None(new, CommandsOf(k))
    BY <1>8, <1>9, <1>10, <1>11, <1>12, KilledCommands
  <2>3. /\ \A R \in Loans : R \in given => One(new, CommandsOn(R), "RESOURCES_REMOVED")
        /\ \A R \in Loans : R \notin given => None(new, CommandsOn(R))
    BY <1>8, <1>9, <1>10, <1>11, <1>12, KilledCommands
  <2>4. \A i \in DOMAIN new : new[i].type \notin {"EXECUTE_JOB", "NOTIFY"}
    BY <1>8, <1>9, <1>10, <1>11, <1>12, KilledCommands
  <2> HIDE DEF new
  <2> QED
    BY <2>1, <2>2, <2>3, <2>4
<1>14. commands' = commands \o new
  <2>1. commands' = (commands \o rr) \o reg
    BY <1>1
  <2>2. commands \in Seq(BebidaCommand)
    BY <1>2
  <2>3. (commands \o rr) \o reg = commands \o (rr \o reg)
    BY <1>8, <1>9, <2>2, ConcatAssociative
  <2> QED
    BY <2>1, <2>3
<1> HIDE DEF new
<1>15. \A k \in Job : job_state'[k] = IF k \in jobs THEN "IN_SUBMISSON" ELSE job_state[k]
  BY <1>1
<1>16. ASSUME NEW k \in Job, k \in jobs
      PROVE  /\ job_state[k] = "COMPLETED_KILLED"
             /\ Stage(k, truth'[k], job_state'[k], inbox', commands')
  <2>1. Stage(k, truth[k], job_state[k], inbox, commands)
    BY DEF Sound, Lives
  <2>2. /\ ~None(inbox, EventsOf(k))
        /\ \A t : One(inbox, EventsOf(k), t) => "JOB_KILLED" = t /\ None(inbox', EventsOf(k))
        /\ \A t, u : Two(inbox, EventsOf(k), t, u) => "JOB_KILLED" = t
    BY <1>2, <1>3, <1>16, TailTakes DEF e
  <2>3. /\ truth[k] = "over" /\ job_state[k] = "COMPLETED_KILLED"
        /\ None(inbox', EventsOf(k)) /\ None(commands, CommandsOf(k))
    BY <2>1, <2>2 DEF Stage
  <2>4. One(commands', CommandsOf(k), "REGISTER_JOB")
    BY <1>2, <1>13, <1>14, <1>16, <2>3, JoinBrings DEF Kept
  <2> QED
    BY <1>2, <1>15, <1>16, <2>3, <2>4 DEF Stage
<1>17. Lives'
  <2>1. \A k \in Job : k \notin jobs => Stage(k, truth'[k], job_state'[k], inbox', commands')
    BY <1>1, <1>3, <1>13, <1>14, <1>15, HandlingKeeps DEF e
  <2> QED
    BY <1>16, <2>1 DEF Lives
<1>18. \A R : R \in DOMAIN to_be_removed_resources' <=> R \in DOMAIN to_be_removed_resources /\ R \notin given
  BY <1>1
<1>19. ASSUME NEW R \in given
       PROVE  /\ R \in Loans /\ loan[R] = "asked" /\ None(inbox, EventsOn(R)) /\ None(commands, CommandsOn(R))
              /\ R \cap available_resources = {}
  <2> DEFINE out == R \cap available_resources = {}
  <2>1. R \in Loans /\ R \in DOMAIN to_be_removed_resources
    BY <1>4
  <2>2. LoanStage(R, loan[R], inbox, commands, TRUE, out)
    BY <2>1 DEF Sound, Loaned
  <2> HIDE DEF out
  <2>3. loan[R] = "asked" /\ None(inbox, EventsOn(R)) /\ None(commands, CommandsOn(R)) /\ out
    BY <2>2 DEF LoanStage
  <2> QED
    BY <2>1, <2>3 DEF out
<1>20. \A A : None(inbox, A) => None(inbox', A)
  BY <1>2, Pop
<1>21. Loaned'
  <2>1. \A R \in Loans : R \notin given =>
          LoanStage(R, loan'[R], inbox', commands', R \in DOMAIN to_be_removed_resources',
                    R \cap available_resources' = {})
    BY <1>1, <1>3, <1>13, <1>14, <1>18, HandlingKeeps DEF e
  <2>2. ASSUME NEW R \in given
        PROVE  LoanStage(R, loan'[R], inbox', commands', R \in DOMAIN to_be_removed_resources',
                         R \cap available_resources' = {})
    <3>1. One(commands', CommandsOn(R), "RESOURCES_REMOVED")
      BY <1>2, <1>13, <1>14, <1>19, JoinBrings DEF Kept
    <3>2. loan'[R] = "asked" /\ None(inbox', EventsOn(R)) /\ R \notin DOMAIN to_be_removed_resources'
      BY <1>2, <1>18, <1>19, <1>20
    <3> QED
      BY <1>1, <1>19, <3>1, <3>2 DEF LoanStage
  <2> QED
    BY <2>1, <2>2 DEF Loaned
<1>22. Holders' = Holders /\ \A k \in Holders : k \in Job /\ k \notin jobs /\ job_state'[k] = job_state[k]
  BY <1>15, <1>16 DEF Holders, InState
<1>23. Vacated'
  <2>1. ASSUME NEW R \in Loans, NEW k \in Holders, allocation[k] \cap R # {}
        PROVE  Leaves(R, k)'
    <3>1. CASE R \notin given
      <4>1. Head(inbox) \notin EventsOf(k) /\ None(new, CommandsOn(R))
        BY <1>3, <1>13, <1>22, <3>1 DEF e
      <4> QED
        BY <1>1, <1>13, <1>14, <1>18, <1>22, <2>1, <4>1, HandlingKeeps
    <3>2. CASE R \in given
      <4>1. Leaves(R, k) /\ Stage(k, truth[k], job_state[k], inbox, commands)
        BY <1>22, <2>1 DEF Sound, Vacated, Lives
      <4>2. job_state[k] = "IN_KILLING"
        BY <1>4, <3>2, <4>1 DEF Leaves
      <4>3. truth[k] = "over" \/ One(commands, CommandsOf(k), "KILL_JOB")
        BY <4>1, <4>2 DEF Stage
      <4>4. truth[k] = "over" \/ ~None(commands, KillsOf(k))
        BY <4>3 DEF One, None, KillsOf
      <4>5. truth'[k] = "over" \/ Precedes(commands', KillsOf(k), CommandsOn(R))
        BY <1>2, <1>13, <1>14, <1>19, <3>2, <4>4, PrecedesJoin
      <4>6. None(inbox', AddsOf(R))
        BY <1>19, <1>20, <3>2 DEF None, AddsOf
      <4> QED
        BY <1>2, <1>18, <1>19, <3>2, <4>5, <4>6 DEF Leaves
    <3> QED
      BY <3>1, <3>2
  <2> QED
    BY <1>1, <1>22, <2>1 DEF Vacated
<1>24. Apart' /\ NotFree'
  BY <1>1, <1>22 DEF Sound, Apart, NotFree
<1>25. Quiet' /\ Closed'
  <2>1. \A k \in Job : job_state[k] = "COMPLETED_SUCCESSFULLY" => job_state'[k] = "COMPLETED_SUCCESSFULLY"
    BY <1>15, <1>16
  <2> QED
    BY <1>1, <1>13, <1>14, <2>1, HandlingKeeps
<1>26. commands' \in Seq(BebidaCommand)
  BY <1>2, <1>13, <1>14, JoinPlaces
<1> QED
  BY <1>17, <1>21, <1>23, <1>24, <1>25, <1>26 DEF Sound

\* All had ended by themselves: no callback.
LEMMA NoneWasKilledSound ==
  ASSUME TypeInv, Sound, DispatchJobKilled, Head(inbox).hit = {}
  PROVE  Sound'
<1> DEFINE none == <<>>
<1>1. /\ Handling("JOB_KILLED")
      /\ UNCHANGED <<loop, commands, job_state, allocation, free_resources, available_resources,
                     to_be_removed_resources>>
  BY DEF DispatchJobKilled
<1>2. none \in Seq(BebidaCommand) /\ commands' = commands \o none /\ \A A : None(none, A)
      /\ \A i \in DOMAIN none : none[i].type \notin {"EXECUTE_JOB", "NOTIFY"}
  BY <1>1, Nobody DEF TypeInv
<1> HIDE DEF none
<1>3. /\ \A k \in Job : Head(inbox) \notin EventsOf(k)
      /\ \A R : Head(inbox) \notin EventsOn(R)
  BY <1>1, HandlingIs, EventKinds DEF LoanEvent
<1>4. Holders' = Holders
  BY <1>1 DEF Holders, InState
<1>5. Lives'
  BY <1>1, <1>2, <1>3, HandlingKeeps DEF Lives
<1>6. Loaned'
  <2>1. \A R \in Loans : LoanStage(R, loan'[R], inbox', commands', R \in DOMAIN to_be_removed_resources',
                                   R \cap available_resources' = {})
    BY <1>1, <1>2, <1>3, HandlingKeeps
  <2> QED
    BY <2>1 DEF Loaned
<1>7. Vacated'
  <2>1. \A k \in Holders : k \in Job
    BY DEF Holders, InState
  <2>2. \A R \in Loans : \A k \in Holders : allocation[k] \cap R # {} => Leaves(R, k)'
    BY <1>1, <1>2, <1>3, <2>1, HandlingKeeps
  <2> QED
    BY <1>1, <1>4, <2>2 DEF Vacated
<1>8. Apart' /\ NotFree'
  BY <1>1, <1>4 DEF Sound, Apart, NotFree
<1>9. Quiet' /\ Closed'
  BY <1>1, <1>2, HandlingKeeps
<1> QED
  BY <1>5, <1>6, <1>7, <1>8, <1>9 DEF Sound

\* Not all had: the loop ends with an exception, and nothing has moved.
LEMMA RaisedIsSafe ==
  ASSUME TypeInv, Sound, DispatchJobKilled, Head(inbox).hit # {},
         Head(inbox).hit # Head(inbox).jobs
  PROVE  loop' = "raised" /\ MachinesSound' /\ ClosedOnlyAtTheEnd'
<1>1. /\ loop' = "raised"
      /\ UNCHANGED <<commands, job_state, allocation, free_resources, available_resources>>
      /\ UNCHANGED <<truth, loan, registration>>
  BY DEF DispatchJobKilled, Handling, sim_vars
<1>2. MachinesSound /\ ClosedOnlyAtTheEnd
  BY SoundIsSafe
<1>3. Running' = Running /\ \A s : InState(job_state', s) = InState(job_state, s)
  BY <1>1 DEF Running, InState
<1>4. MachinesSound'
  BY <1>1, <1>2, <1>3 DEF MachinesSound
<1>5. ClosedOnlyAtTheEnd'
  BY <1>1, <1>2 DEF ClosedOnlyAtTheEnd
<1> QED
  BY <1>1, <1>4, <1>5

-----------------------------------------------------------------------------
\* onNoMoreEvents

\* A job is given machines after those of the jobs before it.
LEMMA FitsAreApart ==
  ASSUME TypeInv, NEW j \in to_schedule_jobs, NEW k \in to_schedule_jobs, j < k
  PROVE  allocate_first_fit_in_best_effort(j) \cap allocate_first_fit_in_best_effort(k) = {}
<1> DEFINE S == {l \in to_schedule_jobs : l < k}
           B == {l \in to_schedule_jobs : l < j}
           A == B \cup {j}
           Sum(T)  == SumFunctionOnSet(demand, T)
           rank(m) == Cardinality({l \in Usable : l < m})
<1>1. to_schedule_jobs \in SUBSET Job /\ NbJobs \in Nat /\ N \in Nat
  BY BebidaAssumption DEF to_schedule_jobs, InState
<1>2. /\ S \in SUBSET Job /\ A \in SUBSET S /\ B = A \ {j} /\ j \in A
      /\ \A l \in S : demand[l] \in Nat
  <2>1. /\ j \in to_schedule_jobs /\ k \in to_schedule_jobs
        /\ \A l \in to_schedule_jobs : l \in Int /\ l \in Job
    BY <1>1 DEF Job
  <2>2. \A l \in to_schedule_jobs : l < j => l < k
    BY <2>1
  <2>3. S \in SUBSET Job /\ A \in SUBSET S
    BY <2>1, <2>2
  <2>4. B = A \ {j} /\ j \in A
    BY <2>1
  <2>5. \A l \in Job : demand[l] \in Nat
    BY DEF TypeInv
  <2> HIDE DEF S, A, B
  <2> QED
    BY <2>3, <2>4, <2>5
<1>3. IsFiniteSet(Job)
  BY <1>1, FS_Interval DEF Job
<1>4. IsFiniteSet(S)
  BY <1>2, <1>3, FS_Subset
<1>5. IsFiniteSet(A) /\ IsFiniteSet(B)
  BY <1>2, <1>4, FS_Subset
<1>6. \A l \in A : demand[l] \in Nat
  BY <1>2
<1> HIDE DEF S, A, B
<1>7. Sum(A) = demand[j] + Sum(A \ {j})
  BY <1>2, <1>5, <1>6, SumTakeOut
<1>8. Sum(A) <= Sum(S)
  BY <1>2, <1>4, SumMonotone
<1>9. Sum(S) \in Nat
  BY <1>2, <1>4, SumStep
<1>10. Sum(B) \in Nat /\ demand[j] \in Nat
  <2>1. \A l \in B : demand[l] \in Nat
    BY <1>2, <1>6
  <2> QED
    BY <1>2, <1>5, <1>6, <2>1, SumStep
<1>11. \A m : rank(m) \in Nat
  <2>1. IsFiniteSet(Machine)
    BY <1>1, FS_Interval DEF Machine
  <2>2. \A m : {l \in Usable : l < m} \in SUBSET Machine
    BY DEF Usable, TypeInv
  <2>3. \A m : IsFiniteSet({l \in Usable : l < m})
    BY <2>1, <2>2, FS_Subset
  <2> QED
    BY <2>3, FS_CardinalityType
<1>12. /\ \A m \in allocate_first_fit_in_best_effort(j) : rank(m) < Sum(B) + demand[j]
       /\ \A m \in allocate_first_fit_in_best_effort(k) : Sum(S) <= rank(m)
  BY DEF allocate_first_fit_in_best_effort, S, B
<1>13. Sum(B) + demand[j] <= Sum(S)
  BY <1>2, <1>7, <1>8, <1>9, <1>10
<1> HIDE DEF Sum, rank
<1>14. ASSUME NEW m \in allocate_first_fit_in_best_effort(j), m \in allocate_first_fit_in_best_effort(k)
       PROVE  FALSE
  BY <1>9, <1>10, <1>11, <1>12, <1>13, <1>14
<1> QED
  BY <1>14

\* What schedule() allocates.
LEMMA AllocationsAre ==
  ASSUME TypeInv
  PROVE  /\ DOMAIN Allocations \in SUBSET Job
         /\ \A j \in DOMAIN Allocations :
              /\ job_state[j] = "SUBMITTED"
              /\ Allocations[j] \in SUBSET (free_resources \cap available_resources)
         /\ \A j, k \in DOMAIN Allocations : j # k => Allocations[j] \cap Allocations[k] = {}
<1> DEFINE D == DOMAIN Allocations
           fit(j) == allocate_first_fit_in_best_effort(j)
<1>1. D \in SUBSET to_schedule_jobs /\ \A j \in D : Allocations[j] = fit(j)
  BY DEF Allocations
<1>2. to_schedule_jobs \in SUBSET Job /\ \A j \in to_schedule_jobs : job_state[j] = "SUBMITTED"
  BY DEF to_schedule_jobs, InState
<1>3. \A j : fit(j) \in SUBSET (free_resources \cap available_resources)
  BY DEF allocate_first_fit_in_best_effort, Usable
<1>4. \A j, k \in D : j < k => fit(j) \cap fit(k) = {}
  BY <1>1, FitsAreApart
<1> HIDE DEF D, fit
<1>5. \A j, k \in D : j # k => j < k \/ k < j
  BY <1>1, <1>2, BebidaAssumption DEF Job
<1>6. \A j, k \in D : j # k => fit(j) \cap fit(k) = {}
  BY <1>4, <1>5
<1>7. \A j, k \in D : j # k => Allocations[j] \cap Allocations[k] = {}
  BY <1>1, <1>6
<1>8. D \in SUBSET Job /\ \A j \in D : /\ job_state[j] = "SUBMITTED"
                                       /\ Allocations[j] \in SUBSET (free_resources \cap available_resources)
  BY <1>1, <1>2, <1>3
<1> QED
  BY <1>7, <1>8 DEF D

\* The commands that start jobs.
LEMMA Starts ==
  ASSUME NEW jobs \in SUBSET Job, NEW g, OneEach(g, jobs), NEW exec, DOMAIN exec = DOMAIN g,
         \A i \in DOMAIN exec : /\ exec[i] \in BebidaCommand
                                /\ exec[i].type = "EXECUTE_JOB" /\ exec[i].jobs = {g[i]}
  PROVE  /\ \A k \in Job : k \in jobs => One(exec, CommandsOf(k), "EXECUTE_JOB")
         /\ \A k \in Job : k \notin jobs => None(exec, CommandsOf(k))
         /\ \A R : None(exec, CommandsOn(R))
<1>1. \A i \in DOMAIN exec : /\ \A k : exec[i] \in CommandsOf(k) <=> g[i] = k
                             /\ \A R : exec[i] \notin CommandsOn(R)
  BY DEF CommandsOf, CommandsOn, JobCommand
<1>2. ASSUME NEW k \in Job
      PROVE  /\ k \in jobs => One(exec, CommandsOf(k), "EXECUTE_JOB")
             /\ k \notin jobs => None(exec, CommandsOf(k))
  <2>1. \A i \in DOMAIN exec : exec[i].type = "EXECUTE_JOB" /\ (exec[i] \in CommandsOf(k) <=> g[i] = k)
    BY <1>1
  <2> QED
    BY <2>1, EachOnce
<1> QED
  BY <1>1, <1>2 DEF None

\* Its commands: the jobs that start, then the end of registration.
LEMMA ExecutedCommands ==
  ASSUME TypeInv, NEW closes
  PROVE  LET alloc == Allocations
             new   == Executed(alloc).commands
                        \o (IF closes THEN <<Command("NOTIFY", {}, {})>> ELSE <<>>)
         IN  /\ Executed(alloc).commands \in Seq(BebidaCommand) /\ new \in Seq(BebidaCommand)
             /\ (IF closes THEN <<Command("NOTIFY", {}, {})>> ELSE <<>>) \in Seq(BebidaCommand)
             /\ \A k \in Job : k \in DOMAIN alloc => One(new, CommandsOf(k), "EXECUTE_JOB")
             /\ \A k \in Job : k \notin DOMAIN alloc => None(new, CommandsOf(k))
             /\ \A R : None(new, CommandsOn(R))
             /\ ~closes => \A i \in DOMAIN new : new[i].type # "NOTIFY"
<1> DEFINE alloc == Allocations
           jobs == DOMAIN alloc
           g    == InOrder(jobs)
           exec == [i \in DOMAIN g |-> Command("EXECUTE_JOB", {g[i]}, alloc[g[i]])]
           last == IF closes THEN <<Command("NOTIFY", {}, {})>> ELSE <<>>
           new  == exec \o last
<1>1. Executed(alloc).commands = exec
  BY DEF Executed
<1>2. /\ jobs \in SUBSET Job
      /\ \A j \in jobs : alloc[j] \in SUBSET Machine
  BY AllocationsAre DEF TypeInv
<1> HIDE DEF alloc, jobs
<1>3. OneEach(g, jobs)
  BY <1>2, InOrderHasEach
<1> HIDE DEF g
<1>4. DOMAIN g = 1 .. Cardinality(jobs) /\ Cardinality(jobs) \in Nat /\ \A i \in DOMAIN g : g[i] \in jobs
  BY <1>3 DEF OneEach
<1>5. /\ DOMAIN exec = DOMAIN g
      /\ \A i \in DOMAIN exec : /\ exec[i] \in BebidaCommand
                                /\ exec[i].type = "EXECUTE_JOB" /\ exec[i].jobs = {g[i]}
  <2>1. \A i \in DOMAIN exec : /\ exec[i] = Command("EXECUTE_JOB", {g[i]}, alloc[g[i]])
                               /\ g[i] \in Job /\ alloc[g[i]] \in SUBSET Machine
    BY <1>2, <1>4
  <2>2. DOMAIN exec = DOMAIN g
    OBVIOUS
  <2> HIDE DEF exec
  <2>3. ASSUME NEW i \in DOMAIN exec
        PROVE  exec[i] \in BebidaCommand /\ exec[i].type = "EXECUTE_JOB" /\ exec[i].jobs = {g[i]}
    <3>1. PICK x \in Job, M \in SUBSET Machine : x = g[i] /\ exec[i] = Command("EXECUTE_JOB", {x}, M)
      BY <2>1
    <3>2. exec[i] \in BebidaCommand /\ exec[i].type = "EXECUTE_JOB" /\ exec[i].jobs = {x}
      BY <3>1 DEF Command, BebidaCommand, JobCommand
    <3> QED
      BY <3>1, <3>2
  <2> QED
    BY <2>2, <2>3
<1>6. exec \in Seq(BebidaCommand)
  <2>1. exec \in [1 .. Cardinality(jobs) -> BebidaCommand]
    BY <1>4, <1>5
  <2>2. Cardinality(jobs) \in Nat
    BY <1>4
  <2> HIDE DEF exec
  <2> QED
    BY <2>1, <2>2, SeqDef
<1> HIDE DEF exec
<1>7. /\ \A k \in Job : k \in jobs => One(exec, CommandsOf(k), "EXECUTE_JOB")
      /\ \A k \in Job : k \notin jobs => None(exec, CommandsOf(k))
      /\ \A R : None(exec, CommandsOn(R))
  BY <1>2, <1>3, <1>5, Starts
<1>8. /\ last \in Seq(BebidaCommand)
      /\ ~closes => last = <<>>
      /\ \A k : None(last, CommandsOf(k))
      /\ \A R : None(last, CommandsOn(R))
  <2> DEFINE c   == Command("NOTIFY", {}, {})
             one == <<c>>
  <2>1. c \in BebidaCommand /\ c.type = "NOTIFY"
    BY Made
  <2>2. (\A k : c \notin CommandsOf(k)) /\ (\A R : c \notin CommandsOn(R))
    BY <2>1 DEF CommandsOf, CommandsOn, JobCommand
  <2>3. last = IF closes THEN one ELSE <<>>
    OBVIOUS
  <2> HIDE DEF last, c
  <2>4. /\ one \in Seq(BebidaCommand)
        /\ \A k : None(one, CommandsOf(k))
        /\ \A R : None(one, CommandsOn(R))
    BY <2>1, <2>2, Single
  <2> HIDE DEF one
  <2>5. CASE closes
    BY <2>3, <2>4, <2>5
  <2>6. CASE ~closes
    BY <2>3, <2>6, Nobody
  <2> QED
    BY <2>5, <2>6
<1> HIDE DEF last
<1>9. new \in Seq(BebidaCommand)
  BY <1>6, <1>8, JoinPlaces
<1>10. \A k \in Job : k \in jobs => One(new, CommandsOf(k), "EXECUTE_JOB")
  BY <1>6, <1>7, <1>8, JoinKeeps DEF Kept
<1>11. \A k \in Job : k \notin jobs => None(new, CommandsOf(k))
  BY <1>6, <1>7, <1>8, JoinNone
<1>12. \A R : None(new, CommandsOn(R))
  BY <1>6, <1>7, <1>8, JoinNone
<1>13. ASSUME ~closes PROVE \A i \in DOMAIN new : new[i].type # "NOTIFY"
  <2>1. \A i \in DOMAIN last : FALSE
    BY <1>8, <1>13
  <2>2. /\ \A i \in DOMAIN exec : new[i] = exec[i]
        /\ \A i \in DOMAIN new : i \in DOMAIN exec \/ \E k \in DOMAIN last : i = k + Len(exec)
    BY <1>6, <1>8, JoinPlaces
  <2> HIDE DEF new
  <2> QED
    BY <1>5, <2>1, <2>2
<1> HIDE DEF new
<1> QED
  BY <1>1, <1>6, <1>8, <1>9, <1>10, <1>11, <1>12, <1>13 DEF new, last, jobs, alloc

\* Jobs start on machines that are free and were not asked back, and
\* registration is closed when nothing can be registered any more.
LEMMA onNoMoreEventsSound ==
  ASSUME TypeInv, Sound, onNoMoreEvents
  PROVE  Sound' /\ commands' \in Seq(BebidaCommand)
<1> DEFINE alloc  == Allocations
           jobs   == DOMAIN alloc
           exec   == Executed(alloc)
           closes == AllDone(exec.job_state) /\ ~notify_already_send
           last   == IF closes THEN <<Command("NOTIFY", {}, {})>> ELSE <<>>
           new    == exec.commands \o last
           taken  == UNION {alloc[j] : j \in jobs}
<1>1. /\ loop = "scheduler" /\ inbox = <<>> /\ loop' = "simulator"
      /\ UNCHANGED <<inbox, truth, loan, registration, available_resources, to_be_removed_resources>>
      /\ job_state' = exec.job_state
      /\ allocation' = [j \in Job |-> IF j \in jobs THEN alloc[j] ELSE allocation[j]]
      /\ free_resources' = free_resources \ taken
      /\ commands' = commands \o exec.commands \o last
  BY DEF onNoMoreEvents, sim_vars
<1>2. /\ jobs \in SUBSET Job
      /\ \A j \in jobs : job_state[j] = "SUBMITTED"
      /\ \A j \in jobs : alloc[j] \in SUBSET (free_resources \cap available_resources)
      /\ \A j, k \in jobs : j # k => alloc[j] \cap alloc[k] = {}
  BY AllocationsAre
<1>3. /\ exec.commands \in Seq(BebidaCommand) /\ last \in Seq(BebidaCommand)
      /\ new \in Seq(BebidaCommand)
      /\ \A k \in Job : k \in jobs => One(new, CommandsOf(k), "EXECUTE_JOB")
      /\ \A k \in Job : k \notin jobs => None(new, CommandsOf(k))
      /\ \A R : None(new, CommandsOn(R))
      /\ ~closes => \A i \in DOMAIN new : new[i].type # "NOTIFY"
  BY ExecutedCommands
<1>4. \A k \in Job : exec.job_state[k] = IF k \in jobs THEN "RUNNING" ELSE job_state[k]
  BY DEF Executed
<1>5. closes => \A k \in Job : exec.job_state[k] \in {"COMPLETED_SUCCESSFULLY", "COMPLETED_KILLED"}
  BY DEF AllDone
<1> HIDE DEF alloc, jobs, exec, closes, last
<1>6. commands \in Seq(BebidaCommand) /\ commands' = commands \o new
  <2> DEFINE first == exec.commands
  <2>1. first \in Seq(BebidaCommand) /\ commands' = (commands \o first) \o last
    BY <1>1, <1>3
  <2>2. commands \in Seq(BebidaCommand)
    BY DEF TypeInv
  <2> HIDE DEF first
  <2>3. (commands \o first) \o last = commands \o (first \o last)
    BY <1>3, <2>1, <2>2, ConcatAssociative
  <2> QED
    BY <2>1, <2>2, <2>3 DEF first
<1> HIDE DEF new
<1>7. \A k \in Job : /\ job_state'[k] = IF k \in jobs THEN "RUNNING" ELSE job_state[k]
                     /\ allocation'[k] = IF k \in jobs THEN alloc[k] ELSE allocation[k]
  BY <1>1, <1>4
<1>8. /\ \A A : None(inbox, A)
      /\ \A A, t : ~One(inbox, A, t)
      /\ \A A, t, u : ~Two(inbox, A, t, u)
  <2>1. \A i : i \notin DOMAIN inbox
    BY <1>1
  <2> QED
    BY <2>1 DEF None, One, Two
<1>9. \A A : None(new, A) => Kept(commands, commands', A)
  BY <1>3, <1>6, JoinKeeps
<1>10. Lives'
  <2>1. ASSUME NEW k \in Job, k \in jobs
        PROVE  Stage(k, truth'[k], job_state'[k], inbox', commands')
    <3>1. Stage(k, truth[k], job_state[k], inbox, commands)
      BY DEF Sound, Lives
    <3>2. truth[k] = "queued" /\ None(commands, CommandsOf(k))
      BY <1>2, <2>1, <3>1 DEF Stage
    <3>3. One(commands', CommandsOf(k), "EXECUTE_JOB")
      BY <1>3, <1>6, <2>1, <3>2, JoinBrings DEF Kept
    <3> QED
      BY <1>1, <1>7, <1>8, <2>1, <3>2, <3>3 DEF Stage
  <2>2. ASSUME NEW k \in Job, k \notin jobs
        PROVE  Stage(k, truth'[k], job_state'[k], inbox', commands')
    <3>1. Stage(k, truth[k], job_state[k], inbox, commands)
      BY DEF Sound, Lives
    <3>2. Kept(commands, commands', CommandsOf(k)) /\ Kept(inbox, inbox', EventsOf(k))
      BY <1>1, <1>3, <1>9, <2>2, KeptAlways
    <3>3. Stage(k, truth[k], job_state[k], inbox', commands')
      BY <3>1, <3>2, StageKept
    <3> QED
      BY <1>1, <1>7, <2>2, <3>3
  <2> QED
    BY <2>1, <2>2 DEF Lives
<1>11. Loaned'
  <2>1. ASSUME NEW R \in Loans
        PROVE  LoanStage(R, loan'[R], inbox', commands', R \in DOMAIN to_be_removed_resources',
                         R \cap available_resources' = {})
    <3> DEFINE awaited == R \in DOMAIN to_be_removed_resources
               out     == R \cap available_resources = {}
    <3>1. LoanStage(R, loan[R], inbox, commands, awaited, out)
      BY DEF Sound, Loaned
    <3>2. Kept(commands, commands', CommandsOn(R)) /\ Kept(inbox, inbox', EventsOn(R))
      BY <1>1, <1>3, <1>9, KeptAlways
    <3> HIDE DEF awaited, out
    <3>3. LoanStage(R, loan[R], inbox', commands', awaited, out)
      BY <3>1, <3>2, LoanStageKept
    <3> QED
      BY <1>1, <3>3 DEF awaited, out
  <2> QED
    BY <2>1 DEF Loaned
<1>12. \A k : k \in Holders' <=> k \in Holders \/ k \in jobs
  BY <1>2, <1>7 DEF Holders, InState
<1>13. \A k \in Holders : k \in Job /\ k \notin jobs
  BY <1>2 DEF Holders, InState
<1>14. Vacated'
  <2>1. ASSUME NEW R \in Loans, NEW k \in Holders, allocation[k] \cap R # {}
        PROVE  Leaves(R, k)'
    <3>1. Leaves(R, k)
      BY <2>1 DEF Sound, Vacated
    <3>2. None(commands, CommandsOn(R)) => None(commands', CommandsOn(R))
      BY <1>3, <1>9 DEF Kept
    <3>3. Precedes(commands, KillsOf(k), CommandsOn(R)) => Precedes(commands', KillsOf(k), CommandsOn(R))
      BY <1>3, <1>6, PrecedesJoin
    <3>4. job_state'[k] = job_state[k]
      BY <1>7, <1>13
    <3> QED
      BY <1>1, <1>8, <3>1, <3>2, <3>3, <3>4 DEF Leaves
  <2>2. ASSUME NEW R \in Loans, NEW k \in jobs, alloc[k] \cap R # {}
        PROVE  Leaves(R, k)'
    <3> DEFINE out == R \cap available_resources = {}
    <3>1. ~out
      BY <1>2, <2>2
    <3>2. LoanStage(R, loan[R], inbox, commands, R \in DOMAIN to_be_removed_resources, out)
      BY DEF Sound, Loaned
    <3> HIDE DEF out
    <3>3. loan[R] = "lent" /\ R \notin DOMAIN to_be_removed_resources /\ None(commands, CommandsOn(R))
      BY <1>8, <3>1, <3>2 DEF LoanStage
    <3>4. None(commands', CommandsOn(R))
      BY <1>3, <1>9, <3>3 DEF Kept
    <3> QED
      BY <1>1, <1>8, <3>3, <3>4 DEF Leaves
  <2>3. \A k \in Holders : allocation'[k] = allocation[k]
    BY <1>7, <1>13
  <2>4. \A k \in jobs : allocation'[k] = alloc[k]
    BY <1>2, <1>7
  <2>5. \A R \in Loans : \A k \in Holders' : allocation'[k] \cap R # {} => Leaves(R, k)'
    BY <1>12, <2>1, <2>2, <2>3, <2>4
  <2> QED
    BY <2>5 DEF Vacated
<1>15. /\ \A k \in Holders : allocation'[k] = allocation[k]
       /\ \A k \in jobs : allocation'[k] = alloc[k]
  BY <1>2, <1>7, <1>13
<1>16. \A k \in Holders : allocation[k] \cap free_resources \cap available_resources = {}
  BY DEF Sound, NotFree
<1>17. Apart'
  <2>1. \A j, k \in Holders : j # k => allocation'[j] \cap allocation'[k] = {}
    BY <1>15 DEF Sound, Apart
  <2>2. \A j, k \in jobs : j # k => allocation'[j] \cap allocation'[k] = {}
    BY <1>2, <1>15
  <2>3. \A j \in Holders : \A k \in jobs : allocation'[j] \cap allocation'[k] = {}
    BY <1>2, <1>15, <1>16
  <2>4. \A j, k \in Holders' : j # k => allocation'[j] \cap allocation'[k] = {}
    BY <1>12, <2>1, <2>2, <2>3
  <2> QED
    BY <2>4 DEF Apart
<1>18. NotFree'
  <2>1. \A k \in Holders : allocation'[k] \cap free_resources' \cap available_resources' = {}
    BY <1>1, <1>15, <1>16
  <2>2. \A k \in jobs : allocation'[k] \cap free_resources' \cap available_resources' = {}
    BY <1>1, <1>15
  <2>3. \A k \in Holders' : allocation'[k] \cap free_resources' \cap available_resources' = {}
    BY <1>12, <2>1, <2>2
  <2> QED
    BY <2>3 DEF NotFree
<1>19. Quiet'
  BY <1>1 DEF Quiet
<1>20. Closed'
  <2>1. CASE ~registration \/ \E i \in DOMAIN commands : commands[i].type = "NOTIFY"
    <3>1. \A k \in Job : job_state[k] = "COMPLETED_SUCCESSFULLY"
      BY <2>1 DEF Sound, Closed
    <3>2. \A k \in Job : job_state'[k] = "COMPLETED_SUCCESSFULLY"
      BY <1>2, <1>7, <3>1
    <3> QED
      BY <3>2 DEF Closed
  <2>2. CASE closes
    <3>1. ASSUME NEW k \in Job PROVE job_state'[k] = "COMPLETED_SUCCESSFULLY"
      <4>1. job_state'[k] \in {"COMPLETED_SUCCESSFULLY", "COMPLETED_KILLED"}
        BY <1>1, <1>5, <2>2
      <4>2. k \notin jobs /\ job_state'[k] = job_state[k]
        BY <1>7, <4>1
      <4>3. Stage(k, truth[k], job_state[k], inbox, commands)
        BY DEF Sound, Lives
      <4>4. job_state[k] # "COMPLETED_KILLED"
        BY <1>8, <4>3 DEF Stage
      <4> QED
        BY <4>1, <4>2, <4>4
    <3> QED
      BY <3>1 DEF Closed
  <2>3. CASE ~closes /\ registration /\ ~(\E i \in DOMAIN commands : commands[i].type = "NOTIFY")
    <3>1. \A i \in DOMAIN commands' : commands'[i].type # "NOTIFY"
      <4>1. /\ \A i \in DOMAIN commands' : i \in DOMAIN commands \/ \E n \in DOMAIN new : i = n + Len(commands)
            /\ \A i \in DOMAIN commands : commands'[i] = commands[i]
            /\ \A i \in DOMAIN new : commands'[i + Len(commands)] = new[i]
        BY <1>3, <1>6, JoinPlaces
      <4> QED
        BY <1>3, <2>3, <4>1
    <3> QED
      BY <1>1, <2>3, <3>1 DEF Closed
  <2> QED
    BY <2>1, <2>2, <2>3
<1>21. commands' \in Seq(BebidaCommand)
  BY <1>3, <1>6, JoinPlaces
<1> QED
  BY <1>10, <1>11, <1>14, <1>17, <1>18, <1>19, <1>20, <1>21 DEF Sound

-----------------------------------------------------------------------------
\* The types

\* What the simulator changes ...
LEMMA SimulatorTyped ==
  ASSUME TypeInv, loop' \in {"simulator", "scheduler", "raised"}, UNCHANGED <<demand, sched_vars>>,
         inbox' \in Seq(BebidaEvent), commands' \in Seq(BebidaCommand),
         truth' \in [Job -> {"future", "queued", "running", "over"}],
         loan' \in [Loans -> {"lent", "asked", "taken"}]
  PROVE  TypeInv'
BY DEF TypeInv, sched_vars

\* ... and what a callback does.
LEMMA CallbackTyped ==
  ASSUME TypeInv, UNCHANGED <<truth, loan, demand>>,
         loop' \in {"simulator", "scheduler", "raised"},
         inbox' \in Seq(BebidaEvent), commands' \in Seq(BebidaCommand),
         job_state' \in [Job -> {"UNKNOWN", "IN_SUBMISSON", "SUBMITTED", "RUNNING", "IN_KILLING",
                                 "COMPLETED_SUCCESSFULLY", "COMPLETED_KILLED"}],
         allocation' \in [Job -> SUBSET Machine],
         free_resources' \in SUBSET Machine, available_resources' \in SUBSET Machine,
         DOMAIN to_be_removed_resources' \subseteq Loans
  PROVE  TypeInv'
BY DEF TypeInv

\* An arrival keeps the types, ...
LEMMA HappensTyped ==
  ASSUME TypeInv, NEW new \in Seq(BebidaEvent), Happens(new),
         truth' \in [Job -> {"future", "queued", "running", "over"}],
         loan' \in [Loans -> {"lent", "asked", "taken"}]
  PROVE  TypeInv'
<1>1. /\ inbox \in Seq(BebidaEvent) /\ inbox' = inbox \o new
      /\ UNCHANGED <<loop, commands, demand, sched_vars>>
      /\ loop \in {"simulator", "scheduler", "raised"} /\ commands \in Seq(BebidaCommand)
  BY DEF Happens, TypeInv
<1>2. inbox' \in Seq(BebidaEvent)
  BY <1>1, JoinPlaces
<1> QED
  BY <1>1, <1>2, SimulatorTyped

\* ... that of a job,
LEMMA SubmitTyped ==
  ASSUME TypeInv, NEW j \in Job, Submit(j)
  PROVE  TypeInv'
<1> DEFINE first == <<JobEvent("JOB_SUBMITTED", j)>>
           notice == <<Event("NOTIFY", {}, {}, {})>>
           last == IF \A k \in Job \ {j} : truth[k] # "future" THEN notice ELSE <<>>
           new == first \o last
<1>1. /\ truth' = [truth EXCEPT ![j] = "queued"] /\ Happens(new) /\ UNCHANGED loan
  BY DEF Submit
<1>2. JobEvent("JOB_SUBMITTED", j) \in BebidaEvent /\ Event("NOTIFY", {}, {}, {}) \in BebidaEvent
  BY Made DEF Lifecycle
<1>3. first \in Seq(BebidaEvent) /\ last \in Seq(BebidaEvent)
  BY <1>2
<1> HIDE DEF first, last
<1>4. new \in Seq(BebidaEvent)
  BY <1>3, JoinPlaces
<1> HIDE DEF new
<1>5. /\ truth' \in [Job -> {"future", "queued", "running", "over"}]
      /\ loan' \in [Loans -> {"lent", "asked", "taken"}]
  BY <1>1 DEF TypeInv
<1> QED
  BY <1>1, <1>4, <1>5, HappensTyped

\* that of a completion,
LEMMA CompleteTyped ==
  ASSUME TypeInv, NEW j \in Job, Complete(j)
  PROVE  TypeInv'
<1> DEFINE new == <<JobEvent("JOB_COMPLETED", j)>>
<1>1. truth' = [truth EXCEPT ![j] = "over"] /\ Happens(new) /\ UNCHANGED loan
  BY DEF Complete
<1>2. JobEvent("JOB_COMPLETED", j) \in BebidaEvent
  BY Made DEF Lifecycle
<1>3. new \in Seq(BebidaEvent)
  BY <1>2
<1> HIDE DEF new
<1>4. /\ truth' \in [Job -> {"future", "queued", "running", "over"}]
      /\ loan' \in [Loans -> {"lent", "asked", "taken"}]
  BY <1>1 DEF TypeInv
<1> QED
  BY <1>1, <1>3, <1>4, HappensTyped

\* that of machines asked back or lent again;
LEMMA LoanTyped ==
  ASSUME TypeInv, NEW R \in Loans, AskBack(R) \/ Lend(R)
  PROVE  TypeInv'
<1>1. PICK type \in LoanEvent : Happens(<<Event(type, {}, {}, R)>>)
  BY DEF AskBack, Lend, LoanEvent
<1> DEFINE new == <<Event(type, {}, {}, R)>>
<1>2. Event(type, {}, {}, R) \in BebidaEvent
  BY Made
<1>3. new \in Seq(BebidaEvent) /\ Happens(new)
  BY <1>1, <1>2
<1> HIDE DEF new
<1>4. /\ truth' \in [Job -> {"future", "queued", "running", "over"}]
      /\ loan' \in [Loans -> {"lent", "asked", "taken"}]
  BY DEF TypeInv, AskBack, Lend
<1> QED
  BY <1>3, <1>4, HappensTyped

\* so does handing the message over,
LEMMA SendTyped ==
  ASSUME TypeInv, Send
  PROVE  TypeInv'
BY SimulatorTyped DEF Send, sim_vars, TypeInv

\* and obeying the commands.
LEMMA ObeyTyped ==
  ASSUME TypeInv, Sound, Obey
  PROVE  TypeInv'
<1> DEFINE c == Head(commands)
<1>1. PICK type \in {"EXECUTE_JOB", "KILL_JOB", "REGISTER_JOB", "RESOURCES_REMOVED", "NOTIFY"} : Obeys(type)
  BY DEF Obey, ObeyExecute, ObeyKill, ObeyRegister, ObeyRemoved, ObeyFinished
<1>2. /\ commands # <<>> /\ commands' = Tail(commands) /\ commands \in Seq(BebidaCommand)
      /\ UNCHANGED <<loop, demand, sched_vars>> /\ loop \in {"simulator", "scheduler", "raised"}
  BY <1>1 DEF Obeys, TypeInv
<1>3. c \in BebidaCommand /\ commands' \in Seq(BebidaCommand)
  BY <1>2, Pop
<1> HIDE DEF c
<1>4. inbox' \in Seq(BebidaEvent)
  <2>1. CASE ObeyKill
    BY <2>1, ObeyKillSound
  <2>2. CASE ObeyRegister
    <3>1. Obeys("REGISTER_JOB") /\ inbox' = Append(inbox, Event("JOB_SUBMITTED", c.jobs, {}, {}))
      BY <2>2 DEF ObeyRegister, c
    <3>2. PICK j \in Job : c.jobs = {j}
      BY <1>3, <3>1, CommandKinds DEF Obeys, c
    <3>3. Event("JOB_SUBMITTED", c.jobs, {}, {}) \in BebidaEvent
      BY <3>2, Made DEF Lifecycle, JobEvent
    <3> QED
      BY <3>1, <3>3 DEF TypeInv
  <2>3. CASE UNCHANGED inbox
    BY <2>3 DEF TypeInv
  <2> QED
    BY <2>1, <2>2, <2>3 DEF Obey, ObeyExecute, ObeyRemoved, ObeyFinished
<1>5. truth' \in [Job -> {"future", "queued", "running", "over"}]
  BY DEF TypeInv, Obey, ObeyExecute, ObeyKill, ObeyRegister, ObeyRemoved, ObeyFinished
<1>6. loan' \in [Loans -> {"lent", "asked", "taken"}]
  BY DEF TypeInv, Obey, ObeyExecute, ObeyKill, ObeyRegister, ObeyRemoved, ObeyFinished
<1> QED
  BY <1>2, <1>3, <1>4, <1>5, <1>6, SimulatorTyped

\* The callbacks keep the types: those that send no command, ...
LEMMA SomeCallbacksTyped ==
  ASSUME TypeInv, onJobSubmission \/ onNoMoreJobsInWorkloads \/ onKilledJobCompletion
  PROVE  TypeInv'
<1>1. PICK type : Handling(type)
  BY DEF onJobSubmission, onNoMoreJobsInWorkloads, onKilledJobCompletion
<1>2. /\ UNCHANGED <<truth, loan, demand>> /\ inbox' \in Seq(BebidaEvent)
  BY <1>1, HandlingIs, Pop
<1>3. /\ UNCHANGED <<loop, commands, available_resources, to_be_removed_resources>>
      /\ loop \in {"simulator", "scheduler", "raised"} /\ commands \in Seq(BebidaCommand)
      /\ available_resources \in SUBSET Machine /\ DOMAIN to_be_removed_resources \subseteq Loans
  BY DEF onJobSubmission, onNoMoreJobsInWorkloads, onKilledJobCompletion, TypeInv
<1>4. job_state' \in [Job -> {"UNKNOWN", "IN_SUBMISSON", "SUBMITTED", "RUNNING", "IN_KILLING",
                              "COMPLETED_SUCCESSFULLY", "COMPLETED_KILLED"}]
  BY DEF onJobSubmission, onNoMoreJobsInWorkloads, onKilledJobCompletion, TypeInv
<1>5. allocation' \in [Job -> SUBSET Machine]
  BY DEF onJobSubmission, onNoMoreJobsInWorkloads, onKilledJobCompletion, TypeInv
<1>6. free_resources' \in SUBSET Machine
  BY DEF onJobSubmission, onNoMoreJobsInWorkloads, onKilledJobCompletion, TypeInv
<1> QED
  BY <1>2, <1>3, <1>4, <1>5, <1>6, CallbackTyped

\* ... those that may kill jobs, ...
LEMMA onJobCompletionTyped ==
  ASSUME TypeInv, onJobCompletion
  PROVE  TypeInv'
<1> DEFINE states == [job_state EXCEPT ![TheJob] = "COMPLETED_SUCCESSFULLY"]
           jobs   == Unbalanced(states, free_resources')
           new    == KillCommand(jobs)
<1>1. /\ Handling("JOB_COMPLETED")
      /\ free_resources' = free_resources \cup allocation[TheJob]
      /\ job_state' = Killing(jobs, states) /\ commands' = commands \o new
      /\ UNCHANGED <<loop, allocation, available_resources, to_be_removed_resources>>
  BY DEF onJobCompletion, load_balance_jobs
<1>2. UNCHANGED <<truth, loan, demand>> /\ inbox' \in Seq(BebidaEvent) /\ TheJob \in Job
  BY <1>1, HandlingIs, HandlingJob, Pop DEF Lifecycle
<1>3. jobs \in SUBSET Job
  BY DEF Unbalanced, InState
<1>4. job_state' \in [Job -> {"UNKNOWN", "IN_SUBMISSON", "SUBMITTED", "RUNNING", "IN_KILLING",
                              "COMPLETED_SUCCESSFULLY", "COMPLETED_KILLED"}]
  BY <1>1, <1>2 DEF Killing, TypeInv
<1> HIDE DEF jobs
<1>5. new \in Seq(BebidaCommand) /\ commands \in Seq(BebidaCommand)
  BY <1>3, KillCommandIs DEF TypeInv
<1> HIDE DEF new
<1>6. commands' \in Seq(BebidaCommand)
  BY <1>1, <1>5, JoinPlaces
<1>7. free_resources' \in SUBSET Machine
  BY <1>1, <1>2 DEF TypeInv
<1>8. /\ loop' \in {"simulator", "scheduler", "raised"} /\ allocation' \in [Job -> SUBSET Machine]
      /\ available_resources' \in SUBSET Machine /\ DOMAIN to_be_removed_resources' \subseteq Loans
  BY <1>1 DEF TypeInv
<1> QED
  BY <1>2, <1>4, <1>6, <1>7, <1>8, CallbackTyped

\* to make room when machines are lent,
LEMMA onAddResourcesTyped ==
  ASSUME TypeInv, onAddResources
  PROVE  TypeInv'
<1> DEFINE R    == Head(inbox).machines
           jobs == Unbalanced(job_state, free_resources')
           new  == KillCommand(jobs)
<1>1. /\ Handling("ADD_RESOURCES")
      /\ available_resources' = available_resources \cup R /\ free_resources' = free_resources \cup R
      /\ job_state' = Killing(jobs, job_state) /\ commands' = commands \o new
      /\ UNCHANGED <<loop, allocation, to_be_removed_resources>>
  BY DEF onAddResources, load_balance_jobs
<1>2. UNCHANGED <<truth, loan, demand>> /\ inbox' \in Seq(BebidaEvent) /\ R \in SUBSET Machine
  <2>1. Head(inbox) \in BebidaEvent /\ UNCHANGED <<truth, loan, demand>>
    BY <1>1, HandlingIs
  <2>2. inbox \in Seq(BebidaEvent) /\ inbox # <<>> /\ inbox' = Tail(inbox)
    BY <1>1, HandlingIs
  <2>3. inbox' \in Seq(BebidaEvent)
    BY <2>2, Pop
  <2> QED
    BY <2>1, <2>3 DEF BebidaEvent
<1>3. jobs \in SUBSET Job
  BY DEF Unbalanced, InState
<1>4. job_state' \in [Job -> {"UNKNOWN", "IN_SUBMISSON", "SUBMITTED", "RUNNING", "IN_KILLING",
                              "COMPLETED_SUCCESSFULLY", "COMPLETED_KILLED"}]
  BY <1>1 DEF Killing, TypeInv
<1> HIDE DEF R, jobs
<1>5. new \in Seq(BebidaCommand) /\ commands \in Seq(BebidaCommand)
  BY <1>3, KillCommandIs DEF TypeInv
<1> HIDE DEF new
<1>6. commands' \in Seq(BebidaCommand)
  BY <1>1, <1>5, JoinPlaces
<1>7. free_resources' \in SUBSET Machine /\ available_resources' \in SUBSET Machine
  BY <1>1, <1>2 DEF TypeInv
<1>8. /\ loop' \in {"simulator", "scheduler", "raised"} /\ allocation' \in [Job -> SUBSET Machine]
      /\ DOMAIN to_be_removed_resources' \subseteq Loans
  BY <1>1 DEF TypeInv
<1> QED
  BY <1>2, <1>4, <1>6, <1>7, <1>8, CallbackTyped

\* or to give them back,
LEMMA onRemoveResourcesTyped ==
  ASSUME TypeInv, onRemoveResources
  PROVE  TypeInv'
<1> DEFINE R    == Head(inbox).machines
           jobs == On(R, InState(job_state, "RUNNING"))
           back == Command("RESOURCES_REMOVED", {}, R)
           new  == KillCommand(jobs)
<1>1. /\ Handling("REMOVE_RESOURCES")
      /\ available_resources' = available_resources \ R
      /\ job_state' = Killing(jobs, job_state)
      /\ \/ commands' = Append(commands, back) /\ UNCHANGED to_be_removed_resources
         \/ /\ commands' = commands \o new
            /\ DOMAIN to_be_removed_resources' = DOMAIN to_be_removed_resources \cup {R}
      /\ UNCHANGED <<loop, allocation, free_resources>>
  BY DEF onRemoveResources
<1>2. UNCHANGED <<truth, loan, demand>> /\ inbox' \in Seq(BebidaEvent) /\ R \in Loans
  <2>1. /\ Head(inbox) \in BebidaEvent /\ Head(inbox).type = "REMOVE_RESOURCES"
        /\ UNCHANGED <<truth, loan, demand>>
    BY <1>1, HandlingIs
  <2>2. inbox \in Seq(BebidaEvent) /\ inbox # <<>> /\ inbox' = Tail(inbox)
    BY <1>1, HandlingIs
  <2>3. inbox' \in Seq(BebidaEvent)
    BY <2>2, Pop
  <2> QED
    BY <2>1, <2>3 DEF BebidaEvent, LoanEvent
<1>3. jobs \in SUBSET Job
  BY DEF On, InState
<1>4. job_state' \in [Job -> {"UNKNOWN", "IN_SUBMISSON", "SUBMITTED", "RUNNING", "IN_KILLING",
                              "COMPLETED_SUCCESSFULLY", "COMPLETED_KILLED"}]
  BY <1>1 DEF Killing, TypeInv
<1> HIDE DEF R, jobs
<1>5. new \in Seq(BebidaCommand) /\ commands \in Seq(BebidaCommand) /\ back \in BebidaCommand
  BY <1>2, <1>3, KillCommandIs, Made DEF TypeInv
<1> HIDE DEF new, back
<1>6. commands' \in Seq(BebidaCommand)
  <2>1. CASE commands' = Append(commands, back)
    BY <1>5, <2>1
  <2>2. CASE commands' = commands \o new
    BY <1>5, <2>2, JoinPlaces
  <2> QED
    BY <1>1, <2>1, <2>2
<1>7. DOMAIN to_be_removed_resources' \subseteq Loans
  BY <1>1, <1>2 DEF TypeInv
<1>8. /\ loop' \in {"simulator", "scheduler", "raised"} /\ allocation' \in [Job -> SUBSET Machine]
      /\ available_resources' \in SUBSET Machine /\ free_resources' \in SUBSET Machine
  BY <1>1 DEF TypeInv
<1> QED
  BY <1>2, <1>4, <1>6, <1>7, <1>8, CallbackTyped

\* the one that registers jobs again,
LEMMA DispatchJobKilledTyped ==
  ASSUME TypeInv, Sound, DispatchJobKilled
  PROVE  TypeInv'
<1> DEFINE e == Head(inbox)
<1>1. /\ Handling("JOB_KILLED")
      /\ UNCHANGED <<allocation, available_resources>>
  BY DEF DispatchJobKilled
<1>2. UNCHANGED <<truth, loan, demand>> /\ inbox' \in Seq(BebidaEvent)
  BY <1>1, HandlingIs, Pop
<1>3. CASE e.hit # {} /\ e.hit = e.jobs
  <2>1. onJobsKilled(e.hit) /\ UNCHANGED loop
    BY <1>3 DEF DispatchJobKilled
  <2>2. job_state' \in [Job -> {"UNKNOWN", "IN_SUBMISSON", "SUBMITTED", "RUNNING", "IN_KILLING",
                                "COMPLETED_SUCCESSFULLY", "COMPLETED_KILLED"}]
    BY <2>1 DEF onJobsKilled, TypeInv
  <2>3. free_resources' \in SUBSET Machine /\ DOMAIN to_be_removed_resources' \subseteq Loans
    BY <2>1 DEF onJobsKilled, TypeInv
  <2>4. commands' \in Seq(BebidaCommand)
    BY <1>3, onJobsKilledSound
  <2>5. /\ loop' \in {"simulator", "scheduler", "raised"} /\ allocation' \in [Job -> SUBSET Machine]
        /\ available_resources' \in SUBSET Machine
    BY <1>1, <2>1 DEF TypeInv
  <2> QED
    BY <1>2, <2>2, <2>3, <2>4, <2>5, CallbackTyped
<1>4. CASE e.hit = {} \/ e.hit # e.jobs
  <2>1. /\ UNCHANGED <<commands, job_state, free_resources, to_be_removed_resources>>
        /\ loop' \in {loop, "raised"}
    BY <1>4 DEF DispatchJobKilled
  <2> QED
    BY <1>1, <1>2, <2>1 DEF TypeInv
<1> QED
  BY <1>3, <1>4

\* and the one that starts jobs.
LEMMA onNoMoreEventsTyped ==
  ASSUME TypeInv, Sound, onNoMoreEvents
  PROVE  TypeInv'
<1> DEFINE alloc == Allocations
           jobs  == DOMAIN alloc
           exec  == Executed(alloc)
<1>1. /\ UNCHANGED <<truth, loan, demand, inbox, available_resources, to_be_removed_resources>>
      /\ loop' = "simulator" /\ job_state' = exec.job_state
      /\ allocation' = [j \in Job |-> IF j \in jobs THEN alloc[j] ELSE allocation[j]]
      /\ free_resources' \in SUBSET free_resources
  BY DEF onNoMoreEvents, sim_vars
<1>2. commands' \in Seq(BebidaCommand)
  BY onNoMoreEventsSound
<1>3. \A j \in jobs : alloc[j] \in SUBSET Machine
  BY AllocationsAre DEF TypeInv
<1>4. job_state' \in [Job -> {"UNKNOWN", "IN_SUBMISSON", "SUBMITTED", "RUNNING", "IN_KILLING",
                              "COMPLETED_SUCCESSFULLY", "COMPLETED_KILLED"}]
  BY <1>1 DEF Executed, TypeInv
<1> HIDE DEF alloc, jobs, exec
<1>5. allocation' \in [Job -> SUBSET Machine]
  BY <1>1, <1>3 DEF TypeInv
<1>6. /\ loop' \in {"simulator", "scheduler", "raised"} /\ inbox' \in Seq(BebidaEvent)
      /\ available_resources' \in SUBSET Machine /\ free_resources' \in SUBSET Machine
      /\ DOMAIN to_be_removed_resources' \subseteq Loans
  BY <1>1 DEF TypeInv
<1> QED
  BY <1>1, <1>2, <1>4, <1>5, <1>6, CallbackTyped

-----------------------------------------------------------------------------
\* The theorems

\* The invariant holds at the beginning: nothing was sent, no job is known.
LEMMA InitInv == Init => Inv
<1> SUFFICES ASSUME Init PROVE Inv
  OBVIOUS
<1>1. /\ loop = "simulator" /\ inbox = <<>> /\ commands = <<>> /\ registration = TRUE
      /\ truth = [j \in Job |-> "future"] /\ loan = [R \in Loans |-> "lent"]
      /\ job_state = [j \in Job |-> "UNKNOWN"] /\ to_be_removed_resources = <<>>
  BY DEF Init
<1>2. TypeInv
  <2>1. inbox \in Seq(BebidaEvent) /\ commands \in Seq(BebidaCommand)
    BY <1>1
  <2>2. demand \in [Job -> Nat \ {0}]
    BY BebidaAssumption DEF Init
  <2>3. DOMAIN to_be_removed_resources = {}
    BY <1>1
  <2> QED
    BY <1>1, <2>1, <2>2, <2>3 DEF Init, TypeInv, onSimulationBegins
<1>3. \A A : None(inbox, A) /\ None(commands, A)
  BY <1>1, Nobody
<1>4. Holders = {}
  BY <1>1 DEF Holders, InState
<1>5. Lives
  BY <1>1, <1>3 DEF Lives, Stage
<1>6. Loaned
  <2>1. \A R : R \notin DOMAIN to_be_removed_resources
    BY <1>1
  <2> QED
    BY <1>1, <1>3, <2>1 DEF Loaned, LoanStage
<1>7. Vacated /\ Apart /\ NotFree
  BY <1>4 DEF Vacated, Apart, NotFree
<1>8. Quiet /\ Closed
  <2>1. \A i : i \notin DOMAIN commands
    BY <1>1
  <2> QED
    BY <1>1, <2>1 DEF Quiet, Closed
<1> QED
  BY <1>1, <1>2, <1>5, <1>6, <1>7, <1>8 DEF Inv, Sound

\* Every step keeps it.
LEMMA NextInv == Inv /\ [Next]_vars => Inv'
<1> SUFFICES ASSUME Inv, [Next]_vars PROVE Inv'
  OBVIOUS
<1>1. TypeInv
  BY DEF Inv
<1>2. ASSUME TypeInv', Sound', loop' # "raised" PROVE Inv'
  BY <1>2 DEF Inv
<1>3. CASE UNCHANGED vars
  <2>1. UNCHANGED <<loop, inbox, commands, truth, loan, registration, demand, job_state, allocation,
                    free_resources, available_resources, to_be_removed_resources>>
    BY <1>3 DEF vars, sim_vars, sched_vars
  <2>2. Holders' = Holders /\ Running' = Running
    BY <2>1 DEF Holders, InState, Running
  <2>3. TypeInv'
    BY <1>1, <2>1 DEF TypeInv
  <2>4. CASE loop # "raised"
    <3>1. Lives' /\ Loaned'
      BY <2>1, <2>4 DEF Inv, Sound, Lives, Loaned
    <3>2. Vacated' /\ Apart' /\ NotFree' /\ Quiet' /\ Closed'
      BY <2>1, <2>2, <2>4 DEF Inv, Sound, Vacated, Leaves, Apart, NotFree, Quiet, Closed
    <3> QED
      BY <1>2, <2>1, <2>3, <2>4, <3>1, <3>2 DEF Sound
  <2>5. CASE loop = "raised"
    <3>1. MachinesSound'
      BY <2>1, <2>2, <2>5 DEF Inv, MachinesSound, InState
    <3>2. ClosedOnlyAtTheEnd'
      BY <2>1, <2>5 DEF Inv, ClosedOnlyAtTheEnd
    <3> QED
      BY <2>1, <2>3, <2>5, <3>1, <3>2 DEF Inv
  <2> QED
    BY <2>4, <2>5
<1>4. CASE Next
  <2>1. loop # "raised"
    BY <1>4 DEF Next, Simulator, Callbacks, Submit, Complete, AskBack, Lend, Happens, Send, Obey,
                ObeyExecute, ObeyKill, ObeyRegister, ObeyRemoved, ObeyFinished, Obeys,
                onJobSubmission, onNoMoreJobsInWorkloads, onJobCompletion, onKilledJobCompletion,
                onRemoveResources, onAddResources, DispatchJobKilled, Handling, onNoMoreEvents
  <2>2. Sound
    BY <2>1 DEF Inv
  <2>3. ASSUME NEW j \in Job, Submit(j) PROVE Inv'
    BY <1>1, <1>2, <2>1, <2>2, <2>3, SubmitSound, SubmitTyped DEF Submit, Happens
  <2>4. ASSUME NEW j \in Job, Complete(j) PROVE Inv'
    BY <1>1, <1>2, <2>1, <2>2, <2>4, CompleteSound, CompleteTyped DEF Complete, Happens
  <2>5. ASSUME NEW R \in Loans, AskBack(R) PROVE Inv'
    BY <1>1, <1>2, <2>1, <2>2, <2>5, AskBackSound, LoanTyped DEF AskBack, Happens
  <2>6. ASSUME NEW R \in Loans, Lend(R) PROVE Inv'
    BY <1>1, <1>2, <2>1, <2>2, <2>6, LendSound, LoanTyped DEF Lend, Happens
  <2>7. CASE Send
    BY <1>1, <1>2, <2>2, <2>7, SendSound, SendTyped DEF Send
  <2>8. CASE Obey
    <3>1. Sound'
      BY <1>1, <2>2, <2>8, ObeyExecuteSound, ObeyKillSound, ObeyRegisterSound, ObeyRemovedSound,
         ObeyFinishedSound DEF Obey
    <3>2. loop' = loop
      BY <2>8 DEF Obey, ObeyExecute, ObeyKill, ObeyRegister, ObeyRemoved, ObeyFinished, Obeys
    <3> QED
      BY <1>1, <1>2, <2>1, <2>2, <2>8, <3>1, <3>2, ObeyTyped
  <2>9. CASE onJobSubmission
    BY <1>1, <1>2, <2>1, <2>2, <2>9, onJobSubmissionSound, SomeCallbacksTyped DEF onJobSubmission
  <2>10. CASE onNoMoreJobsInWorkloads
    BY <1>1, <1>2, <2>1, <2>2, <2>10, onNoMoreJobsInWorkloadsSound, SomeCallbacksTyped
       DEF onNoMoreJobsInWorkloads
  <2>11. CASE onJobCompletion
    BY <1>1, <1>2, <2>1, <2>2, <2>11, onJobCompletionSound, onJobCompletionTyped DEF onJobCompletion
  <2>12. CASE onKilledJobCompletion
    BY <1>1, <1>2, <2>1, <2>2, <2>12, onKilledJobCompletionSound, SomeCallbacksTyped
       DEF onKilledJobCompletion
  <2>13. CASE onRemoveResources
    BY <1>1, <1>2, <2>1, <2>2, <2>13, onRemoveResourcesSound, onRemoveResourcesTyped
       DEF onRemoveResources
  <2>14. CASE onAddResources
    BY <1>1, <1>2, <2>1, <2>2, <2>14, onAddResourcesSound, onAddResourcesTyped DEF onAddResources
  <2>15. CASE DispatchJobKilled
    <3> DEFINE e == Head(inbox)
    <3>1. TypeInv'
      BY <1>1, <2>2, <2>15, DispatchJobKilledTyped
    <3>2. CASE e.hit = {}
      BY <1>1, <1>2, <2>1, <2>2, <2>15, <3>1, <3>2, NoneWasKilledSound DEF DispatchJobKilled
    <3>3. CASE e.hit # {} /\ e.hit = e.jobs
      BY <1>1, <1>2, <2>1, <2>2, <2>15, <3>1, <3>3, onJobsKilledSound DEF DispatchJobKilled
    <3>4. CASE e.hit # {} /\ e.hit # e.jobs
      <4>1. loop' = "raised" /\ MachinesSound' /\ ClosedOnlyAtTheEnd'
        BY <1>1, <2>2, <2>15, <3>4, RaisedIsSafe
      <4> QED
        BY <3>1, <4>1 DEF Inv
    <3> QED
      BY <3>2, <3>3, <3>4
  <2>16. CASE onNoMoreEvents
    BY <1>1, <1>2, <2>2, <2>16, onNoMoreEventsSound, onNoMoreEventsTyped DEF onNoMoreEvents
  <2> QED
    BY <1>4, <2>3, <2>4, <2>5, <2>6, <2>7, <2>8, <2>9, <2>10, <2>11, <2>12, <2>13, <2>14, <2>15,
       <2>16 DEF Next, Simulator, Callbacks
<1> QED
  BY <1>3, <1>4

\* The invariant holds in every reachable state.
LEMMA BebidaInvariant == Spec => []Inv
BY InitInv, NextInv, PTL DEF Spec

\* It implies what the runs check.
LEMMA InvIsSafe == Inv => MachinesSound /\ ClosedOnlyAtTheEnd
BY SoundIsSafe DEF Inv

\* Whatever jobs are submitted, end by themselves or are killed, and whatever
\* machines are asked back and lent again in the meantime: no two jobs run on
\* one machine, none runs on a machine that was given back, and none that the
\* scheduler takes for running holds a machine it would give to another.
THEOREM MachinesAreSound == Spec => []MachinesSound
BY BebidaInvariant, InvIsSafe, PTL

\* The scheduler never closes registration while a job it killed has to be
\* registered again.
THEOREM ClosesAtTheEnd == Spec => []ClosedOnlyAtTheEnd
BY BebidaInvariant, InvIsSafe, PTL

=============================================================================
