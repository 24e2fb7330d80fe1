------------------------ MODULE EasyBackfill_proofs ------------------------
(***************************************************************************)
(* Theorems about EasyBackfill, for any number of machines and jobs, all   *)
(* demands and walltimes: the list of free spaces is exact between two     *)
(* callbacks, although each pass shortens, doubles and restores spaces,    *)
(* and no job that could run is left behind.                               *)
(***************************************************************************)
EXTENDS EasyBackfill, Sums_proofs

-----------------------------------------------------------------------------
\* Sequences

\* What Without leaves, and in which order.
LEMMA WithoutHas ==
  ASSUME NEW S, NEW q \in Seq(S), NEW D
  PROVE  /\ Without(q, D) \in Seq(S) /\ ToSet(Without(q, D)) = ToSet(q) \ D
         /\ IsInjective(q) => IsInjective(Without(q, D))
<1>1. Without(q, D) = Left(q, D)
  BY DEF Without, Left
<1> QED
  BY <1>1, LeftHas

\* Each element that stays comes from a place of q, in the order of q, and each
\* place of q with an element that stays is one of those.
LEMMA WithoutFrom ==
  ASSUME NEW S, NEW q \in Seq(S), NEW D, NEW r, r = Without(q, D)
  PROVE  /\ r \in Seq(S) /\ Len(r) \in Nat /\ DOMAIN r = 1 .. Len(r)
         /\ Len(q) \in Nat /\ DOMAIN q = 1 .. Len(q)
         /\ \E f \in [DOMAIN r -> DOMAIN q] :
              /\ \A i \in DOMAIN r : r[i] = q[f[i]] /\ q[f[i]] \notin D
              /\ \A i, k \in DOMAIN r : i < k => f[i] < f[k]
         /\ \A k \in DOMAIN q : q[k] \notin D => \E i \in DOMAIN r : r[i] = q[k]
<1>1. r = Left(q, D)
  BY DEF Without, Left
<1>2. /\ r \in Seq(S) /\ Len(r) \in Nat /\ DOMAIN r = 1 .. Len(r)
      /\ Len(q) \in Nat /\ DOMAIN q = 1 .. Len(q)
  BY <1>1, LeftHas, LenProperties
<1>3. PICK f \in [1 .. Len(r) -> 1 .. Len(q)] :
        /\ \A i \in 1 .. Len(r) : r[i] = q[f[i]]
        /\ \A i, k \in 1 .. Len(r) : i < k => f[i] < f[k]
  BY <1>1, LeftOrder
<1>4. ToSet(r) = ToSet(q) \ D
  BY <1>1, LeftHas
<1>5. \A i \in DOMAIN r : r[i] \in ToSet(r)
  BY DEF ToSet
<1>6. \A k \in DOMAIN q : q[k] \in ToSet(q)
  BY DEF ToSet
<1>7. \A x \in ToSet(r) : \E i \in DOMAIN r : r[i] = x
  BY DEF ToSet
<1>8. \A i \in DOMAIN r : r[i] = q[f[i]] /\ q[f[i]] \notin D
  BY <1>2, <1>3, <1>4, <1>5
<1>9. \A k \in DOMAIN q : q[k] \notin D => \E i \in DOMAIN r : r[i] = q[k]
  BY <1>4, <1>6, <1>7
<1> QED
  BY <1>2, <1>3, <1>8, <1>9

LEMMA RemoveAtHas ==
  ASSUME NEW S, NEW q \in Seq(S), NEW i \in 1 .. Len(q), NEW r, r = RemoveAt(q, i)
  PROVE  /\ r \in Seq(S) /\ DOMAIN r = 1 .. Len(q) - 1
         /\ \A k \in 1 .. Len(q) - 1 : r[k] = IF k < i THEN q[k] ELSE q[k + 1]
<1> DEFINE u == SubSeq(q, 1, i - 1)
           v == SubSeq(q, i + 1, Len(q))
<1>1. /\ Len(q) \in Nat /\ u \in Seq(S) /\ Len(u) = i - 1 /\ \A k \in 1 .. i - 1 : u[k] = q[k]
  BY LenProperties, SubSeqProperties
<1>2. /\ v \in Seq(S) /\ Len(v) = Len(q) - i /\ \A k \in 1 .. Len(q) - i : v[k] = q[k + i]
  <2>1. /\ v \in Seq(S) /\ Len(v) = IF i + 1 <= Len(q) THEN Len(q) - (i + 1) + 1 ELSE 0
        /\ \A k \in 1 .. Len(v) : v[k] = q[i + 1 + k - 1]
    <3>1. /\ i + 1 \in Int /\ Len(q) \in Int
          /\ \A k \in i + 1 .. Len(q) : q[k] \in S
      BY <1>1, ElementOfSeq
    <3>2. /\ v \in Seq(S) /\ Len(v) = IF i + 1 <= Len(q) THEN Len(q) - (i + 1) + 1 ELSE 0
          /\ \A k \in 1 .. Len(q) - (i + 1) + 1 : v[k] = q[i + 1 + k - 1]
      BY <3>1, SubSeqProperties
    <3>3. Len(v) = Len(q) - (i + 1) + 1
      BY <3>1, <3>2
    <3> HIDE DEF v
    <3> QED
      BY <3>2, <3>3
  <2>2. Len(v) = Len(q) - i
    BY <1>1, <2>1
  <2> QED
    BY <1>1, <2>1, <2>2
<1> HIDE DEF u, v
<1>3. r = u \o v
  BY DEF RemoveAt, u, v
<1>4. /\ u \o v \in Seq(S) /\ Len(u \o v) = Len(u) + Len(v)
      /\ \A k \in 1 .. Len(u) + Len(v) : (u \o v)[k] = IF k <= Len(u) THEN u[k] ELSE v[k - Len(u)]
  BY <1>1, <1>2, ConcatProperties
<1>5. /\ r \in Seq(S) /\ Len(r) = Len(q) - 1
      /\ \A k \in 1 .. Len(q) - 1 : r[k] = IF k <= i - 1 THEN u[k] ELSE v[k - (i - 1)]
  <2>1. Len(u) + Len(v) = Len(q) - 1
    BY <1>1, <1>2
  <2> QED
    BY <1>1, <1>3, <1>4, <2>1
<1>6. \A k \in 1 .. Len(q) - 1 : k < i => r[k] = q[k]
  BY <1>1, <1>5
<1>7. ASSUME NEW k \in 1 .. Len(q) - 1, ~(k < i) PROVE r[k] = q[k + 1]
  <2>1. k - (i - 1) \in 1 .. Len(q) - i /\ k - (i - 1) + i = k + 1 /\ ~(k <= i - 1)
    BY <1>1, <1>7
  <2>2. r[k] = v[k - (i - 1)]
    BY <1>5, <2>1
  <2>3. v[k - (i - 1)] = q[k - (i - 1) + i]
    BY <1>2, <2>1
  <2> QED
    BY <2>1, <2>2, <2>3
<1>8. DOMAIN r = 1 .. Len(q) - 1
  BY <1>5, LenProperties
<1> QED
  BY <1>5, <1>6, <1>7, <1>8

\* r is q with e inserted at i.
Inserted(r, q, i, e) ==
  /\ DOMAIN r = 1 .. Len(q) + 1
  /\ r[i] = e
  /\ \A k \in 1 .. Len(q) + 1 : (k < i => r[k] = q[k]) /\ (i < k => r[k] = q[k - 1])

LEMMA InsertAtHas ==
  ASSUME NEW S, NEW q \in Seq(S), NEW i \in 1 .. Len(q) + 1, NEW e \in S, NEW r, r = InsertAt(q, i, e)
  PROVE  r \in Seq(S) /\ Inserted(r, q, i, e)
<1> DEFINE u == SubSeq(q, 1, i - 1)
           v == SubSeq(q, i, Len(q))
           w == u \o <<e>>
<1>1. /\ Len(q) \in Nat /\ u \in Seq(S) /\ Len(u) = i - 1 /\ \A k \in 1 .. i - 1 : u[k] = q[k]
  BY LenProperties, SubSeqProperties
<1>2. /\ v \in Seq(S) /\ Len(v) = Len(q) - i + 1 /\ \A k \in 1 .. Len(q) - i + 1 : v[k] = q[k + i - 1]
  <2>1. /\ v \in Seq(S) /\ Len(v) = IF i <= Len(q) THEN Len(q) - i + 1 ELSE 0
        /\ \A k \in 1 .. Len(v) : v[k] = q[i + k - 1]
    BY <1>1, SubSeqProperties
  <2>2. Len(v) = Len(q) - i + 1
    BY <1>1, <2>1
  <2> QED
    BY <1>1, <2>1, <2>2
<1>3. r = w \o v
  BY DEF InsertAt
<1> HIDE DEF u, v
<1>4. <<e>> \in Seq(S) /\ Len(<<e>>) = 1 /\ <<e>>[1] = e
  OBVIOUS
<1>5. /\ w \in Seq(S) /\ Len(w) = i
      /\ \A k \in 1 .. i : w[k] = IF k <= i - 1 THEN u[k] ELSE <<e>>[k - (i - 1)]
  BY <1>1, <1>4, ConcatProperties
<1> HIDE DEF w
<1>6. /\ r \in Seq(S) /\ Len(r) = Len(q) + 1
      /\ \A k \in 1 .. Len(q) + 1 : r[k] = IF k <= i THEN w[k] ELSE v[k - i]
  BY <1>1, <1>2, <1>3, <1>5, ConcatProperties
<1>7. w[i] = e
  <2>1. i - (i - 1) = 1 /\ i \in 1 .. i /\ ~(i <= i - 1)
    BY <1>1
  <2> QED
    BY <1>4, <1>5, <2>1
<1>8. \A k \in 1 .. Len(q) + 1 : k < i => r[k] = q[k]
  BY <1>1, <1>5, <1>6
<1>9. \A k \in 1 .. Len(q) + 1 : k > i => r[k] = q[k - 1]
  BY <1>1, <1>2, <1>6
<1> QED
  BY <1>1, <1>6, <1>7, <1>8, <1>9, LenProperties DEF Inserted

-----------------------------------------------------------------------------
\* The list of free spaces

Space ==
  [first : Int, last : Int, length : Int, smallestFirst : BOOLEAN, linked : BOOLEAN, virtual : BOOLEAN]

\* The machines of the spaces of q.
Within(m, l) == l.first <= m /\ m <= l.last
Cover(q) == {m \in Int : \E i \in DOMAIN q : Within(m, q[i])}

\* The space o and the virtual one that doubles it: they begin or end together, and
\* jobs are placed from opposite ends.
Halves(o, v) ==
  /\ o.first <= v.first /\ v.last <= o.last
  /\ v.smallestFirst <=> ~o.smallestFirst
  /\ v.smallestFirst => v.first = o.first
  /\ ~v.smallestFirst => v.last = o.last

InOrder(q) == \A i, k \in DOMAIN q :
  i < k /\ ~q[i].virtual /\ ~q[k].virtual => q[i].last + 1 < q[k].first

\* A virtual space doubles another; no other spaces are linked.
Doubling(q) ==
  /\ \A i \in DOMAIN q : q[i].virtual =>
       q[i].linked /\ \E k \in DOMAIN q : ~q[k].virtual /\ q[k].linked /\ Halves(q[k], q[i])
  /\ \A i, k \in DOMAIN q : q[i].linked /\ q[k].linked /\ (q[i].virtual <=> q[k].virtual) => i = k
  /\ \A i \in DOMAIN q : q[i].linked /\ ~q[i].virtual => q[i].length # Infinity

\* The list while jobs are backfilled, and between two callbacks.
Sound(q) == q \in Seq(Space) /\ (\A i \in DOMAIN q : q[i].first <= q[i].last) /\ InOrder(q) /\ Doubling(q)

Plain(q) ==
  Sound(q) /\ \A i \in DOMAIN q : q[i].length = Infinity /\ ~q[i].linked /\ ~q[i].virtual

LEMMA SpaceFields ==
  ASSUME NEW l \in Space
  PROVE  /\ l.first \in Int /\ l.last \in Int /\ l.length \in Int
         /\ l.smallestFirst \in BOOLEAN /\ l.linked \in BOOLEAN /\ l.virtual \in BOOLEAN
         /\ Res(l) = l.last - l.first + 1
BY DEF Space, Res

LEMMA SpacesHave ==
  ASSUME NEW q \in Seq(Space)
  PROVE  /\ Len(q) \in Nat /\ DOMAIN q = 1 .. Len(q)
         /\ \A i \in DOMAIN q : q[i] \in Space /\ q[i].first \in Int /\ q[i].last \in Int
BY LenProperties, ElementOfSeq, SpaceFields

LEMMA WidthsAre ==
  ASSUME NEW q \in Seq(Space)
  PROVE  \A i \in DOMAIN q : Res(q[i]) \in Int
<1> SUFFICES ASSUME NEW i \in DOMAIN q PROVE Res(q[i]) \in Int
  OBVIOUS
<1>1. PICK f \in Int, l \in Int : f = q[i].first /\ l = q[i].last
  BY SpacesHave
<1> QED
  BY <1>1 DEF Res

\* n machines at an end of a space that has them.
LEMMA AllocHas ==
  ASSUME NEW l \in Space, NEW n \in Nat \ {0}, n <= Res(l), NEW al, al = AllocIn(l, n)
  PROVE  /\ al[1] \in Int /\ al[2] \in Int /\ al[2] = al[1] + n - 1 /\ al = <<al[1], al[2]>>
         /\ l.first <= al[1] /\ al[1] <= al[2] /\ al[2] <= l.last
         /\ l.smallestFirst => al[1] = l.first
         /\ ~l.smallestFirst => al[2] = l.last
<1>1. l.first \in Int /\ l.last \in Int /\ l.smallestFirst \in BOOLEAN /\ Res(l) = l.last - l.first + 1
  BY SpaceFields
<1>2. CASE l.smallestFirst
  BY <1>1, <1>2 DEF AllocIn
<1>3. CASE ~l.smallestFirst
  BY <1>1, <1>3 DEF AllocIn
<1> QED
  BY <1>2, <1>3

\* What is left of a space once the machines al are cut off one end.
LEMMA CutHas ==
  ASSUME NEW l \in Space, NEW al, al[1] \in Int, al[2] \in Int, NEW below \in BOOLEAN, NEW c, c = Cut(l, al, below)
  PROVE  /\ c \in Space
         /\ c.length = l.length /\ c.smallestFirst = l.smallestFirst
         /\ c.linked = l.linked /\ c.virtual = l.virtual
         /\ below => c.last = l.last /\ c.first = IF l.first <= al[2] THEN al[2] + 1 ELSE l.first
         /\ ~below => c.first = l.first /\ c.last = IF l.last >= al[1] THEN al[1] - 1 ELSE l.last
<1>1. CASE below
  BY <1>1 DEF Cut, Space
<1>2. CASE ~below
  BY <1>2 DEF Cut, Space
<1> QED
  BY <1>1, <1>2

\* All of al are cut off, and no other machine.
LEMMA CutWithin ==
  ASSUME NEW l \in Space, NEW al, al[1] \in Int, al[2] \in Int, al[1] <= al[2],
         NEW below \in BOOLEAN, NEW c, c = Cut(l, al, below),
         below => al[1] <= l.first, ~below => l.last <= al[2]
  PROVE  \A m \in Int : Within(m, c) <=> Within(m, l) /\ ~(al[1] <= m /\ m <= al[2])
<1>1. l.first \in Int /\ l.last \in Int
  BY SpaceFields
<1>2. PICK f \in Int, g \in Int, a \in Int, b \in Int :
        f = l.first /\ g = l.last /\ a = al[1] /\ b = al[2]
  BY <1>1
<1>3. CASE below
  <2>1. c.last = g /\ c.first = IF f <= b THEN b + 1 ELSE f
    BY <1>2, <1>3 DEF Cut, Space
  <2>2. a <= f /\ a <= b
    BY <1>2, <1>3
  <2>3. \A m \in Int : Within(m, c) <=> (IF f <= b THEN b + 1 ELSE f) <= m /\ m <= g
    BY <2>1 DEF Within
  <2>4. \A m \in Int : Within(m, l) <=> f <= m /\ m <= g
    BY <1>2 DEF Within
  <2> QED
    BY <1>2, <2>2, <2>3, <2>4
<1>4. CASE ~below
  <2>1. c.first = f /\ c.last = IF g >= a THEN a - 1 ELSE g
    BY <1>2, <1>4 DEF Cut, Space
  <2> QED
    BY <1>2, <1>4, <2>1 DEF Within
<1> QED
  BY <1>3, <1>4


-----------------------------------------------------------------------------
\* assignJob

\* The space that a linked one is a part of, or has as a part, is cut with it.
LEMMA OccupiedHas ==
  ASSUME NEW q, Sound(q), NEW i \in DOMAIN q, NEW n \in Nat \ {0}, n <= Res(q[i]),
         NEW al, al = AllocIn(q[i], n), NEW c, c = Occupied(q, i, n), NEW k \in DOMAIN q
  PROVE  /\ DOMAIN c = DOMAIN q
         /\ k = i \/ k \in Partner(q, i) => c[k] = Cut(q[k], al, q[i].smallestFirst)
         /\ ~(k = i \/ k \in Partner(q, i)) => c[k] = q[k]
         /\ c[k] \in Space
         /\ c[k].length = q[k].length /\ c[k].smallestFirst = q[k].smallestFirst
         /\ c[k].linked = q[k].linked /\ c[k].virtual = q[k].virtual
<1>1. q \in Seq(Space) /\ q[i] \in Space /\ q[k] \in Space /\ q[i].smallestFirst \in BOOLEAN
  BY SpacesHave, SpaceFields DEF Sound
<1>2. al[1] \in Int /\ al[2] \in Int
  BY <1>1, AllocHas
<1>3. DOMAIN c = DOMAIN q
  BY DEF Occupied
<1>4. CASE k = i \/ k \in Partner(q, i)
  <2>1. c[k] = Cut(q[k], al, q[i].smallestFirst)
    BY <1>4 DEF Occupied
  <2>2. /\ c[k] \in Space
        /\ c[k].length = q[k].length /\ c[k].smallestFirst = q[k].smallestFirst
        /\ c[k].linked = q[k].linked /\ c[k].virtual = q[k].virtual
    BY <1>1, <1>2, <2>1, CutHas
  <2> QED
    BY <1>3, <1>4, <2>1, <2>2
<1>5. CASE ~(k = i \/ k \in Partner(q, i))
  BY <1>1, <1>3, <1>5 DEF Occupied
<1> QED
  BY <1>4, <1>5

\* Two linked spaces are the two halves of a doubled one.
LEMMA PartnersAreHalves ==
  ASSUME NEW q, Sound(q), NEW i \in DOMAIN q, NEW k \in Partner(q, i)
  PROVE  /\ k \in DOMAIN q /\ q[i].linked /\ q[k].linked /\ (q[k].virtual <=> ~q[i].virtual)
         /\ q[i].virtual => Halves(q[k], q[i])
         /\ q[k].virtual => Halves(q[i], q[k])
<1>1. k \in DOMAIN q /\ k # i /\ q[k].linked /\ q[i].linked
  BY DEF Partner
<1>2. q[k].virtual <=> ~q[i].virtual
  BY <1>1 DEF Sound, Doubling
<1>3. ASSUME NEW v \in DOMAIN q, NEW o \in DOMAIN q, q[v].virtual, q[o].linked, ~q[o].virtual
      PROVE  Halves(q[o], q[v])
  <2>1. PICK x \in DOMAIN q : ~q[x].virtual /\ q[x].linked /\ Halves(q[x], q[v])
    BY <1>3 DEF Sound, Doubling
  <2>2. x = o
    BY <1>3, <2>1 DEF Sound, Doubling
  <2> QED
    BY <2>1, <2>2
<1> QED
  BY <1>1, <1>2, <1>3

\* Where spaces overlap, they are linked.
LEMMA Overlapping ==
  ASSUME NEW q, Sound(q), NEW i \in DOMAIN q, NEW k \in DOMAIN q, k # i,
         NEW m \in Int, Within(m, q[i]), Within(m, q[k])
  PROVE  k \in Partner(q, i)
<1> DEFINE Outer(x, o) == o \in DOMAIN q /\ ~q[o].virtual /\ Within(m, q[o])
                          /\ (o = x \/ (q[x].virtual /\ q[o].linked))
<1>1. q \in Seq(Space) /\ DOMAIN q = 1 .. Len(q) /\ Len(q) \in Nat
      /\ \A x \in DOMAIN q : q[x].first \in Int /\ q[x].last \in Int
  BY SpacesHave DEF Sound
<1>2. ASSUME NEW x \in DOMAIN q, Within(m, q[x]) PROVE \E o \in DOMAIN q : Outer(x, o)
  <2>1. CASE ~q[x].virtual
    BY <1>2, <2>1
  <2>2. CASE q[x].virtual
    <3>1. PICK o \in DOMAIN q : ~q[o].virtual /\ q[o].linked /\ Halves(q[o], q[x])
      BY <2>2 DEF Sound, Doubling
    <3>2. Within(m, q[o])
      BY <1>1, <1>2, <3>1 DEF Halves, Within
    <3> QED
      BY <2>2, <3>1, <3>2
  <2> QED
    BY <2>1, <2>2
<1>3. PICK o \in DOMAIN q : Outer(i, o)
  BY <1>2
<1>4. PICK u \in DOMAIN q : Outer(k, u)
  BY <1>2
<1>5. o = u
  <2>1. ASSUME NEW x \in DOMAIN q, NEW y \in DOMAIN q, ~q[x].virtual, ~q[y].virtual,
               Within(m, q[x]), Within(m, q[y])
        PROVE  ~(x < y)
    <3> SUFFICES ASSUME x < y PROVE FALSE
      OBVIOUS
    <3>1. q[x].last + 1 < q[y].first
      BY <2>1 DEF Sound, InOrder
    <3> QED
      BY <1>1, <2>1, <3>1 DEF Within
  <2>2. ~(o < u) /\ ~(u < o)
    BY <1>3, <1>4, <2>1
  <2> QED
    BY <1>1, <2>2
<1>6. q[i].linked /\ q[k].linked
  BY <1>3, <1>4, <1>5 DEF Sound, Doubling
<1> QED
  BY <1>6 DEF Partner


\* The machines al are taken from every space that has them.
LEMMA OccupiedWithin ==
  ASSUME NEW q, Sound(q), NEW i \in DOMAIN q, NEW n \in Nat \ {0}, n <= Res(q[i]),
         NEW al, al = AllocIn(q[i], n), NEW c, c = Occupied(q, i, n), NEW k \in DOMAIN q, NEW m \in Int
  PROVE  Within(m, c[k]) <=> Within(m, q[k]) /\ ~(al[1] <= m /\ m <= al[2])
<1>1. /\ q[i] \in Space /\ q[k] \in Space /\ q[i].smallestFirst \in BOOLEAN
      /\ q[i].first \in Int /\ q[i].last \in Int /\ q[k].first \in Int /\ q[k].last \in Int
  BY SpacesHave, SpaceFields DEF Sound
<1>2. /\ al[1] \in Int /\ al[2] \in Int /\ al[1] <= al[2]
      /\ q[i].first <= al[1] /\ al[2] <= q[i].last
      /\ q[i].smallestFirst => al[1] = q[i].first
      /\ ~q[i].smallestFirst => al[2] = q[i].last
  BY <1>1, AllocHas
<1>3. CASE k = i \/ k \in Partner(q, i)
  <2>1. c[k] = Cut(q[k], al, q[i].smallestFirst)
    BY <1>3, OccupiedHas
  <2>2. /\ q[i].smallestFirst => q[i].first <= q[k].first
        /\ ~q[i].smallestFirst => q[k].last <= q[i].last
    <3>1. CASE k = i
      BY <1>1, <3>1
    <3>2. CASE k \in Partner(q, i)
      <4>1. (q[k].virtual <=> ~q[i].virtual) /\ (q[i].virtual => Halves(q[k], q[i]))
            /\ (q[k].virtual => Halves(q[i], q[k]))
        BY <3>2, PartnersAreHalves
      <4>2. CASE q[i].virtual
        BY <1>1, <4>1, <4>2 DEF Halves
      <4>3. CASE q[k].virtual
        BY <1>1, <4>1, <4>3 DEF Halves
      <4> QED
        BY <4>1, <4>2, <4>3
    <3> QED
      BY <1>3, <3>1, <3>2
  <2>3. /\ q[i].smallestFirst => al[1] <= q[k].first
        /\ ~q[i].smallestFirst => q[k].last <= al[2]
    BY <1>1, <1>2, <2>2
  <2> QED
    BY <1>1, <1>2, <2>1, <2>3, CutWithin
<1>4. CASE ~(k = i \/ k \in Partner(q, i))
  <2>1. c[k] = q[k]
    BY <1>4, OccupiedHas
  <2>2. ~(Within(m, q[k]) /\ al[1] <= m /\ m <= al[2])
    <3>1. al[1] <= m /\ m <= al[2] => Within(m, q[i])
      BY <1>1, <1>2 DEF Within
    <3> QED
      BY <1>4, <3>1, Overlapping
  <2> QED
    BY <2>1, <2>2
<1> QED
  BY <1>3, <1>4

\* A doubled space and its double stay halves, unless nothing is left of the double.
LEMMA OccupiedHalves ==
  ASSUME NEW q, Sound(q), NEW i \in DOMAIN q, NEW n \in Nat \ {0}, n <= Res(q[i]),
         NEW c, c = Occupied(q, i, n), NEW o \in DOMAIN q, NEW v \in DOMAIN q,
         q[v].virtual, q[v].linked, ~q[o].virtual, q[o].linked, Halves(q[o], q[v])
  PROVE  Halves(c[o], c[v])
<1> DEFINE al == AllocIn(q[i], n)
<1>1. /\ q[i] \in Space /\ q[o] \in Space /\ q[v] \in Space /\ q[i].smallestFirst \in BOOLEAN
      /\ q[o].first \in Int /\ q[o].last \in Int /\ q[v].first \in Int /\ q[v].last \in Int
  BY SpacesHave, SpaceFields DEF Sound
<1>2. /\ al[1] \in Int /\ al[2] \in Int /\ al[1] <= al[2]
      /\ q[i].smallestFirst => al[1] = q[i].first
      /\ ~q[i].smallestFirst => al[2] = q[i].last
  BY <1>1, AllocHas
<1> HIDE DEF al
<1>3. c[o].smallestFirst = q[o].smallestFirst /\ c[v].smallestFirst = q[v].smallestFirst
  BY OccupiedHas
<1>4. CASE i = o \/ i = v
  <2>1. (o = i \/ o \in Partner(q, i)) /\ (v = i \/ v \in Partner(q, i))
    BY <1>4 DEF Partner
  <2>2. c[o] = Cut(q[o], al, q[i].smallestFirst) /\ c[v] = Cut(q[v], al, q[i].smallestFirst)
    BY <2>1, OccupiedHas DEF al
  <2>3. PICK a \in Int, b \in Int, fo \in Int, lo \in Int, fv \in Int, lv \in Int :
          /\ a = al[1] /\ b = al[2] /\ fo = q[o].first /\ lo = q[o].last
          /\ fv = q[v].first /\ lv = q[v].last
    BY <1>1, <1>2
  <2>4. /\ fo <= fv /\ lv <= lo /\ (q[v].smallestFirst <=> ~q[o].smallestFirst)
        /\ q[v].smallestFirst => fv = fo
        /\ ~q[v].smallestFirst => lv = lo
    BY <2>3 DEF Halves
  <2>5. CASE q[i].smallestFirst
    <3>1. /\ c[o].last = lo /\ c[o].first = IF fo <= b THEN b + 1 ELSE fo
          /\ c[v].last = lv /\ c[v].first = IF fv <= b THEN b + 1 ELSE fv
      BY <1>1, <2>2, <2>3, <2>5 DEF Cut, Space
    <3>2. (IF fo <= b THEN b + 1 ELSE fo) <= (IF fv <= b THEN b + 1 ELSE fv)
      BY <2>3, <2>4
    <3> QED
      BY <1>3, <2>4, <3>1, <3>2 DEF Halves
  <2>6. CASE ~q[i].smallestFirst
    <3>1. /\ c[o].first = fo /\ c[o].last = IF lo >= a THEN a - 1 ELSE lo
          /\ c[v].first = fv /\ c[v].last = IF lv >= a THEN a - 1 ELSE lv
      BY <1>1, <2>2, <2>3, <2>6 DEF Cut, Space
    <3>2. (IF lv >= a THEN a - 1 ELSE lv) <= (IF lo >= a THEN a - 1 ELSE lo)
      BY <2>3, <2>4
    <3> QED
      BY <1>3, <2>4, <3>1, <3>2 DEF Halves
  <2> QED
    BY <2>5, <2>6
<1>5. CASE i # o /\ i # v
  <2>1. ~q[i].linked
    BY <1>5 DEF Sound, Doubling
  <2>2. o \notin Partner(q, i) /\ v \notin Partner(q, i)
    BY <2>1 DEF Partner
  <2>3. c[o] = q[o] /\ c[v] = q[v]
    BY <1>5, <2>2, OccupiedHas
  <2> QED
    BY <2>3
<1> QED
  BY <1>4, <1>5

\* A job is placed in the space i: its machines leave the list, no space grows.
LEMMA AssignHas ==
  ASSUME NEW q, Sound(q), NEW i \in DOMAIN q, NEW n \in Nat \ {0}, n <= Res(q[i]),
         NEW al, al = AllocIn(q[i], n), NEW r, r = assignJob(q, i, n)
  PROVE  /\ Sound(r)
         /\ \A m \in Int : m \in Cover(r) <=> m \in Cover(q) /\ ~(al[1] <= m /\ m <= al[2])
         /\ \A m \in Int : al[1] <= m /\ m <= al[2] => m \in Cover(q)
         /\ \A k \in DOMAIN r : \E x \in DOMAIN q :
              /\ r[k].length = q[x].length /\ r[k].linked = q[x].linked /\ r[k].virtual = q[x].virtual
              /\ Res(r[k]) <= Res(q[x])
<1> DEFINE c == Occupied(q, i, n)
           E == {l \in ToSet(c) : Res(l) <= 0}
<1>1. /\ q \in Seq(Space) /\ Len(q) \in Nat /\ DOMAIN q = 1 .. Len(q)
      /\ \A k \in DOMAIN q : q[k] \in Space /\ q[k].first \in Int /\ q[k].last \in Int /\ q[k].first <= q[k].last
  BY SpacesHave DEF Sound
<1>2. DOMAIN c = DOMAIN q /\ \A k \in DOMAIN q :
        /\ c[k] \in Space
        /\ c[k].length = q[k].length /\ c[k].smallestFirst = q[k].smallestFirst
        /\ c[k].linked = q[k].linked /\ c[k].virtual = q[k].virtual
  BY OccupiedHas
<1>3. \A k \in DOMAIN q, m \in Int : Within(m, c[k]) <=> Within(m, q[k]) /\ ~(al[1] <= m /\ m <= al[2])
  BY OccupiedWithin
<1>4. c = [k \in DOMAIN q |-> c[k]]
  BY DEF Occupied
<1>5. ASSUME NEW o \in DOMAIN q, NEW v \in DOMAIN q,
             q[v].virtual, q[v].linked, ~q[o].virtual, q[o].linked, Halves(q[o], q[v])
      PROVE  Halves(c[o], c[v])
  BY <1>5, OccupiedHalves
<1>6. r = Without(c, E)
  BY DEF assignJob, NotEmpty
<1> HIDE DEF c
<1>7. c \in Seq(Space)
  BY <1>1, <1>2, <1>4, SeqDef
<1>8. \A k \in DOMAIN q : /\ c[k].first \in Int /\ c[k].last \in Int /\ Res(c[k]) = c[k].last - c[k].first + 1
                          /\ c[k].linked \in BOOLEAN /\ c[k].virtual \in BOOLEAN
  BY <1>2, SpaceFields
<1>9. \A k \in DOMAIN q : c[k] \in E <=> c[k].last < c[k].first
  BY <1>2, <1>8 DEF ToSet
<1> HIDE DEF E
<1>10. r \in Seq(Space) /\ Len(r) \in Nat /\ DOMAIN r = 1 .. Len(r)
  BY <1>6, <1>7, WithoutFrom
<1>11. PICK f \in [DOMAIN r -> DOMAIN q] :
         /\ \A x \in DOMAIN r : r[x] = c[f[x]] /\ c[f[x]] \notin E
         /\ \A x, y \in DOMAIN r : x < y => f[x] < f[y]
  <2>1. \E f \in [DOMAIN r -> DOMAIN c] :
          /\ \A x \in DOMAIN r : r[x] = c[f[x]] /\ c[f[x]] \notin E
          /\ \A x, y \in DOMAIN r : x < y => f[x] < f[y]
    BY <1>6, <1>7, WithoutFrom
  <2>2. DOMAIN c = DOMAIN q
    BY <1>2
  <2> QED
    BY <2>1, <2>2
<1>12. \A k \in DOMAIN q : c[k] \notin E => \E x \in DOMAIN r : r[x] = c[k]
  BY <1>2, <1>6, <1>7, WithoutFrom
<1>13. \A x \in DOMAIN r : f[x] \in DOMAIN q /\ r[x] = c[f[x]] /\ r[x].first <= r[x].last
  BY <1>8, <1>9, <1>11
<1>14. ASSUME NEW x \in DOMAIN r, NEW y \in DOMAIN r, f[x] = f[y] PROVE x = y
  <2>1. f[x] \in Int /\ ~(f[x] < f[y]) /\ ~(f[y] < f[x])
    BY <1>1, <1>13, <1>14
  <2> QED
    BY <1>10, <1>11, <2>1
<1>15. ASSUME NEW k \in DOMAIN q, c[k].first <= c[k].last
       PROVE  q[k].first <= c[k].first /\ c[k].last <= q[k].last
  <2>1. PICK a \in Int, b \in Int : a = c[k].first /\ b = c[k].last
    BY <1>8
  <2>2. Within(a, c[k]) /\ Within(b, c[k])
    BY <1>15, <2>1 DEF Within
  <2>3. Within(a, q[k]) /\ Within(b, q[k])
    BY <1>3, <2>1, <2>2
  <2> QED
    BY <2>1, <2>3 DEF Within
<1>16. Sound(r)
  <2>1. InOrder(r)
    <3> SUFFICES ASSUME NEW x \in DOMAIN r, NEW y \in DOMAIN r, x < y, ~r[x].virtual, ~r[y].virtual
                 PROVE  r[x].last + 1 < r[y].first
      BY DEF InOrder
    <3>1. f[x] < f[y] /\ ~q[f[x]].virtual /\ ~q[f[y]].virtual
      BY <1>2, <1>11, <1>13
    <3>2. q[f[x]].last + 1 < q[f[y]].first
      BY <1>13, <3>1 DEF Sound, InOrder
    <3>3. c[f[x]].last <= q[f[x]].last /\ q[f[y]].first <= c[f[y]].first
      BY <1>13, <1>15
    <3>4. /\ r[x] = c[f[x]] /\ r[y] = c[f[y]] /\ c[f[x]].last \in Int /\ c[f[y]].first \in Int
          /\ q[f[x]].last \in Int /\ q[f[y]].first \in Int
      BY <1>1, <1>8, <1>13
    <3> QED
      BY <3>2, <3>3, <3>4
  <2>2. ASSUME NEW x \in DOMAIN r, r[x].virtual
        PROVE  r[x].linked /\ \E y \in DOMAIN r : ~r[y].virtual /\ r[y].linked /\ Halves(r[y], r[x])
    <3>1. q[f[x]].virtual
      BY <1>2, <1>13, <2>2
    <3>2. PICK o \in DOMAIN q : q[f[x]].linked /\ ~q[o].virtual /\ q[o].linked /\ Halves(q[o], q[f[x]])
      BY <1>13, <3>1 DEF Sound, Doubling
    <3>3. Halves(c[o], c[f[x]])
      BY <1>5, <1>13, <3>1, <3>2
    <3>4. c[o].first <= c[o].last
      <4>1. c[o].first <= c[f[x]].first /\ c[f[x]].last <= c[o].last /\ c[f[x]].first <= c[f[x]].last
        BY <1>13, <3>3 DEF Halves
      <4> QED
        BY <1>8, <1>13, <4>1
    <3>5. PICK y \in DOMAIN r : r[y] = c[o]
      BY <1>8, <1>9, <1>12, <3>4
    <3> QED
      BY <1>2, <1>13, <3>2, <3>3, <3>5
  <2>3. ASSUME NEW x \in DOMAIN r, NEW y \in DOMAIN r, r[x].linked, r[y].linked, r[x].virtual <=> r[y].virtual
        PROVE  x = y
    <3>1. q[f[x]].linked /\ q[f[y]].linked /\ (q[f[x]].virtual <=> q[f[y]].virtual)
      BY <1>2, <1>13, <2>3
    <3>2. f[x] = f[y]
      BY <1>13, <3>1 DEF Sound, Doubling
    <3> QED
      BY <1>14, <3>2
  <2>4. ASSUME NEW x \in DOMAIN r, r[x].linked, ~r[x].virtual PROVE r[x].length # Infinity
    <3>1. q[f[x]].linked /\ ~q[f[x]].virtual /\ r[x].length = q[f[x]].length
      BY <1>2, <1>13, <2>4
    <3> QED
      BY <1>13, <3>1 DEF Sound, Doubling
  <2>5. Doubling(r)
    BY <2>2, <2>3, <2>4 DEF Doubling
  <2> QED
    BY <1>10, <1>13, <2>1, <2>5 DEF Sound
<1>17. \A m \in Int : m \in Cover(r) <=> m \in Cover(q) /\ ~(al[1] <= m /\ m <= al[2])
  <2> SUFFICES ASSUME NEW m \in Int
               PROVE  m \in Cover(r) <=> m \in Cover(q) /\ ~(al[1] <= m /\ m <= al[2])
    OBVIOUS
  <2>1. ASSUME NEW x \in DOMAIN r, Within(m, r[x]) PROVE m \in Cover(q) /\ ~(al[1] <= m /\ m <= al[2])
    BY <1>3, <1>13, <2>1 DEF Cover
  <2>2. ASSUME NEW k \in DOMAIN q, Within(m, q[k]), ~(al[1] <= m /\ m <= al[2]) PROVE m \in Cover(r)
    <3>1. Within(m, c[k])
      BY <1>3, <2>2
    <3>2. c[k].first <= c[k].last
      BY <1>8, <3>1 DEF Within
    <3>3. PICK x \in DOMAIN r : r[x] = c[k]
      BY <1>8, <1>9, <1>12, <3>2
    <3> QED
      BY <3>1, <3>3 DEF Cover
  <2> QED
    BY <2>1, <2>2 DEF Cover
<1>18. \A m \in Int : al[1] <= m /\ m <= al[2] => m \in Cover(q)
  <2>1. /\ al[1] \in Int /\ al[2] \in Int /\ q[i].first <= al[1] /\ al[2] <= q[i].last
    BY <1>1, AllocHas
  <2>2. \A m \in Int : al[1] <= m /\ m <= al[2] => Within(m, q[i])
    BY <1>1, <2>1 DEF Within
  <2> QED
    BY <2>2 DEF Cover
<1>19. ASSUME NEW k \in DOMAIN r
       PROVE  \E x \in DOMAIN q :
                /\ r[k].length = q[x].length /\ r[k].linked = q[x].linked /\ r[k].virtual = q[x].virtual
                /\ Res(r[k]) <= Res(q[x])
  <2>1. /\ r[k].length = q[f[k]].length /\ r[k].linked = q[f[k]].linked /\ r[k].virtual = q[f[k]].virtual
    BY <1>2, <1>13
  <2>2. Res(r[k]) <= Res(q[f[k]])
    <3>1. q[f[k]].first <= c[f[k]].first /\ c[f[k]].last <= q[f[k]].last
      BY <1>13, <1>15
    <3>2. Res(q[f[k]]) = q[f[k]].last - q[f[k]].first + 1
      BY DEF Res
    <3> QED
      BY <1>1, <1>8, <1>13, <3>1, <3>2
  <2> QED
    BY <1>13, <2>1, <2>2
<1> QED
  BY <1>16, <1>17, <1>18, <1>19


-----------------------------------------------------------------------------
\* unassignJob

\* A plain list, in the terms of its numbers.
LEMMA PlainIs ==
  ASSUME NEW q \in Seq(Space),
         \A i \in DOMAIN q : /\ q[i].first <= q[i].last /\ q[i].length = Infinity
                             /\ ~q[i].linked /\ ~q[i].virtual,
         \A i, k \in DOMAIN q : i < k => q[i].last + 1 < q[k].first
  PROVE  Plain(q)
<1>1. InOrder(q)
  BY DEF InOrder
<1>2. Doubling(q)
  BY DEF Doubling
<1> QED
  BY <1>1, <1>2 DEF Plain, Sound

LEMMA PlainHas ==
  ASSUME NEW q, Plain(q)
  PROVE  /\ q \in Seq(Space) /\ Sound(q) /\ Len(q) \in Nat /\ DOMAIN q = 1 .. Len(q)
         /\ \A i \in DOMAIN q : /\ q[i] \in Space /\ q[i].first \in Int /\ q[i].last \in Int
                                /\ q[i].first <= q[i].last /\ q[i].length = Infinity
                                /\ ~q[i].linked /\ ~q[i].virtual
         /\ \A i, k \in DOMAIN q : i < k => q[i].last + 1 < q[k].first
BY SpacesHave DEF Plain, Sound, InOrder

\* The spaces that begin before the machines a .. b are the first ones; they end
\* before them too, the others begin after them.
LEMMA BeforeHas ==
  ASSUME NEW q, Plain(q), NEW a \in Int, NEW b \in Int, a <= b,
         \A m \in Int : a <= m /\ m <= b => m \notin Cover(q), NEW i, i = Before(q, <<a, b>>)
  PROVE  /\ i \in 0 .. Len(q)
         /\ \A k \in DOMAIN q : k <= i => q[k].last < a
         /\ \A k \in DOMAIN q : ~(k <= i) => b < q[k].first
<1>1. /\ Len(q) \in Nat /\ DOMAIN q = 1 .. Len(q)
      /\ \A k \in DOMAIN q : q[k].first \in Int /\ q[k].last \in Int /\ q[k].first <= q[k].last
      /\ \A k, x \in DOMAIN q : k < x => q[k].last + 1 < q[x].first
  BY PlainHas
<1> DEFINE U == {k \in DOMAIN q : q[k].first <= a}
<1>2. i = Cardinality(U)
  BY DEF Before
<1>3. \E n \in 0 .. Len(q) : U = 1 .. n
  <2>1. CASE U = {}
    <3>1. 0 \in 0 .. Len(q) /\ 1 .. 0 = {}
      BY <1>1
    <3> QED
      BY <2>1, <3>1
  <2>2. CASE U # {}
    <3>1. U \subseteq 1 .. Len(q)
      BY <1>1
    <3>2. Max(U) \in U /\ \A x \in U : x <= Max(U)
      BY <1>1, <2>2, <3>1, MaxExists
    <3> DEFINE n == Max(U)
    <3> HIDE DEF n
    <3>3. n \in 1 .. Len(q) /\ q[n].first <= a /\ \A x \in U : x <= n
      BY <3>1, <3>2 DEF n
    <3>4. ASSUME NEW x \in 1 .. n PROVE x \in U
      <4>1. x \in DOMAIN q /\ (x = n \/ x < n)
        BY <1>1, <3>3
      <4>2. CASE x = n
        BY <3>3, <4>1, <4>2
      <4>3. CASE x < n
        <5>1. q[x].last + 1 < q[n].first
          BY <1>1, <3>3, <4>1, <4>3
        <5>2. q[x].first <= a
          BY <1>1, <3>3, <4>1, <5>1
        <5> QED
          BY <4>1, <5>2
      <4> QED
        BY <4>1, <4>2, <4>3
    <3>5. \A x \in U : x \in 1 .. n
      BY <3>1, <3>3
    <3>6. U = 1 .. n
      BY <3>4, <3>5
    <3> QED
      BY <1>1, <3>3, <3>6
  <2> QED
    BY <2>1, <2>2
<1>4. PICK n \in 0 .. Len(q) : U = 1 .. n
  BY <1>3
<1> HIDE DEF U
<1>5. i = n
  <2>1. n \in Nat /\ 1 \in Int /\ n \in Int
    BY <1>1
  <2>2. Cardinality(1 .. n) = IF 1 > n THEN 0 ELSE n - 1 + 1
    BY <2>1, FS_Interval
  <2> QED
    BY <1>2, <1>4, <2>1, <2>2
<1>6. \A k \in DOMAIN q : k <= i <=> q[k].first <= a
  BY <1>1, <1>4, <1>5 DEF U
<1>7. ASSUME NEW k \in DOMAIN q PROVE q[k].last < a \/ b < q[k].first
  <2> SUFFICES ASSUME ~(q[k].last < a), ~(b < q[k].first) PROVE FALSE
    OBVIOUS
  <2>1. PICK f \in Int, l \in Int : f = q[k].first /\ l = q[k].last /\ f <= l /\ a <= l /\ f <= b
    BY <1>1
  <2> DEFINE m == IF f <= a THEN a ELSE f
  <2>2. m \in Int /\ a <= m /\ m <= b /\ f <= m /\ m <= l
    BY <2>1
  <2>3. m \in Cover(q)
    BY <2>1, <2>2 DEF Cover, Within
  <2> QED
    BY <2>2, <2>3
<1> QED
  <2>1. \A k \in DOMAIN q : k <= i => ~(b < q[k].first)
    BY <1>1, <1>6
  <2>2. \A k \in DOMAIN q : ~(k <= i) => ~(q[k].last < a)
    BY <1>1, <1>6
  <2> QED
    BY <1>4, <1>5, <1>7, <2>1, <2>2

LEMMA FreeSpaceHas ==
  ASSUME NEW a \in Int, NEW b \in Int, NEW e, e = FreeSpace(a, b, Infinity)
  PROVE  e \in Space /\ e.first = a /\ e.last = b /\ e.length = Infinity /\ ~e.linked /\ ~e.virtual
BY EasyAssumption DEF FreeSpace, Space

\* The machines a .. b are free again: the list stays in order, with them.
LEMMA UnassignHas ==
  ASSUME NEW q, Plain(q), NEW a \in Int, NEW b \in Int, a <= b,
         \A m \in Int : a <= m /\ m <= b => m \notin Cover(q), NEW r, r = unassignJob(q, <<a, b>>)
  PROVE  /\ Plain(r)
         /\ \A m \in Int : m \in Cover(r) <=> m \in Cover(q) \/ (a <= m /\ m <= b)
<1>1. /\ q \in Seq(Space) /\ Len(q) \in Nat /\ DOMAIN q = 1 .. Len(q)
      /\ \A k \in DOMAIN q : /\ q[k] \in Space /\ q[k].first \in Int /\ q[k].last \in Int
                             /\ q[k].first <= q[k].last /\ q[k].length = Infinity
                             /\ ~q[k].linked /\ ~q[k].virtual
      /\ \A k, x \in DOMAIN q : k < x => q[k].last + 1 < q[x].first
  BY PlainHas
<1>2. PICK i \in Int, x \in Int, L \in Nat :
        /\ i = Before(q, <<a, b>>) /\ x = i + 1 /\ L = Len(q) /\ 0 <= i /\ i <= L /\ DOMAIN q = 1 .. L
        /\ \A k \in 1 .. L : k <= i => q[k].last < a
        /\ \A k \in 1 .. L : ~(k <= i) => b < q[k].first
  <2> DEFINE i == Before(q, <<a, b>>)
  <2>1. /\ i \in 0 .. Len(q)
        /\ \A k \in DOMAIN q : k <= i => q[k].last < a
        /\ \A k \in DOMAIN q : ~(k <= i) => b < q[k].first
    BY BeforeHas
  <2> HIDE DEF i
  <2>2. i \in Int /\ i + 1 \in Int /\ 0 <= i /\ i <= Len(q)
    BY <1>1, <2>1
  <2> QED
    BY <1>1, <2>1, <2>2 DEF i
<1> DEFINE below == i > 0 /\ q[i].last + 1 = a
           above == i < L /\ q[x].first - 1 = b
<1>3. /\ MergesBelow(q, <<a, b>>) <=> below
      /\ MergesAbove(q, <<a, b>>) <=> above
  BY <1>2 DEF MergesBelow, MergesAbove
<1> DEFINE u == [q EXCEPT ![i].last = q[x].last]
           v == [q EXCEPT ![i].last = b, ![i].smallestFirst = FALSE]
           w == [q EXCEPT ![x].first = a, ![x].smallestFirst = TRUE]
           e == FreeSpace(a, b, Infinity)
<1>4. /\ below /\ above => r = RemoveAt(u, x)
      /\ below /\ ~above => r = v
      /\ ~below /\ above => r = w
      /\ ~below /\ ~above => r = InsertAt(q, x, e)
  BY <1>2, <1>3 DEF unassignJob
<1>11. /\ \A k \in 1 .. L : /\ q[k] \in Space /\ q[k].first \in Int /\ q[k].last \in Int
                             /\ q[k].first <= q[k].last /\ q[k].length = Infinity
                             /\ ~q[k].linked /\ ~q[k].virtual
       /\ \A k, y \in 1 .. L : k < y => q[k].last + 1 < q[y].first
  BY <1>1, <1>2
<1>12. i \in Int /\ x \in Int /\ L \in Nat /\ x = i + 1 /\ 0 <= i /\ i <= L
  BY <1>2
<1>13. /\ \A k \in 1 .. L : k <= i => q[k].last < a
       /\ \A k \in 1 .. L : ~(k <= i) => b < q[k].first
  BY <1>2
<1>14. \A m \in Int : m \in Cover(q) <=> \E k \in 1 .. L : Within(m, q[k])
  BY <1>2 DEF Cover
<1>15. q \in Seq(Space) /\ DOMAIN q = 1 .. L /\ Len(q) = L
  BY <1>1, <1>2
<1>9. ASSUME ~below, NEW k \in 1 .. L, k <= i PROVE q[k].last + 1 < a
  <2>1. i \in 1 .. L /\ q[i].last < a /\ q[i].last + 1 # a
    BY <1>11, <1>12, <1>13, <1>9
  <2>2. k = i \/ q[k].last + 1 < q[i].first
    BY <1>11, <1>12, <1>13, <1>9, <2>1
  <2> QED
    BY <1>11, <1>12, <1>13, <2>1, <2>2
<1>10. ASSUME ~above, NEW k \in 1 .. L, k > i PROVE b + 1 < q[k].first
  <2>1. x \in 1 .. L /\ b < q[x].first /\ q[x].first - 1 # b
    BY <1>11, <1>12, <1>13, <1>10
  <2>2. k = x \/ q[x].last + 1 < q[k].first
    BY <1>11, <1>12, <1>13, <1>10, <2>1
  <2> QED
    BY <1>11, <1>12, <1>13, <2>1, <2>2
<1>5. CASE below /\ ~above
  <2>1. i \in 1 .. L
    BY <1>11, <1>12, <1>13, <1>5
  <2>2. /\ v \in Seq(Space) /\ DOMAIN v = 1 .. L
        /\ \A k \in 1 .. L : k # i => v[k] = q[k]
        /\ v[i] \in Space /\ v[i].first = q[i].first /\ v[i].last = b /\ v[i].length = q[i].length
        /\ v[i].linked = q[i].linked /\ v[i].virtual = q[i].virtual
    <3>1. /\ DOMAIN v = 1 .. L /\ \A k \in 1 .. L : k # i => v[k] = q[k]
          /\ v[i] = [q[i] EXCEPT !.last = b, !.smallestFirst = FALSE]
      BY <1>15, <2>1
    <3>2. /\ v[i] \in Space /\ v[i].first = q[i].first /\ v[i].last = b /\ v[i].length = q[i].length
          /\ v[i].linked = q[i].linked /\ v[i].virtual = q[i].virtual
      BY <1>11, <1>12, <1>13, <2>1, <3>1 DEF Space
    <3>3. v = [k \in 1 .. L |-> v[k]]
      BY <1>15
    <3> HIDE DEF v
    <3>4. v \in Seq(Space)
      <4>1. \A k \in 1 .. L : v[k] \in Space
        BY <1>11, <3>1, <3>2
      <4>2. v \in [1 .. L -> Space]
        BY <3>3, <4>1
      <4> QED
        BY <1>12, <4>2, SeqDef
    <3> QED
      BY <3>1, <3>2, <3>4
  <2>3. r = v
    BY <1>4, <1>5
  <2> HIDE DEF v
  <2>4. \A k \in 1 .. L : k > i => b + 1 < q[k].first
    BY <1>5, <1>10
  <2>5. Plain(r)
    <3>1. \A k \in DOMAIN r : /\ r[k].first <= r[k].last /\ r[k].length = Infinity
                              /\ ~r[k].linked /\ ~r[k].virtual
      <4>1. q[i].first <= b
        BY <1>11, <1>12, <1>13, <2>1
      <4> QED
        BY <1>11, <1>12, <1>13, <2>1, <2>2, <2>3, <4>1
    <3>2. \A k, y \in DOMAIN r : k < y => r[k].last + 1 < r[y].first
      <4> SUFFICES ASSUME NEW k \in 1 .. L, NEW y \in 1 .. L, k < y PROVE v[k].last + 1 < v[y].first
        BY <2>2, <2>3
      <4>1. v[y].first = q[y].first
        BY <2>2
      <4>2. CASE k = i
        BY <1>11, <1>12, <1>13, <2>2, <2>4, <4>1, <4>2
      <4>3. CASE k # i
        BY <1>11, <1>12, <1>13, <2>2, <4>1, <4>3
      <4> QED
        BY <4>2, <4>3
    <3> QED
      BY <2>2, <2>3, <3>1, <3>2, PlainIs
  <2>6. \A k \in 1 .. L, m \in Int : Within(m, r[k]) <=> Within(m, q[k]) \/ (k = i /\ a <= m /\ m <= b)
    <3> SUFFICES ASSUME NEW k \in 1 .. L, NEW m \in Int
                 PROVE  Within(m, v[k]) <=> Within(m, q[k]) \/ (k = i /\ a <= m /\ m <= b)
      BY <2>3
    <3>1. CASE k = i
      <4>1. PICK f \in Int, l \in Int : f = q[i].first /\ l = q[i].last /\ f <= l /\ l + 1 = a
        BY <1>11, <1>12, <1>13, <1>5, <2>1
      <4>2. v[i].first = f /\ v[i].last = b
        BY <2>2, <4>1
      <4> QED
        BY <3>1, <4>1, <4>2 DEF Within
    <3>2. CASE k # i
      BY <2>2, <3>2
    <3> QED
      BY <3>1, <3>2
  <2>7. \A m \in Int : m \in Cover(r) <=> m \in Cover(q) \/ (a <= m /\ m <= b)
    BY <1>14, <2>1, <2>2, <2>3, <2>6 DEF Cover
  <2> QED
    BY <2>5, <2>7
<1>6. CASE ~below /\ above
  <2>1. x \in 1 .. L /\ q[x].first = b + 1
    BY <1>11, <1>12, <1>13, <1>6
  <2>2. /\ w \in Seq(Space) /\ DOMAIN w = 1 .. L
        /\ \A k \in 1 .. L : k # x => w[k] = q[k]
        /\ w[x] \in Space /\ w[x].first = a /\ w[x].last = q[x].last /\ w[x].length = q[x].length
        /\ w[x].linked = q[x].linked /\ w[x].virtual = q[x].virtual
    <3>1. /\ DOMAIN w = 1 .. L /\ \A k \in 1 .. L : k # x => w[k] = q[k]
          /\ w[x] = [q[x] EXCEPT !.first = a, !.smallestFirst = TRUE]
      BY <1>15, <2>1
    <3>2. /\ w[x] \in Space /\ w[x].first = a /\ w[x].last = q[x].last /\ w[x].length = q[x].length
          /\ w[x].linked = q[x].linked /\ w[x].virtual = q[x].virtual
      <4>1. q[x] \in Space
        BY <1>11, <2>1
      <4>2. ASSUME NEW l \in Space, NEW c, c = [l EXCEPT !.first = a, !.smallestFirst = TRUE]
            PROVE  /\ c \in Space /\ c.first = a /\ c.last = l.last /\ c.length = l.length
                   /\ c.linked = l.linked /\ c.virtual = l.virtual
        BY <4>2 DEF Space
      <4> HIDE DEF w
      <4> QED
        BY <3>1, <4>1, <4>2
    <3>3. w = [k \in 1 .. L |-> w[k]]
      BY <1>15
    <3> HIDE DEF w
    <3>4. w \in Seq(Space)
      <4>1. \A k \in 1 .. L : w[k] \in Space
        BY <1>11, <3>1, <3>2
      <4>2. w \in [1 .. L -> Space]
        BY <3>3, <4>1
      <4> QED
        BY <1>12, <4>2, SeqDef
    <3> QED
      BY <3>1, <3>2, <3>4
  <2>3. r = w
    BY <1>4, <1>6
  <2> HIDE DEF w
  <2>4. \A k \in 1 .. L : k < x => q[k].last + 1 < a
    BY <1>11, <1>12, <1>13, <1>6, <1>9
  <2>5. Plain(r)
    <3>1. \A k \in DOMAIN r : /\ r[k].first <= r[k].last /\ r[k].length = Infinity
                              /\ ~r[k].linked /\ ~r[k].virtual
      <4>1. a <= q[x].last
        BY <1>11, <1>12, <1>13, <2>1
      <4> QED
        BY <1>11, <1>12, <1>13, <2>1, <2>2, <2>3, <4>1
    <3>2. \A k, y \in DOMAIN r : k < y => r[k].last + 1 < r[y].first
      <4> SUFFICES ASSUME NEW k \in 1 .. L, NEW y \in 1 .. L, k < y PROVE w[k].last + 1 < w[y].first
        BY <2>2, <2>3
      <4>1. w[k].last = q[k].last
        BY <2>2
      <4>2. CASE y = x
        BY <1>11, <1>12, <1>13, <2>2, <2>4, <4>1, <4>2
      <4>3. CASE y # x
        BY <1>11, <1>12, <1>13, <2>2, <4>1, <4>3
      <4> QED
        BY <4>2, <4>3
    <3> QED
      BY <2>2, <2>3, <3>1, <3>2, PlainIs
  <2>6. \A k \in 1 .. L, m \in Int : Within(m, r[k]) <=> Within(m, q[k]) \/ (k = x /\ a <= m /\ m <= b)
    <3> SUFFICES ASSUME NEW k \in 1 .. L, NEW m \in Int
                 PROVE  Within(m, w[k]) <=> Within(m, q[k]) \/ (k = x /\ a <= m /\ m <= b)
      BY <2>3
    <3>1. CASE k = x
      <4>1. PICK f \in Int, l \in Int : f = q[x].first /\ l = q[x].last /\ f <= l /\ f = b + 1
        BY <1>11, <1>12, <1>13, <2>1
      <4>2. w[x].first = a /\ w[x].last = l
        BY <2>2, <4>1
      <4> QED
        BY <3>1, <4>1, <4>2 DEF Within
    <3>2. CASE k # x
      BY <2>2, <3>2
    <3> QED
      BY <3>1, <3>2
  <2>7. \A m \in Int : m \in Cover(r) <=> m \in Cover(q) \/ (a <= m /\ m <= b)
    BY <1>14, <2>1, <2>2, <2>3, <2>6 DEF Cover
  <2> QED
    BY <2>5, <2>7
<1>7. CASE ~below /\ ~above
  <2>1. x \in 1 .. L + 1 /\ x \in Int /\ \A k \in 1 .. L : k < x <=> k <= i
    BY <1>11, <1>12, <1>13
  <2>2. e \in Space /\ e.first = a /\ e.last = b /\ e.length = Infinity /\ ~e.linked /\ ~e.virtual
    BY FreeSpaceHas
  <2>3. r = InsertAt(q, x, e)
    BY <1>4, <1>7
  <2> HIDE DEF e
  <2>4. /\ r \in Seq(Space) /\ DOMAIN r = 1 .. L + 1 /\ r[x] = e
        /\ \A k \in 1 .. L + 1 : (k < x => r[k] = q[k]) /\ (x < k => r[k] = q[k - 1])
    <3>1. x \in 1 .. Len(q) + 1
      BY <1>15, <2>1
    <3>2. /\ r \in Seq(Space) /\ DOMAIN r = 1 .. Len(q) + 1 /\ r[x] = e
          /\ \A k \in 1 .. Len(q) + 1 : (k < x => r[k] = q[k]) /\ (x < k => r[k] = q[k - 1])
      <4>1. PICK z \in Space : z = e
        BY <2>2
      <4>2. q \in Seq(Space) /\ r = InsertAt(q, x, z)
        BY <1>15, <2>3, <4>1
      <4>3. /\ r \in Seq(Space) /\ DOMAIN r = 1 .. Len(q) + 1 /\ r[x] = z
            /\ \A k \in 1 .. Len(q) + 1 : (k < x => r[k] = q[k]) /\ (x < k => r[k] = q[k - 1])
        <5>1. r \in Seq(Space) /\ Inserted(r, q, x, z)
          BY <3>1, <4>2, InsertAtHas
        <5> QED
          BY <5>1 DEF Inserted
      <4> QED
        BY <4>1, <4>3
    <3> QED
      BY <1>15, <3>2
  <2>5. ASSUME NEW k \in DOMAIN r
        PROVE  /\ k < x => k \in 1 .. L /\ r[k] = q[k] /\ q[k].last + 1 < a
               /\ k = x => r[k] = e
               /\ x < k => k - 1 \in 1 .. L /\ r[k] = q[k - 1] /\ b + 1 < q[k - 1].first
               /\ k \in Int
    <3>1. CASE k < x
      <4>1. k \in 1 .. L
        BY <1>11, <1>12, <1>13, <2>1, <2>4, <3>1
      <4>2. q[k].last + 1 < a
        BY <1>7, <1>9, <2>1, <3>1, <4>1
      <4>3. r[k] = q[k]
        BY <2>4, <3>1
      <4>4. k # x /\ ~(x < k) /\ k \in Int
        BY <1>12, <3>1, <4>1
      <4> QED
        BY <4>1, <4>2, <4>3, <4>4
    <3>2. CASE k = x
      BY <2>1, <2>4, <3>2
    <3>3. CASE x < k
      <4>1. k - 1 \in 1 .. L /\ k - 1 > i
        BY <1>11, <1>12, <1>13, <2>4, <3>3
      <4>2. b + 1 < q[k - 1].first
        BY <1>7, <1>10, <4>1
      <4>3. r[k] = q[k - 1] /\ ~(k < x) /\ k # x /\ k \in Int
        BY <2>1, <2>4, <3>3
      <4> QED
        BY <4>1, <4>2, <4>3
    <3>4. k \in Int
      BY <1>11, <1>12, <1>13, <2>4
    <3> QED
      BY <2>1, <3>1, <3>2, <3>3, <3>4
  <2>6. Plain(r)
    <3>1. \A k \in DOMAIN r : /\ r[k].first <= r[k].last /\ r[k].length = Infinity
                              /\ ~r[k].linked /\ ~r[k].virtual
      <4> SUFFICES ASSUME NEW k \in DOMAIN r
                   PROVE  r[k].first <= r[k].last /\ r[k].length = Infinity /\ ~r[k].linked /\ ~r[k].virtual
        OBVIOUS
      <4>1. k < x \/ k = x \/ x < k
        BY <2>1, <2>5
      <4>2. CASE k = x
        BY <2>2, <2>5, <4>2
      <4>3. CASE k # x
        BY <1>11, <1>12, <1>13, <2>5, <4>1, <4>3
      <4> QED
        BY <4>2, <4>3
    <3>2. ASSUME NEW k \in DOMAIN r, NEW y \in DOMAIN r, k < y PROVE r[k].last + 1 < r[y].first
      <4>1. k \in Int /\ y \in Int
        BY <2>5
      <4>2. CASE y < x
        <5>1. k < x
          BY <2>1, <3>2, <4>1, <4>2
        <5> QED
          BY <1>11, <1>12, <1>13, <2>5, <3>2, <4>2, <5>1
      <4>3. CASE y = x
        BY <2>2, <2>5, <3>2, <4>3
      <4>4. CASE x < y
        <5>1. r[y] = q[y - 1] /\ y - 1 \in 1 .. L /\ b + 1 < q[y - 1].first /\ q[y - 1].first \in Int
          BY <1>11, <1>12, <1>13, <2>5, <4>4
        <5>2. CASE k < x
          <6>1. r[k] = q[k] /\ q[k].last + 1 < a /\ q[k].last \in Int
            BY <1>11, <1>12, <1>13, <2>5, <5>2
          <6> QED
            BY <5>1, <6>1
        <5>3. CASE k = x
          BY <2>2, <2>5, <5>1, <5>3
        <5>4. CASE x < k
          <6>1. r[k] = q[k - 1] /\ k - 1 \in 1 .. L /\ k - 1 < y - 1
            BY <2>5, <3>2, <4>1, <5>4
          <6> QED
            BY <1>11, <1>12, <1>13, <5>1, <6>1
        <5> QED
          BY <2>1, <4>1, <5>2, <5>3, <5>4
      <4> QED
        BY <2>1, <4>1, <4>2, <4>3, <4>4
    <3> QED
      BY <2>4, <3>1, <3>2, PlainIs
  <2>7. ASSUME NEW m \in Int PROVE m \in Cover(r) <=> m \in Cover(q) \/ (a <= m /\ m <= b)
    <3>1. ASSUME NEW k \in DOMAIN r, Within(m, r[k]) PROVE m \in Cover(q) \/ (a <= m /\ m <= b)
      <4>1. k < x \/ k = x \/ x < k
        BY <2>1, <2>5
      <4>2. CASE k = x
        BY <2>2, <2>5, <3>1, <4>2 DEF Within
      <4>3. CASE k # x
        BY <1>14, <2>5, <3>1, <4>1, <4>3 DEF Cover
      <4> QED
        BY <4>2, <4>3
    <3>2. ASSUME NEW k \in 1 .. L, Within(m, q[k]) PROVE m \in Cover(r)
      <4>1. CASE k < x
        <5>1. k \in 1 .. L + 1
          BY <1>12
        <5>2. k \in DOMAIN r /\ r[k] = q[k]
          BY <2>4, <4>1, <5>1
        <5> QED
          BY <3>2, <5>2 DEF Cover
      <4>2. CASE ~(k < x)
        <5>1. k + 1 \in 1 .. L + 1 /\ x < k + 1 /\ (k + 1) - 1 = k
          BY <1>11, <1>12, <1>13, <2>1, <4>2
        <5>2. r[k + 1] = q[k]
          BY <2>4, <2>5, <5>1
        <5> QED
          BY <1>14, <2>4, <3>2, <5>1, <5>2 DEF Cover
      <4> QED
        BY <4>1, <4>2
    <3>3. ASSUME a <= m, m <= b PROVE m \in Cover(r)
      <4>1. x \in DOMAIN r /\ r[x] = e
        BY <2>1, <2>4, <2>5
      <4> QED
        BY <1>14, <2>2, <3>3, <4>1 DEF Cover, Within
    <3> QED
      BY <1>14, <3>1, <3>2, <3>3 DEF Cover
  <2> QED
    BY <2>6, <2>7
<1>8. CASE below /\ above
  <2>1. /\ i \in 1 .. L /\ x \in 1 .. L /\ x \in Int /\ i \in Int /\ x = i + 1
        /\ q[i].last + 1 = a /\ q[x].first = b + 1
    BY <1>11, <1>12, <1>13, <1>8
  <2>2. /\ u \in Seq(Space) /\ DOMAIN u = 1 .. L /\ Len(u) = L
        /\ \A k \in 1 .. L : k # i => u[k] = q[k]
        /\ u[i] \in Space /\ u[i].first = q[i].first /\ u[i].last = q[x].last /\ u[i].length = q[i].length
        /\ u[i].linked = q[i].linked /\ u[i].virtual = q[i].virtual
    <3>1. /\ DOMAIN u = 1 .. L /\ \A k \in 1 .. L : k # i => u[k] = q[k]
          /\ u[i] = [q[i] EXCEPT !.last = q[x].last]
      BY <1>15, <2>1
    <3>2. /\ u[i] \in Space /\ u[i].first = q[i].first /\ u[i].last = q[x].last /\ u[i].length = q[i].length
          /\ u[i].linked = q[i].linked /\ u[i].virtual = q[i].virtual
      BY <1>11, <1>12, <1>13, <2>1, <3>1 DEF Space
    <3>3. u = [k \in 1 .. L |-> u[k]]
      BY <1>15
    <3> HIDE DEF u
    <3>4. u \in Seq(Space)
      <4>1. \A k \in 1 .. L : u[k] \in Space
        BY <1>11, <3>1, <3>2
      <4>2. u \in [1 .. L -> Space]
        BY <3>3, <4>1
      <4> QED
        BY <1>12, <4>2, SeqDef
    <3>5. Len(u) = L
      BY <1>11, <1>12, <1>13, <3>1, <3>4, LenProperties
    <3> QED
      BY <3>1, <3>2, <3>4, <3>5
  <2>3. r = RemoveAt(u, x)
    BY <1>4, <1>8
  <2> HIDE DEF u
  <2>4. /\ r \in Seq(Space) /\ DOMAIN r = 1 .. L - 1
        /\ \A k \in 1 .. L - 1 : r[k] = IF k < x THEN u[k] ELSE u[k + 1]
    <3>1. x \in 1 .. Len(u)
      BY <2>1, <2>2
    <3>2. /\ r \in Seq(Space) /\ DOMAIN r = 1 .. Len(u) - 1
          /\ \A k \in 1 .. Len(u) - 1 : r[k] = IF k < x THEN u[k] ELSE u[k + 1]
      BY <2>2, <2>3, <3>1, RemoveAtHas
    <3> QED
      BY <2>2, <3>2
  <2>5. ASSUME NEW k \in DOMAIN r
        PROVE  /\ k < i => k \in 1 .. L /\ r[k] = q[k]
               /\ k = i => r[k] = u[i]
               /\ i < k => k + 1 \in 1 .. L /\ r[k] = q[k + 1] /\ x < k + 1
               /\ k \in Int
    <3>1. k \in Int /\ k + 1 \in 1 .. L /\ k \in 1 .. L
      BY <1>11, <1>12, <1>13, <2>4
    <3>2. CASE k < i
      <4>1. k < x /\ k # i
        BY <2>1, <3>1, <3>2
      <4>2. r[k] = u[k] /\ u[k] = q[k]
        BY <2>2, <2>4, <3>1, <4>1
      <4>3. ~(k = i) /\ ~(i < k)
        BY <2>1, <3>1, <3>2
      <4> QED
        BY <3>1, <4>2, <4>3
    <3>3. CASE k = i
      <4>1. k < x
        BY <2>1, <3>3
      <4> QED
        BY <2>1, <2>4, <3>1, <3>3, <4>1
    <3>4. CASE i < k
      <4>1. ~(k < x) /\ k + 1 # i /\ x < k + 1
        BY <2>1, <3>1, <3>4
      <4>2. r[k] = u[k + 1]
        BY <2>4, <4>1
      <4> QED
        BY <2>1, <2>2, <3>1, <3>4, <4>1, <4>2
    <3> QED
      BY <2>1, <3>1, <3>2, <3>3, <3>4
  <2>6. Plain(r)
    <3>1. \A k \in DOMAIN r : /\ r[k].first <= r[k].last /\ r[k].length = Infinity
                              /\ ~r[k].linked /\ ~r[k].virtual
      <4> SUFFICES ASSUME NEW k \in DOMAIN r
                   PROVE  r[k].first <= r[k].last /\ r[k].length = Infinity /\ ~r[k].linked /\ ~r[k].virtual
        OBVIOUS
      <4>1. k < i \/ k = i \/ i < k
        BY <2>1, <2>5
      <4>2. CASE k = i
        <5>1. q[i].first <= q[x].last
          BY <1>11, <1>12, <1>13, <2>1
        <5> QED
          BY <1>11, <1>12, <1>13, <2>1, <2>2, <2>5, <4>2, <5>1
      <4>3. CASE k # i
        BY <1>11, <1>12, <1>13, <2>5, <4>1, <4>3
      <4> QED
        BY <4>2, <4>3
    <3>2. ASSUME NEW k \in DOMAIN r, NEW y \in DOMAIN r, k < y PROVE r[k].last + 1 < r[y].first
      <4>1. k \in Int /\ y \in Int
        BY <2>5
      <4>2. CASE y < i
        <5>1. k < i
          BY <2>1, <3>2, <4>1, <4>2
        <5> QED
          BY <1>11, <1>12, <1>13, <2>5, <3>2, <4>2, <5>1
      <4>3. CASE y = i
        <5>1. k < i /\ k \in 1 .. L /\ r[k] = q[k] /\ r[y] = u[i]
          BY <2>5, <3>2, <4>3
        <5> QED
          BY <1>11, <1>12, <1>13, <2>1, <2>2, <5>1
      <4>4. CASE i < y
        <5>1. r[y] = q[y + 1] /\ y + 1 \in 1 .. L /\ x < y + 1
          BY <2>5, <4>4
        <5>2. CASE k < i
          <6>1. r[k] = q[k] /\ k \in 1 .. L /\ k < y + 1
            BY <2>1, <2>5, <3>2, <4>1, <5>2
          <6> QED
            BY <1>11, <1>12, <1>13, <5>1, <6>1
        <5>3. CASE k = i
          <6>1. r[k].last = q[x].last
            BY <2>2, <2>5, <5>3
          <6> QED
            BY <1>11, <1>12, <1>13, <2>1, <5>1, <6>1
        <5>4. CASE i < k
          <6>1. r[k] = q[k + 1] /\ k + 1 \in 1 .. L /\ k + 1 < y + 1
            BY <2>5, <3>2, <4>1, <5>4
          <6> QED
            BY <1>11, <1>12, <1>13, <5>1, <6>1
        <5> QED
          BY <2>1, <4>1, <5>2, <5>3, <5>4
      <4> QED
        BY <2>1, <4>1, <4>2, <4>3, <4>4
    <3> QED
      BY <2>4, <3>1, <3>2, PlainIs
  <2>7. ASSUME NEW m \in Int PROVE m \in Cover(r) <=> m \in Cover(q) \/ (a <= m /\ m <= b)
    <3>1. Within(m, u[i]) <=> Within(m, q[i]) \/ Within(m, q[x]) \/ (a <= m /\ m <= b)
      <4>1. PICK f \in Int, g \in Int, h \in Int, l \in Int :
              /\ f = q[i].first /\ g = q[i].last /\ h = q[x].first /\ l = q[x].last
              /\ f <= g /\ g + 1 = a /\ h = b + 1 /\ h <= l
        BY <1>11, <1>12, <1>13, <2>1
      <4>2. u[i].first = f /\ u[i].last = l
        BY <2>2, <4>1
      <4> QED
        BY <4>1, <4>2 DEF Within
    <3>2. i \in DOMAIN r /\ r[i] = u[i]
      <4>1. i \in 1 .. L - 1
        BY <1>12, <2>1
      <4> QED
        BY <2>4, <2>5, <4>1
    <3>3. ASSUME NEW k \in DOMAIN r, Within(m, r[k]) PROVE m \in Cover(q) \/ (a <= m /\ m <= b)
      <4>1. k < i \/ k = i \/ i < k
        BY <2>1, <2>5
      <4>2. CASE k = i
        BY <1>14, <2>1, <3>1, <3>2, <3>3, <4>2 DEF Cover
      <4>3. CASE k # i
        BY <1>14, <2>5, <3>3, <4>1, <4>3 DEF Cover
      <4> QED
        BY <4>2, <4>3
    <3>4. ASSUME NEW k \in 1 .. L, Within(m, q[k]) PROVE m \in Cover(r)
      <4>1. CASE k = i \/ k = x
        BY <1>14, <3>1, <3>2, <3>4, <4>1 DEF Cover
      <4>2. CASE k < i
        <5>1. k \in DOMAIN r
          BY <1>11, <1>12, <1>13, <2>1, <2>4, <4>2
        <5> QED
          BY <1>14, <2>5, <3>4, <4>2, <5>1 DEF Cover
      <4>3. CASE x < k
        <5>1. k - 1 \in DOMAIN r /\ i < k - 1 /\ (k - 1) + 1 = k
          BY <1>11, <1>12, <1>13, <2>1, <2>4, <4>3
        <5>2. r[k - 1] = q[k]
          BY <2>5, <5>1
        <5> QED
          BY <1>14, <3>4, <5>1, <5>2 DEF Cover
      <4>4. k = i \/ k = x \/ k < i \/ x < k
        BY <1>11, <1>12, <1>13, <2>1
      <4> QED
        BY <4>1, <4>2, <4>3, <4>4
    <3>5. ASSUME a <= m, m <= b PROVE m \in Cover(r)
      BY <1>14, <3>1, <3>2, <3>5 DEF Cover
    <3> QED
      BY <1>14, <3>3, <3>4, <3>5 DEF Cover
  <2> QED
    BY <2>6, <2>7
<1> QED
  BY <1>5, <1>6, <1>7, <1>8


-----------------------------------------------------------------------------
\* allocFutureJob

\* What becomes of the space l: the space itself, perhaps shortened, and perhaps
\* a virtual one that doubles it.
Pieces(R, l, length) ==
  /\ R \in Seq(Space) /\ Len(R) \in {1, 2}
  /\ ~R[1].virtual /\ R[1].first = l.first /\ R[1].last = l.last
  /\ R[1].length \in {l.length, length}
  /\ R[1].linked <=> Len(R) = 2
  /\ Len(R) = 2 => /\ R[2].virtual /\ R[2].linked /\ Halves(R[1], R[2])
                   /\ R[1].length = length /\ R[2].length = Infinity /\ R[2].first <= R[2].last

LEMMA PairHas ==
  ASSUME NEW S, NEW a \in S, NEW b \in S, NEW d, d = <<a, b>>
  PROVE  d \in Seq(S) /\ Len(d) = 2 /\ d[1] = a /\ d[2] = b
OBVIOUS

LEMMA DoubledBelow ==
  ASSUME NEW l \in Space, ~l.virtual, NEW f \in Int, NEW g \in Int, NEW length \in Int,
         f <= g, l.first <= f, g <= l.last, f = l.first,
         NEW d, d = Doubled(l, FreeSpace(f, g, Infinity), length, TRUE)
  PROVE  Pieces(d, l, length) /\ Len(d) = 2
<1> DEFINE o == [Shorten(l, length) EXCEPT !.linked = TRUE, !.smallestFirst = ~TRUE]
           v == [FreeSpace(f, g, Infinity) EXCEPT !.linked = TRUE, !.virtual = TRUE, !.smallestFirst = TRUE]
<1>1. d = <<o, v>>
  BY DEF Doubled, insertNewFreeSpaceAfter
<1>2. /\ o \in Space /\ o.first = l.first /\ o.last = l.last /\ o.length = length
      /\ o.linked /\ ~o.virtual /\ o.smallestFirst = FALSE
  BY DEF Shorten, Space
<1>3. Infinity \in Int
  BY EasyAssumption
<1>4. /\ v \in Space /\ v.first = f /\ v.last = g /\ v.length = Infinity
      /\ v.linked /\ v.virtual /\ v.smallestFirst = TRUE
  BY <1>3 DEF FreeSpace, Space
<1> HIDE DEF o, v
<1>5. d \in Seq(Space) /\ Len(d) = 2 /\ d[1] = o /\ d[2] = v
  <2>1. o \in Space /\ v \in Space
    BY <1>2, <1>4
  <2>2. ASSUME NEW z, z = <<o, v>>
        PROVE  z \in Seq(Space) /\ Len(z) = 2 /\ z[1] = o /\ z[2] = v
    BY <2>1, <2>2, PairHas
  <2> QED
    BY <1>1, <2>2
<1>6. Halves(o, v)
  BY <1>2, <1>4 DEF Halves
<1> QED
  BY <1>2, <1>4, <1>5, <1>6 DEF Pieces

LEMMA DoubledAbove ==
  ASSUME NEW l \in Space, ~l.virtual, NEW f \in Int, NEW g \in Int, NEW length \in Int,
         f <= g, l.first <= f, g <= l.last, g = l.last,
         NEW d, d = Doubled(l, FreeSpace(f, g, Infinity), length, FALSE)
  PROVE  Pieces(d, l, length) /\ Len(d) = 2
<1> DEFINE o == [Shorten(l, length) EXCEPT !.linked = TRUE, !.smallestFirst = ~FALSE]
           v == [FreeSpace(f, g, Infinity) EXCEPT !.linked = TRUE, !.virtual = TRUE, !.smallestFirst = FALSE]
<1>1. d = <<o, v>>
  BY DEF Doubled, insertNewFreeSpaceAfter
<1>2. /\ o \in Space /\ o.first = l.first /\ o.last = l.last /\ o.length = length
      /\ o.linked /\ ~o.virtual /\ o.smallestFirst = TRUE
  BY DEF Shorten, Space
<1>3. Infinity \in Int
  BY EasyAssumption
<1>4. /\ v \in Space /\ v.first = f /\ v.last = g /\ v.length = Infinity
      /\ v.linked /\ v.virtual /\ v.smallestFirst = FALSE
  BY <1>3 DEF FreeSpace, Space
<1> HIDE DEF o, v
<1>5. d \in Seq(Space) /\ Len(d) = 2 /\ d[1] = o /\ d[2] = v
  <2>1. o \in Space /\ v \in Space
    BY <1>2, <1>4
  <2>2. ASSUME NEW z, z = <<o, v>>
        PROVE  z \in Seq(Space) /\ Len(z) = 2 /\ z[1] = o /\ z[2] = v
    BY <2>1, <2>2, PairHas
  <2> QED
    BY <1>1, <2>2
<1>6. Halves(o, v)
  BY <1>2, <1>4 DEF Halves
<1> QED
  BY <1>2, <1>4, <1>5, <1>6 DEF Pieces

LEMMA ReservedHas ==
  ASSUME NEW l \in Space, ~l.virtual, ~l.linked, l.first <= l.last,
         NEW res, res[1] \in Int, res[2] \in Int, NEW length \in Int,
         NEW R, R = Reserved(l, res, length)
  PROVE  /\ Pieces(R, l, length)
         /\ Len(R) = 2 => ReachesBelow(l, res) \/ ReachesAbove(l, res)
<1>1. l.first \in Int /\ l.last \in Int
  BY SpaceFields
<1>2. CASE ReachesBelow(l, res)
  <2>1. R = Doubled(l, FreeSpace(l.first, res[1] - 1, Infinity), length, TRUE)
    BY <1>2 DEF Reserved
  <2>2. PICK f \in Int, g \in Int : f = l.first /\ g = res[1] - 1
    BY <1>1
  <2>3. f <= g /\ l.first <= f /\ g <= l.last
    BY <1>1, <1>2, <2>2 DEF ReachesBelow
  <2>4. R = Doubled(l, FreeSpace(f, g, Infinity), length, TRUE)
    BY <2>1, <2>2
  <2>5. Pieces(R, l, length) /\ Len(R) = 2
    BY <2>2, <2>3, <2>4, DoubledBelow
  <2> QED
    BY <1>2, <2>5
<1>3. CASE ~ReachesBelow(l, res) /\ ReachesAbove(l, res)
  <2>1. R = Doubled(l, FreeSpace(res[2] + 1, l.last, Infinity), length, FALSE)
    BY <1>3 DEF Reserved
  <2>2. PICK f \in Int, g \in Int : f = res[2] + 1 /\ g = l.last
    BY <1>1
  <2>3. f <= g /\ l.first <= f /\ g <= l.last
    BY <1>1, <1>3, <2>2 DEF ReachesAbove
  <2>4. R = Doubled(l, FreeSpace(f, g, Infinity), length, FALSE)
    BY <2>1, <2>2
  <2>5. Pieces(R, l, length) /\ Len(R) = 2
    BY <2>2, <2>3, <2>4, DoubledAbove
  <2> QED
    BY <1>3, <2>5
<1>4. CASE ~ReachesBelow(l, res) /\ ~ReachesAbove(l, res)
  <2>1. R = <<Shorten(l, length)>> \/ R = <<l>>
    BY <1>4 DEF Reserved
  <2>2. PICK o : R = <<o>> /\ (o = Shorten(l, length) \/ o = l)
    BY <2>1
  <2>3. /\ o \in Space /\ o.first = l.first /\ o.last = l.last /\ o.length \in {l.length, length}
        /\ ~o.linked /\ ~o.virtual
    <3>1. CASE o = l
      BY <3>1
    <3>2. CASE o = Shorten(l, length)
      BY <3>2 DEF Shorten, Space
    <3> QED
      BY <2>2, <3>1, <3>2
  <2>4. R \in Seq(Space) /\ Len(R) = 1 /\ R[1] = o
    BY <2>2, <2>3
  <2> QED
    BY <2>3, <2>4 DEF Pieces
<1> QED
  BY <1>2, <1>3, <1>4

\* The pieces of the next space follow those of the spaces before it.
LEMMA JoinSound ==
  ASSUME NEW p, Sound(p), NEW l \in Space, NEW length \in Int, length # Infinity, l.first <= l.last,
         NEW R, Pieces(R, l, length),
         \A y \in DOMAIN p : p[y].last + 1 < l.first,
         Len(R) = 2 => \A y \in DOMAIN p : ~p[y].linked,
         NEW t, t = p \o R
  PROVE  /\ Sound(t)
         /\ \A m \in Int : m \in Cover(t) <=> m \in Cover(p) \/ Within(m, l)
         /\ \A y \in DOMAIN t : (\E z \in DOMAIN p : t[y] = p[z]) \/ (\E z \in 1 .. Len(R) : t[y] = R[z])
<1>1. PICK P \in Nat, T \in Nat : P = Len(p) /\ T = Len(R) /\ (T = 1 \/ T = 2)
  BY SpacesHave DEF Sound, Pieces
<1>2. /\ p \in Seq(Space) /\ DOMAIN p = 1 .. P
      /\ \A y \in 1 .. P : /\ p[y] \in Space /\ p[y].first \in Int /\ p[y].last \in Int
                           /\ p[y].first <= p[y].last /\ p[y].last + 1 < l.first
  BY <1>1, SpacesHave DEF Sound
<1>3. /\ R \in Seq(Space) /\ R[1] \in Space /\ (T = 2 => R[2] \in Space)
      /\ ~R[1].virtual /\ R[1].first = l.first /\ R[1].last = l.last
      /\ R[1].linked <=> T = 2
      /\ T = 2 => /\ R[2].virtual /\ R[2].linked /\ Halves(R[1], R[2])
                  /\ R[1].length = length /\ R[2].first <= R[2].last
      /\ l.first \in Int /\ l.last \in Int
  <2>1. R \in Seq(Space) /\ 1 \in 1 .. Len(R) /\ (T = 2 => 2 \in 1 .. Len(R))
    BY <1>1 DEF Pieces
  <2>2. R[1] \in Space /\ (T = 2 => R[2] \in Space)
    BY <2>1, ElementOfSeq
  <2> QED
    BY <1>1, <2>1, <2>2, SpaceFields DEF Pieces
<1>4. /\ t \in Seq(Space) /\ DOMAIN t = 1 .. P + T
      /\ \A y \in 1 .. P : t[y] = p[y]
      /\ t[P + 1] = R[1] /\ (T = 2 => t[P + 2] = R[2])
  <2>1. t \in Seq(Space) /\ Len(t) = P + T
    BY <1>1, <1>2, <1>3, ConcatProperties
  <2>4. \A y \in 1 .. P + T : (y <= P => t[y] = p[y]) /\ (~(y <= P) => t[y] = R[y - P])
    BY <1>1, <1>2, <1>3, <2>1, ConcatProperties
  <2>2. /\ P + 1 \in 1 .. P + T /\ ~(P + 1 <= P) /\ (P + 1) - P = 1
        /\ T = 2 => P + 2 \in 1 .. P + T /\ ~(P + 2 <= P) /\ (P + 2) - P = 2
    BY <1>1
  <2>3. \A y \in 1 .. P : y \in 1 .. P + T /\ y <= P
    BY <1>1
  <2>5. \A y \in 1 .. P : t[y] = p[y]
    BY <2>3, <2>4
  <2>6. t[P + 1] = R[1] /\ (T = 2 => t[P + 2] = R[2])
    BY <2>2, <2>4
  <2>7. DOMAIN t = 1 .. P + T
    BY <2>1, LenProperties
  <2> QED
    BY <2>1, <2>5, <2>6, <2>7
<1>5. \A y \in 1 .. P + T : y \in 1 .. P \/ y = P + 1 \/ (T = 2 /\ y = P + 2)
  <2>1. \A y \in 1 .. P + 1 : y \in 1 .. P \/ y = P + 1
    BY <1>1
  <2>2. \A y \in 1 .. P + 2 : y \in 1 .. P \/ y = P + 1 \/ y = P + 2
    BY <1>1
  <2> QED
    BY <1>1, <2>1, <2>2
<1>6. P + 1 \in 1 .. P + T /\ (T = 2 => P + 2 \in 1 .. P + T) /\ \A y \in 1 .. P : y \in 1 .. P + T
  BY <1>1
<1>7. \A y \in DOMAIN t : t[y].first <= t[y].last
  BY <1>2, <1>3, <1>4, <1>5
<1>8. InOrder(t)
  <2> SUFFICES ASSUME NEW y \in 1 .. P + T, NEW z \in 1 .. P + T, y < z, ~t[y].virtual, ~t[z].virtual
               PROVE  t[y].last + 1 < t[z].first
    BY <1>4 DEF InOrder
  <2>1. z \in 1 .. P \/ z = P + 1
    BY <1>3, <1>4, <1>5
  <2>2. y \in 1 .. P
    BY <1>1, <2>1
  <2>3. CASE z \in 1 .. P
    BY <1>2, <1>4, <2>2, <2>3 DEF Sound, InOrder
  <2>4. CASE z = P + 1
    BY <1>2, <1>3, <1>4, <2>2, <2>4
  <2> QED
    BY <2>1, <2>3, <2>4
<1>9. Doubling(t)
  <2>1. ASSUME NEW y \in 1 .. P + T, t[y].virtual
        PROVE  t[y].linked /\ \E z \in 1 .. P + T : ~t[z].virtual /\ t[z].linked /\ Halves(t[z], t[y])
    <3>1. CASE y \in 1 .. P
      <4>1. p[y].linked /\ \E z \in 1 .. P : ~p[z].virtual /\ p[z].linked /\ Halves(p[z], p[y])
        BY <1>2, <1>4, <2>1, <3>1 DEF Sound, Doubling
      <4> QED
        BY <1>4, <1>6, <3>1, <4>1
    <3>2. CASE T = 2 /\ y = P + 2
      BY <1>3, <1>4, <1>6, <3>2
    <3> QED
      BY <1>3, <1>4, <1>5, <2>1, <3>1, <3>2
  <2>2. ASSUME NEW y \in 1 .. P + T, NEW z \in 1 .. P + T, t[y].linked, t[z].linked, t[y].virtual <=> t[z].virtual
        PROVE  y = z
    <3>1. CASE T = 2
      <4>1. \A x \in 1 .. P : ~t[x].linked
        BY <1>1, <1>2, <1>4, <3>1
      <4>2. y \in {P + 1, P + 2} /\ z \in {P + 1, P + 2}
        BY <1>5, <2>2, <4>1
      <4> QED
        BY <1>3, <1>4, <2>2, <3>1, <4>2
    <3>2. CASE T # 2
      <4>1. y \in 1 .. P /\ z \in 1 .. P
        BY <1>3, <1>4, <1>5, <2>2, <3>2
      <4> QED
        BY <1>2, <1>4, <2>2, <4>1 DEF Sound, Doubling
    <3> QED
      BY <3>1, <3>2
  <2>3. ASSUME NEW y \in 1 .. P + T, t[y].linked, ~t[y].virtual PROVE t[y].length # Infinity
    <3>1. CASE y \in 1 .. P
      BY <1>2, <1>4, <2>3, <3>1 DEF Sound, Doubling
    <3>2. CASE y = P + 1
      BY <1>3, <1>4, <2>3, <3>2
    <3> QED
      BY <1>3, <1>4, <1>5, <2>3, <3>1, <3>2
  <2> QED
    BY <1>4, <2>1, <2>2, <2>3 DEF Doubling
<1>10. ASSUME NEW m \in Int PROVE m \in Cover(t) <=> m \in Cover(p) \/ Within(m, l)
  <2>1. Within(m, R[1]) <=> Within(m, l)
    BY <1>3 DEF Within
  <2>2. T = 2 /\ Within(m, R[2]) => Within(m, l)
    <3> SUFFICES ASSUME T = 2, Within(m, R[2]) PROVE Within(m, l)
      OBVIOUS
    <3>1. R[2].first \in Int /\ R[2].last \in Int /\ l.first <= R[2].first /\ R[2].last <= l.last
      BY <1>3, SpaceFields DEF Halves
    <3> QED
      BY <1>3, <3>1 DEF Within
  <2>3. ASSUME NEW y \in 1 .. P + T, Within(m, t[y]) PROVE m \in Cover(p) \/ Within(m, l)
    <3>1. CASE y \in 1 .. P
      BY <1>2, <1>4, <2>3, <3>1 DEF Cover
    <3> QED
      BY <1>4, <1>5, <2>1, <2>2, <2>3, <3>1
  <2>4. ASSUME NEW y \in 1 .. P, Within(m, p[y]) PROVE m \in Cover(t)
    BY <1>4, <1>6, <2>4 DEF Cover
  <2>5. ASSUME Within(m, l) PROVE m \in Cover(t)
    BY <1>4, <1>6, <2>1, <2>5 DEF Cover
  <2>6. m \in Cover(p) => \E y \in 1 .. P : Within(m, p[y])
    BY <1>2 DEF Cover
  <2>7. m \in Cover(t) => \E y \in 1 .. P + T : Within(m, t[y])
    BY <1>4 DEF Cover
  <2> QED
    BY <2>3, <2>4, <2>5, <2>6, <2>7
<1>11. ASSUME NEW y \in 1 .. P + T
       PROVE  (\E z \in DOMAIN p : t[y] = p[z]) \/ (\E z \in 1 .. Len(R) : t[y] = R[z])
  <2>1. 1 \in 1 .. Len(R) /\ (T = 2 => 2 \in 1 .. Len(R))
    BY <1>1
  <2> QED
    BY <1>2, <1>4, <1>5, <2>1
<1> QED
  BY <1>4, <1>7, <1>8, <1>9, <1>10, <1>11 DEF Sound

\* A space of a plain list.
PlainSpace == {l \in Space : ~l.virtual /\ ~l.linked /\ l.first <= l.last}

\* allocFutureJob, one space at a time.
ReservingRun(r, q, res, length) ==
  /\ r[0] = <<>> /\ r[Len(q)] = allocFutureJob(q, res, length)
  /\ \A n \in 1 .. Len(q) : r[n] = r[n - 1] \o Reserved(q[n], res, length)

Reserving(h, q, res, length) ==
  h = [T \in SUBSET DOMAIN q |->
         IF T = {} THEN <<>> ELSE h[T \ {Max(T)}] \o Reserved(q[Max(T)], res, length)]

LEMMA FutureSteps ==
  ASSUME NEW q \in Seq(PlainSpace), NEW res, res[1] \in Int, res[2] \in Int, NEW length \in Int
  PROVE  \E r \in [0 .. Len(q) -> Seq(Space)] : ReservingRun(r, q, res, length)
<1> DEFINE V == Seq(Space)
           g == [p \in V \X PlainSpace |-> p[1] \o Reserved(p[2], res, length)]
<1>1. \A v \in V, e \in PlainSpace : g[<<v, e>>] = v \o Reserved(e, res, length)
  OBVIOUS
<1>2. g \in [V \X PlainSpace -> V]
  <2>1. ASSUME NEW v \in V, NEW e \in PlainSpace PROVE v \o Reserved(e, res, length) \in V
    <3>1. e \in Space /\ ~e.virtual /\ ~e.linked /\ e.first <= e.last
      BY DEF PlainSpace
    <3>2. PICK w : w = Reserved(e, res, length)
      OBVIOUS
    <3>3. Pieces(w, e, length)
      BY <3>1, <3>2, ReservedHas
    <3>4. w \in Seq(Space)
      BY <3>3 DEF Pieces
    <3> QED
      BY <3>2, <3>4, ConcatProperties
  <2> QED
    BY <2>1
<1>3. <<>> \in V
  BY EmptySeq
<1>4. DOMAIN q = 1 .. Len(q) /\ Len(q) \in Nat /\ \A i \in 1 .. Len(q) : q[i] \in PlainSpace
  BY LenProperties, ElementOfSeq
<1>5. \A T \in SUBSET DOMAIN q : T # {} => q[Max(T)] \in PlainSpace
  BY <1>4, MaxExists
<1> HIDE DEF g, V
<1>6. PICK h \in [SUBSET DOMAIN q -> V] : Folding(h, q, <<>>, g)
  BY <1>2, <1>3, FoldExists
<1>7. ASSUME NEW T \in SUBSET DOMAIN q, T # {}
      PROVE  g[<<h[T \ {Max(T)}], q[Max(T)]>>] = h[T \ {Max(T)}] \o Reserved(q[Max(T)], res, length)
  BY <1>1, <1>5, <1>6, <1>7
<1>8. Reserving(h, q, res, length)
  BY <1>6, <1>7 DEF Folding, Reserving
<1> DEFINE k == CHOOSE f : Reserving(f, q, res, length)
<1>9. Reserving(k, q, res, length) /\ allocFutureJob(q, res, length) = k[DOMAIN q]
  BY <1>8 DEF allocFutureJob, FoldLeft, MapThenFoldSet, Reserving
<1> HIDE DEF k
<1>10. k[{}] = <<>>
  BY <1>9 DEF Reserving
<1>11. ASSUME NEW T \in SUBSET DOMAIN q, T # {}, k[T \ {Max(T)}] \in V
       PROVE  k[T] = g[<<k[T \ {Max(T)}], q[Max(T)]>>]
  <2>1. k[T] = k[T \ {Max(T)}] \o Reserved(q[Max(T)], res, length)
    BY <1>9, <1>11 DEF Reserving
  <2> QED
    BY <1>1, <1>5, <1>11, <2>1
<1>12. Follows(k, q, V, <<>>, g)
  BY <1>10, <1>11 DEF Follows
<1>13. PICK r \in [0 .. Len(q) -> V] : FoldRun(r, q, <<>>, g, k[DOMAIN q])
  BY <1>2, <1>3, <1>12, FoldSteps
<1>14. ASSUME NEW n \in 1 .. Len(q) PROVE r[n] = r[n - 1] \o Reserved(q[n], res, length)
  <2>1. n - 1 \in 0 .. Len(q) /\ q[n] \in PlainSpace
    BY <1>4
  <2> QED
    BY <1>1, <1>13, <2>1 DEF FoldRun
<1>15. ReservingRun(r, q, res, length)
  BY <1>9, <1>13, <1>14 DEF ReservingRun, FoldRun
<1> QED
  BY <1>15 DEF V

\* At most one space reaches beyond the reservation.
Aligned(q, res) ==
  /\ res[1] \in Int /\ res[2] \in Int /\ res[1] <= res[2]
  /\ res[1] - 1 \notin Cover(q) \/ res[2] + 1 \notin Cover(q)

Beyond(l, res) == ReachesBelow(l, res) \/ ReachesAbove(l, res)

LEMMA OneBeyond ==
  ASSUME NEW q, Plain(q), NEW res, Aligned(q, res),
         NEW i \in DOMAIN q, NEW k \in DOMAIN q, Beyond(q[i], res), Beyond(q[k], res)
  PROVE  i = k
<1>1. /\ q[i].first \in Int /\ q[i].last \in Int /\ q[k].first \in Int /\ q[k].last \in Int
      /\ i \in Nat /\ k \in Nat
      /\ q[i].first <= q[i].last /\ q[k].first <= q[k].last
      /\ i < k => q[i].last + 1 < q[k].first
      /\ k < i => q[k].last + 1 < q[i].first
  BY PlainHas
<1>2. PICK a \in Int, b \in Int : a = res[1] /\ b = res[2] /\ a <= b
  BY DEF Aligned
<1>3. CASE a - 1 \notin Cover(q)
  <2>1. ASSUME NEW x \in {i, k} PROVE q[x].first <= b /\ b < q[x].last
    <3>1. ~Within(a - 1, q[x])
      BY <1>2, <1>3 DEF Cover
    <3> QED
      BY <1>1, <1>2, <3>1 DEF Within, Beyond, ReachesBelow, ReachesAbove
  <2> QED
    BY <1>1, <1>2, <2>1
<1>4. CASE b + 1 \notin Cover(q)
  <2>1. ASSUME NEW x \in {i, k} PROVE q[x].first < a /\ a <= q[x].last
    <3>1. ~Within(b + 1, q[x])
      BY <1>2, <1>4 DEF Cover
    <3> QED
      BY <1>1, <1>2, <3>1 DEF Within, Beyond, ReachesBelow, ReachesAbove
  <2> QED
    BY <1>1, <1>2, <2>1
<1> QED
  BY <1>2, <1>3, <1>4 DEF Aligned

IsIn(e, q) == \E x \in DOMAIN q : e = q[x]

LEMMA ConcatFrom ==
  ASSUME NEW S, NEW p \in Seq(S), NEW R \in Seq(S), NEW y \in DOMAIN (p \o R)
  PROVE  IsIn((p \o R)[y], p) \/ IsIn((p \o R)[y], R)
<1> DEFINE v == p \o R
<1>1. PICK P \in Nat, T \in Nat : P = Len(p) /\ T = Len(R) /\ DOMAIN p = 1 .. P /\ DOMAIN R = 1 .. T
  BY LenProperties
<1>2. DOMAIN v = 1 .. P + T /\ y \in 1 .. P + T
  BY <1>1, ConcatProperties, LenProperties
<1>3. CASE y <= P
  <2>1. y \in 1 .. P /\ v[y] = p[y]
    BY <1>1, <1>2, <1>3, ConcatProperties
  <2> QED
    BY <1>1, <2>1 DEF IsIn
<1>4. CASE ~(y <= P)
  <2>0. \A a \in 1 .. P + T : ~(a <= P) => a - P \in 1 .. T
    BY <1>1
  <2>1. PICK x : x \in 1 .. T /\ x = y - P
    BY <1>2, <1>4, <2>0
  <2>2. v[y] = R[x]
    BY <1>1, <1>2, <1>4, <2>1, ConcatProperties
  <2> QED
    BY <1>1, <2>1, <2>2 DEF IsIn
<1> QED
  BY <1>3, <1>4

LEMMA PiecesHave ==
  ASSUME NEW l \in Space, l.first <= l.last, NEW length, NEW R, Pieces(R, l, length),
         NEW x \in 1 .. Len(R)
  PROVE  /\ R[x].last \in Int /\ R[x].last <= l.last
         /\ R[x].linked => Len(R) = 2
         /\ R[x].length \in {Infinity, l.length, length} /\ Res(R[x]) <= Res(l)
<1>1. R \in Seq(Space) /\ Len(R) \in Nat /\ (Len(R) = 1 \/ Len(R) = 2)
  BY DEF Pieces
<1>2. x = 1 \/ (x = 2 /\ Len(R) = 2)
  <2>1. PICK T \in Nat : T = Len(R)
    BY <1>1
  <2>2. x \in 1 .. T /\ (T = 1 \/ T = 2)
    BY <1>1, <2>1
  <2>3. x = 1 \/ (x = 2 /\ T = 2)
    BY <2>2
  <2> QED
    BY <2>1, <2>3
<1>3. R[x] \in Space
  BY <1>1, ElementOfSeq
<1>4. PICK f \in Int, g \in Int : f = R[x].first /\ g = R[x].last /\ Res(R[x]) = g - f + 1
  BY <1>3, SpaceFields
<1>5. PICK a \in Int, b \in Int : a = l.first /\ b = l.last /\ a <= b /\ Res(l) = b - a + 1
  BY SpaceFields
<1>6. CASE x = 1
  <2>1. f = a /\ g = b
    BY <1>4, <1>5, <1>6 DEF Pieces
  <2> QED
    BY <1>4, <1>5, <1>6, <2>1 DEF Pieces
<1>7. CASE x = 2 /\ Len(R) = 2
  <2>1. a <= f /\ g <= b
    BY <1>4, <1>5, <1>7 DEF Pieces, Halves
  <2>2. R[x].length = Infinity
    BY <1>7 DEF Pieces
  <2>3. g - f + 1 <= b - a + 1
    BY <2>1
  <2> QED
    BY <1>4, <1>5, <1>7, <2>1, <2>2, <2>3
<1> QED
  BY <1>2, <1>6, <1>7

\* What the list is while the head of the queue waits for its reservation: the
\* same machines, no space wider than before, some of the spaces shortened.
LEMMA FutureHas ==
  ASSUME NEW q, Plain(q), NEW res, Aligned(q, res), NEW length \in Int, length # Infinity,
         NEW t, t = allocFutureJob(q, res, length)
  PROVE  /\ Sound(t)
         /\ \A m \in Int : m \in Cover(t) <=> m \in Cover(q)
         /\ \A y \in DOMAIN t : /\ t[y].length \in {Infinity, length}
                                /\ \E k \in DOMAIN q : Res(t[y]) <= Res(q[k])
<1>1. PICK L \in Nat : L = Len(q) /\ DOMAIN q = 1 .. L
  BY PlainHas
<1>2. /\ q \in Seq(Space)
      /\ \A i \in 1 .. L : /\ q[i] \in Space /\ q[i].first \in Int /\ q[i].last \in Int
                           /\ q[i].first <= q[i].last /\ q[i].length = Infinity
                           /\ ~q[i].linked /\ ~q[i].virtual
      /\ \A i, k \in 1 .. L : i < k => q[i].last + 1 < q[k].first
  BY <1>1, PlainHas
<1>3. q \in Seq(PlainSpace)
  <2>1. \A i \in 1 .. L : q[i] \in PlainSpace
    BY <1>2 DEF PlainSpace
  <2>2. q = [i \in 1 .. L |-> q[i]]
    BY <1>1, <1>2, LenProperties
  <2> QED
    BY <1>1, <2>1, <2>2
<1>4. res[1] \in Int /\ res[2] \in Int
  BY DEF Aligned
<1>5. PICK r \in [0 .. L -> Seq(Space)] : ReservingRun(r, q, res, length)
  BY <1>1, <1>3, <1>4, FutureSteps
<1> DEFINE Good(p, n) ==
             /\ Sound(p)
             /\ \A m \in Int : m \in Cover(p) <=> \E k \in 1 .. n : Within(m, q[k])
             /\ \A y \in DOMAIN p : \A k \in 1 .. L : n < k => p[y].last + 1 < q[k].first
             /\ \A y \in DOMAIN p : p[y].linked => \E k \in 1 .. n : Beyond(q[k], res)
             /\ \A y \in DOMAIN p : p[y].length \in {Infinity, length}
             /\ \A y \in DOMAIN p : \E k \in 1 .. L : Res(p[y]) <= Res(q[k])
           G == {n \in Nat : n <= L => Good(r[n], n)}
<1> HIDE DEF Good
<1>6. 0 \in G
  <2>1. r[0] = <<>> /\ DOMAIN r[0] = {}
    BY <1>5 DEF ReservingRun
  <2>2. Sound(r[0])
    BY <2>1, EmptySeq DEF Sound, InOrder, Doubling
  <2>3. \A m \in Int : m \notin Cover(r[0])
    BY <2>1 DEF Cover
  <2> QED
    BY <2>1, <2>2, <2>3 DEF Good
<1>7. ASSUME NEW n \in Nat, n \in G PROVE n + 1 \in G
  <2> SUFFICES ASSUME n + 1 <= L PROVE Good(r[n + 1], n + 1)
    OBVIOUS
  <2>1. PICK z \in 1 .. L : z = n + 1
    BY <1>1, <1>7
  <2>2. /\ n \in 0 .. L /\ z - 1 = n /\ n < z /\ z \in Nat
        /\ \A k \in 1 .. n : k \in 1 .. L /\ k \in 1 .. z /\ k < z
        /\ \A k \in 1 .. z : k \in 1 .. n \/ k = z
        /\ z \in 1 .. z
    BY <1>1, <2>1
  <2>3. PICK p : p = r[n] /\ Good(p, n)
    <3>1. Good(r[n], n)
      BY <1>1, <1>7
    <3> QED
      BY <3>1
  <2>4. PICK l : l = q[z]
    OBVIOUS
  <2>5. /\ l \in Space /\ l.first \in Int /\ l.last \in Int /\ l.first <= l.last /\ l.length = Infinity
        /\ ~l.linked /\ ~l.virtual
    BY <1>2, <2>1, <2>4
  <2>6. PICK R : R = Reserved(l, res, length)
    OBVIOUS
  <2>7. Pieces(R, l, length) /\ (Len(R) = 2 => Beyond(l, res))
    BY <1>4, <2>5, <2>6, ReservedHas DEF Beyond
  <2>8. r[n + 1] = p \o R
    BY <1>1, <1>5, <2>1, <2>2, <2>3, <2>4, <2>6 DEF ReservingRun
  <2>9. Sound(p) /\ \A y \in DOMAIN p : p[y].last + 1 < l.first
    BY <2>1, <2>2, <2>3, <2>4 DEF Good
  <2>10. Len(R) = 2 => \A y \in DOMAIN p : ~p[y].linked
    <3> SUFFICES ASSUME Len(R) = 2, NEW y \in DOMAIN p, p[y].linked PROVE FALSE
      OBVIOUS
    <3>1. PICK k \in 1 .. n : Beyond(q[k], res)
      BY <2>3 DEF Good
    <3>2. k \in DOMAIN q /\ z \in DOMAIN q /\ k # z
      BY <1>1, <2>1, <2>2
    <3> QED
      BY <2>4, <2>7, <3>1, <3>2, OneBeyond
  <2> DEFINE u == p \o R
  <2> HIDE DEF u
  <2>11. /\ Sound(u)
         /\ \A m \in Int : m \in Cover(u) <=> m \in Cover(p) \/ Within(m, l)
         /\ \A y \in DOMAIN u : IsIn(u[y], p) \/ IsIn(u[y], R)
    <3>1. l \in Space /\ l.first <= l.last /\ Sound(p) /\ Pieces(R, l, length)
      BY <2>5, <2>7, <2>9
    <3>2. \A y \in DOMAIN p : p[y].last + 1 < l.first
      BY <2>9
    <3>3. u = p \o R
      BY DEF u
    <3>4. ASSUME NEW v, v = p \o R
          PROVE  /\ Sound(v)
                 /\ \A m \in Int : m \in Cover(v) <=> m \in Cover(p) \/ Within(m, l)
      BY <2>10, <3>1, <3>2, <3>4, JoinSound
    <3>5. ASSUME NEW y \in DOMAIN u PROVE IsIn(u[y], p) \/ IsIn(u[y], R)
      <4>1. p \in Seq(Space) /\ R \in Seq(Space)
        BY <3>1 DEF Sound, Pieces
      <4> QED
        BY <4>1, ConcatFrom DEF u
    <3> QED
      BY <3>3, <3>4, <3>5
  <2>12. ASSUME NEW x \in 1 .. Len(R)
         PROVE  /\ R[x].last \in Int /\ R[x].last <= l.last /\ (R[x].linked => Beyond(l, res))
                /\ R[x].length \in {Infinity, length} /\ Res(R[x]) <= Res(l)
    <3>1. l \in Space /\ l.first <= l.last /\ Pieces(R, l, length) /\ l.length = Infinity
      BY <2>5, <2>7
    <3> QED
      BY <2>7, <3>1, PiecesHave
  <2>13. ASSUME NEW m \in Int PROVE m \in Cover(u) <=> \E k \in 1 .. z : Within(m, q[k])
    BY <2>2, <2>3, <2>4, <2>11 DEF Good
  <2>14. ASSUME NEW y \in DOMAIN u
         PROVE  /\ \A k \in 1 .. L : z < k => u[y].last + 1 < q[k].first
                /\ u[y].linked => \E k \in 1 .. z : Beyond(q[k], res)
                /\ u[y].length \in {Infinity, length}
                /\ \E k \in 1 .. L : Res(u[y]) <= Res(q[k])
    <3>1. ASSUME NEW x \in DOMAIN p, u[y] = p[x]
          PROVE  /\ \A k \in 1 .. L : z < k => u[y].last + 1 < q[k].first
                 /\ u[y].linked => \E k \in 1 .. z : Beyond(q[k], res)
                 /\ u[y].length \in {Infinity, length}
                 /\ \E k \in 1 .. L : Res(u[y]) <= Res(q[k])
      <4>1. \A k \in 1 .. L : z < k => n < k
        BY <1>1, <2>2
      <4> QED
        BY <2>2, <2>3, <3>1, <4>1 DEF Good
    <3>2. ASSUME NEW x \in 1 .. Len(R), u[y] = R[x]
          PROVE  /\ \A k \in 1 .. L : z < k => u[y].last + 1 < q[k].first
                 /\ u[y].linked => \E k \in 1 .. z : Beyond(q[k], res)
                 /\ u[y].length \in {Infinity, length}
                 /\ \E k \in 1 .. L : Res(u[y]) <= Res(q[k])
      <4>1. PICK e \in Int : e = R[x].last /\ e <= l.last
        BY <2>12
      <4>2. \A k \in 1 .. L : z < k => l.last + 1 < q[k].first /\ q[k].first \in Int
        BY <1>2, <2>1, <2>4
      <4>3. ASSUME NEW k \in 1 .. L, z < k PROVE e + 1 < q[k].first
        <5>1. PICK f \in Int, g \in Int : f = q[k].first /\ g = l.last /\ g + 1 < f
          BY <2>5, <4>2, <4>3
        <5>2. e \in Int /\ e <= g
          BY <4>1, <5>1
        <5>3. e + 1 < f
          BY <5>1, <5>2
        <5> QED
          BY <5>1, <5>3
      <4> QED
        BY <2>1, <2>2, <2>4, <2>12, <3>2, <4>1, <4>3
    <3>3. DOMAIN R = 1 .. Len(R)
      BY <2>7, LenProperties DEF Pieces
    <3> QED
      BY <2>11, <3>1, <3>2, <3>3 DEF IsIn
  <2> QED
    <3>1. Good(u, z)
      BY <2>11, <2>13, <2>14 DEF Good
    <3> QED
      BY <2>1, <2>8, <3>1 DEF u
<1>8. Nat \subseteq G
  <2> HIDE DEF G
  <2> QED
    BY <1>6, <1>7, Induction
<1>9. Good(r[L], L) /\ r[L] = t
  <2>1. L \in G
    BY <1>1, <1>8
  <2> QED
    BY <1>1, <1>5, <2>1 DEF ReservingRun
<1>10. ASSUME NEW m \in Int PROVE m \in Cover(t) <=> m \in Cover(q)
  BY <1>1, <1>9 DEF Cover, Good
<1> QED
  BY <1>1, <1>9, <1>10 DEF Good

-----------------------------------------------------------------------------
\* The end of allocBackFill

\* The list is plain again, with the same machines.
LEMMA RestoreHas ==
  ASSUME NEW t, Sound(t), NEW u, u = Restore(t)
  PROVE  /\ Plain(u)
         /\ \A m \in Int : m \in Cover(u) <=> m \in Cover(t)
         /\ \A y \in DOMAIN u : \E x \in DOMAIN t : Res(u[y]) = Res(t[x])
<1> DEFINE D == {l \in ToSet(t) : l.virtual}
           w == NotVirtual(t)
<1>1. PICK L \in Nat : L = Len(t) /\ DOMAIN t = 1 .. L
  BY SpacesHave DEF Sound
<1>2. /\ t \in Seq(Space)
      /\ \A k \in 1 .. L : t[k] \in Space /\ t[k].first \in Int /\ t[k].last \in Int /\ t[k].first <= t[k].last
      /\ \A i, k \in 1 .. L : i < k /\ ~t[i].virtual /\ ~t[k].virtual => t[i].last + 1 < t[k].first
      /\ \A i \in 1 .. L : t[i].virtual => \E k \in 1 .. L : ~t[k].virtual /\ Halves(t[k], t[i])
      /\ \A i \in 1 .. L : t[i].linked /\ ~t[i].virtual => t[i].length # Infinity
  BY <1>1, SpacesHave DEF Sound, InOrder, Doubling
<1>3. \A k \in 1 .. L : t[k] \in D <=> t[k].virtual
  BY <1>1 DEF ToSet
<1>4. w = Without(t, D)
  BY DEF NotVirtual
<1> HIDE DEF D, w
<1>5. /\ w \in Seq(Space) /\ Len(w) \in Nat /\ DOMAIN w = 1 .. Len(w)
      /\ \E f \in [DOMAIN w -> DOMAIN t] :
           /\ \A i \in DOMAIN w : w[i] = t[f[i]] /\ t[f[i]] \notin D
           /\ \A i, k \in DOMAIN w : i < k => f[i] < f[k]
      /\ \A k \in DOMAIN t : t[k] \notin D => \E i \in DOMAIN w : w[i] = t[k]
  <2>1. t \in Seq(Space)
    BY <1>2
  <2>2. w \in Seq(Space) /\ Len(w) \in Nat /\ DOMAIN w = 1 .. Len(w)
    BY <1>4, <2>1, WithoutFrom
  <2>3. \E f \in [DOMAIN w -> DOMAIN t] :
           /\ \A i \in DOMAIN w : w[i] = t[f[i]] /\ t[f[i]] \notin D
           /\ \A i, k \in DOMAIN w : i < k => f[i] < f[k]
    BY <1>4, <2>1, WithoutFrom
  <2>4. \A k \in DOMAIN t : t[k] \notin D => \E i \in DOMAIN w : w[i] = t[k]
    BY <1>4, <2>1, WithoutFrom
  <2> QED
    BY <2>2, <2>3, <2>4
<1>6. PICK M \in Nat : M = Len(w) /\ DOMAIN w = 1 .. M
  BY <1>5
<1>7. PICK f \in [1 .. M -> 1 .. L] :
        /\ \A i \in 1 .. M : w[i] = t[f[i]] /\ t[f[i]] \notin D
        /\ \A i, k \in 1 .. M : i < k => f[i] < f[k]
  BY <1>1, <1>5, <1>6
<1>8. \A i \in 1 .. M : /\ f[i] \in 1 .. L /\ w[i] = t[f[i]] /\ ~t[f[i]].virtual /\ ~w[i].virtual /\ w[i] \in Space
                        /\ w[i].first <= w[i].last
  BY <1>2, <1>3, <1>7
<1>9. \A k \in 1 .. L : ~t[k].virtual => \E i \in 1 .. M : w[i] = t[k]
  BY <1>1, <1>3, <1>5, <1>6
<1>10. /\ DOMAIN u = 1 .. M
       /\ \A i \in 1 .. M : w[i].length = Infinity => u[i] = w[i]
       /\ \A i \in 1 .. M : w[i].length # Infinity =>
            u[i] = [w[i] EXCEPT !.length = Infinity, !.smallestFirst = TRUE, !.linked = FALSE]
  BY <1>6 DEF Restore, w
<1>11. ASSUME NEW i \in 1 .. M
       PROVE  /\ u[i] \in Space /\ u[i].first = w[i].first /\ u[i].last = w[i].last
              /\ u[i].length = Infinity /\ ~u[i].linked /\ ~u[i].virtual
  <2>1. CASE w[i].length = Infinity
    <3>1. u[i] = w[i] /\ ~w[i].linked
      BY <1>2, <1>8, <1>10, <2>1
    <3> QED
      BY <1>8, <2>1, <3>1
  <2>2. CASE w[i].length # Infinity
    <3>1. u[i] = [w[i] EXCEPT !.length = Infinity, !.smallestFirst = TRUE, !.linked = FALSE]
      BY <1>10, <2>2
    <3>2. w[i] \in Space /\ ~w[i].virtual /\ Infinity \in Int
      BY <1>8, EasyAssumption
    <3> QED
      BY <3>1, <3>2 DEF Space
  <2> QED
    BY <2>1, <2>2
<1>12. Plain(u)
  <2>1. u \in Seq(Space)
    <3>1. u \in [1 .. M -> Space]
      <4>1. u = [i \in 1 .. M |-> u[i]]
        BY <1>6 DEF Restore, w
      <4> QED
        BY <1>11, <4>1
    <3> QED
      BY <3>1
  <2>2. \A i, k \in 1 .. M : i < k => u[i].last + 1 < u[k].first
    <3> SUFFICES ASSUME NEW i \in 1 .. M, NEW k \in 1 .. M, i < k PROVE u[i].last + 1 < u[k].first
      OBVIOUS
    <3>1. f[i] < f[k] /\ f[i] \in 1 .. L /\ f[k] \in 1 .. L
      BY <1>7
    <3>2. t[f[i]].last + 1 < t[f[k]].first
      BY <1>2, <1>8, <3>1
    <3> QED
      BY <1>8, <1>11, <3>2
  <2>3. \A i \in 1 .. M : u[i].first <= u[i].last
    BY <1>8, <1>11
  <2> QED
    BY <1>10, <1>11, <2>1, <2>2, <2>3, PlainIs
<1>13. ASSUME NEW m \in Int PROVE m \in Cover(u) <=> m \in Cover(t)
  <2>1. \A i \in 1 .. M : Within(m, u[i]) <=> Within(m, t[f[i]])
    BY <1>8, <1>11 DEF Within
  <2>2. ASSUME m \in Cover(u) PROVE m \in Cover(t)
    BY <1>1, <1>8, <1>10, <2>1, <2>2 DEF Cover
  <2>3. ASSUME m \in Cover(t) PROVE m \in Cover(u)
    <3>1. PICK k \in 1 .. L : Within(m, t[k])
      BY <1>1, <2>3 DEF Cover
    <3>2. PICK x \in 1 .. L : ~t[x].virtual /\ Within(m, t[x])
      <4>1. CASE t[k].virtual
        <5>1. PICK x \in 1 .. L : ~t[x].virtual /\ Halves(t[x], t[k])
          BY <1>2, <4>1
        <5>2. /\ t[x].first \in Int /\ t[x].last \in Int /\ t[k].first \in Int /\ t[k].last \in Int
              /\ t[x].first <= t[k].first /\ t[k].last <= t[x].last
          BY <1>2, <5>1 DEF Halves
        <5> QED
          BY <3>1, <5>1, <5>2 DEF Within
      <4> QED
        BY <3>1, <4>1
    <3>3. PICK i \in 1 .. M : w[i] = t[x]
      BY <1>9, <3>2
    <3>4. Within(m, u[i])
      BY <1>11, <3>2, <3>3 DEF Within
    <3> QED
      BY <1>10, <3>4 DEF Cover
  <2> QED
    BY <2>2, <2>3
<1>14. ASSUME NEW y \in DOMAIN u PROVE \E x \in DOMAIN t : Res(u[y]) = Res(t[x])
  <2>1. PICK i \in 1 .. M : i = y
    BY <1>10, <1>14
  <2>2. Res(u[i]) = Res(t[f[i]]) /\ f[i] \in DOMAIN t
    BY <1>1, <1>8, <1>11 DEF Res
  <2> QED
    BY <2>1, <2>2
<1> QED
  BY <1>12, <1>13, <1>14

-----------------------------------------------------------------------------
\* What the operations make of any list of spaces, so that a pass can be followed

LEMMA AnyCut ==
  ASSUME NEW l \in Space, NEW e \in Space, NEW n \in Int
  PROVE  /\ AllocIn(l, n) \in Int \X Int
         /\ Cut(e, AllocIn(l, n), l.smallestFirst) \in Space
<1>1. l.first \in Int /\ l.last \in Int /\ l.smallestFirst \in BOOLEAN
  BY SpaceFields
<1>2. AllocIn(l, n) \in Int \X Int
  BY <1>1 DEF AllocIn
<1>3. PICK al : al = AllocIn(l, n) /\ al[1] \in Int /\ al[2] \in Int
  BY <1>2
<1>4. Cut(e, al, l.smallestFirst) \in Space
  BY <1>1, <1>3, CutHas
<1> QED
  BY <1>2, <1>3, <1>4

LEMMA AnyAssign ==
  ASSUME NEW q \in Seq(Space), NEW i \in DOMAIN q, NEW n \in Int
  PROVE  assignJob(q, i, n) \in Seq(Space)
<1>1. Len(q) \in Nat /\ DOMAIN q = 1 .. Len(q) /\ \A k \in DOMAIN q : q[k] \in Space
  BY SpacesHave
<1>2. PICK c : c = Occupied(q, i, n)
  OBVIOUS
<1>3. ASSUME NEW k \in 1 .. Len(q) PROVE c[k] \in Space
  <2>1. c[k] = q[k] \/ c[k] = Cut(q[k], AllocIn(q[i], n), q[i].smallestFirst)
    BY <1>1, <1>2 DEF Occupied
  <2>2. q[k] \in Space /\ q[i] \in Space
    BY <1>1
  <2> QED
    BY <2>1, <2>2, AnyCut
<1>4. c = [k \in 1 .. Len(q) |-> c[k]]
  BY <1>1, <1>2 DEF Occupied
<1>5. c \in Seq(Space)
  BY <1>1, <1>3, <1>4
<1>6. Without(c, {l \in ToSet(c) : Res(l) <= 0}) \in Seq(Space)
  BY <1>5, WithoutHas
<1> QED
  BY <1>2, <1>6 DEF assignJob, NotEmpty

LEMMA AnyUnassign ==
  ASSUME NEW q \in Seq(Space), NEW a \in Int, NEW b \in Int
  PROVE  unassignJob(q, <<a, b>>) \in Seq(Space)
<1>1. PICK L \in Nat : L = Len(q) /\ DOMAIN q = 1 .. L
  BY SpacesHave
<1>2. q = [k \in 1 .. L |-> q[k]] /\ \A k \in 1 .. L : q[k] \in Space
  BY <1>1, SpacesHave
<1>3. PICK i \in Int : i = Before(q, <<a, b>>) /\ 0 <= i /\ i <= L
  <2> DEFINE B == {k \in DOMAIN q : q[k].first <= a}
  <2>1. IsFiniteSet(1 .. L) /\ Cardinality(1 .. L) = L
    <3>1. IsFiniteSet(1 .. L) /\ Cardinality(1 .. L) = IF 1 > L THEN 0 ELSE L - 1 + 1
      BY FS_Interval
    <3> QED
      BY <3>1
  <2>4. B \subseteq 1 .. L
    BY <1>1
  <2>2. IsFiniteSet(B) /\ Cardinality(B) <= Cardinality(1 .. L) /\ Cardinality(B) \in Nat
    BY <2>1, <2>4, FS_Subset, FS_CardinalityType
  <2>3. Before(q, <<a, b>>) = Cardinality(B)
    BY DEF Before
  <2> HIDE DEF B
  <2> QED
    BY <1>1, <2>1, <2>2, <2>3
<1>4. ASSUME NEW c, NEW k \in 1 .. L, c \in Space PROVE [q EXCEPT ![k] = c] \in Seq(Space)
  BY <1>1, <1>2, <1>4
<1>5. CASE MergesBelow(q, <<a, b>>)
  <2>1. i \in 1 .. L
    BY <1>3, <1>5 DEF MergesBelow
  <2>2. CASE MergesAbove(q, <<a, b>>)
    <3>1. PICK x \in 1 .. L : x = i + 1
      BY <1>1, <1>3, <2>2 DEF MergesAbove
    <3>2. PICK c : c = [q EXCEPT ![i].last = q[x].last]
      OBVIOUS
    <3>3. q[i] \in Space /\ q[x].last \in Int
      BY <1>2, <2>1, <3>1, SpaceFields
    <3>4. [q[i] EXCEPT !.last = q[x].last] \in Space
      BY <3>3 DEF Space
    <3>5. c \in Seq(Space) /\ Len(c) = L
      <4>1. c = [q EXCEPT ![i] = [q[i] EXCEPT !.last = q[x].last]]
        BY <1>1, <2>1, <3>2
      <4> QED
        BY <1>1, <1>4, <2>1, <3>4, <4>1
    <3>6. RemoveAt(c, x) \in Seq(Space)
      BY <3>1, <3>5, RemoveAtHas
    <3> QED
      BY <1>3, <1>5, <2>2, <3>1, <3>2, <3>6 DEF unassignJob
  <2>3. CASE ~MergesAbove(q, <<a, b>>)
    <3>1. q[i] \in Space
      BY <1>2, <2>1
    <3>2. [q[i] EXCEPT !.last = b, !.smallestFirst = FALSE] \in Space
      BY <3>1 DEF Space
    <3>3. [q EXCEPT ![i] = [q[i] EXCEPT !.last = b, !.smallestFirst = FALSE]] \in Seq(Space)
      BY <1>4, <2>1, <3>2
    <3>4. unassignJob(q, <<a, b>>) = [q EXCEPT ![i].last = b, ![i].smallestFirst = FALSE]
      BY <1>3, <1>5, <2>3 DEF unassignJob
    <3>5. [q EXCEPT ![i].last = b, ![i].smallestFirst = FALSE]
            = [q EXCEPT ![i] = [q[i] EXCEPT !.last = b, !.smallestFirst = FALSE]]
      BY <1>1, <2>1
    <3> QED
      BY <3>3, <3>4, <3>5
  <2> QED
    BY <2>2, <2>3
<1>6. CASE ~MergesBelow(q, <<a, b>>)
  <2>1. CASE MergesAbove(q, <<a, b>>)
    <3>1. PICK x \in 1 .. L : x = i + 1
      BY <1>1, <1>3, <2>1 DEF MergesAbove
    <3>2. q[x] \in Space
      BY <1>2, <3>1
    <3>3. [q[x] EXCEPT !.first = a, !.smallestFirst = TRUE] \in Space
      BY <3>2 DEF Space
    <3>4. [q EXCEPT ![x] = [q[x] EXCEPT !.first = a, !.smallestFirst = TRUE]] \in Seq(Space)
      BY <1>4, <3>1, <3>3
    <3>5. unassignJob(q, <<a, b>>) = [q EXCEPT ![x].first = a, ![x].smallestFirst = TRUE]
      BY <1>3, <1>6, <2>1, <3>1 DEF unassignJob
    <3>6. [q EXCEPT ![x].first = a, ![x].smallestFirst = TRUE]
            = [q EXCEPT ![x] = [q[x] EXCEPT !.first = a, !.smallestFirst = TRUE]]
      BY <1>1, <3>1
    <3> QED
      BY <3>4, <3>5, <3>6
  <2>2. CASE ~MergesAbove(q, <<a, b>>)
    <3>1. PICK e \in Space : e = FreeSpace(a, b, Infinity)
      BY FreeSpaceHas
    <3>2. i + 1 \in 1 .. L + 1
      BY <1>3
    <3>3. InsertAt(q, i + 1, e) \in Seq(Space)
      BY <1>1, <3>1, <3>2, InsertAtHas
    <3> QED
      BY <1>3, <1>6, <2>2, <3>1, <3>3 DEF unassignJob
  <2> QED
    BY <2>1, <2>2
<1> QED
  BY <1>5, <1>6

-----------------------------------------------------------------------------
\* The books of a pass: what the jobs that run have, and what is free.

Holds(s, j, m) == AllocOf(s, j)[1] <= m /\ m <= AllocOf(s, j)[2]

Booked(s) ==
  /\ s.running \in Seq(Job) /\ IsInjective(s.running)
  /\ \A j \in ToSet(s.running) :
       /\ AllocOf(s, j) \in Int \X Int /\ AllocOf(s, j)[1] <= AllocOf(s, j)[2]
       /\ j \in DOMAIN s.finish /\ s.finish[j] \in Int /\ s.finish[j] - now < Infinity
  /\ \A j \in ToSet(s.running), m \in Int : Holds(s, j, m) => m \in Machine
  /\ \A j, k \in ToSet(s.running), m \in Int : Holds(s, j, m) /\ Holds(s, k, m) => j = k
  /\ \A m \in Int : m \in Cover(s.spaces) <=>
       m \in Machine /\ \A j \in ToSet(s.running) : ~Holds(s, j, m)

-----------------------------------------------------------------------------
\* findAllocFuture

\* The spaces of a plain list do not touch.
LEMMA EdgesFree ==
  ASSUME NEW u, Plain(u), NEW i \in DOMAIN u
  PROVE  u[i].first - 1 \notin Cover(u) /\ u[i].last + 1 \notin Cover(u)
<1>1. PICK L \in Nat : DOMAIN u = 1 .. L
  BY PlainHas
<1>2. /\ \A k \in 1 .. L : u[k].first \in Int /\ u[k].last \in Int /\ u[k].first <= u[k].last
      /\ \A k, x \in 1 .. L : k < x => u[k].last + 1 < u[x].first
  BY <1>1, PlainHas
<1>3. ASSUME NEW k \in 1 .. L PROVE ~Within(u[i].first - 1, u[k]) /\ ~Within(u[i].last + 1, u[k])
  <2>1. i \in 1 .. L /\ (k < i \/ k = i \/ i < k)
    BY <1>1
  <2>2. PICK a \in Int, b \in Int, c \in Int, d \in Int :
          /\ a = u[i].first /\ b = u[i].last /\ c = u[k].first /\ d = u[k].last /\ a <= b /\ c <= d
          /\ k < i => d + 1 < a
          /\ i < k => b + 1 < c
    BY <1>2, <2>1
  <2>3. k = i => a = c /\ b = d
    BY <2>2
  <2>4. ~(c <= a - 1 /\ a - 1 <= d) /\ ~(c <= b + 1 /\ b + 1 <= d)
    BY <2>1, <2>2, <2>3
  <2> QED
    BY <2>2, <2>4 DEF Within
<1> QED
  BY <1>1, <1>3 DEF Cover

FindBase(s) == [spaces |-> s.spaces, found |-> FALSE, res |-> <<0, 0>>, at |-> 0]

FindStep(v, s, first, j) == JobEnds(v, AllocOf(s, j), s.finish[j], demand[first])

FindRun(r, s, first) ==
  /\ r[0] = FindBase(s) /\ r[Len(s.running)] = findAllocFuture(s, first)
  /\ \A n \in 1 .. Len(s.running) : r[n] = FindStep(r[n - 1], s, first, s.running[n])

Finding(h, s, first) ==
  h = [T \in SUBSET DOMAIN s.running |->
         IF T = {} THEN FindBase(s) ELSE FindStep(h[T \ {Max(T)}], s, first, s.running[Max(T)])]

\* The search, one job that ends at a time.
LEMMA FindSteps ==
  ASSUME NEW s, s.spaces \in Seq(Space), NEW first, NEW E, s.running \in Seq(E),
         \A j \in E : AllocOf(s, j) \in Int \X Int
  PROVE  \E r : /\ FindRun(r, s, first)
                /\ \A n \in 0 .. Len(s.running) : DOMAIN r[n] = {"spaces", "found", "res", "at"}
<1> DEFINE W == {<<0, 0>>} \cup {AllocIn(p[1][SpaceAt(p[1], p[2])], demand[first]) : p \in Seq(Space) \X Int}
           A == {0} \cup {s.finish[j] : j \in E}
           V == [spaces : Seq(Space), found : BOOLEAN, res : W, at : A]
           g == [p \in V \X E |-> FindStep(p[1], s, first, p[2])]
           q == s.running
<1>1. \A v \in V, e \in E : g[<<v, e>>] = FindStep(v, s, first, e)
  OBVIOUS
<1>2. g \in [V \X E -> V]
  <2>1. ASSUME NEW v \in V, NEW e \in E PROVE FindStep(v, s, first, e) \in V
    <3>1. PICK a \in Int, b \in Int : AllocOf(s, e) = <<a, b>>
      OBVIOUS
    <3>2. PICK u : u = unassignJob(v.spaces, <<a, b>>)
      OBVIOUS
    <3>3. u \in Seq(Space)
      BY <3>2, AnyUnassign
    <3>4. AllocIn(u[SpaceAt(u, a)], demand[first]) \in W
      <4>1. <<u, a>> \in Seq(Space) \X Int /\ <<u, a>>[1] = u /\ <<u, a>>[2] = a
        BY <3>3
      <4> QED
        BY <4>1
    <3>5. PICK w \in W : w = AllocIn(u[SpaceAt(u, a)], demand[first])
      BY <3>4
    <3>6. s.finish[e] \in A
      OBVIOUS
    <3>7. \/ FindStep(v, s, first, e) = v
          \/ FindStep(v, s, first, e) = [v EXCEPT !.found = TRUE, !.res = w, !.at = s.finish[e]]
          \/ FindStep(v, s, first, e) = [v EXCEPT !.spaces = u]
      BY <3>1, <3>2, <3>5 DEF FindStep, JobEnds
    <3> HIDE DEF W, A
    <3> QED
      BY <3>3, <3>6, <3>7
  <2> HIDE DEF V
  <2> QED
    BY <2>1
<1>3. FindBase(s) \in V
  BY DEF FindBase
<1>4. q \in Seq(E) /\ DOMAIN q = 1 .. Len(q) /\ Len(q) \in Nat /\ \A i \in 1 .. Len(q) : q[i] \in E
  BY LenProperties, ElementOfSeq
<1>5. \A T \in SUBSET DOMAIN q : T # {} => q[Max(T)] \in E
  BY <1>4, MaxExists
<1> HIDE DEF g, V
<1>6. PICK h \in [SUBSET DOMAIN q -> V] : Folding(h, q, FindBase(s), g)
  BY <1>2, <1>3, <1>4, FoldExists
<1>7. ASSUME NEW T \in SUBSET DOMAIN q, T # {}
      PROVE  g[<<h[T \ {Max(T)}], q[Max(T)]>>] = FindStep(h[T \ {Max(T)}], s, first, q[Max(T)])
  BY <1>1, <1>5, <1>6, <1>7
<1>8. Finding(h, s, first)
  BY <1>6, <1>7 DEF Folding, Finding
<1> DEFINE k == CHOOSE f : Finding(f, s, first)
<1>9. Finding(k, s, first) /\ findAllocFuture(s, first) = k[DOMAIN q]
  BY <1>8 DEF findAllocFuture, FoldLeft, MapThenFoldSet, Finding, FindBase, FindStep
<1> HIDE DEF k
<1>10. k[{}] = FindBase(s)
  BY <1>9 DEF Finding
<1>11. ASSUME NEW T \in SUBSET DOMAIN q, T # {}, k[T \ {Max(T)}] \in V
       PROVE  k[T] = g[<<k[T \ {Max(T)}], q[Max(T)]>>]
  <2>1. k[T] = FindStep(k[T \ {Max(T)}], s, first, q[Max(T)])
    BY <1>9, <1>11 DEF Finding
  <2> QED
    BY <1>1, <1>5, <1>11, <2>1
<1>12. Follows(k, q, V, FindBase(s), g)
  BY <1>10, <1>11 DEF Follows
<1>13. PICK r \in [0 .. Len(q) -> V] : FoldRun(r, q, FindBase(s), g, k[DOMAIN q])
  BY <1>2, <1>3, <1>4, <1>12, FoldSteps
<1>14. ASSUME NEW n \in 1 .. Len(q) PROVE r[n] = FindStep(r[n - 1], s, first, q[n])
  <2>1. n - 1 \in 0 .. Len(q) /\ q[n] \in E
    BY <1>4
  <2> QED
    BY <1>1, <1>13, <2>1 DEF FoldRun
<1>15. FindRun(r, s, first)
  BY <1>9, <1>13, <1>14 DEF FindRun, FoldRun
<1>16. ASSUME NEW n \in 0 .. Len(q) PROVE DOMAIN r[n] = {"spaces", "found", "res", "at"}
  <2>1. r[n] \in V
    OBVIOUS
  <2> QED
    BY <2>1 DEF V
<1> QED
  BY <1>15, <1>16

\* The reservation is at an end of the space that is large enough.
LEMMA AlignedAtEnd ==
  ASSUME NEW q, NEW u, Plain(u), \A m \in Int : m \in Cover(q) => m \in Cover(u),
         NEW i \in DOMAIN u, NEW n \in Nat \ {0}, n <= Res(u[i]), NEW al, al = AllocIn(u[i], n)
  PROVE  Aligned(q, al)
<1>1. u[i] \in Space /\ u[i].first \in Int /\ u[i].last \in Int
  BY PlainHas
<1>2. /\ al[1] \in Int /\ al[2] \in Int /\ al[1] <= al[2]
      /\ u[i].smallestFirst => al[1] = u[i].first
      /\ ~u[i].smallestFirst => al[2] = u[i].last
  BY <1>1, AllocHas
<1>3. u[i].first - 1 \notin Cover(q) /\ u[i].last + 1 \notin Cover(q)
  <2>1. u[i].first - 1 \in Int /\ u[i].last + 1 \in Int
    BY <1>1
  <2> QED
    BY <2>1, EdgesFree
<1> QED
  BY <1>2, <1>3 DEF Aligned

\* The reservation of the head of the queue.
LEMMA FindHas ==
  ASSUME NEW s, Booked(s), Plain(s.spaces), NEW first, demand[first] \in Nat \ {0},
         NEW f, f = findAllocFuture(s, first)
  PROVE  /\ Aligned(s.spaces, f.res)
         /\ f.at = 0 \/ \E j \in ToSet(s.running) : f.at = s.finish[j]
<1> DEFINE q == s.running
           E == ToSet(q)
<1>1. PICK L \in Nat : L = Len(q) /\ DOMAIN q = 1 .. L
  BY LenProperties DEF Booked
<1>2. /\ \A x \in 1 .. L : q[x] \in E
      /\ \A x, y \in 1 .. L : q[x] = q[y] => x = y
  BY <1>1 DEF Booked, IsInjective, ToSet
<1>3. q \in Seq(E)
  <2>1. q \in [1 .. L -> E]
    BY <1>1, <1>2, LenProperties DEF Booked
  <2> QED
    BY <1>1, <2>1
<1>4. s.spaces \in Seq(Space)
  BY PlainHas
<1>5. \A j \in E : AllocOf(s, j) \in Int \X Int
  BY DEF Booked
<1> HIDE DEF E, q
<1>6. PICK r : /\ FindRun(r, s, first)
               /\ \A n \in 0 .. Len(q) : DOMAIN r[n] = {"spaces", "found", "res", "at"}
  BY <1>3, <1>4, <1>5, FindSteps DEF q
<1>7. /\ r[0] = FindBase(s) /\ r[L] = f
      /\ \A n \in 1 .. L : r[n] = FindStep(r[n - 1], s, first, q[n])
  BY <1>1, <1>6 DEF FindRun, q
<1> DEFINE Good(v, n) ==
             /\ ~v.found => /\ Plain(v.spaces) /\ v.res = <<0, 0>> /\ v.at = 0
                            /\ \A m \in Int : m \in Cover(v.spaces) <=>
                                 m \in Cover(s.spaces) \/ \E x \in 1 .. n : Holds(s, q[x], m)
             /\ v.found => Aligned(s.spaces, v.res) /\ \E j \in E : v.at = s.finish[j]
           G == {n \in Nat : n <= L => Good(r[n], n)}
<1> HIDE DEF Good
<1>8. 0 \in G
  <2>1. Good(r[0], 0)
    BY <1>7 DEF Good, FindBase
  <2> QED
    BY <2>1
<1>9. ASSUME NEW n \in Nat, n \in G PROVE n + 1 \in G
  <2> SUFFICES ASSUME n + 1 <= L PROVE Good(r[n + 1], n + 1)
    OBVIOUS
  <2>1. PICK z \in 1 .. L : z = n + 1 /\ z - 1 = n
    BY <1>1
  <2>2. n <= L /\ \A x \in 1 .. n : x \in 1 .. L /\ x # z /\ x \in 1 .. z
    BY <1>1, <2>1
  <2>3. z \in 1 .. z /\ \A x \in 1 .. z : x \in 1 .. n \/ x = z
    BY <2>1
  <2>4. PICK v : v = r[n] /\ Good(v, n)
    <3>1. Good(r[n], n)
      BY <1>9, <2>2
    <3> QED
      BY <3>1
  <2>9. DOMAIN v = {"spaces", "found", "res", "at"}
    BY <1>1, <1>6, <2>2, <2>4
  <2>5. r[z] = FindStep(v, s, first, q[z])
    BY <1>7, <2>1, <2>4
  <2>6. PICK j \in E : j = q[z]
    BY <1>2
  <2>7. CASE v.found
    <3>1. r[z] = v
      BY <2>5, <2>7 DEF FindStep, JobEnds
    <3>2. Good(v, z)
      BY <2>4, <2>7 DEF Good
    <3> QED
      BY <2>1, <3>1, <3>2
  <2>8. CASE ~v.found
    <3>1. PICK a \in Int, b \in Int : AllocOf(s, j) = <<a, b>> /\ a <= b
      BY DEF Booked, E, q
    <3>2. \A m \in Int : Holds(s, j, m) <=> a <= m /\ m <= b
      BY <3>1 DEF Holds
    <3>3. ASSUME NEW m \in Int, a <= m, m <= b PROVE m \notin Cover(v.spaces)
      <4>1. Holds(s, j, m)
        BY <3>2, <3>3
      <4>2. m \notin Cover(s.spaces)
        BY <4>1 DEF Booked, E, q
      <4>3. ASSUME NEW x \in 1 .. n, Holds(s, q[x], m) PROVE FALSE
        <5>1. x \in 1 .. L /\ x # z /\ q[x] \in E
          BY <1>2, <2>2
        <5>2. q[x] = j
          BY <4>1, <4>3, <5>1 DEF Booked, E, q
        <5> QED
          BY <1>2, <2>6, <5>1, <5>2
      <4> QED
        BY <2>4, <2>8, <4>2, <4>3 DEF Good
    <3>4. PICK u : u = unassignJob(v.spaces, <<a, b>>)
      OBVIOUS
    <3>5. Plain(v.spaces)
      BY <2>4, <2>8 DEF Good
    <3>6. Plain(u) /\ \A m \in Int : m \in Cover(u) <=> m \in Cover(v.spaces) \/ (a <= m /\ m <= b)
      BY <3>1, <3>3, <3>4, <3>5, UnassignHas
    <3>7. \A m \in Int : m \in Cover(u) <=> m \in Cover(s.spaces) \/ \E x \in 1 .. z : Holds(s, q[x], m)
      <4> SUFFICES ASSUME NEW m \in Int
                   PROVE  m \in Cover(u) <=> m \in Cover(s.spaces) \/ \E x \in 1 .. z : Holds(s, q[x], m)
        OBVIOUS
      <4>1. m \in Cover(u) <=> m \in Cover(v.spaces) \/ Holds(s, q[z], m)
        BY <2>6, <3>2, <3>6
      <4>2. m \in Cover(v.spaces) <=> m \in Cover(s.spaces) \/ \E x \in 1 .. n : Holds(s, q[x], m)
        BY <2>4, <2>8 DEF Good
      <4> QED
        BY <2>2, <2>3, <4>1, <4>2
    <3>8. PICK i : i \in DOMAIN u /\ i = SpaceAt(u, a)
      <4>1. a \in Cover(u)
        BY <3>1, <3>6
      <4>2. \E i \in DOMAIN u : u[i].first <= a /\ a <= u[i].last
        BY <4>1 DEF Cover, Within
      <4> QED
        BY <4>2 DEF SpaceAt
    <3>9. /\ demand[first] <= Res(u[i]) =>
               r[z] = [v EXCEPT !.found = TRUE, !.res = AllocIn(u[i], demand[first]), !.at = s.finish[j]]
          /\ ~(demand[first] <= Res(u[i])) => r[z] = [v EXCEPT !.spaces = u]
      BY <2>5, <2>6, <2>8, <3>1, <3>4, <3>8 DEF FindStep, JobEnds
    <3>10. CASE demand[first] <= Res(u[i])
      <4>1. PICK al : al = AllocIn(u[i], demand[first])
        OBVIOUS
      <4>2. Aligned(s.spaces, al)
        BY <3>6, <3>7, <3>8, <3>10, <4>1, AlignedAtEnd
      <4>3. r[z].found /\ r[z].res = al /\ r[z].at = s.finish[j]
        BY <2>9, <3>9, <3>10, <4>1
      <4>4. Good(r[z], z)
        BY <4>2, <4>3 DEF Good
      <4> QED
        BY <2>1, <4>4
    <3>11. CASE ~(demand[first] <= Res(u[i]))
      <4>1. r[z].found = v.found /\ r[z].spaces = u /\ r[z].res = v.res /\ r[z].at = v.at
        BY <2>9, <3>9, <3>11
      <4>2. Good(r[z], z)
        BY <2>4, <2>8, <3>6, <3>7, <4>1 DEF Good
      <4> QED
        BY <2>1, <4>2
    <3> QED
      BY <3>10, <3>11
  <2> QED
    BY <2>7, <2>8
<1>10. Nat \subseteq G
  <2> HIDE DEF G
  <2> QED
    BY <1>8, <1>9, Induction
<1>11. Good(f, L)
  <2>1. L \in G
    BY <1>1, <1>10
  <2> QED
    BY <1>1, <1>7, <2>1
<1>12. CASE f.found
  BY <1>11, <1>12 DEF Good, E, q
<1>13. CASE ~f.found
  <2>1. f.res = <<0, 0>> /\ f.at = 0
    BY <1>11, <1>13 DEF Good
  <2>2. -1 \notin Cover(s.spaces)
    <3>1. -1 \in Int /\ -1 \notin Machine
      BY PlatformAssumption DEF Machine
    <3> QED
      BY <3>1 DEF Booked
  <2>3. f.res[1] = 0 /\ f.res[2] = 0 /\ 0 - 1 = -1
    BY <2>1
  <2>4. Aligned(s.spaces, f.res)
    BY <2>2, <2>3 DEF Aligned
  <2> QED
    BY <2>1, <2>4
<1> QED
  BY <1>12, <1>13

-----------------------------------------------------------------------------
\* Starting a job

LEMMA ConcatSet ==
  ASSUME NEW S, NEW p \in Seq(S), NEW q \in Seq(S), NEW v, v = p \o q
  PROVE  /\ v \in Seq(S) /\ ToSet(v) = ToSet(p) \cup ToSet(q)
         /\ IsInjective(p) /\ IsInjective(q) /\ ToSet(p) \cap ToSet(q) = {} => IsInjective(v)
<1>1. PICK P \in Nat, Q \in Nat : P = Len(p) /\ Q = Len(q) /\ DOMAIN p = 1 .. P /\ DOMAIN q = 1 .. Q
  BY LenProperties
<1>2. v \in Seq(S) /\ Len(v) = P + Q
  BY <1>1, ConcatProperties
<1>3. DOMAIN v = 1 .. P + Q
  BY <1>2, LenProperties
<1>4. \A x \in 1 .. P + Q : (x <= P => v[x] = p[x]) /\ (~(x <= P) => v[x] = q[x - P])
  BY <1>1, ConcatProperties
<1>5. /\ \A x \in 1 .. P : x \in 1 .. P + Q /\ x <= P
      /\ \A x \in 1 .. Q : x + P \in 1 .. P + Q /\ ~(x + P <= P) /\ (x + P) - P = x
      /\ \A x \in 1 .. P + Q : x <= P => x \in 1 .. P
      /\ \A x \in 1 .. P + Q : ~(x <= P) => x - P \in 1 .. Q /\ (x - P) + P = x
  BY <1>1
<1>6. ToSet(v) = ToSet(p) \cup ToSet(q)
  <2>1. ASSUME NEW e \in ToSet(v) PROVE e \in ToSet(p) \cup ToSet(q)
    <3>1. PICK x \in 1 .. P + Q : e = v[x]
      BY <1>3, <2>1 DEF ToSet
    <3> QED
      BY <1>1, <1>4, <1>5, <3>1 DEF ToSet
  <2>2. ASSUME NEW e \in ToSet(p) PROVE e \in ToSet(v)
    BY <1>1, <1>3, <1>4, <1>5, <2>2 DEF ToSet
  <2>3. ASSUME NEW e \in ToSet(q) PROVE e \in ToSet(v)
    <3>1. PICK x \in 1 .. Q : e = q[x]
      BY <1>1, <2>3 DEF ToSet
    <3>2. v[x + P] = e /\ x + P \in 1 .. P + Q
      BY <1>4, <1>5, <3>1
    <3> QED
      BY <1>3, <3>2 DEF ToSet
  <2> QED
    BY <2>1, <2>2, <2>3
<1>7. ASSUME IsInjective(p), IsInjective(q), ToSet(p) \cap ToSet(q) = {} PROVE IsInjective(v)
  <2> SUFFICES ASSUME NEW x \in 1 .. P + Q, NEW y \in 1 .. P + Q, v[x] = v[y] PROVE x = y
    BY <1>3 DEF IsInjective
  <2>0. /\ \A a, b \in 1 .. P : p[a] = p[b] => a = b
        /\ \A a, b \in 1 .. Q : q[a] = q[b] => a = b
    BY <1>1, <1>7 DEF IsInjective
  <2>1. CASE x <= P /\ y <= P
    <3>1. x \in 1 .. P /\ y \in 1 .. P /\ v[x] = p[x] /\ v[y] = p[y]
      BY <1>4, <1>5, <2>1
    <3> QED
      BY <2>0, <3>1
  <2>2. CASE ~(x <= P) /\ ~(y <= P)
    <3>0. x - P \in 1 .. Q /\ y - P \in 1 .. Q /\ v[x] = q[x - P] /\ v[y] = q[y - P]
      BY <1>4, <1>5, <2>2
    <3>1. x - P = y - P
      BY <2>0, <3>0
    <3> QED
      BY <1>5, <2>2, <3>1
  <2>3. ASSUME NEW a \in 1 .. P + Q, NEW b \in 1 .. P + Q, a <= P, ~(b <= P), v[a] = v[b] PROVE FALSE
    <3>1. v[a] \in ToSet(p)
      BY <1>1, <1>4, <1>5, <2>3 DEF ToSet
    <3>2. v[b] \in ToSet(q)
      BY <1>1, <1>4, <1>5, <2>3 DEF ToSet
    <3> QED
      BY <1>7, <2>3, <3>1, <3>2
  <2> QED
    BY <2>1, <2>2, <2>3
<1> QED
  BY <1>2, <1>6, <1>7

LEMMA SortedHas ==
  ASSUME NEW q \in Seq(Job), NEW j \in Job, NEW ends, NEW r, r = Sorted(q, ends, j)
  PROVE  /\ r \in Seq(Job) /\ ToSet(r) = ToSet(q) \cup {j}
         /\ IsInjective(q) /\ j \notin ToSet(q) => IsInjective(r)
<1>1. PICK later : /\ later \subseteq ToSet(q)
                   /\ r = Append(Without(q, later), j) \o Without(q, ToSet(q) \ later)
  BY DEF Sorted
<1>2. PICK a : a = Without(q, later)
  OBVIOUS
<1>3. PICK b : b = Without(q, ToSet(q) \ later)
  OBVIOUS
<1>4. /\ a \in Seq(Job) /\ ToSet(a) = ToSet(q) \ later
      /\ IsInjective(q) => IsInjective(a)
  BY <1>2, WithoutHas
<1>5. /\ b \in Seq(Job) /\ ToSet(b) = ToSet(q) \ (ToSet(q) \ later)
      /\ IsInjective(q) => IsInjective(b)
  BY <1>3, WithoutHas
<1>6. PICK c : c = Append(a, j)
  OBVIOUS
<1>7. /\ c \in Seq(Job) /\ ToSet(c) = ToSet(a) \cup {j}
      /\ IsInjective(a) /\ j \notin ToSet(a) => IsInjective(c)
  BY <1>4, <1>6, AppendedSet, AppendProperties
<1>8. r = c \o b
  BY <1>1, <1>2, <1>3, <1>6
<1>9. /\ r \in Seq(Job) /\ ToSet(r) = ToSet(c) \cup ToSet(b)
      /\ IsInjective(c) /\ IsInjective(b) /\ ToSet(c) \cap ToSet(b) = {} => IsInjective(r)
  BY <1>5, <1>7, <1>8, ConcatSet
<1>10. ToSet(r) = ToSet(q) \cup {j}
  BY <1>1, <1>4, <1>5, <1>7, <1>9
<1>11. ASSUME IsInjective(q), j \notin ToSet(q) PROVE IsInjective(r)
  <2>1. ToSet(c) \cap ToSet(b) = {}
    BY <1>4, <1>5, <1>7, <1>11
  <2> QED
    BY <1>4, <1>5, <1>7, <1>9, <1>11, <2>1
<1> QED
  BY <1>9, <1>10, <1>11

\* What a pass works on.
Partial(S) == UNION {[A -> S] : A \in SUBSET Job}

PassState ==
  [spaces : Seq(Space), running : Seq(Job), waiting : Seq(Job), starts : Partial(Int \X Int),
   finish : Partial(Int), promised : {promised}, blocked : BOOLEAN]

LEMMA PassFields ==
  ASSUME NEW s \in PassState
  PROVE  /\ s.spaces \in Seq(Space) /\ s.running \in Seq(Job) /\ s.waiting \in Seq(Job)
         /\ s.starts \in Partial(Int \X Int) /\ s.finish \in Partial(Int)
         /\ s.promised = promised /\ s.blocked \in BOOLEAN
BY DEF PassState

LEMMA PartialIs ==
  ASSUME NEW S, NEW f
  PROVE  f \in Partial(S) <=> /\ DOMAIN f \subseteq Job /\ f = [k \in DOMAIN f |-> f[k]]
                              /\ \A k \in DOMAIN f : f[k] \in S
<1>1. ASSUME f \in Partial(S)
      PROVE  DOMAIN f \subseteq Job /\ f = [k \in DOMAIN f |-> f[k]] /\ \A k \in DOMAIN f : f[k] \in S
  <2>1. PICK A \in SUBSET Job : f \in [A -> S]
    BY <1>1 DEF Partial
  <2> QED
    BY <2>1
<1>2. ASSUME DOMAIN f \subseteq Job, f = [k \in DOMAIN f |-> f[k]], \A k \in DOMAIN f : f[k] \in S
      PROVE  f \in Partial(S)
  <2>1. f \in [DOMAIN f -> S]
    BY <1>2
  <2> QED
    BY <1>2, <2>1 DEF Partial
<1> QED
  BY <1>1, <1>2

IsWith(g, f, j, x) ==
  DOMAIN g = DOMAIN f \cup {j} /\ g[j] = x /\ \A k \in DOMAIN f : k # j => g[k] = f[k]

LEMMA WithHas ==
  ASSUME NEW S, NEW f \in Partial(S), NEW j \in Job, NEW x \in S
  PROVE  With(f, j, x) \in Partial(S) /\ IsWith(With(f, j, x), f, j, x)
<1> DEFINE g == With(f, j, x)
<1>1. g = [k \in DOMAIN f \cup {j} |-> IF k = j THEN x ELSE f[k]]
  BY DEF With
<1>2. DOMAIN f \subseteq Job /\ \A k \in DOMAIN f : f[k] \in S
  BY PartialIs
<1>3. g \in [DOMAIN f \cup {j} -> S] /\ DOMAIN f \cup {j} \in SUBSET Job
  BY <1>1, <1>2
<1> QED
  BY <1>1, <1>3 DEF Partial, IsWith

StartRes(s, j, i) == AllocIn(s.spaces[i], demand[j])

StartedFrom(u, s, j, i) ==
  /\ u \in PassState
  /\ u.spaces = assignJob(s.spaces, i, demand[j])
  /\ u.starts = With(s.starts, j, StartRes(s, j, i))
  /\ u.finish = With(s.finish, j, now + walltime[j])
  /\ ToSet(u.running) = ToSet(s.running) \cup {j}
  /\ IsInjective(s.running) /\ j \notin ToSet(s.running) => IsInjective(u.running)
  /\ u.waiting = s.waiting /\ u.promised = s.promised /\ u.blocked = s.blocked

\* StartIn, whatever the state.
LEMMA AnyStart ==
  ASSUME NEW s \in PassState, NEW j \in Job, NEW i \in DOMAIN s.spaces,
         demand[j] \in Int, walltime[j] \in Int, now \in Int, NEW u, u = StartIn(s, j, i)
  PROVE  StartedFrom(u, s, j, i)
<1>1. PICK ends : ends = With(s.finish, j, now + walltime[j])
  OBVIOUS
<1>2. PICK al : al = StartRes(s, j, i)
  OBVIOUS
<1>3. PICK sp : sp = assignJob(s.spaces, i, demand[j])
  OBVIOUS
<1>4. PICK st : st = With(s.starts, j, al)
  OBVIOUS
<1>5. PICK rn : rn = Sorted(s.running, ends, j)
  OBVIOUS
<1>6. u = [s EXCEPT !.spaces = sp, !.starts = st, !.finish = ends, !.running = rn]
  BY <1>1, <1>2, <1>3, <1>4, <1>5 DEF StartIn, StartRes
<1>7. /\ s.spaces \in Seq(Space) /\ s.running \in Seq(Job)
      /\ s.starts \in Partial(Int \X Int) /\ s.finish \in Partial(Int)
  BY PassFields
<1>8. sp \in Seq(Space)
  BY <1>3, <1>7, AnyAssign
<1>9. al \in Int \X Int
  <2>1. s.spaces[i] \in Space
    BY <1>7, SpacesHave
  <2> QED
    BY <1>2, <2>1, AnyCut DEF StartRes
<1>10. st \in Partial(Int \X Int)
  BY <1>4, <1>7, <1>9, WithHas
<1>11. ends \in Partial(Int)
  <2>1. now + walltime[j] \in Int
    OBVIOUS
  <2> QED
    BY <1>1, <1>7, <2>1, WithHas
<1>12. /\ rn \in Seq(Job) /\ ToSet(rn) = ToSet(s.running) \cup {j}
       /\ IsInjective(s.running) /\ j \notin ToSet(s.running) => IsInjective(rn)
  BY <1>5, <1>7, SortedHas
<1>13. /\ u.spaces = sp /\ u.starts = st /\ u.finish = ends /\ u.running = rn
       /\ u.waiting = s.waiting /\ u.promised = s.promised /\ u.blocked = s.blocked
  BY <1>6 DEF PassState
<1>14. u \in PassState
  BY <1>6, <1>8, <1>10, <1>11, <1>12 DEF PassState
<1> QED
  BY <1>1, <1>2, <1>3, <1>4, <1>12, <1>13, <1>14 DEF StartedFrom

\* No space of the list r is wider, or longer, than one of q.
Shrunk(r, q) == \A k \in DOMAIN r : \E x \in DOMAIN q :
  /\ r[k].length = q[x].length /\ r[k].linked = q[x].linked /\ r[k].virtual = q[x].virtual
  /\ Res(r[k]) <= Res(q[x])

Ready(j) == demand[j] \in Nat \ {0} /\ walltime[j] \in 0 .. Infinity - 1 /\ now \in Int

\* The books are kept.
LEMMA StartHas ==
  ASSUME NEW s \in PassState, Booked(s), Sound(s.spaces), DOMAIN s.starts \subseteq ToSet(s.running),
         NEW j \in Job, j \notin ToSet(s.running), Ready(j),
         NEW i \in DOMAIN s.spaces, demand[j] <= Res(s.spaces[i]), NEW u, u = StartIn(s, j, i)
  PROVE  /\ u \in PassState /\ Booked(u) /\ Sound(u.spaces) /\ Shrunk(u.spaces, s.spaces)
         /\ ToSet(u.running) = ToSet(s.running) \cup {j} /\ DOMAIN u.starts = DOMAIN s.starts \cup {j}
         /\ u.waiting = s.waiting /\ u.promised = s.promised /\ u.blocked = s.blocked
<1>1. demand[j] \in Nat \ {0} /\ demand[j] \in Int /\ walltime[j] \in Int /\ now \in Int
  BY DEF Ready
<1>2. PICK al : al = StartRes(s, j, i)
  OBVIOUS
<1>3. /\ u \in PassState
      /\ u.spaces = assignJob(s.spaces, i, demand[j])
      /\ u.starts = With(s.starts, j, al)
      /\ u.finish = With(s.finish, j, now + walltime[j])
      /\ ToSet(u.running) = ToSet(s.running) \cup {j}
      /\ u.waiting = s.waiting /\ u.promised = s.promised /\ u.blocked = s.blocked
  <2>1. StartedFrom(u, s, j, i)
    BY <1>1, AnyStart
  <2> QED
    BY <1>2, <2>1 DEF StartedFrom
<1>4. IsInjective(u.running)
  <2>1. StartedFrom(u, s, j, i)
    BY <1>1, AnyStart
  <2> QED
    BY <2>1 DEF Booked, StartedFrom
<1>5. s.spaces[i] \in Space /\ al = AllocIn(s.spaces[i], demand[j])
  BY <1>2, SpacesHave DEF Sound, StartRes
<1>6. al[1] \in Int /\ al[2] \in Int /\ al[1] <= al[2] /\ al \in Int \X Int
  BY <1>1, <1>5, AllocHas, AnyCut
<1>7. /\ Sound(u.spaces)
      /\ \A m \in Int : m \in Cover(u.spaces) <=> m \in Cover(s.spaces) /\ ~(al[1] <= m /\ m <= al[2])
      /\ \A m \in Int : al[1] <= m /\ m <= al[2] => m \in Cover(s.spaces)
  BY <1>1, <1>3, <1>5, AssignHas
<1>8. Shrunk(u.spaces, s.spaces)
  BY <1>1, <1>3, <1>5, AssignHas DEF Shrunk
<1>9. /\ DOMAIN u.starts = DOMAIN s.starts \cup {j} /\ u.starts[j] = al
      /\ \A k \in DOMAIN s.starts : k # j => u.starts[k] = s.starts[k]
  <2>1. s.starts \in Partial(Int \X Int) /\ al \in Int \X Int /\ u.starts = With(s.starts, j, al)
    BY <1>3, <1>6, PassFields
  <2>2. IsWith(With(s.starts, j, al), s.starts, j, al)
    BY <2>1, WithHas
  <2> QED
    BY <2>1, <2>2 DEF IsWith
<1>10. /\ DOMAIN u.finish = DOMAIN s.finish \cup {j} /\ u.finish[j] = now + walltime[j]
       /\ \A k \in DOMAIN s.finish : k # j => u.finish[k] = s.finish[k]
  <2>1. PICK e \in Int : e = now + walltime[j]
    BY <1>1
  <2>2. s.finish \in Partial(Int) /\ u.finish = With(s.finish, j, e)
    BY <1>3, <2>1, PassFields
  <2>3. IsWith(With(s.finish, j, e), s.finish, j, e)
    BY <2>2, WithHas
  <2> QED
    BY <2>1, <2>2, <2>3 DEF IsWith
<1>11. AllocOf(u, j) = al
  BY <1>9 DEF AllocOf
<1>12. \A k \in ToSet(s.running) : AllocOf(u, k) = AllocOf(s, k)
  BY <1>9 DEF AllocOf
<1>13. \A m \in Int : Holds(u, j, m) <=> al[1] <= m /\ m <= al[2]
  BY <1>11 DEF Holds
<1>14. \A k \in ToSet(s.running), m \in Int : Holds(u, k, m) <=> Holds(s, k, m)
  BY <1>12 DEF Holds
<1>15. ASSUME NEW k \in ToSet(u.running)
       PROVE  /\ AllocOf(u, k) \in Int \X Int /\ AllocOf(u, k)[1] <= AllocOf(u, k)[2]
              /\ k \in DOMAIN u.finish /\ u.finish[k] \in Int /\ u.finish[k] - now < Infinity
  <2>1. CASE k = j
    <3>1. now + walltime[j] \in Int /\ (now + walltime[j]) - now < Infinity
      BY <1>1, EasyAssumption DEF Ready
    <3> QED
      BY <1>6, <1>10, <1>11, <2>1, <3>1
  <2>2. CASE k \in ToSet(s.running)
    BY <1>10, <1>12, <2>2 DEF Booked
  <2> QED
    BY <1>3, <2>1, <2>2
<1>16. ASSUME NEW k \in ToSet(u.running), NEW m \in Int, Holds(u, k, m) PROVE m \in Machine
  <2>1. CASE k = j
    BY <1>7, <1>13, <1>16, <2>1 DEF Booked
  <2>2. CASE k \in ToSet(s.running)
    BY <1>14, <1>16, <2>2 DEF Booked
  <2> QED
    BY <1>3, <2>1, <2>2
<1>17. ASSUME NEW k \in ToSet(s.running), NEW m \in Int, Holds(u, k, m), Holds(u, j, m) PROVE FALSE
  <2>1. m \in Cover(s.spaces)
    BY <1>7, <1>13, <1>17
  <2> QED
    BY <1>14, <1>17, <2>1 DEF Booked
<1>18. ASSUME NEW k \in ToSet(u.running), NEW x \in ToSet(u.running), NEW m \in Int, Holds(u, k, m), Holds(u, x, m)
       PROVE  k = x
  <2>1. CASE k \in ToSet(s.running) /\ x \in ToSet(s.running)
    BY <1>14, <1>18, <2>1 DEF Booked
  <2> QED
    BY <1>3, <1>17, <1>18, <2>1
<1>19. ASSUME NEW m \in Int
       PROVE  m \in Cover(u.spaces) <=> m \in Machine /\ \A k \in ToSet(u.running) : ~Holds(u, k, m)
  <2>1. m \in Cover(s.spaces) <=> m \in Machine /\ \A k \in ToSet(s.running) : ~Holds(s, k, m)
    BY DEF Booked
  <2>2. (\A k \in ToSet(u.running) : ~Holds(u, k, m)) <=>
          ~Holds(u, j, m) /\ \A k \in ToSet(s.running) : ~Holds(s, k, m)
    BY <1>3, <1>14
  <2> QED
    BY <1>7, <1>13, <2>1, <2>2
<1>20. Booked(u)
  <2>1. u.running \in Seq(Job)
    BY <1>3, PassFields
  <2> QED
    BY <1>4, <1>15, <1>16, <1>18, <1>19, <2>1 DEF Booked
<1> QED
  BY <1>3, <1>7, <1>8, <1>9, <1>20

-----------------------------------------------------------------------------
\* findBackfilledAllocs

LEMMA LowestHas ==
  ASSUME NEW S \in SUBSET Nat, S # {}
  PROVE  Lowest(S) \in S
<1>1. PICK i \in S : \A k \in S : i <= k
  BY LeastExists
<1> QED
  BY <1>1 DEF Lowest

LEMMA EnoughIs ==
  ASSUME NEW q \in Seq(Space), NEW j
  PROVE  /\ WideEnough(q, j) \in SUBSET Nat /\ LongEnough(q, j) \in SUBSET Nat
         /\ \A i \in WideEnough(q, j) : i \in DOMAIN q /\ demand[j] <= Res(q[i])
         /\ \A i \in LongEnough(q, j) : i \in DOMAIN q /\ demand[j] <= Res(q[i])
<1>1. DOMAIN q \subseteq Nat
  BY SpacesHave
<1> QED
  BY <1>1 DEF WideEnough, LongEnough

\* A job that fits no space fits none of a list that has only shrunk.
LEMMA StillNone ==
  ASSUME NEW q \in Seq(Space), NEW r \in Seq(Space), Shrunk(r, q), NEW j, demand[j] \in Int
  PROVE  /\ WideEnough(q, j) = {} => WideEnough(r, j) = {}
         /\ LongEnough(q, j) = {} => LongEnough(r, j) = {}
<1>1. \A x \in DOMAIN q : Res(q[x]) \in Int
  BY WidthsAre
<1>2. \A x \in DOMAIN r : Res(r[x]) \in Int
  BY WidthsAre
<1>3. \A k \in DOMAIN r : \E x \in DOMAIN q : r[k].length = q[x].length /\ Res(r[k]) <= Res(q[x])
  BY DEF Shrunk
<1>4. ASSUME NEW k \in WideEnough(r, j) PROVE \E x \in DOMAIN q : x \in WideEnough(q, j)
  <2>1. k \in DOMAIN r /\ demand[j] <= Res(r[k])
    BY <1>4 DEF WideEnough
  <2>2. PICK x \in DOMAIN q : Res(r[k]) <= Res(q[x])
    BY <1>3, <2>1
  <2>3. demand[j] <= Res(q[x])
    BY <1>1, <1>2, <2>1, <2>2
  <2> QED
    BY <2>3 DEF WideEnough
<1>5. ASSUME NEW k \in LongEnough(r, j) PROVE \E x \in DOMAIN q : x \in LongEnough(q, j)
  <2>1. k \in DOMAIN r /\ demand[j] <= Res(r[k]) /\ walltime[j] <= r[k].length
    BY <1>5 DEF LongEnough, WideEnough
  <2>2. PICK x \in DOMAIN q : r[k].length = q[x].length /\ Res(r[k]) <= Res(q[x])
    BY <1>3, <2>1
  <2>3. demand[j] <= Res(q[x]) /\ walltime[j] <= q[x].length
    BY <1>1, <1>2, <2>1, <2>2
  <2> QED
    BY <2>3 DEF WideEnough, LongEnough
<1> QED
  BY <1>4, <1>5

LEMMA ShrunkMore ==
  ASSUME NEW p \in Seq(Space), NEW q \in Seq(Space), NEW r \in Seq(Space), Shrunk(q, p), Shrunk(r, q)
  PROVE  Shrunk(r, p)
<1>1. /\ \A x \in DOMAIN q : Res(q[x]) \in Int
      /\ \A x \in DOMAIN r : Res(r[x]) \in Int
      /\ \A x \in DOMAIN p : Res(p[x]) \in Int
  BY WidthsAre
<1> SUFFICES ASSUME NEW k \in DOMAIN r
             PROVE  \E x \in DOMAIN p :
                      /\ r[k].length = p[x].length /\ r[k].linked = p[x].linked
                      /\ r[k].virtual = p[x].virtual /\ Res(r[k]) <= Res(p[x])
  BY DEF Shrunk
<1>2. PICK y \in DOMAIN q : /\ r[k].length = q[y].length /\ r[k].linked = q[y].linked
                           /\ r[k].virtual = q[y].virtual /\ Res(r[k]) <= Res(q[y])
  BY DEF Shrunk
<1>3. PICK x \in DOMAIN p : /\ q[y].length = p[x].length /\ q[y].linked = p[x].linked
                           /\ q[y].virtual = p[x].virtual /\ Res(q[y]) <= Res(p[x])
  BY DEF Shrunk
<1>4. Res(r[k]) <= Res(p[x])
  BY <1>1, <1>2, <1>3
<1> QED
  BY <1>2, <1>3, <1>4

AllReady == \A j \in Job : Ready(j)

\* What a pass starts from, at any point of it.
Passing(s) ==
  /\ s \in PassState /\ Booked(s) /\ Sound(s.spaces) /\ DOMAIN s.starts \subseteq ToSet(s.running)

\* v is s after the jobs of A were started.
Started(v, s, A) ==
  /\ Passing(v) /\ Shrunk(v.spaces, s.spaces)
  /\ ToSet(v.running) = ToSet(s.running) \cup A /\ DOMAIN v.starts = DOMAIN s.starts \cup A

LEMMA StartedNone ==
  ASSUME NEW s, Passing(s)
  PROVE  Started(s, s, {})
<1>1. s.spaces \in Seq(Space) /\ \A x \in DOMAIN s.spaces : Res(s.spaces[x]) \in Int
  BY WidthsAre DEF Passing, Sound
<1>2. Shrunk(s.spaces, s.spaces)
  BY <1>1 DEF Shrunk
<1> QED
  BY <1>2 DEF Started

LEMMA StartedMore ==
  ASSUME NEW s, Passing(s), NEW v, NEW A, Started(v, s, A), AllReady,
         NEW j \in Job, j \notin ToSet(v.running),
         NEW i \in DOMAIN v.spaces, demand[j] <= Res(v.spaces[i])
  PROVE  /\ Started(StartIn(v, j, i), s, A \cup {j}) /\ Shrunk(StartIn(v, j, i).spaces, v.spaces)
         /\ StartIn(v, j, i).waiting = v.waiting /\ StartIn(v, j, i).blocked = v.blocked
<1>1. PICK u : u = StartIn(v, j, i)
  OBVIOUS
<1>2. Ready(j)
  BY DEF AllReady
<1>3. v \in PassState /\ Booked(v) /\ Sound(v.spaces) /\ DOMAIN v.starts \subseteq ToSet(v.running)
  BY DEF Started, Passing
<1>4. u \in PassState /\ Booked(u) /\ Sound(u.spaces) /\ Shrunk(u.spaces, v.spaces)
  BY <1>1, <1>2, <1>3, StartHas
<1>5. /\ ToSet(u.running) = ToSet(v.running) \cup {j} /\ DOMAIN u.starts = DOMAIN v.starts \cup {j}
      /\ u.waiting = v.waiting /\ u.blocked = v.blocked
  BY <1>1, <1>2, <1>3, StartHas
<1>6. Shrunk(u.spaces, s.spaces)
  <2>1. u.spaces \in Seq(Space) /\ v.spaces \in Seq(Space) /\ s.spaces \in Seq(Space)
    BY <1>3, <1>4 DEF Sound, Passing
  <2>2. Shrunk(v.spaces, s.spaces)
    BY DEF Started
  <2> QED
    BY <1>4, <2>1, <2>2, ShrunkMore
<1>7. Started(u, s, A \cup {j})
  BY <1>3, <1>4, <1>5, <1>6 DEF Started, Passing
<1> QED
  BY <1>1, <1>4, <1>5, <1>7

FillRun(r, s) ==
  /\ r[0] = s /\ r[Len(Tail(s.waiting))] = findBackfilledAllocs(s)
  /\ \A n \in 1 .. Len(Tail(s.waiting)) : r[n] = Backfill(r[n - 1], Tail(s.waiting)[n])

Filling(h, s) ==
  h = [T \in SUBSET DOMAIN Tail(s.waiting) |->
         IF T = {} THEN s ELSE Backfill(h[T \ {Max(T)}], Tail(s.waiting)[Max(T)])]

LEMMA AnyBackfill ==
  ASSUME AllReady, NEW v \in PassState, NEW j \in Job
  PROVE  Backfill(v, j) \in PassState
<1>1. CASE LongEnough(v.spaces, j) = {}
  BY <1>1 DEF Backfill
<1>2. CASE LongEnough(v.spaces, j) # {}
  <2>1. v.spaces \in Seq(Space)
    BY PassFields
  <2>2. PICK i : i = Lowest(LongEnough(v.spaces, j)) /\ i \in DOMAIN v.spaces
    BY <1>2, <2>1, EnoughIs, LowestHas
  <2>3. demand[j] \in Int /\ walltime[j] \in Int /\ now \in Int
    BY DEF AllReady, Ready
  <2>4. StartedFrom(StartIn(v, j, i), v, j, i)
    BY <2>2, <2>3, AnyStart
  <2> QED
    BY <1>2, <2>2, <2>4 DEF Backfill, StartedFrom
<1> QED
  BY <1>1, <1>2

\* The pass over the jobs behind the head, one job at a time.
LEMMA FillSteps ==
  ASSUME NEW s \in PassState, AllReady, Tail(s.waiting) \in Seq(Job)
  PROVE  \E r : FillRun(r, s)
<1> DEFINE q == Tail(s.waiting)
           V == PassState
           g == [p \in V \X Job |-> Backfill(p[1], p[2])]
<1>1. \A v \in V, e \in Job : g[<<v, e>>] = Backfill(v, e)
  OBVIOUS
<1>2. g \in [V \X Job -> V]
  BY AnyBackfill
<1>4. q \in Seq(Job) /\ DOMAIN q = 1 .. Len(q) /\ Len(q) \in Nat /\ \A i \in 1 .. Len(q) : q[i] \in Job
  BY LenProperties, ElementOfSeq
<1>5. \A T \in SUBSET DOMAIN q : T # {} => q[Max(T)] \in Job
  BY <1>4, MaxExists
<1> HIDE DEF g
<1>6. PICK h \in [SUBSET DOMAIN q -> V] : Folding(h, q, s, g)
  BY <1>2, <1>4, FoldExists
<1>7. ASSUME NEW T \in SUBSET DOMAIN q, T # {}
      PROVE  g[<<h[T \ {Max(T)}], q[Max(T)]>>] = Backfill(h[T \ {Max(T)}], q[Max(T)])
  BY <1>1, <1>5, <1>6, <1>7
<1>8. Filling(h, s)
  BY <1>6, <1>7 DEF Folding, Filling
<1> DEFINE k == CHOOSE f : Filling(f, s)
<1>9. Filling(k, s) /\ findBackfilledAllocs(s) = k[DOMAIN q]
  BY <1>8 DEF findBackfilledAllocs, FoldLeft, MapThenFoldSet, Filling
<1> HIDE DEF k
<1>10. k[{}] = s
  BY <1>9 DEF Filling
<1>11. ASSUME NEW T \in SUBSET DOMAIN q, T # {}, k[T \ {Max(T)}] \in V
       PROVE  k[T] = g[<<k[T \ {Max(T)}], q[Max(T)]>>]
  <2>1. k[T] = Backfill(k[T \ {Max(T)}], q[Max(T)])
    BY <1>9, <1>11 DEF Filling
  <2> QED
    BY <1>1, <1>5, <1>11, <2>1
<1>12. Follows(k, q, V, s, g)
  BY <1>10, <1>11 DEF Follows
<1>13. PICK r \in [0 .. Len(q) -> V] : FoldRun(r, q, s, g, k[DOMAIN q])
  BY <1>2, <1>4, <1>12, FoldSteps
<1>14. ASSUME NEW n \in 1 .. Len(q) PROVE r[n] = Backfill(r[n - 1], q[n])
  <2>1. n - 1 \in 0 .. Len(q) /\ q[n] \in Job
    BY <1>4
  <2>2. r[n - 1] \in V /\ r[n] = g[<<r[n - 1], q[n]>>]
    BY <1>13, <2>1 DEF FoldRun
  <2> QED
    BY <1>1, <2>1, <2>2
<1>15. FillRun(r, s)
  BY <1>9, <1>13, <1>14 DEF FillRun, FoldRun
<1> QED
  BY <1>15

\* The jobs of A are backfilled; none of the others fits a space that is left.
Filled(u, s, A) ==
  /\ Started(u, s, A) /\ u.waiting = s.waiting
  /\ \A j \in ToSet(Tail(s.waiting)) : j \in A \/ LongEnough(u.spaces, j) = {}

LEMMA FillHas ==
  ASSUME NEW s, Passing(s), AllReady, NEW q \in Seq(Job), q = Tail(s.waiting), IsInjective(q),
         ToSet(q) \cap ToSet(s.running) = {}
  PROVE  \E A \in SUBSET ToSet(q) : Filled(findBackfilledAllocs(s), s, A)
<1>1. PICK L \in Nat : L = Len(q) /\ DOMAIN q = 1 .. L
  BY LenProperties
<1>2. /\ \A x \in 1 .. L : q[x] \in Job /\ q[x] \in ToSet(q) /\ q[x] \notin ToSet(s.running)
      /\ \A x, y \in 1 .. L : q[x] = q[y] => x = y
      /\ \A j \in ToSet(q) : \E x \in 1 .. L : j = q[x]
  <2>1. \A x \in 1 .. L : q[x] \in Job /\ q[x] \in ToSet(q)
    BY <1>1, ElementOfSeq DEF ToSet
  <2>2. \A x, y \in 1 .. L : q[x] = q[y] => x = y
    BY <1>1 DEF IsInjective
  <2>3. \A j \in ToSet(q) : \E x \in 1 .. L : j = q[x]
    BY <1>1 DEF ToSet
  <2> QED
    BY <2>1, <2>2, <2>3
<1>3. PICK r : FillRun(r, s)
  BY FillSteps DEF Passing
<1>4. /\ r[0] = s /\ r[L] = findBackfilledAllocs(s)
      /\ \A n \in 1 .. L : r[n] = Backfill(r[n - 1], q[n])
  BY <1>1, <1>3 DEF FillRun
<1> DEFINE Good(v, n, A) ==
             /\ Started(v, s, A) /\ v.waiting = s.waiting
             /\ \A j \in A : \E x \in 1 .. n : j = q[x]
             /\ \A x \in 1 .. n : q[x] \in A \/ LongEnough(v.spaces, q[x]) = {}
           G == {n \in Nat : n <= L => \E A : Good(r[n], n, A)}
<1> HIDE DEF Good
<1>5. 0 \in G
  <2>1. Good(r[0], 0, {})
    BY <1>4, StartedNone DEF Good
  <2> QED
    BY <2>1
<1>6. ASSUME NEW n \in Nat, n \in G PROVE n + 1 \in G
  <2> SUFFICES ASSUME n + 1 <= L PROVE \E A : Good(r[n + 1], n + 1, A)
    OBVIOUS
  <2>1. PICK z \in 1 .. L : z = n + 1 /\ z - 1 = n
    BY <1>1
  <2>2. n <= L /\ \A x \in 1 .. n : x \in 1 .. L /\ x # z /\ x \in 1 .. z
    BY <1>1, <2>1
  <2>3. z \in 1 .. z /\ \A x \in 1 .. z : x \in 1 .. n \/ x = z
    BY <2>1
  <2>4. PICK A : Good(r[n], n, A)
    BY <1>6, <2>2
  <2>5. PICK v : v = r[n]
    OBVIOUS
  <2>6. PICK j \in Job : j = q[z]
    BY <1>2
  <2>7. /\ Started(v, s, A) /\ v.waiting = s.waiting
        /\ \A k \in A : \E x \in 1 .. n : k = q[x]
        /\ \A x \in 1 .. n : q[x] \in A \/ LongEnough(v.spaces, q[x]) = {}
    BY <2>4, <2>5 DEF Good
  <2>8. r[z] = Backfill(v, j)
    BY <1>4, <2>1, <2>5, <2>6
  <2>9. v.spaces \in Seq(Space)
    BY <2>7 DEF Started, Passing, Sound
  <2>10. CASE LongEnough(v.spaces, j) = {}
    <3>1. r[z] = v
      BY <2>8, <2>10 DEF Backfill
    <3>2. Good(v, z, A)
      BY <2>2, <2>3, <2>6, <2>7, <2>10 DEF Good
    <3> QED
      BY <2>1, <3>1, <3>2
  <2>11. CASE LongEnough(v.spaces, j) # {}
    <3>1. PICK i : /\ i = Lowest(LongEnough(v.spaces, j)) /\ i \in DOMAIN v.spaces
                   /\ demand[j] <= Res(v.spaces[i])
      BY <2>9, <2>11, EnoughIs, LowestHas
    <3>2. r[z] = StartIn(v, j, i)
      BY <2>8, <2>11, <3>1 DEF Backfill
    <3>3. j \notin ToSet(v.running)
      <4>1. ASSUME j \in A PROVE FALSE
        <5>1. PICK x \in 1 .. n : j = q[x]
          BY <2>7, <4>1
        <5>2. x \in 1 .. L /\ x # z
          BY <2>2
        <5> QED
          BY <1>2, <2>6, <5>1, <5>2
      <4> QED
        BY <1>2, <2>6, <2>7, <4>1 DEF Started
    <3>10. /\ Started(StartIn(v, j, i), s, A \cup {j}) /\ Shrunk(StartIn(v, j, i).spaces, v.spaces)
           /\ StartIn(v, j, i).waiting = v.waiting
      <4>1. Started(v, s, A)
        BY <2>7
      <4> QED
        BY <3>1, <3>3, <4>1, StartedMore
    <3>4. PICK u : u = StartIn(v, j, i)
      OBVIOUS
    <3>5. Started(u, s, A \cup {j}) /\ Shrunk(u.spaces, v.spaces) /\ u.waiting = v.waiting
      BY <3>4, <3>10
    <3>6. ASSUME NEW x \in 1 .. n, LongEnough(v.spaces, q[x]) = {} PROVE LongEnough(u.spaces, q[x]) = {}
      <4>1. u.spaces \in Seq(Space)
        BY <3>5 DEF Started, Passing, Sound
      <4>2. demand[q[x]] \in Int
        <5>1. PICK k \in Job : k = q[x]
          BY <1>2, <2>2
        <5>2. demand[k] \in Int
          BY DEF AllReady, Ready
        <5> QED
          BY <5>1, <5>2
      <4> QED
        BY <2>9, <3>5, <3>6, <4>1, <4>2, StillNone
    <3>7. \A k \in A \cup {j} : \E x \in 1 .. z : k = q[x]
      BY <2>2, <2>3, <2>6, <2>7
    <3>8. \A x \in 1 .. z : q[x] \in A \cup {j} \/ LongEnough(u.spaces, q[x]) = {}
      BY <2>3, <2>6, <2>7, <3>6
    <3>9. Good(u, z, A \cup {j})
      BY <2>7, <3>5, <3>7, <3>8 DEF Good
    <3> QED
      BY <2>1, <3>2, <3>4, <3>9
  <2> QED
    BY <2>10, <2>11
<1>7. Nat \subseteq G
  <2> HIDE DEF G
  <2> QED
    BY <1>5, <1>6, Induction
<1>8. PICK A : Good(r[L], L, A)
  <2>1. L \in G
    BY <1>1, <1>7
  <2> QED
    BY <1>1, <2>1
<1>9. A \in SUBSET ToSet(q) /\ Filled(r[L], s, A)
  <2>1. ASSUME NEW j \in A PROVE j \in ToSet(q)
    <3>1. PICK x \in 1 .. L : j = q[x]
      BY <1>8 DEF Good
    <3> QED
      BY <1>2, <3>1
  <2>2. \A j \in ToSet(q) : j \in A \/ LongEnough(r[L].spaces, j) = {}
    <3> SUFFICES ASSUME NEW j \in ToSet(q) PROVE j \in A \/ LongEnough(r[L].spaces, j) = {}
      OBVIOUS
    <3>1. PICK x \in 1 .. L : j = q[x]
      BY <1>2
    <3> QED
      BY <1>8, <3>1 DEF Good
  <2> QED
    BY <1>8, <2>1, <2>2 DEF Good, Filled
<1> QED
  BY <1>4, <1>9

-----------------------------------------------------------------------------
\* allocHeadOfList

LEMMA PopHas ==
  ASSUME NEW S, NEW q \in Seq(S)
  PROVE  /\ RemoveAt(q, 1) \in Seq(S)
         /\ q # <<>> => /\ Len(RemoveAt(q, 1)) = Len(q) - 1
                        /\ \A x \in 1 .. Len(q) - 1 : RemoveAt(q, 1)[x] = q[x + 1]
<1>1. PICK i \in Nat : i = 1
  OBVIOUS
<1> DEFINE u == SubSeq(q, 1, i - 1)
           v == SubSeq(q, i + 1, Len(q))
<1>2. u \in Seq(S) /\ v \in Seq(S)
  BY <1>1
<1> HIDE DEF u, v
<1>3. RemoveAt(q, i) = u \o v
  BY DEF RemoveAt, u, v
<1>4. RemoveAt(q, i) \in Seq(S)
  BY <1>2, <1>3
<1>5. RemoveAt(q, 1) \in Seq(S)
  BY <1>1, <1>4
<1>6. ASSUME q # <<>>
      PROVE  /\ Len(RemoveAt(q, 1)) = Len(q) - 1
             /\ \A x \in 1 .. Len(q) - 1 : RemoveAt(q, 1)[x] = q[x + 1]
  <2>1. PICK L \in Nat \ {0} : L = Len(q)
    BY <1>6, LenProperties, EmptySeq
  <2>2. PICK r : r = RemoveAt(q, 1)
    OBVIOUS
  <2>3. 1 \in 1 .. Len(q)
    BY <2>1
  <2>4. r \in Seq(S) /\ DOMAIN r = 1 .. L - 1 /\ \A k \in 1 .. L - 1 : r[k] = IF k < 1 THEN q[k] ELSE q[k + 1]
    BY <2>1, <2>2, <2>3, RemoveAtHas
  <2>5. Len(r) = L - 1
    <3>1. L - 1 \in Nat
      BY <2>1
    <3> QED
      BY <2>4, <3>1
  <2>6. \A k \in 1 .. L - 1 : r[k] = q[k + 1]
    BY <2>1, <2>4
  <2> QED
    BY <2>1, <2>2, <2>5, <2>6
<1> QED
  BY <1>5, <1>6

\* Only what is waiting, or blocked, has changed.
LEMMA StartedAside ==
  ASSUME NEW s, NEW v, NEW A, Started(v, s, A), NEW u \in PassState,
         u.spaces = v.spaces, u.running = v.running, u.starts = v.starts, u.finish = v.finish
  PROVE  Started(u, s, A)
<1>1. Passing(v) /\ Shrunk(v.spaces, s.spaces)
  BY DEF Started
<1>2. \A j : AllocOf(u, j) = AllocOf(v, j)
  BY DEF AllocOf
<1>3. \A j, m : Holds(u, j, m) <=> Holds(v, j, m)
  BY <1>2 DEF Holds
<1>4. Booked(u)
  <2>1. Booked(v)
    BY <1>1 DEF Passing
  <2> QED
    BY <1>2, <1>3, <2>1 DEF Booked
<1>5. Passing(u)
  BY <1>1, <1>4 DEF Passing
<1> QED
  BY <1>1, <1>5 DEF Started

LEMMA BlockedHas ==
  ASSUME NEW v \in PassState
  PROVE  /\ [v EXCEPT !.blocked = TRUE] \in PassState
         /\ [v EXCEPT !.blocked = TRUE].blocked
         /\ [v EXCEPT !.blocked = TRUE].spaces = v.spaces
         /\ [v EXCEPT !.blocked = TRUE].running = v.running
         /\ [v EXCEPT !.blocked = TRUE].starts = v.starts
         /\ [v EXCEPT !.blocked = TRUE].finish = v.finish
         /\ [v EXCEPT !.blocked = TRUE].waiting = v.waiting
BY DEF PassState

LEMMA PoppedHas ==
  ASSUME NEW v \in PassState, NEW w \in Seq(Job)
  PROVE  /\ [v EXCEPT !.waiting = w] \in PassState
         /\ [v EXCEPT !.waiting = w].waiting = w
         /\ [v EXCEPT !.waiting = w].spaces = v.spaces
         /\ [v EXCEPT !.waiting = w].running = v.running
         /\ [v EXCEPT !.waiting = w].starts = v.starts
         /\ [v EXCEPT !.waiting = w].finish = v.finish
         /\ [v EXCEPT !.waiting = w].blocked = v.blocked
BY DEF PassState

LEMMA AnyAllocHead ==
  ASSUME AllReady, NEW v \in PassState, NEW j \in Job
  PROVE  AllocHead(v, j) \in PassState
<1>1. CASE v.blocked \/ WideEnough(v.spaces, j) = {}
  BY <1>1, BlockedHas DEF AllocHead
<1>2. CASE ~(v.blocked \/ WideEnough(v.spaces, j) = {})
  <2>1. v.spaces \in Seq(Space)
    BY PassFields
  <2>2. PICK i : i = Lowest(WideEnough(v.spaces, j)) /\ i \in DOMAIN v.spaces
    BY <1>2, <2>1, EnoughIs, LowestHas
  <2>3. demand[j] \in Int /\ walltime[j] \in Int /\ now \in Int
    BY DEF AllReady, Ready
  <2>4. PICK u : u = StartIn(v, j, i)
    OBVIOUS
  <2>5. u \in PassState
    <3>1. StartedFrom(StartIn(v, j, i), v, j, i)
      BY <2>2, <2>3, AnyStart
    <3> QED
      BY <2>4, <3>1 DEF StartedFrom
  <2>6. PICK w : w = RemoveAt(u.waiting, 1)
    OBVIOUS
  <2>7. w \in Seq(Job)
    <3>1. u.waiting \in Seq(Job)
      BY <2>5, PassFields
    <3> QED
      BY <2>6, <3>1, PopHas
  <2>8. AllocHead(v, j) = [u EXCEPT !.waiting = w]
    BY <1>2, <2>2, <2>4, <2>6 DEF AllocHead
  <2> QED
    BY <2>5, <2>7, <2>8, PoppedHas
<1> QED
  BY <1>1, <1>2

HeadRun(r, s) ==
  /\ r[0] = s /\ r[Len(s.waiting)] = allocHeadOfList(s)
  /\ \A n \in 1 .. Len(s.waiting) : r[n] = AllocHead(r[n - 1], s.waiting[n])

Heading(h, s) ==
  h = [T \in SUBSET DOMAIN s.waiting |->
         IF T = {} THEN s ELSE AllocHead(h[T \ {Max(T)}], s.waiting[Max(T)])]

LEMMA HeadSteps ==
  ASSUME NEW s \in PassState, AllReady
  PROVE  \E r : HeadRun(r, s)
<1> DEFINE q == s.waiting
           V == PassState
           g == [p \in V \X Job |-> AllocHead(p[1], p[2])]
<1>1. \A v \in V, e \in Job : g[<<v, e>>] = AllocHead(v, e)
  OBVIOUS
<1>2. g \in [V \X Job -> V]
  BY AnyAllocHead
<1>4. q \in Seq(Job) /\ DOMAIN q = 1 .. Len(q) /\ Len(q) \in Nat /\ \A i \in 1 .. Len(q) : q[i] \in Job
  BY PassFields, LenProperties, ElementOfSeq
<1>5. \A T \in SUBSET DOMAIN q : T # {} => q[Max(T)] \in Job
  BY <1>4, MaxExists
<1> HIDE DEF g
<1>6. PICK h \in [SUBSET DOMAIN q -> V] : Folding(h, q, s, g)
  BY <1>2, <1>4, FoldExists
<1>7. ASSUME NEW T \in SUBSET DOMAIN q, T # {}
      PROVE  g[<<h[T \ {Max(T)}], q[Max(T)]>>] = AllocHead(h[T \ {Max(T)}], q[Max(T)])
  BY <1>1, <1>5, <1>6, <1>7
<1>8. Heading(h, s)
  BY <1>6, <1>7 DEF Folding, Heading
<1> DEFINE k == CHOOSE f : Heading(f, s)
<1>9. Heading(k, s) /\ allocHeadOfList(s) = k[DOMAIN q]
  BY <1>8 DEF allocHeadOfList, FoldLeft, MapThenFoldSet, Heading
<1> HIDE DEF k
<1>10. k[{}] = s
  BY <1>9 DEF Heading
<1>11. ASSUME NEW T \in SUBSET DOMAIN q, T # {}, k[T \ {Max(T)}] \in V
       PROVE  k[T] = g[<<k[T \ {Max(T)}], q[Max(T)]>>]
  <2>1. k[T] = AllocHead(k[T \ {Max(T)}], q[Max(T)])
    BY <1>9, <1>11 DEF Heading
  <2> QED
    BY <1>1, <1>5, <1>11, <2>1
<1>12. Follows(k, q, V, s, g)
  BY <1>10, <1>11 DEF Follows
<1>13. PICK r \in [0 .. Len(q) -> V] : FoldRun(r, q, s, g, k[DOMAIN q])
  BY <1>2, <1>4, <1>12, FoldSteps
<1>14. ASSUME NEW n \in 1 .. Len(q) PROVE r[n] = AllocHead(r[n - 1], q[n])
  <2>1. n - 1 \in 0 .. Len(q) /\ q[n] \in Job
    BY <1>4
  <2>2. r[n - 1] \in V /\ r[n] = g[<<r[n - 1], q[n]>>]
    BY <1>13, <2>1 DEF FoldRun
  <2> QED
    BY <1>1, <2>1, <2>2
<1>15. HeadRun(r, s)
  BY <1>9, <1>13, <1>14 DEF HeadRun, FoldRun
<1> QED
  BY <1>15

\* v is s after its first k waiting jobs were started.
Ahead(s, k) == {s.waiting[x] : x \in 1 .. k}

Headed(v, s, k) ==
  /\ Started(v, s, Ahead(s, k))
  /\ v.waiting \in Seq(Job) /\ Len(v.waiting) = Len(s.waiting) - k
  /\ \A x \in 1 .. Len(s.waiting) - k : v.waiting[x] = s.waiting[k + x]

\* v is s after n of the jobs that waited were looked at.
Looked(v, s, n, k) ==
  /\ Headed(v, s, k)
  /\ v.blocked => k < n /\ WideEnough(v.spaces, s.waiting[k + 1]) = {}
  /\ ~v.blocked => k = n

\* What the queue of a pass is like.
Queued(s) ==
  /\ s.waiting \in Seq(Job) /\ IsInjective(s.waiting)
  /\ ToSet(s.waiting) \cap ToSet(s.running) = {}

LEMMA QueueHas ==
  ASSUME NEW s, Queued(s), NEW L, L = Len(s.waiting)
  PROVE  /\ L \in Nat /\ DOMAIN s.waiting = 1 .. L
         /\ \A x \in 1 .. L : s.waiting[x] \in Job /\ s.waiting[x] \in ToSet(s.waiting)
                              /\ s.waiting[x] \notin ToSet(s.running)
         /\ \A x, y \in 1 .. L : s.waiting[x] = s.waiting[y] => x = y
         /\ \A j \in ToSet(s.waiting) : \E x \in 1 .. L : j = s.waiting[x]
<1>1. L \in Nat /\ DOMAIN s.waiting = 1 .. L /\ \A x \in 1 .. L : s.waiting[x] \in Job
  BY LenProperties, ElementOfSeq DEF Queued
<1>2. \A x \in 1 .. L : s.waiting[x] \in ToSet(s.waiting)
  BY <1>1 DEF ToSet
<1>3. \A x, y \in 1 .. L : s.waiting[x] = s.waiting[y] => x = y
  BY <1>1 DEF IsInjective, Queued
<1>4. \A j \in ToSet(s.waiting) : \E x \in 1 .. L : j = s.waiting[x]
  BY <1>1 DEF ToSet
<1> QED
  BY <1>1, <1>2, <1>3, <1>4 DEF Queued

\* A job that finds no space blocks the others.
LEMMA HeadStays ==
  ASSUME NEW s, Queued(s), AllReady, NEW n \in Nat, n < Len(s.waiting),
         NEW v, NEW k \in 0 .. n, Looked(v, s, n, k),
         v.blocked \/ WideEnough(v.spaces, s.waiting[n + 1]) = {}
  PROVE  Looked(AllocHead(v, s.waiting[n + 1]), s, n + 1, k)
<1>1. v \in PassState /\ Started(v, s, Ahead(s, k))
  BY DEF Looked, Headed, Started, Passing
<1>2. PICK u : u = [v EXCEPT !.blocked = TRUE]
  OBVIOUS
<1>3. /\ u \in PassState /\ u.blocked /\ u.spaces = v.spaces /\ u.running = v.running
      /\ u.starts = v.starts /\ u.finish = v.finish /\ u.waiting = v.waiting
  BY <1>1, <1>2, BlockedHas
<1>4. Started(u, s, Ahead(s, k))
  BY <1>1, <1>3, StartedAside
<1>5. Headed(u, s, k)
  BY <1>3, <1>4 DEF Looked, Headed
<1>6. WideEnough(u.spaces, s.waiting[k + 1]) = {}
  <2>1. CASE v.blocked
    BY <1>3, <2>1 DEF Looked
  <2>2. CASE ~v.blocked
    <3>1. k = n
      BY <2>2 DEF Looked
    <3> QED
      BY <1>3, <2>2, <3>1
  <2> QED
    BY <2>1, <2>2
<1>7. k < n + 1
  OBVIOUS
<1>8. Looked(u, s, n + 1, k)
  BY <1>3, <1>5, <1>6, <1>7 DEF Looked
<1> QED
  BY <1>2, <1>8 DEF AllocHead

LEMMA HeadGoes ==
  ASSUME NEW s, Passing(s), Queued(s), AllReady, NEW n \in Nat, n < Len(s.waiting),
         NEW v, Looked(v, s, n, n), ~v.blocked, WideEnough(v.spaces, s.waiting[n + 1]) # {}
  PROVE  Looked(AllocHead(v, s.waiting[n + 1]), s, n + 1, n + 1)
<1>1. PICK L \in Nat : L = Len(s.waiting)
  BY QueueHas
<1>2. /\ \A x \in 1 .. L : s.waiting[x] \in Job /\ s.waiting[x] \notin ToSet(s.running)
      /\ \A x, y \in 1 .. L : s.waiting[x] = s.waiting[y] => x = y
  BY <1>1, QueueHas
<1>3. PICK z \in 1 .. L : z = n + 1 /\ ~(z \in 1 .. n)
  BY <1>1
<1>4. PICK j \in Job : j = s.waiting[z]
  BY <1>2
<1>5. /\ Started(v, s, Ahead(s, n)) /\ v.waiting \in Seq(Job) /\ Len(v.waiting) = L - n
      /\ \A x \in 1 .. L - n : v.waiting[x] = s.waiting[n + x]
  BY <1>1 DEF Looked, Headed
<1>6. v.spaces \in Seq(Space) /\ ToSet(v.running) = ToSet(s.running) \cup Ahead(s, n)
  BY <1>5 DEF Started, Passing, Sound
<1>7. PICK i : /\ i = Lowest(WideEnough(v.spaces, j)) /\ i \in DOMAIN v.spaces
               /\ demand[j] <= Res(v.spaces[i])
  BY <1>3, <1>4, <1>6, EnoughIs, LowestHas
<1>8. j \notin ToSet(v.running)
  <2>1. ASSUME j \in Ahead(s, n) PROVE FALSE
    <3>1. PICK x \in 1 .. n : j = s.waiting[x]
      BY <2>1 DEF Ahead
    <3>2. x \in 1 .. L /\ x # z
      BY <1>3, <3>1
    <3> QED
      BY <1>2, <1>4, <3>1, <3>2
  <2> QED
    BY <1>2, <1>4, <1>6, <2>1
<1>9. PICK u : u = StartIn(v, j, i)
  OBVIOUS
<1>10. Started(u, s, Ahead(s, n) \cup {j}) /\ u.waiting = v.waiting /\ u.blocked = v.blocked
  <2>1. PICK A : A = Ahead(s, n)
    OBVIOUS
  <2>2. Started(v, s, A)
    BY <1>5, <2>1
  <2>3. /\ Started(StartIn(v, j, i), s, A \cup {j})
        /\ StartIn(v, j, i).waiting = v.waiting /\ StartIn(v, j, i).blocked = v.blocked
    BY <1>7, <1>8, <2>2, StartedMore
  <2> QED
    BY <1>9, <2>1, <2>3
<1>11. Ahead(s, z) = Ahead(s, n) \cup {j}
  <2>1. \A x : x \in 1 .. z <=> x \in 1 .. n \/ x = z
    BY <1>3
  <2> QED
    BY <1>4, <2>1 DEF Ahead
<1>12. PICK w : w = RemoveAt(u.waiting, 1)
  OBVIOUS
<1>13. w \in Seq(Job) /\ Len(w) = L - z /\ \A x \in 1 .. L - z : w[x] = s.waiting[z + x]
  <2>1. v.waiting # <<>>
    <3>1. L - n # 0
      BY <1>3
    <3> QED
      BY <1>5, <3>1, EmptySeq
  <2>2. /\ w \in Seq(Job) /\ Len(w) = Len(v.waiting) - 1
        /\ \A x \in 1 .. Len(v.waiting) - 1 : w[x] = v.waiting[x + 1]
    <3>1. PICK p \in Seq(Job) : p = v.waiting
      BY <1>5
    <3>2. p # <<>> /\ w = RemoveAt(p, 1)
      BY <1>10, <1>12, <2>1, <3>1
    <3>3. w \in Seq(Job) /\ Len(w) = Len(p) - 1 /\ \A x \in 1 .. Len(p) - 1 : w[x] = p[x + 1]
      BY <3>2, PopHas
    <3> QED
      BY <3>1, <3>3
  <2>3. Len(v.waiting) - 1 = L - z
    BY <1>3, <1>5
  <2>4. ASSUME NEW x \in 1 .. L - z PROVE w[x] = s.waiting[z + x]
    <3>1. PICK y \in 1 .. L - n : y = x + 1 /\ n + y = z + x
      BY <1>3
    <3>2. w[x] = v.waiting[y]
      BY <2>2, <2>3, <3>1
    <3> QED
      BY <1>5, <3>1, <3>2
  <2> QED
    BY <2>2, <2>3, <2>4
<1>14. PICK t : t = [u EXCEPT !.waiting = w]
  OBVIOUS
<1>15. /\ t \in PassState /\ t.waiting = w /\ t.blocked = v.blocked /\ t.spaces = u.spaces
       /\ t.running = u.running /\ t.starts = u.starts /\ t.finish = u.finish
  <2>1. u \in PassState
    BY <1>10 DEF Started, Passing
  <2> QED
    BY <1>10, <1>13, <1>14, <2>1, PoppedHas
<1>16. Started(t, s, Ahead(s, z))
  BY <1>10, <1>11, <1>15, StartedAside
<1>17. Headed(t, s, z)
  BY <1>1, <1>13, <1>15, <1>16 DEF Headed
<1>18. Looked(t, s, z, z)
  BY <1>15, <1>17 DEF Looked
<1>19. AllocHead(v, j) = t
  <2>1. WideEnough(v.spaces, j) # {}
    BY <1>3, <1>4
  <2> QED
    BY <1>7, <1>9, <1>12, <1>14, <2>1 DEF AllocHead
<1> QED
  BY <1>3, <1>4, <1>18, <1>19

\* The first jobs of the queue are started, until one finds no space.
LEMMA HeadsHave ==
  ASSUME NEW s, Passing(s), Queued(s), AllReady, ~s.blocked
  PROVE  \E k \in 0 .. Len(s.waiting) : Looked(allocHeadOfList(s), s, Len(s.waiting), k)
<1>1. PICK L \in Nat : L = Len(s.waiting)
  BY QueueHas
<1>2. PICK r : HeadRun(r, s)
  BY HeadSteps DEF Passing
<1>3. /\ r[0] = s /\ r[L] = allocHeadOfList(s)
      /\ \A n \in 1 .. L : r[n] = AllocHead(r[n - 1], s.waiting[n])
  BY <1>1, <1>2 DEF HeadRun
<1> DEFINE G == {n \in Nat : n <= L => \E k \in 0 .. n : Looked(r[n], s, n, k)}
<1>4. 0 \in G
  <2>1. Ahead(s, 0) = {}
    BY DEF Ahead
  <2>2. Headed(s, s, 0)
    <3>1. Len(s.waiting) = Len(s.waiting) - 0 /\ \A x \in 1 .. Len(s.waiting) : 0 + x = x
      BY <1>1
    <3>2. 1 .. Len(s.waiting) - 0 = 1 .. Len(s.waiting)
      BY <3>1
    <3> QED
      BY <2>1, <3>1, <3>2, StartedNone DEF Headed, Queued
  <2>3. Looked(s, s, 0, 0)
    BY <2>2 DEF Looked
  <2> QED
    BY <1>3, <2>3
<1>5. ASSUME NEW n \in Nat, n \in G PROVE n + 1 \in G
  <2> SUFFICES ASSUME n + 1 <= L PROVE \E k \in 0 .. n + 1 : Looked(r[n + 1], s, n + 1, k)
    OBVIOUS
  <2>1. n < Len(s.waiting) /\ n <= L /\ n + 1 \in 1 .. L /\ (n + 1) - 1 = n
    BY <1>1
  <2>2. PICK k \in 0 .. n : Looked(r[n], s, n, k)
    BY <1>5, <2>1
  <2>3. r[n + 1] = AllocHead(r[n], s.waiting[n + 1])
    BY <1>3, <2>1
  <2>4. CASE r[n].blocked \/ WideEnough(r[n].spaces, s.waiting[n + 1]) = {}
    <3>1. Looked(AllocHead(r[n], s.waiting[n + 1]), s, n + 1, k)
      BY <2>1, <2>2, <2>4, HeadStays
    <3>2. k \in 0 .. n + 1
      OBVIOUS
    <3> QED
      BY <2>3, <3>1, <3>2
  <2>5. CASE ~(r[n].blocked \/ WideEnough(r[n].spaces, s.waiting[n + 1]) = {})
    <3>1. k = n
      BY <2>2, <2>5 DEF Looked
    <3>2. Looked(AllocHead(r[n], s.waiting[n + 1]), s, n + 1, n + 1)
      BY <2>1, <2>2, <2>5, <3>1, HeadGoes
    <3>3. n + 1 \in 0 .. n + 1
      OBVIOUS
    <3> QED
      BY <2>3, <3>2, <3>3
  <2> QED
    BY <2>4, <2>5
<1>6. Nat \subseteq G
  <2> HIDE DEF G
  <2> QED
    BY <1>4, <1>5, Induction
<1>7. PICK k \in 0 .. L : Looked(r[L], s, L, k)
  <2>1. L \in G
    BY <1>1, <1>6
  <2> QED
    BY <1>1, <2>1
<1> QED
  BY <1>1, <1>3, <1>7

\* What a pass makes of the queue.
Outcome(u, s) ==
  /\ DOMAIN u.starts \subseteq ToSet(s.waiting)
  /\ ToSet(u.running) = ToSet(s.running) \cup DOMAIN u.starts
  /\ ToSet(u.waiting) = ToSet(s.waiting) \ DOMAIN u.starts
  /\ u.waiting \in Seq(Job) /\ IsInjective(u.waiting)

LEMMA PlainShrunk ==
  ASSUME NEW q, Plain(q), NEW r, Sound(r), Shrunk(r, q)
  PROVE  Plain(r)
<1> SUFFICES ASSUME NEW i \in DOMAIN r PROVE r[i].length = Infinity /\ ~r[i].linked /\ ~r[i].virtual
  BY DEF Plain
<1>1. PICK x \in DOMAIN q : /\ r[i].length = q[x].length /\ r[i].linked = q[x].linked
                            /\ r[i].virtual = q[x].virtual
  BY DEF Shrunk
<1> QED
  BY <1>1 DEF Plain

\* What waits behind the first k is what waited, without them.
LEMMA Behind ==
  ASSUME NEW s, Queued(s), NEW k \in 0 .. Len(s.waiting), NEW w \in Seq(Job),
         Len(w) = Len(s.waiting) - k, \A x \in 1 .. Len(s.waiting) - k : w[x] = s.waiting[k + x]
  PROVE  ToSet(w) = ToSet(s.waiting) \ Ahead(s, k) /\ IsInjective(w) /\ Ahead(s, k) \subseteq ToSet(s.waiting)
<1>1. PICK L \in Nat : L = Len(s.waiting)
  BY QueueHas
<1>2. /\ \A x \in 1 .. L : s.waiting[x] \in ToSet(s.waiting)
      /\ \A x, y \in 1 .. L : s.waiting[x] = s.waiting[y] => x = y
      /\ \A j \in ToSet(s.waiting) : \E x \in 1 .. L : j = s.waiting[x]
  BY <1>1, QueueHas
<1>3. DOMAIN w = 1 .. L - k
  BY <1>1, LenProperties
<1>4. /\ \A x \in 1 .. L - k : k + x \in 1 .. L /\ ~(k + x <= k)
      /\ \A x \in 1 .. k : x \in 1 .. L /\ x <= k
      /\ \A x \in 1 .. L : x <= k => x \in 1 .. k
      /\ \A x \in 1 .. L : ~(x <= k) => x - k \in 1 .. L - k /\ k + (x - k) = x
      /\ \A x, y \in 1 .. L - k : k + x = k + y => x = y
  BY <1>1
<1>5. ASSUME NEW j \in ToSet(w) PROVE j \in ToSet(s.waiting) /\ j \notin Ahead(s, k)
  <2>1. PICK x \in 1 .. L - k : j = w[x]
    BY <1>3 DEF ToSet
  <2>2. PICK z \in 1 .. L : z = k + x /\ ~(z <= k) /\ j = s.waiting[z]
    BY <1>1, <1>4, <2>1
  <2>3. ASSUME j \in Ahead(s, k) PROVE FALSE
    <3>1. PICK y \in 1 .. k : j = s.waiting[y]
      BY <2>3 DEF Ahead
    <3>2. y \in 1 .. L /\ y <= k
      BY <1>4
    <3> QED
      BY <1>2, <2>2, <3>1, <3>2
  <2> QED
    BY <1>2, <2>2, <2>3
<1>6. ASSUME NEW j \in ToSet(s.waiting), j \notin Ahead(s, k) PROVE j \in ToSet(w)
  <2>1. PICK x \in 1 .. L : j = s.waiting[x]
    BY <1>2
  <2>2. ~(x <= k)
    BY <1>4, <1>6, <2>1 DEF Ahead
  <2>3. PICK y \in 1 .. L - k : k + y = x
    BY <1>4, <2>2
  <2>4. w[y] = j
    BY <1>1, <2>1, <2>3
  <2> QED
    BY <1>3, <2>4 DEF ToSet
<1>7. ASSUME NEW j \in Ahead(s, k) PROVE j \in ToSet(s.waiting)
  <2>1. PICK y \in 1 .. k : j = s.waiting[y]
    BY <1>7 DEF Ahead
  <2> QED
    BY <1>2, <1>4, <2>1
<1>8. ASSUME NEW x \in 1 .. L - k, NEW y \in 1 .. L - k, w[x] = w[y] PROVE x = y
  <2>1. /\ w[x] = s.waiting[k + x] /\ w[y] = s.waiting[k + y]
        /\ k + x \in 1 .. L /\ k + y \in 1 .. L
    BY <1>1, <1>4
  <2>2. k + x = k + y
    BY <1>2, <1>8, <2>1
  <2> QED
    BY <1>4, <2>2
<1>9. IsInjective(w)
  BY <1>3, <1>8 DEF IsInjective
<1> QED
  BY <1>5, <1>6, <1>7, <1>9

\* The first jobs were started, the head that is left finds no space.
LEMMA HeadsLeave ==
  ASSUME NEW s, Passing(s), Queued(s), AllReady, ~s.blocked, DOMAIN s.starts = {}, Plain(s.spaces),
         NEW u, u = allocHeadOfList(s)
  PROVE  /\ Passing(u) /\ Plain(u.spaces) /\ Outcome(u, s) /\ Queued(u)
         /\ u.waiting # <<>> => WideEnough(u.spaces, u.waiting[1]) = {}
<1>1. PICK L \in Nat : L = Len(s.waiting)
  BY QueueHas
<1>2. PICK k \in 0 .. L : Looked(u, s, L, k)
  BY <1>1, HeadsHave
<1>3. /\ Started(u, s, Ahead(s, k)) /\ u.waiting \in Seq(Job) /\ Len(u.waiting) = L - k
      /\ \A x \in 1 .. L - k : u.waiting[x] = s.waiting[k + x]
  BY <1>1, <1>2 DEF Looked, Headed
<1>4. /\ Passing(u) /\ Shrunk(u.spaces, s.spaces) /\ ToSet(u.running) = ToSet(s.running) \cup Ahead(s, k)
      /\ DOMAIN u.starts = Ahead(s, k)
  BY <1>3 DEF Started
<1>5. Plain(u.spaces)
  BY <1>4, PlainShrunk DEF Passing
<1>6. /\ ToSet(u.waiting) = ToSet(s.waiting) \ Ahead(s, k) /\ IsInjective(u.waiting)
      /\ Ahead(s, k) \subseteq ToSet(s.waiting)
  BY <1>1, <1>3, Behind
<1>7. Outcome(u, s)
  BY <1>3, <1>4, <1>6 DEF Outcome
<1>8. Queued(u)
  BY <1>3, <1>4, <1>6 DEF Queued
<1>9. ASSUME u.waiting # <<>> PROVE WideEnough(u.spaces, u.waiting[1]) = {}
  <2>1. L - k # 0
    BY <1>3, <1>9, EmptySeq
  <2>2. k # L /\ 1 \in 1 .. L - k
    BY <1>1, <2>1
  <2>3. u.waiting[1] = s.waiting[k + 1]
    BY <1>3, <2>2
  <2>4. u.blocked
    BY <1>2, <2>2 DEF Looked
  <2> QED
    BY <1>2, <2>3, <2>4 DEF Looked
<1> QED
  BY <1>4, <1>5, <1>7, <1>8, <1>9

\* The head stays the head.
LEMMA HeadRemains ==
  ASSUME NEW q \in Seq(Job), q # <<>>, IsInjective(q), NEW D, q[1] \notin D,
         NEW r, r = Without(q, D)
  PROVE  r # <<>> /\ r[1] = q[1]
<1>1. /\ r \in Seq(Job) /\ Len(r) \in Nat /\ DOMAIN r = 1 .. Len(r)
      /\ Len(q) \in Nat /\ DOMAIN q = 1 .. Len(q)
      /\ \A k \in DOMAIN q : q[k] \notin D => \E i \in DOMAIN r : r[i] = q[k]
  BY WithoutFrom
<1>2. PICK f \in [DOMAIN r -> DOMAIN q] :
        /\ \A i \in DOMAIN r : r[i] = q[f[i]] /\ q[f[i]] \notin D
        /\ \A i, k \in DOMAIN r : i < k => f[i] < f[k]
  BY WithoutFrom
<1>3. 1 \in DOMAIN q
  <2>1. Len(q) # 0
    BY EmptySeq
  <2> QED
    BY <1>1, <2>1
<1>4. PICK i \in DOMAIN r : r[i] = q[1]
  BY <1>1, <1>3
<1>5. f[i] = 1
  BY <1>2, <1>3, <1>4 DEF IsInjective
<1>6. i = 1
  <2>1. CASE i = 1
    BY <2>1
  <2>2. CASE i # 1
    <3>1. 1 \in DOMAIN r /\ 1 < i /\ i \in Nat
      BY <1>1, <2>2
    <3>2. f[1] < f[i] /\ f[1] \in 1 .. Len(q)
      BY <1>1, <1>2, <3>1
    <3> QED
      BY <1>1, <1>5, <3>2
  <2> QED
    BY <2>1, <2>2
<1>7. r # <<>>
  <2>1. Len(r) # 0
    BY <1>1
  <2> QED
    BY <2>1, <1>1, EmptySeq
<1> QED
  BY <1>4, <1>6, <1>7

-----------------------------------------------------------------------------
\* allocBackFill

LEMMA BookedSame ==
  ASSUME NEW v, Booked(v), NEW u, u.running = v.running, u.starts = v.starts, u.finish = v.finish,
         \A m \in Int : m \in Cover(u.spaces) <=> m \in Cover(v.spaces)
  PROVE  Booked(u)
<1>1. \A j : AllocOf(u, j) = AllocOf(v, j)
  BY DEF AllocOf
<1>2. \A j, m : Holds(u, j, m) <=> Holds(v, j, m)
  BY <1>1 DEF Holds
<1> QED
  BY <1>1, <1>2 DEF Booked

NoWider(r, q) == \A k \in DOMAIN r : \E x \in DOMAIN q : Res(r[k]) <= Res(q[x])

\* What the list is while jobs are backfilled: no space is wider than before,
\* none is longer than the reservation is away, but for those that it leaves.
ForFuture(m, u, at) ==
  /\ Passing(m) /\ m.waiting = u.waiting /\ m.running = u.running /\ m.starts = u.starts
  /\ m.promised = u.promised
  /\ NoWider(m.spaces, u.spaces) /\ at \in Int
  /\ \A y \in DOMAIN m.spaces : m.spaces[y].length \in {Infinity, at - now}

WithSpaces(u, t) == [u EXCEPT !.spaces = t]

LEMMA WithSpacesHas ==
  ASSUME NEW u \in PassState, NEW t \in Seq(Space)
  PROVE  /\ WithSpaces(u, t) \in PassState /\ WithSpaces(u, t).spaces = t
         /\ WithSpaces(u, t).waiting = u.waiting /\ WithSpaces(u, t).running = u.running
         /\ WithSpaces(u, t).starts = u.starts /\ WithSpaces(u, t).finish = u.finish
         /\ WithSpaces(u, t).promised = u.promised
BY DEF PassState, WithSpaces

LEMMA FutureOf ==
  ASSUME NEW u, Passing(u), Plain(u.spaces), AllReady, now \in Nat, NEW head \in Job,
         NEW f, f = findAllocFuture(u, head)
  PROVE  ForFuture(WithSpaces(u, allocFutureJob(u.spaces, f.res, f.at - now)), u, f.at)
<1>1. Booked(u) /\ u \in PassState /\ DOMAIN u.starts \subseteq ToSet(u.running)
  BY DEF Passing
<1>2. demand[head] \in Nat \ {0}
  BY DEF AllReady, Ready
<1>3. Aligned(u.spaces, f.res) /\ (f.at = 0 \/ \E j \in ToSet(u.running) : f.at = u.finish[j])
  BY <1>1, <1>2, FindHas
<1>4. Infinity \in Nat \ {0}
  BY EasyAssumption
<1>5. f.at \in Int /\ f.at - now # Infinity
  <2>1. CASE f.at = 0
    BY <1>4, <2>1
  <2>2. CASE \E j \in ToSet(u.running) : f.at = u.finish[j]
    <3>1. PICK j \in ToSet(u.running) : f.at = u.finish[j]
      BY <2>2
    <3>2. f.at \in Int /\ f.at - now < Infinity
      BY <1>1, <3>1 DEF Booked
    <3> QED
      BY <1>4, <3>2
  <2> QED
    BY <1>3, <2>1, <2>2
<1>6. PICK length \in Int : length = f.at - now /\ length # Infinity
  BY <1>5
<1>7. PICK t : t = allocFutureJob(u.spaces, f.res, length)
  OBVIOUS
<1>8. /\ Sound(t)
      /\ \A m \in Int : m \in Cover(t) <=> m \in Cover(u.spaces)
      /\ \A y \in DOMAIN t : t[y].length \in {Infinity, length} /\ \E k \in DOMAIN u.spaces : Res(t[y]) <= Res(u.spaces[k])
  BY <1>3, <1>6, <1>7, FutureHas
<1>9. PICK m : m = WithSpaces(u, t)
  OBVIOUS
<1>10. /\ m \in PassState /\ m.spaces = t /\ m.waiting = u.waiting /\ m.running = u.running
       /\ m.starts = u.starts /\ m.finish = u.finish /\ m.promised = u.promised
  BY <1>1, <1>8, <1>9, WithSpacesHas DEF Sound
<1>11. Booked(m)
  BY <1>1, <1>8, <1>10, BookedSame
<1>12. Passing(m)
  BY <1>1, <1>8, <1>10, <1>11 DEF Passing
<1>13. NoWider(m.spaces, u.spaces)
  BY <1>8, <1>10 DEF NoWider
<1>14. ForFuture(m, u, f.at)
  BY <1>5, <1>6, <1>8, <1>10, <1>12, <1>13 DEF ForFuture
<1> QED
  BY <1>6, <1>7, <1>9, <1>14

\* The others in the queue: none is the head.
LEMMA TailHas ==
  ASSUME NEW S, NEW q \in Seq(S), q # <<>>, IsInjective(q), NEW w, w = Tail(q)
  PROVE  w \in Seq(S) /\ IsInjective(w) /\ q[1] \in S /\ ToSet(w) = ToSet(q) \ {q[1]} /\ Head(q) = q[1]
         /\ q[1] \in ToSet(q)
<1>1. PICK L \in Nat \ {0} : L = Len(q)
  BY LenProperties, EmptySeq
<1>2. DOMAIN q = 1 .. L /\ \A x \in 1 .. L : q[x] \in S
  BY <1>1, LenProperties, ElementOfSeq
<1>3. w \in Seq(S) /\ Len(w) = L - 1 /\ (\A x \in 1 .. L - 1 : w[x] = q[x + 1]) /\ Head(q) = q[1]
  BY <1>1, HeadTailProperties
<1>4. DOMAIN w = 1 .. L - 1
  BY <1>3, LenProperties
<1>5. /\ \A x \in 1 .. L - 1 : x + 1 \in 1 .. L /\ x + 1 # 1
      /\ \A x \in 1 .. L : x # 1 => x - 1 \in 1 .. L - 1 /\ (x - 1) + 1 = x
      /\ \A x, y \in 1 .. L - 1 : x + 1 = y + 1 => x = y
      /\ 1 \in 1 .. L
  BY <1>1
<1>6. \A x, y \in 1 .. L : q[x] = q[y] => x = y
  BY <1>2 DEF IsInjective
<1>7. ASSUME NEW j \in ToSet(w) PROVE j \in ToSet(q) /\ j # q[1]
  <2>1. PICK x \in 1 .. L - 1 : j = w[x]
    BY <1>4 DEF ToSet
  <2>2. PICK y \in 1 .. L : y = x + 1 /\ y # 1 /\ j = q[y]
    BY <1>3, <1>5, <2>1
  <2> QED
    BY <1>2, <1>5, <1>6, <2>2 DEF ToSet
<1>8. ASSUME NEW j \in ToSet(q), j # q[1] PROVE j \in ToSet(w)
  <2>1. PICK x \in 1 .. L : j = q[x]
    BY <1>2 DEF ToSet
  <2>2. PICK y \in 1 .. L - 1 : y + 1 = x
    BY <1>5, <1>8, <2>1
  <2>3. w[y] = j
    BY <1>3, <2>1, <2>2
  <2> QED
    BY <1>4, <2>3 DEF ToSet
<1>9. ASSUME NEW x \in 1 .. L - 1, NEW y \in 1 .. L - 1, w[x] = w[y] PROVE x = y
  <2>1. x + 1 = y + 1
    BY <1>3, <1>5, <1>6, <1>9
  <2> QED
    BY <1>5, <2>1
<1>10. IsInjective(w)
  BY <1>4, <1>9 DEF IsInjective
<1>11. q[1] \in S /\ q[1] \in ToSet(q)
  BY <1>2, <1>5 DEF ToSet
<1> QED
  BY <1>3, <1>7, <1>8, <1>10, <1>11

\* None of the jobs that wait could run: the head is larger than every space,
\* and so is one behind it that would be over in time.
Fits(j, spaces) == \E i \in DOMAIN spaces : demand[j] <= Res(spaces[i])

Fair(spaces, waiting, promise) == waiting # <<>> =>
  /\ ~Fits(waiting[1], spaces)
  /\ \A j \in ToSet(waiting) : j # waiting[1] =>
       /\ promise[waiting[1]] \in Int
       /\ now + walltime[j] <= promise[waiting[1]] => ~Fits(j, spaces)

Ended(g, head, at) ==
  [g EXCEPT !.spaces   = Restore(@),
            !.waiting  = Without(@, DOMAIN g.starts),
            !.promised = With(@, head, at)]

LEMMA EndedHas ==
  ASSUME NEW g \in PassState, NEW head, NEW at, NEW e, e = Ended(g, head, at)
  PROVE  /\ e.spaces = Restore(g.spaces) /\ e.waiting = Without(g.waiting, DOMAIN g.starts)
         /\ e.promised = With(g.promised, head, at)
         /\ e.running = g.running /\ e.starts = g.starts /\ e.finish = g.finish
BY DEF PassState, Ended

\* What the jobs that are left find after the backfilling.
LEMMA NoneFits ==
  ASSUME NEW u, Plain(u.spaces), AllReady, Queued(u), u.waiting # <<>>, now \in Nat,
         WideEnough(u.spaces, u.waiting[1]) = {},
         NEW at, NEW m, ForFuture(m, u, at),
         NEW A, NEW g, Filled(g, m, A), NEW r, r = Restore(g.spaces)
  PROVE  /\ ~Fits(u.waiting[1], r)
         /\ \A j \in ToSet(Tail(u.waiting)) : j \notin A /\ now + walltime[j] <= at => ~Fits(j, r)
<1>1. /\ NoWider(m.spaces, u.spaces) /\ at \in Int
      /\ \A y \in DOMAIN m.spaces : m.spaces[y].length \in {Infinity, at - now}
      /\ m.waiting = u.waiting /\ m.spaces \in Seq(Space) /\ u.spaces \in Seq(Space)
  BY DEF ForFuture, Passing, Sound, Plain
<1>2. /\ Shrunk(g.spaces, m.spaces) /\ g.spaces \in Seq(Space) /\ Sound(g.spaces)
      /\ \A j \in ToSet(Tail(u.waiting)) : j \in A \/ LongEnough(g.spaces, j) = {}
  BY <1>1 DEF Filled, Started, Passing, Sound
<1>3. Plain(r) /\ \A y \in DOMAIN r : \E x \in DOMAIN g.spaces : Res(r[y]) = Res(g.spaces[x])
  BY <1>2, RestoreHas
<1>4. /\ \A x \in DOMAIN u.spaces : Res(u.spaces[x]) \in Int
      /\ \A x \in DOMAIN m.spaces : Res(m.spaces[x]) \in Int
      /\ \A x \in DOMAIN g.spaces : Res(g.spaces[x]) \in Int
  BY <1>1, <1>2, WidthsAre
<1>5. u.waiting \in Seq(Job) /\ IsInjective(u.waiting)
  BY DEF Queued
<1>6. u.waiting[1] \in Job /\ ToSet(Tail(u.waiting)) \subseteq Job
  <2>1. PICK q \in Seq(Job) : q = u.waiting
    BY <1>5
  <2>2. q[1] \in Job /\ Tail(q) \in Seq(Job)
    BY <1>5, <2>1, TailHas
  <2>3. ToSet(Tail(q)) \subseteq Job
    BY <2>2, ElementOfSeq, LenProperties DEF ToSet
  <2> QED
    BY <2>1, <2>2, <2>3
<1>7. ASSUME Fits(u.waiting[1], r) PROVE FALSE
  <2>1. PICK j \in Job : j = u.waiting[1] /\ demand[j] \in Int
    BY <1>6 DEF AllReady, Ready
  <2>2. PICK i \in DOMAIN r : demand[j] <= Res(r[i])
    BY <1>7, <2>1 DEF Fits
  <2>3. PICK x \in DOMAIN g.spaces : Res(r[i]) = Res(g.spaces[x])
    BY <1>3
  <2>4. PICK y \in DOMAIN m.spaces : Res(g.spaces[x]) <= Res(m.spaces[y])
    BY <1>2 DEF Shrunk
  <2>5. PICK z \in DOMAIN u.spaces : Res(m.spaces[y]) <= Res(u.spaces[z])
    BY <1>1 DEF NoWider
  <2>6. demand[j] <= Res(u.spaces[z])
    BY <1>4, <2>1, <2>2, <2>3, <2>4, <2>5
  <2> QED
    BY <2>1, <2>6 DEF WideEnough
<1>8. ASSUME NEW j \in ToSet(Tail(u.waiting)), j \notin A, now + walltime[j] <= at, Fits(j, r) PROVE FALSE
  <2>1. demand[j] \in Int /\ walltime[j] \in 0 .. Infinity - 1 /\ Infinity \in Nat
    BY <1>6, EasyAssumption DEF AllReady, Ready
  <2>2. PICK i \in DOMAIN r : demand[j] <= Res(r[i])
    BY <1>8 DEF Fits
  <2>3. PICK x \in DOMAIN g.spaces : Res(r[i]) = Res(g.spaces[x])
    BY <1>3
  <2>4. PICK y \in DOMAIN m.spaces : g.spaces[x].length = m.spaces[y].length
    BY <1>2 DEF Shrunk
  <2>5. walltime[j] <= g.spaces[x].length
    <3>1. walltime[j] <= Infinity /\ walltime[j] <= at - now
      BY <1>1, <1>8, <2>1
    <3> QED
      BY <1>1, <2>4, <3>1
  <2>6. x \in LongEnough(g.spaces, j)
    BY <2>2, <2>3, <2>5 DEF LongEnough, WideEnough
  <2> QED
    BY <1>2, <1>8, <2>6
<1> QED
  BY <1>7, <1>8

\* What a pass leaves.
PassedOn(e, s) ==
  /\ Booked(e) /\ Plain(e.spaces) /\ Outcome(e, s) /\ Fair(e.spaces, e.waiting, e.promised)
  /\ e.starts \in Partial(Int \X Int) /\ e.finish \in Partial(Int)

LEMMA BackFillHas ==
  ASSUME NEW s, NEW u, Passing(u), Plain(u.spaces), Queued(u), Outcome(u, s), AllReady, now \in Nat,
         u.waiting # <<>>, WideEnough(u.spaces, u.waiting[1]) = {}
  PROVE  PassedOn(allocBackFill(u), s)
<1>1. PICK q \in Seq(Job) : q = u.waiting /\ q # <<>> /\ IsInjective(q)
  BY DEF Queued
<1>2. PICK head \in Job : head = q[1]
  BY <1>1, TailHas
<1>3. /\ Tail(q) \in Seq(Job) /\ IsInjective(Tail(q)) /\ ToSet(Tail(q)) = ToSet(q) \ {head} /\ Head(q) = head
      /\ head \in ToSet(q)
  BY <1>1, <1>2, TailHas
<1>4. PICK f : f = findAllocFuture(u, head)
  OBVIOUS
<1>5. PICK at : at = f.at
  OBVIOUS
<1>6. PICK m : m = WithSpaces(u, allocFutureJob(u.spaces, f.res, f.at - now))
  OBVIOUS
<1>7. ForFuture(m, u, at)
  BY <1>4, <1>5, <1>6, FutureOf
<1>8. /\ Passing(m) /\ m.waiting = q /\ m.running = u.running /\ m.starts = u.starts /\ at \in Int
      /\ m.promised = u.promised
  BY <1>1, <1>7 DEF ForFuture
<1>9. ToSet(Tail(q)) \cap ToSet(m.running) = {}
  BY <1>1, <1>3, <1>8 DEF Queued
<1>10. PICK g : g = findBackfilledAllocs(m)
  OBVIOUS
<1>11. PICK A \in SUBSET ToSet(Tail(q)) : Filled(g, m, A)
  <2>1. PICK w \in Seq(Job) : w = Tail(q)
    BY <1>3
  <2>2. /\ w = Tail(m.waiting) /\ IsInjective(w) /\ ToSet(w) \cap ToSet(m.running) = {}
    BY <1>3, <1>8, <1>9, <2>1
  <2>3. \E A \in SUBSET ToSet(w) : Filled(findBackfilledAllocs(m), m, A)
    BY <1>8, <2>2, FillHas
  <2> QED
    BY <1>10, <2>1, <2>3
<1>12. /\ Passing(g) /\ g.waiting = q /\ DOMAIN g.starts = DOMAIN u.starts \cup A
       /\ ToSet(g.running) = ToSet(u.running) \cup A
  BY <1>8, <1>11 DEF Filled, Started
<1>13. g \in PassState /\ Booked(g) /\ Sound(g.spaces)
  BY <1>12 DEF Passing
<1>14. PICK e : e = Ended(g, head, at)
  OBVIOUS
<1>15. PICK D : D = DOMAIN g.starts
  OBVIOUS
<1>16. /\ e.spaces = Restore(g.spaces) /\ e.waiting = Without(q, D)
       /\ e.promised = With(g.promised, head, at)
       /\ e.running = g.running /\ e.starts = g.starts /\ e.finish = g.finish
  <2>1. /\ e.spaces = Restore(g.spaces) /\ e.waiting = Without(g.waiting, DOMAIN g.starts)
        /\ e.promised = With(g.promised, head, at)
        /\ e.running = g.running /\ e.starts = g.starts /\ e.finish = g.finish
    BY <1>13, <1>14, EndedHas
  <2> QED
    BY <1>12, <1>15, <2>1
<1>17. allocBackFill(u) = e
  <2>1. Head(u.waiting) = head
    BY <1>1, <1>3
  <2>2. [u EXCEPT !.spaces = allocFutureJob(@, f.res, f.at - now)] = m
    BY <1>6 DEF WithSpaces
  <2> QED
    BY <1>4, <1>5, <1>10, <1>14, <2>1, <2>2 DEF allocBackFill, Ended
<1>18. Plain(e.spaces) /\ \A x \in Int : x \in Cover(e.spaces) <=> x \in Cover(g.spaces)
  BY <1>13, <1>16, RestoreHas
<1>19. Booked(e)
  BY <1>13, <1>16, <1>18, BookedSame
<1>20. /\ e.waiting \in Seq(Job) /\ ToSet(e.waiting) = ToSet(q) \ D /\ IsInjective(e.waiting)
  BY <1>1, <1>16, WithoutHas
<1>21. DOMAIN u.starts \cap ToSet(q) = {}
  BY <1>1 DEF Outcome
<1>22. Outcome(e, s)
  <2>1. A \subseteq ToSet(q)
    BY <1>3
  <2> QED
    BY <1>1, <1>12, <1>15, <1>16, <1>20, <2>1 DEF Outcome
<1>23. q[1] \notin D
  BY <1>2, <1>3, <1>12, <1>15, <1>21
<1>24. e.waiting # <<>> /\ e.waiting[1] = head
  BY <1>1, <1>2, <1>16, <1>23, HeadRemains
<1>25. PICK r : r = Restore(g.spaces)
  OBVIOUS
<1>26. /\ ~Fits(head, r)
       /\ \A j \in ToSet(Tail(q)) : j \notin A /\ now + walltime[j] <= at => ~Fits(j, r)
  BY <1>1, <1>2, <1>7, <1>11, <1>25, NoneFits
<1>27. e.promised[head] = at
  BY <1>16 DEF With
<1>28. Fair(e.spaces, e.waiting, e.promised)
  <2>1. ASSUME NEW j \in ToSet(e.waiting), j # head PROVE j \in ToSet(Tail(q)) /\ j \notin A
    BY <1>3, <1>12, <1>15, <1>20, <2>1
  <2> QED
    BY <1>8, <1>16, <1>24, <1>25, <1>26, <1>27, <2>1 DEF Fair
<1>29. e.starts \in Partial(Int \X Int) /\ e.finish \in Partial(Int)
  BY <1>13, <1>16, PassFields
<1> QED
  BY <1>17, <1>18, <1>19, <1>22, <1>28, <1>29 DEF PassedOn

-----------------------------------------------------------------------------
\* A pass

Base(spaces, running, waiting) ==
  [spaces |-> spaces, running |-> running, waiting |-> waiting, starts |-> <<>>,
   finish |-> finish, promised |-> promised, blocked |-> FALSE]

LEMMA NothingPartial ==
  ASSUME NEW S
  PROVE  <<>> \in Partial(S) /\ DOMAIN <<>> = {}
<1>1. <<>> \in Seq(S) /\ Len(<<>>) = 0
  BY EmptySeq
<1>2. <<>> \in [1 .. 0 -> S]
  BY <1>1, LenProperties
<1>3. 1 .. 0 = {}
  OBVIOUS
<1>4. <<>> \in [{} -> S] /\ {} \in SUBSET Job
  BY <1>2, <1>3
<1> QED
  BY <1>4 DEF Partial

LEMMA BaseHas ==
  ASSUME NEW sp \in Seq(Space), NEW rn \in Seq(Job), NEW wt \in Seq(Job), finish \in Partial(Int),
         NEW s, s = Base(sp, rn, wt)
  PROVE  /\ s \in PassState /\ s.spaces = sp /\ s.running = rn /\ s.waiting = wt /\ s.starts = <<>>
         /\ DOMAIN s.starts = {} /\ s.finish = finish /\ s.promised = promised /\ ~s.blocked
<1>1. <<>> \in Partial(Int \X Int) /\ DOMAIN <<>> = {}
  BY NothingPartial
<1>2. s \in PassState
  BY <1>1 DEF PassState, Base
<1> QED
  BY <1>1, <1>2 DEF Base

LEMMA PassHas ==
  ASSUME AllReady, now \in Nat, finish \in Partial(Int),
         NEW sp, Plain(sp), NEW rn \in Seq(Job), NEW wt \in Seq(Job),
         NEW s, s = Base(sp, rn, wt), Booked(s), Queued(s)
  PROVE  PassedOn(Pass(sp, rn, wt), s)
<1>1. sp \in Seq(Space) /\ Sound(sp)
  BY DEF Plain, Sound
<1>2. /\ s \in PassState /\ s.spaces = sp /\ s.running = rn /\ s.waiting = wt
      /\ DOMAIN s.starts = {} /\ ~s.blocked
  BY <1>1, BaseHas
<1>3. Passing(s)
  BY <1>1, <1>2 DEF Passing
<1>4. PICK u : u = allocHeadOfList(s)
  OBVIOUS
<1>5. /\ Passing(u) /\ Plain(u.spaces) /\ Outcome(u, s) /\ Queued(u)
      /\ u.waiting # <<>> => WideEnough(u.spaces, u.waiting[1]) = {}
  BY <1>2, <1>3, <1>4, HeadsLeave
<1>6. Pass(sp, rn, wt) = IF Len(u.waiting) > 1 THEN allocBackFill(u) ELSE u
  BY <1>4 DEF Pass, Base
<1>7. PICK q \in Seq(Job) : q = u.waiting
  BY <1>5 DEF Queued
<1>8. PICK L \in Nat : L = Len(q) /\ DOMAIN q = 1 .. L
  BY LenProperties
<1>9. CASE L > 1
  <2>1. q # <<>>
    BY <1>8, <1>9, EmptySeq
  <2>2. PassedOn(allocBackFill(u), s)
    BY <1>5, <1>7, <2>1, BackFillHas
  <2> QED
    BY <1>6, <1>7, <1>8, <1>9, <2>2
<1>10. CASE ~(L > 1)
  <2>1. u.starts \in Partial(Int \X Int) /\ u.finish \in Partial(Int)
    BY <1>5, PassFields DEF Passing
  <2>2. Booked(u)
    BY <1>5 DEF Passing
  <2>3. ASSUME q # <<>> PROVE ~Fits(q[1], u.spaces)
    BY <1>5, <1>7, <2>3 DEF WideEnough, Fits
  <2>4. ASSUME NEW j \in ToSet(q) PROVE j = q[1]
    <3>1. PICK x \in 1 .. L : j = q[x]
      BY <1>8 DEF ToSet
    <3>2. x = 1
      BY <1>8, <1>10
    <3> QED
      BY <3>1, <3>2
  <2>5. Fair(u.spaces, u.waiting, u.promised)
    BY <1>7, <2>3, <2>4 DEF Fair
  <2>6. PassedOn(u, s)
    BY <1>5, <2>1, <2>2, <2>5 DEF PassedOn
  <2> QED
    BY <1>6, <1>7, <1>8, <1>10, <2>6
<1> QED
  BY <1>9, <1>10

LEMMA EdgesHave ==
  ASSUME NEW a \in Int, NEW b \in Int, a <= b
  PROVE  Edges(a .. b) = <<a, b>>
<1> DEFINE P(m) == m \in a .. b /\ \A k \in a .. b : m <= k
           Q(m) == m \in a .. b /\ \A k \in a .. b : m >= k
<1>1. P(a) /\ Q(b)
  OBVIOUS
<1>2. \A m : P(m) => m = a
  OBVIOUS
<1>3. \A m : Q(m) => m = b
  OBVIOUS
<1>4. (CHOOSE m \in a .. b : \A k \in a .. b : m <= k) = a
  BY <1>1, <1>2
<1>5. (CHOOSE m \in a .. b : \A k \in a .. b : m >= k) = b
  BY <1>1, <1>3
<1> QED
  BY <1>4, <1>5 DEF Edges

\* The jobs that run have their own machines, side by side; the spaces are the
\* machines that are left.
RunsSide(j) == j \in DOMAIN place /\ \E a, b \in Int : a <= b /\ place[j] = a .. b
EndsInTime(j) == j \in DOMAIN finish /\ finish[j] \in Int /\ finish[j] - now < Infinity

Taken(spaces, running) ==
  /\ running \in Seq(Job) /\ IsInjective(running)
  /\ \A j \in ToSet(running) : RunsSide(j) /\ EndsInTime(j) /\ place[j] \subseteq Machine
  /\ \A j, k \in ToSet(running), m \in Int : m \in place[j] /\ m \in place[k] => j = k
  /\ \A m \in Int : m \in Cover(spaces) <=> m \in Machine /\ \A j \in ToSet(running) : m \notin place[j]

LEMMA TakenHolds ==
  ASSUME NEW j, RunsSide(j), NEW s, DOMAIN s.starts = {}
  PROVE  /\ AllocOf(s, j) \in Int \X Int /\ AllocOf(s, j)[1] <= AllocOf(s, j)[2]
         /\ place[j] = AllocOf(s, j)[1] .. AllocOf(s, j)[2]
         /\ \A m \in Int : Holds(s, j, m) <=> m \in place[j]
<1>1. PICK a \in Int, b \in Int : a <= b /\ place[j] = a .. b
  BY DEF RunsSide
<1>2. AllocOf(s, j) = <<a, b>>
  BY <1>1, EdgesHave DEF AllocOf
<1>3. \A m \in Int : Holds(s, j, m) <=> a <= m /\ m <= b
  BY <1>2 DEF Holds
<1> QED
  BY <1>1, <1>2, <1>3

LEMMA TakenBooked ==
  ASSUME NEW s, DOMAIN s.starts = {}, s.finish = finish, Taken(s.spaces, s.running)
  PROVE  Booked(s)
<1>1. \A j \in ToSet(s.running) : RunsSide(j) /\ EndsInTime(j) /\ place[j] \subseteq Machine
  BY DEF Taken
<1>2. \A j \in ToSet(s.running) : AllocOf(s, j) \in Int \X Int /\ AllocOf(s, j)[1] <= AllocOf(s, j)[2]
  BY <1>1, TakenHolds
<1>3. \A j \in ToSet(s.running), m \in Int : Holds(s, j, m) <=> m \in place[j]
  BY <1>1, TakenHolds
<1>4. \A j \in ToSet(s.running) : j \in DOMAIN s.finish /\ s.finish[j] \in Int /\ s.finish[j] - now < Infinity
  BY <1>1 DEF EndsInTime
<1>5. s.running \in Seq(Job) /\ IsInjective(s.running)
  BY DEF Taken
<1>6. \A j \in ToSet(s.running), m \in Int : Holds(s, j, m) => m \in Machine
  BY <1>1, <1>3
<1>7. \A j, k \in ToSet(s.running), m \in Int : Holds(s, j, m) /\ Holds(s, k, m) => j = k
  BY <1>3 DEF Taken
<1>8. \A m \in Int : m \in Cover(s.spaces) <=>
        m \in Machine /\ \A j \in ToSet(s.running) : ~Holds(s, j, m)
  BY <1>3 DEF Taken
<1> QED
  BY <1>2, <1>4, <1>5, <1>6, <1>7, <1>8 DEF Booked

\* A job ends: its machines are a space, or a part of one.
LEMMA EndTaken ==
  ASSUME NEW sp, Plain(sp), NEW rn, Taken(sp, rn), NEW j \in ToSet(rn),
         NEW r, r = unassignJob(sp, AllocOf([starts |-> <<>>], j))
  PROVE  Plain(r) /\ Taken(r, Without(rn, {j})) /\ ToSet(Without(rn, {j})) = ToSet(rn) \ {j}
<1>1. PICK s : s = [starts |-> <<>>]
  OBVIOUS
<1>2. DOMAIN s.starts = {}
  BY <1>1, NothingPartial
<1>3. RunsSide(j)
  BY DEF Taken
<1>4. PICK a \in Int, b \in Int : AllocOf(s, j) = <<a, b>> /\ a <= b /\ place[j] = a .. b
  BY <1>2, <1>3, TakenHolds
<1>5. \A m \in Int : a <= m /\ m <= b <=> m \in place[j]
  BY <1>4
<1>6. \A m \in Int : a <= m /\ m <= b => m \notin Cover(sp)
  BY <1>5 DEF Taken
<1>7. /\ Plain(r)
      /\ \A m \in Int : m \in Cover(r) <=> m \in Cover(sp) \/ (a <= m /\ m <= b)
  <2>1. r = unassignJob(sp, <<a, b>>)
    BY <1>1, <1>4
  <2> QED
    BY <1>4, <1>6, <2>1, UnassignHas
<1>8. rn \in Seq(Job) /\ IsInjective(rn)
  BY DEF Taken
<1>9. PICK w : w = Without(rn, {j})
  OBVIOUS
<1>10. w \in Seq(Job) /\ IsInjective(w) /\ ToSet(w) = ToSet(rn) \ {j}
  BY <1>8, <1>9, WithoutHas
<1>11. ASSUME NEW m \in Int
       PROVE  m \in Cover(r) <=> m \in Machine /\ \A k \in ToSet(w) : m \notin place[k]
  <2>1. m \in Cover(sp) <=> m \in Machine /\ \A k \in ToSet(rn) : m \notin place[k]
    BY DEF Taken
  <2>2. m \in place[j] => m \in Machine /\ \A k \in ToSet(rn) : k # j => m \notin place[k]
    BY DEF Taken
  <2> QED
    BY <1>5, <1>7, <1>10, <2>1, <2>2
<1>12. Taken(r, w)
  BY <1>10, <1>11 DEF Taken
<1> QED
  BY <1>7, <1>9, <1>10, <1>12

-----------------------------------------------------------------------------
\* A pass as a step: the jobs of D are started.

Passed(D, rn, wt) ==
  /\ Plain(listFreeSpace') /\ Taken(listFreeSpace, listRunningJob)' /\ finish' \in Partial(Int)
  /\ Fair(listFreeSpace, listWaitingJob, promised)'
  /\ listWaitingJob' \in Seq(Job) /\ IsInjective(listWaitingJob')
  /\ ToSet(listWaitingJob') = ToSet(wt) \ D /\ ToSet(listRunningJob') = ToSet(rn) \cup D
  /\ status' = [j \in Job |-> IF j \in D THEN "running" ELSE status[j]]

LEMMA PassStep ==
  ASSUME AllReady, now \in Nat, finish \in Partial(Int), UNCHANGED <<now, walltime>>,
         NEW sp, Plain(sp), NEW rn, Taken(sp, rn),
         NEW wt \in Seq(Job), IsInjective(wt), ToSet(wt) \cap ToSet(rn) = {}, _schedule_jobs(sp, rn, wt)
  PROVE  demand' = demand /\ \E D \in SUBSET ToSet(wt) : Passed(D, rn, wt)
<1>1. PICK e : e = Pass(sp, rn, wt)
  OBVIOUS
<1>2. PICK X : X = [j \in DOMAIN e.starts |-> e.starts[j][1] .. e.starts[j][2]]
  OBVIOUS
<1>3. /\ listFreeSpace' = e.spaces /\ listRunningJob' = e.running /\ listWaitingJob' = e.waiting
      /\ finish' = e.finish /\ promised' = e.promised
      /\ RunJobs(X)
  BY <1>1, <1>2 DEF _schedule_jobs
<1>4. PICK D : D = DOMAIN e.starts
  OBVIOUS
<1>5. DOMAIN X = D /\ \A j \in D : X[j] = e.starts[j][1] .. e.starts[j][2]
  BY <1>2, <1>4
<1>6. /\ status' = [j \in Job |-> IF j \in D THEN "running" ELSE status[j]]
      /\ DOMAIN place' = DOMAIN place \cup D
      /\ \A j \in DOMAIN place \cup D : place'[j] = IF j \in D THEN X[j] ELSE place[j]
      /\ demand' = demand
  BY <1>3, <1>5 DEF RunJobs
<1>7. PICK s : s = Base(sp, rn, wt)
  OBVIOUS
<1>8. s.spaces = sp /\ s.running = rn /\ s.waiting = wt /\ DOMAIN s.starts = {} /\ s.finish = finish
  <2>1. sp \in Seq(Space) /\ rn \in Seq(Job)
    BY DEF Plain, Sound, Taken
  <2> QED
    BY <1>7, <2>1, BaseHas
<1>9. Booked(s)
  BY <1>8, TakenBooked
<1>10. Queued(s)
  BY <1>8 DEF Queued
<1>11. PassedOn(e, s)
  <2>1. rn \in Seq(Job)
    BY DEF Taken
  <2> QED
    BY <1>1, <1>7, <1>9, <1>10, <2>1, PassHas
<1>12. /\ Booked(e) /\ Plain(e.spaces) /\ Fair(e.spaces, e.waiting, e.promised) /\ e.finish \in Partial(Int)
       /\ D \in SUBSET ToSet(wt) /\ ToSet(e.running) = ToSet(rn) \cup D
       /\ ToSet(e.waiting) = ToSet(wt) \ D /\ e.waiting \in Seq(Job) /\ IsInjective(e.waiting)
  BY <1>4, <1>8, <1>11 DEF PassedOn, Outcome
<1>13. ASSUME NEW j \in ToSet(e.running)
       PROVE  /\ j \in DOMAIN place'
              /\ AllocOf(e, j) \in Int \X Int /\ AllocOf(e, j)[1] <= AllocOf(e, j)[2]
              /\ place'[j] = AllocOf(e, j)[1] .. AllocOf(e, j)[2]
  <2>1. AllocOf(e, j) \in Int \X Int /\ AllocOf(e, j)[1] <= AllocOf(e, j)[2]
    BY <1>12 DEF Booked
  <2>2. CASE j \in D
    <3>1. AllocOf(e, j) = e.starts[j]
      BY <1>4, <2>2 DEF AllocOf
    <3> QED
      BY <1>5, <1>6, <2>1, <2>2, <3>1
  <2>3. CASE j \notin D
    <3>1. RunsSide(j)
      BY <1>12, <2>3 DEF Taken
    <3>2. PICK a \in Int, b \in Int : a <= b /\ place[j] = a .. b
      BY <3>1 DEF RunsSide
    <3>3. AllocOf(e, j) = <<a, b>>
      BY <1>4, <2>3, <3>2, EdgesHave DEF AllocOf
    <3>4. place'[j] = a .. b /\ j \in DOMAIN place'
      BY <1>6, <2>3, <3>1, <3>2 DEF RunsSide
    <3> QED
      BY <2>1, <3>3, <3>4
  <2> QED
    BY <2>1, <2>2, <2>3
<1>14. \A j \in ToSet(e.running), m \in Int : m \in place'[j] <=> Holds(e, j, m)
  BY <1>13 DEF Holds
<1>15. \A j \in ToSet(e.running) : RunsSide(j)'
  <2> SUFFICES ASSUME NEW j \in ToSet(e.running) PROVE RunsSide(j)'
    OBVIOUS
  <2>1. PICK a \in Int, b \in Int : a = AllocOf(e, j)[1] /\ b = AllocOf(e, j)[2]
    BY <1>13
  <2>2. j \in DOMAIN place' /\ a <= b /\ place'[j] = a .. b
    BY <1>13, <2>1
  <2> QED
    BY <2>2 DEF RunsSide
<1>16. \A j \in ToSet(e.running) : EndsInTime(j)'
  BY <1>3, <1>12 DEF EndsInTime, Booked
<1>17. \A j \in ToSet(e.running) : place'[j] \subseteq Machine
  <2> SUFFICES ASSUME NEW j \in ToSet(e.running), NEW m \in place'[j] PROVE m \in Machine
    OBVIOUS
  <2>1. m \in Int
    BY <1>13
  <2> QED
    BY <1>12, <1>14, <2>1 DEF Booked
<1>18. \A j, k \in ToSet(e.running), m \in Int : m \in place'[j] /\ m \in place'[k] => j = k
  BY <1>12, <1>14 DEF Booked
<1>19. \A m \in Int : m \in Cover(e.spaces) <=> m \in Machine /\ \A j \in ToSet(e.running) : m \notin place'[j]
  BY <1>12, <1>14 DEF Booked
<1>20. Taken(e.spaces, e.running)'
  <2>1. e.running \in Seq(Job) /\ IsInjective(e.running)
    BY <1>12 DEF Booked
  <2> QED
    BY <1>15, <1>16, <1>17, <1>18, <1>19, <2>1 DEF Taken
<1>21. Fair(e.spaces, e.waiting, e.promised)'
  <2>1. now' = now /\ walltime' = walltime /\ demand' = demand
    BY <1>6
  <2>2. \A j : Fits(j, e.spaces)' <=> Fits(j, e.spaces)
    BY <2>1 DEF Fits
  <2> QED
    BY <1>12, <2>1 DEF Fair, Fits
<1>22. Passed(D, rn, wt)
  <2>1. Taken(listFreeSpace, listRunningJob)'
    BY <1>3, <1>20 DEF Taken
  <2>2. Fair(listFreeSpace, listWaitingJob, promised)'
    BY <1>3, <1>21 DEF Fair, Fits
  <2> QED
    BY <1>3, <1>6, <1>12, <2>1, <2>2 DEF Passed
<1> QED
  BY <1>6, <1>12, <1>22

-----------------------------------------------------------------------------
\* The inductive invariant

JobStatus == {"future", "waiting", "rejected", "running", "completed"}
EasyEvent == {"JOB_SUBMITTED", "JOB_COMPLETED"} \X Job

EasyTypes ==
  /\ status \in [Job -> JobStatus]
  /\ demand \in [Job -> Nat \ {0}] /\ walltime \in [Job -> 0 .. Infinity - 1] /\ now \in Nat
  /\ finish \in Partial(Int)

\* The events of the message say what the job has become, once.
EasyEvents ==
  /\ inbox \in Seq(EasyEvent) /\ IsInjective(inbox)
  /\ \A j \in Job : <<"JOB_SUBMITTED", j>> \in ToSet(inbox) =>
       status[j] = "waiting" /\ j \notin ToSet(listWaitingJob)
  /\ \A j \in Job : <<"JOB_COMPLETED", j>> \in ToSet(inbox) =>
       status[j] = "completed" /\ j \in ToSet(listRunningJob)

\* The lists hold the jobs that wait, and those that run or whose end has not
\* been handled.
EasyLists ==
  /\ listWaitingJob \in Seq(Job) /\ IsInjective(listWaitingJob)
  /\ \A j \in ToSet(listWaitingJob) : status[j] = "waiting"
  /\ \A j \in ToSet(listRunningJob) : status[j] \in {"running", "completed"}
  /\ \A j \in Job : status[j] = "running" => j \in ToSet(listRunningJob)

EasyInv ==
  /\ EasyTypes /\ EasyEvents /\ EasyLists
  /\ Plain(listFreeSpace) /\ Taken(listFreeSpace, listRunningJob)
  /\ Fair(listFreeSpace, listWaitingJob, promised)

LEMMA EveryoneReady ==
  ASSUME EasyTypes
  PROVE  AllReady
BY DEF EasyTypes, AllReady, Ready

\* At first nothing runs or waits, and one space has all the machines.
LEMMA EasyInitially ==
  ASSUME Init
  PROVE  EasyInv
<1>0. N \in Nat \ {0} /\ Infinity \in Nat \ {0}
  BY PlatformAssumption, EasyAssumption
<1>1. EasyTypes
  BY PlatformAssumption, EasyAssumption, NothingPartial DEF Init, PlatformInit, EasyTypes, JobStatus
<1>2. /\ inbox = <<>> /\ listWaitingJob = <<>> /\ listRunningJob = <<>>
      /\ listFreeSpace = <<FreeSpace(0, N - 1, Infinity)>> /\ status = [j \in Job |-> "future"]
  BY DEF Init, PlatformInit
<1>3. \A S : <<>> \in Seq(S)
  OBVIOUS
<1>4. ToSet(<<>>) = {} /\ IsInjective(<<>>)
  BY DEF ToSet, IsInjective
<1>5. EasyEvents
  BY <1>2, <1>3, <1>4 DEF EasyEvents
<1>6. EasyLists
  BY <1>2, <1>3, <1>4 DEF EasyLists
<1>7. PICK l : l = FreeSpace(0, N - 1, Infinity)
  OBVIOUS
<1>8. l \in Space /\ l.first = 0 /\ l.last = N - 1 /\ l.length = Infinity /\ ~l.linked /\ ~l.virtual
  BY <1>0, <1>7, FreeSpaceHas
<1>9. listFreeSpace \in Seq(Space) /\ DOMAIN listFreeSpace = {1} /\ listFreeSpace[1] = l
  <2>1. listFreeSpace = <<l>>
    BY <1>2, <1>7
  <2>2. DOMAIN <<l>> = {1}
    OBVIOUS
  <2> QED
    BY <1>8, <2>1, <2>2
<1>10. Plain(listFreeSpace)
  <2>1. 0 <= N - 1
    BY <1>0
  <2>2. \A i \in DOMAIN listFreeSpace :
          /\ listFreeSpace[i].first <= listFreeSpace[i].last /\ listFreeSpace[i].length = Infinity
          /\ ~listFreeSpace[i].linked /\ ~listFreeSpace[i].virtual
    BY <1>8, <1>9, <2>1
  <2>3. \A i, k \in DOMAIN listFreeSpace : i < k => listFreeSpace[i].last + 1 < listFreeSpace[k].first
    BY <1>9
  <2> QED
    BY <1>9, <2>2, <2>3, PlainIs
<1>11. Taken(listFreeSpace, listRunningJob)
  <2>1. \A m \in Int : m \in Cover(listFreeSpace) <=> m \in Machine
    BY <1>0, <1>8, <1>9 DEF Cover, Within, Machine
  <2> QED
    BY <1>2, <1>3, <1>4, <2>1 DEF Taken
<1>12. Fair(listFreeSpace, listWaitingJob, promised)
  BY <1>2 DEF Fair
<1> QED
  BY <1>1, <1>5, <1>6, <1>10, <1>11, <1>12 DEF EasyInv

-----------------------------------------------------------------------------
\* One lemma for each step.  Nothing but a pass touches the lists.

LEMMA Sooner ==
  ASSUME NEW a \in Nat, NEW b \in Nat, a <= b, NEW w \in Int, NEW p \in Int, b + w <= p
  PROVE  a + w <= p
OBVIOUS

LEMMA ListsStay ==
  ASSUME EasyInv,
         UNCHANGED <<listFreeSpace, listRunningJob, listWaitingJob, finish, promised, place, demand, walltime>>,
         now' \in Nat, now' >= now
  PROVE  /\ Plain(listFreeSpace)' /\ Taken(listFreeSpace, listRunningJob)'
         /\ Fair(listFreeSpace, listWaitingJob, promised)'
         /\ (status' \in [Job -> JobStatus] => EasyTypes')
<1>1. /\ listFreeSpace' = listFreeSpace /\ listRunningJob' = listRunningJob
      /\ listWaitingJob' = listWaitingJob /\ finish' = finish /\ promised' = promised
      /\ place' = place /\ demand' = demand /\ walltime' = walltime
  OBVIOUS
<1>2. EasyTypes
  BY DEF EasyInv
<1>3. status' \in [Job -> JobStatus] => EasyTypes'
  BY <1>1, <1>2 DEF EasyTypes
<1>4. Plain(listFreeSpace)'
  BY <1>1 DEF EasyInv, Plain, Sound, InOrder, Doubling
<1>5. PICK sp : sp = listFreeSpace
  OBVIOUS
<1>6. PICK rn : rn = listRunningJob
  OBVIOUS
<1>7. now \in Nat /\ Infinity \in Nat
  BY <1>2, EasyAssumption DEF EasyTypes
<1>8. Taken(sp, rn)
  BY <1>5, <1>6 DEF EasyInv
<1>9. \A j \in ToSet(rn) : RunsSide(j) /\ EndsInTime(j) /\ place[j] \subseteq Machine
  BY <1>8 DEF Taken
<1>10. \A j \in ToSet(rn) : RunsSide(j)'
  BY <1>1, <1>9 DEF RunsSide
<1>11. \A j \in ToSet(rn) : EndsInTime(j)'
  BY <1>1, <1>7, <1>9 DEF EndsInTime
<1>12. Taken(sp, rn)'
  BY <1>1, <1>8, <1>9, <1>10, <1>11 DEF Taken
<1>13. Taken(listFreeSpace, listRunningJob)'
  BY <1>1, <1>5, <1>6, <1>12 DEF Taken
<1>14. Fair(listFreeSpace, listWaitingJob, promised)'
  <2>1. Fair(listFreeSpace, listWaitingJob, promised)
    BY DEF EasyInv
  <2>2. \A j : Fits(j, listFreeSpace)' <=> Fits(j, listFreeSpace)
    BY <1>1 DEF Fits
  <2>3. \A j \in ToSet(listWaitingJob) : walltime[j] \in Int
    <3>1. \A j \in Job : walltime[j] \in Int
      BY <1>2, <1>7 DEF EasyTypes
    <3>2. ToSet(listWaitingJob) \subseteq Job
      BY ElementOfSeq, LenProperties DEF EasyInv, EasyLists, ToSet
    <3> QED
      BY <3>1, <3>2
  <2>4. ASSUME NEW p \in Int, NEW w \in Int, now' + w <= p PROVE now + w <= p
    <3>1. PICK a \in Nat : a = now
      BY <1>7
    <3>2. PICK b \in Nat : b = now' /\ a <= b
      BY <3>1
    <3>3. b + w <= p
      BY <2>4, <3>2
    <3> QED
      BY <3>1, <3>2, <3>3, Sooner
  <2> QED
    BY <1>1, <2>1, <2>2, <2>3, <2>4 DEF Fair
<1> QED
  BY <1>3, <1>4, <1>13, <1>14

LEMMA EventAdded ==
  ASSUME EasyEvents, NEW ev \in EasyEvent, ev \notin ToSet(inbox), inbox' = Append(inbox, ev)
  PROVE  inbox' \in Seq(EasyEvent) /\ IsInjective(inbox') /\ ToSet(inbox') = ToSet(inbox) \cup {ev}
<1>1. PICK q \in Seq(EasyEvent) : q = inbox /\ IsInjective(q)
  BY DEF EasyEvents, EasyEvent
<1>2. Append(q, ev) \in Seq(EasyEvent)
  BY <1>1, AppendProperties
<1> QED
  BY <1>1, <1>2, AppendedSet

LEMMA EventTaken ==
  ASSUME EasyEvents, NEW type, NEW x, Handling(type, x)
  PROVE  /\ inbox' \in Seq(EasyEvent) /\ IsInjective(inbox')
         /\ ToSet(inbox') = ToSet(inbox) \ {<<type, x>>} /\ <<type, x>> \in ToSet(inbox)
<1>1. PICK q \in Seq(EasyEvent) : q = inbox /\ IsInjective(q)
  BY DEF EasyEvents, EasyEvent
<1>2. q # <<>> /\ Head(q) = <<type, x>> /\ inbox' = Tail(q)
  BY <1>1 DEF Handling
<1>3. PICK w : w = Tail(q)
  OBVIOUS
<1>4. /\ w \in Seq(EasyEvent) /\ IsInjective(w) /\ ToSet(w) = ToSet(q) \ {q[1]} /\ Head(q) = q[1]
      /\ q[1] \in ToSet(q)
  BY <1>1, <1>2, <1>3, TailHas
<1> QED
  BY <1>1, <1>2, <1>3, <1>4

\* j becomes what its status was not; the lists are left alone.
LEMMA StatusSet ==
  ASSUME EasyInv, NEW j \in Job, NEW x \in JobStatus, status' = [status EXCEPT ![j] = x]
  PROVE  status' \in [Job -> JobStatus] /\ status'[j] = x /\ \A k \in Job : k # j => status'[k] = status[k]
BY DEF EasyInv, EasyTypes, JobStatus

LEMMA SimulatorKeeps ==
  ASSUME EasyInv, Simulator
  PROVE  EasyInv'
<1>1. /\ listFreeSpace' = listFreeSpace /\ listRunningJob' = listRunningJob
      /\ listWaitingJob' = listWaitingJob /\ finish' = finish /\ promised' = promised
      /\ now' = now /\ walltime' = walltime /\ place' = place /\ demand' = demand
  BY DEF Simulator, Send, Submit, Complete, easy_vars
<1>2. now \in Nat
  BY DEF EasyInv, EasyTypes
<1>3. /\ Plain(listFreeSpace)' /\ Taken(listFreeSpace, listRunningJob)'
      /\ Fair(listFreeSpace, listWaitingJob, promised)'
      /\ (status' \in [Job -> JobStatus] => EasyTypes')
  BY <1>1, <1>2, ListsStay DEF JobStatus
<1>4. EasyTypes /\ EasyEvents /\ EasyLists /\ status \in [Job -> JobStatus]
  BY DEF EasyInv, EasyTypes, JobStatus
<1>5. \A j \in Job : /\ j \in ToSet(listWaitingJob) => status[j] = "waiting"
                     /\ j \in ToSet(listRunningJob) => status[j] \in {"running", "completed"}
                     /\ status[j] = "running" => j \in ToSet(listRunningJob)
                     /\ <<"JOB_SUBMITTED", j>> \in ToSet(inbox) => status[j] = "waiting"
                     /\ <<"JOB_COMPLETED", j>> \in ToSet(inbox) => status[j] = "completed"
  BY <1>4 DEF EasyEvents, EasyLists
<1>6. CASE Send
  <2>1. inbox' = inbox /\ status' = status
    BY <1>6 DEF Send
  <2>2. EasyEvents' /\ EasyLists'
    BY <1>1, <1>4, <2>1 DEF EasyEvents, EasyLists
  <2> QED
    BY <1>3, <1>4, <2>1, <2>2 DEF EasyInv
<1>7. ASSUME NEW j \in Job, Submit(j) PROVE EasyInv'
  <2>1. status[j] = "future" /\ inbox' = Append(inbox, <<"JOB_SUBMITTED", j>>) /\ status' = [status EXCEPT ![j] = "waiting"]
    BY <1>7 DEF Submit, Event
  <2>2. /\ status' \in [Job -> JobStatus] /\ status'[j] = "waiting"
        /\ \A k \in Job : k # j => status'[k] = status[k]
    BY <2>1, StatusSet DEF JobStatus
  <2>3. <<"JOB_SUBMITTED", j>> \in EasyEvent /\ <<"JOB_SUBMITTED", j>> \notin ToSet(inbox)
    BY <1>5, <2>1 DEF EasyEvent
  <2>4. /\ inbox' \in Seq(EasyEvent) /\ IsInjective(inbox')
        /\ ToSet(inbox') = ToSet(inbox) \cup {<<"JOB_SUBMITTED", j>>}
    BY <1>4, <2>1, <2>3, EventAdded
  <2>5. EasyEvents'
    BY <1>1, <1>4, <1>5, <2>1, <2>2, <2>4 DEF EasyEvents, EasyEvent
  <2>6. EasyLists'
    BY <1>1, <1>4, <1>5, <2>1, <2>2 DEF EasyLists
  <2> QED
    BY <1>3, <2>2, <2>5, <2>6 DEF EasyInv
<1>8. ASSUME NEW j \in Job, Complete(j) PROVE EasyInv'
  <2>1. status[j] = "running" /\ inbox' = Append(inbox, <<"JOB_COMPLETED", j>>) /\ status' = [status EXCEPT ![j] = "completed"]
    BY <1>8 DEF Complete, Event
  <2>2. /\ status' \in [Job -> JobStatus] /\ status'[j] = "completed"
        /\ \A k \in Job : k # j => status'[k] = status[k]
    BY <2>1, StatusSet DEF JobStatus
  <2>3. <<"JOB_COMPLETED", j>> \in EasyEvent /\ <<"JOB_COMPLETED", j>> \notin ToSet(inbox)
    BY <1>5, <2>1 DEF EasyEvent
  <2>4. /\ inbox' \in Seq(EasyEvent) /\ IsInjective(inbox')
        /\ ToSet(inbox') = ToSet(inbox) \cup {<<"JOB_COMPLETED", j>>}
    BY <1>4, <2>1, <2>3, EventAdded
  <2>5. EasyEvents'
    BY <1>1, <1>4, <1>5, <2>1, <2>2, <2>4 DEF EasyEvents, EasyEvent
  <2>6. EasyLists'
    BY <1>1, <1>4, <1>5, <2>1, <2>2 DEF EasyLists
  <2> QED
    BY <1>3, <2>2, <2>5, <2>6 DEF EasyInv
<1> QED
  BY <1>6, <1>7, <1>8 DEF Simulator

LEMMA TickKeeps ==
  ASSUME EasyInv, Tick
  PROVE  EasyInv'
<1>1. /\ listFreeSpace' = listFreeSpace /\ listRunningJob' = listRunningJob
      /\ listWaitingJob' = listWaitingJob /\ finish' = finish /\ promised' = promised
      /\ walltime' = walltime /\ place' = place /\ demand' = demand
      /\ status' = status /\ inbox' = inbox /\ now' = now + 1
  BY DEF Tick, easy_vars, platform_vars
<1>2. now \in Nat /\ status \in [Job -> JobStatus]
  BY DEF EasyInv, EasyTypes, JobStatus
<1>3. now' \in Nat /\ now' >= now
  BY <1>1, <1>2
<1>4. /\ Plain(listFreeSpace)' /\ Taken(listFreeSpace, listRunningJob)'
      /\ Fair(listFreeSpace, listWaitingJob, promised)' /\ EasyTypes'
  BY <1>1, <1>2, <1>3, ListsStay DEF JobStatus
<1>5. EasyEvents' /\ EasyLists'
  BY <1>1 DEF EasyInv, EasyEvents, EasyLists
<1> QED
  BY <1>4, <1>5 DEF EasyInv

LEMMA IdleKeeps ==
  ASSUME EasyInv, onNoMoreEvents \/ UNCHANGED vars
  PROVE  EasyInv'
<1>1. /\ listFreeSpace' = listFreeSpace /\ listRunningJob' = listRunningJob
      /\ listWaitingJob' = listWaitingJob /\ finish' = finish /\ promised' = promised
      /\ walltime' = walltime /\ place' = place /\ demand' = demand
      /\ status' = status /\ inbox' = inbox /\ now' = now
  BY DEF onNoMoreEvents, MessageEnds, NoCommand, easy_vars, platform_vars, vars
<1>2. now \in Nat /\ status \in [Job -> JobStatus]
  BY DEF EasyInv, EasyTypes, JobStatus
<1>4. /\ Plain(listFreeSpace)' /\ Taken(listFreeSpace, listRunningJob)'
      /\ Fair(listFreeSpace, listWaitingJob, promised)' /\ EasyTypes'
  BY <1>1, <1>2, ListsStay DEF JobStatus
<1>5. EasyEvents' /\ EasyLists'
  BY <1>1 DEF EasyInv, EasyEvents, EasyLists
<1> QED
  BY <1>4, <1>5 DEF EasyInv

\* After a pass, everything but the events.
LEMMA PassedKeeps ==
  ASSUME EasyInv, NEW rn, ToSet(rn) \subseteq ToSet(listRunningJob),
         \A j \in Job : status[j] = "running" => j \in ToSet(rn),
         NEW wt \in Seq(Job), \A j \in ToSet(wt) : status[j] = "waiting",
         UNCHANGED <<now, walltime>>, demand' = demand,
         NEW D \in SUBSET ToSet(wt), Passed(D, rn, wt)
  PROVE  /\ EasyTypes' /\ EasyLists' /\ Plain(listFreeSpace)' /\ Taken(listFreeSpace, listRunningJob)'
         /\ Fair(listFreeSpace, listWaitingJob, promised)'
         /\ ToSet(listWaitingJob') \subseteq ToSet(wt) \ D /\ ToSet(listRunningJob') = ToSet(rn) \cup D
         /\ \A j \in Job : j \notin D => status'[j] = status[j]
<1>1. EasyTypes /\ EasyLists
  BY DEF EasyInv
<1>2. /\ Plain(listFreeSpace') /\ Taken(listFreeSpace, listRunningJob)' /\ finish' \in Partial(Int)
      /\ Fair(listFreeSpace, listWaitingJob, promised)'
      /\ listWaitingJob' \in Seq(Job) /\ IsInjective(listWaitingJob')
      /\ ToSet(listWaitingJob') = ToSet(wt) \ D /\ ToSet(listRunningJob') = ToSet(rn) \cup D
      /\ status' = [j \in Job |-> IF j \in D THEN "running" ELSE status[j]]
  BY DEF Passed
<1>3. ToSet(wt) \subseteq Job
  BY ElementOfSeq, LenProperties DEF ToSet
<1>4. /\ \A j \in Job : j \in D => status'[j] = "running"
      /\ \A j \in Job : j \notin D => status'[j] = status[j]
  BY <1>2
<1>5. status' \in [Job -> JobStatus]
  BY <1>1, <1>2 DEF EasyTypes, JobStatus
<1>6. EasyTypes'
  BY <1>1, <1>2, <1>5 DEF EasyTypes, JobStatus
<1>7. ToSet(listRunningJob) \subseteq Job
  BY ElementOfSeq, LenProperties DEF EasyInv, Taken, ToSet
<1>8. \A j \in ToSet(listWaitingJob') : status'[j] = "waiting"
  BY <1>2, <1>3, <1>4
<1>9. \A j \in ToSet(listRunningJob') : status'[j] \in {"running", "completed"}
  <2>1. \A j \in ToSet(listRunningJob) : status[j] \in {"running", "completed"}
    BY <1>1 DEF EasyLists
  <2> QED
    BY <1>2, <1>3, <1>4, <1>7, <2>1
<1>10. \A j \in Job : status'[j] = "running" => j \in ToSet(listRunningJob')
  BY <1>2, <1>4
<1>11. EasyLists'
  BY <1>2, <1>8, <1>9, <1>10 DEF EasyLists
<1> QED
  BY <1>2, <1>4, <1>6, <1>11

LEMMA SubmissionKeeps ==
  ASSUME EasyInv, NEW j \in Job, onJobSubmission(j)
  PROVE  EasyInv'
<1> DEFINE ev == <<"JOB_SUBMITTED", j>>
<1>1. EasyTypes /\ EasyEvents /\ EasyLists
  BY DEF EasyInv
<1>2. /\ inbox' \in Seq(EasyEvent) /\ IsInjective(inbox')
      /\ ToSet(inbox') = ToSet(inbox) \ {ev} /\ ev \in ToSet(inbox)
  BY <1>1, EventTaken DEF onJobSubmission
<1>3. status[j] = "waiting" /\ j \notin ToSet(listWaitingJob) /\ j \notin ToSet(listRunningJob)
  BY <1>1, <1>2 DEF EasyEvents, EasyLists
<1>4. /\ \A k \in Job : <<"JOB_SUBMITTED", k>> \in ToSet(inbox') =>
             k # j /\ status[k] = "waiting" /\ k \notin ToSet(listWaitingJob)
      /\ \A k \in Job : <<"JOB_COMPLETED", k>> \in ToSet(inbox') =>
             k # j /\ status[k] = "completed" /\ k \in ToSet(listRunningJob)
  <2>1. \A k \in Job : <<"JOB_SUBMITTED", k>> = <<"JOB_SUBMITTED", j>> <=> k = j
    OBVIOUS
  <2> QED
    BY <1>1, <1>2, <1>3, <2>1 DEF EasyEvents
<1>5. now' = now /\ walltime' = walltime /\ now \in Nat
  BY <1>1 DEF onJobSubmission, EasyTypes
<1>6. CASE demand[j] > N
  <2>1. /\ RefuseJob(j) /\ UNCHANGED easy_vars
    BY <1>6 DEF onJobSubmission
  <2>2. /\ listFreeSpace' = listFreeSpace /\ listRunningJob' = listRunningJob
        /\ listWaitingJob' = listWaitingJob /\ finish' = finish /\ promised' = promised
        /\ place' = place /\ demand' = demand /\ status' = [status EXCEPT ![j] = "rejected"]
    BY <2>1 DEF RefuseJob, easy_vars
  <2>3. /\ status' \in [Job -> JobStatus] /\ status'[j] = "rejected"
        /\ \A k \in Job : k # j => status'[k] = status[k]
    BY <2>2, StatusSet DEF JobStatus
  <2>4. /\ Plain(listFreeSpace)' /\ Taken(listFreeSpace, listRunningJob)'
        /\ Fair(listFreeSpace, listWaitingJob, promised)' /\ EasyTypes'
    BY <1>5, <2>2, <2>3, ListsStay DEF JobStatus
  <2>5. EasyEvents'
    BY <1>2, <1>4, <2>2, <2>3 DEF EasyEvents, EasyEvent
  <2>6. EasyLists'
    <3>1. ToSet(listWaitingJob) \subseteq Job /\ ToSet(listRunningJob) \subseteq Job
      BY ElementOfSeq, LenProperties DEF EasyInv, EasyLists, Taken, ToSet
    <3> QED
      BY <1>1, <1>3, <2>2, <2>3, <3>1 DEF EasyLists
  <2> QED
    BY <2>4, <2>5, <2>6 DEF EasyInv
<1>7. CASE ~(demand[j] > N)
  <2>1. PICK sp : sp = listFreeSpace
    OBVIOUS
  <2>2. PICK rn : rn = listRunningJob
    OBVIOUS
  <2>3. PICK q \in Seq(Job) : q = listWaitingJob
    BY <1>1 DEF EasyLists
  <2>4. PICK wt : wt = Append(q, j)
    OBVIOUS
  <2>5. /\ wt \in Seq(Job) /\ IsInjective(wt) /\ ToSet(wt) = ToSet(q) \cup {j}
    BY <1>1, <1>3, <2>3, <2>4, AppendedSet, AppendProperties DEF EasyLists
  <2>6. _schedule_jobs(sp, rn, wt)
    BY <1>7, <2>1, <2>2, <2>3, <2>4 DEF onJobSubmission
  <2>7. Plain(sp) /\ Taken(sp, rn)
    BY <2>1, <2>2 DEF EasyInv
  <2>8. \A k \in ToSet(wt) : status[k] = "waiting"
    BY <1>1, <1>3, <2>3, <2>5 DEF EasyLists
  <2>9. ToSet(wt) \cap ToSet(rn) = {}
    BY <1>1, <2>2, <2>8 DEF EasyLists
  <2>10. finish \in Partial(Int)
    BY <1>1 DEF EasyTypes
  <2>11. demand' = demand /\ \E D \in SUBSET ToSet(wt) : Passed(D, rn, wt)
    BY <1>1, <1>5, <2>5, <2>6, <2>7, <2>9, <2>10, EveryoneReady, PassStep
  <2>12. PICK D \in SUBSET ToSet(wt) : Passed(D, rn, wt)
    BY <2>11
  <2>13. /\ EasyTypes' /\ EasyLists' /\ Plain(listFreeSpace)' /\ Taken(listFreeSpace, listRunningJob)'
         /\ Fair(listFreeSpace, listWaitingJob, promised)'
         /\ ToSet(listWaitingJob') \subseteq ToSet(wt) \ D /\ ToSet(listRunningJob') = ToSet(rn) \cup D
         /\ \A k \in Job : k \notin D => status'[k] = status[k]
    <3>1. \A k \in Job : status[k] = "running" => k \in ToSet(rn)
      BY <1>1, <2>2 DEF EasyLists
    <3>2. ToSet(rn) \subseteq ToSet(listRunningJob)
      BY <2>2
    <3> QED
      BY <1>5, <2>5, <2>8, <2>11, <2>12, <3>1, <3>2, PassedKeeps
  <2>14. EasyEvents'
    <3>1. ASSUME NEW k \in Job, <<"JOB_SUBMITTED", k>> \in ToSet(inbox')
          PROVE  status'[k] = "waiting" /\ k \notin ToSet(listWaitingJob')
      <4>1. k \notin ToSet(wt)
        BY <1>4, <2>3, <2>5, <3>1
      <4> QED
        BY <1>4, <2>13, <3>1, <4>1
    <3>2. ASSUME NEW k \in Job, <<"JOB_COMPLETED", k>> \in ToSet(inbox')
          PROVE  status'[k] = "completed" /\ k \in ToSet(listRunningJob')
      <4>1. k \notin ToSet(wt)
        BY <1>4, <2>8, <3>2
      <4> QED
        BY <1>4, <2>2, <2>13, <3>2, <4>1
    <3> QED
      BY <1>2, <3>1, <3>2 DEF EasyEvents, EasyEvent
  <2> QED
    BY <2>13, <2>14 DEF EasyInv
<1> QED
  BY <1>6, <1>7

LEMMA CompletionKeeps ==
  ASSUME EasyInv, NEW j \in Job, onJobCompletion(j)
  PROVE  EasyInv'
<1> DEFINE ev == <<"JOB_COMPLETED", j>>
<1>1. EasyTypes /\ EasyEvents /\ EasyLists
  BY DEF EasyInv
<1>2. /\ inbox' \in Seq(EasyEvent) /\ IsInjective(inbox')
      /\ ToSet(inbox') = ToSet(inbox) \ {ev} /\ ev \in ToSet(inbox)
  BY <1>1, EventTaken DEF onJobCompletion
<1>3. status[j] = "completed" /\ j \in ToSet(listRunningJob)
  BY <1>1, <1>2 DEF EasyEvents
<1>4. /\ \A k \in Job : <<"JOB_SUBMITTED", k>> \in ToSet(inbox') =>
             status[k] = "waiting" /\ k \notin ToSet(listWaitingJob)
      /\ \A k \in Job : <<"JOB_COMPLETED", k>> \in ToSet(inbox') =>
             k # j /\ status[k] = "completed" /\ k \in ToSet(listRunningJob)
  BY <1>1, <1>2 DEF EasyEvents
<1>5. now' = now /\ walltime' = walltime /\ now \in Nat
  BY <1>1 DEF onJobCompletion, EasyTypes
<1>6. PICK old : old = listFreeSpace
  OBVIOUS
<1>7. PICK ran : ran = listRunningJob
  OBVIOUS
<1>8. PICK wt \in Seq(Job) : wt = listWaitingJob
  BY <1>1 DEF EasyLists
<1>9. PICK sp : sp = unassignJob(old, AllocOf([starts |-> <<>>], j))
  OBVIOUS
<1>10. PICK rn : rn = Without(ran, {j})
  OBVIOUS
<1>11. _schedule_jobs(sp, rn, wt)
  BY <1>6, <1>7, <1>8, <1>9, <1>10 DEF onJobCompletion
<1>12. Plain(old) /\ Taken(old, ran) /\ j \in ToSet(ran)
  BY <1>3, <1>6, <1>7 DEF EasyInv
<1>13. Plain(sp) /\ Taken(sp, rn) /\ ToSet(rn) = ToSet(ran) \ {j}
  BY <1>9, <1>10, <1>12, EndTaken
<1>14. \A k \in ToSet(wt) : status[k] = "waiting"
  BY <1>1, <1>8 DEF EasyLists
<1>15. ToSet(wt) \cap ToSet(rn) = {}
  BY <1>1, <1>7, <1>13, <1>14 DEF EasyLists
<1>16. finish \in Partial(Int) /\ IsInjective(wt)
  BY <1>1, <1>8 DEF EasyTypes, EasyLists
<1>17. demand' = demand /\ \E D \in SUBSET ToSet(wt) : Passed(D, rn, wt)
  BY <1>1, <1>5, <1>11, <1>13, <1>15, <1>16, EveryoneReady, PassStep
<1>18. PICK D \in SUBSET ToSet(wt) : Passed(D, rn, wt)
  BY <1>17
<1>19. /\ EasyTypes' /\ EasyLists' /\ Plain(listFreeSpace)' /\ Taken(listFreeSpace, listRunningJob)'
       /\ Fair(listFreeSpace, listWaitingJob, promised)'
       /\ ToSet(listWaitingJob') \subseteq ToSet(wt) \ D /\ ToSet(listRunningJob') = ToSet(rn) \cup D
       /\ \A k \in Job : k \notin D => status'[k] = status[k]
  <2>1. \A k \in Job : status[k] = "running" => k \in ToSet(rn)
    BY <1>1, <1>3, <1>7, <1>13 DEF EasyLists
  <2>2. ToSet(rn) \subseteq ToSet(listRunningJob)
    BY <1>7, <1>13
  <2> QED
    BY <1>5, <1>14, <1>17, <1>18, <2>1, <2>2, PassedKeeps
<1>20. EasyEvents'
  <2>1. ASSUME NEW k \in Job, <<"JOB_SUBMITTED", k>> \in ToSet(inbox')
        PROVE  status'[k] = "waiting" /\ k \notin ToSet(listWaitingJob')
    <3>1. k \notin ToSet(wt)
      BY <1>4, <1>8, <2>1
    <3> QED
      BY <1>4, <1>19, <2>1, <3>1
  <2>2. ASSUME NEW k \in Job, <<"JOB_COMPLETED", k>> \in ToSet(inbox')
        PROVE  status'[k] = "completed" /\ k \in ToSet(listRunningJob')
    <3>1. k \notin ToSet(wt)
      BY <1>4, <1>14, <2>2
    <3> QED
      BY <1>4, <1>7, <1>13, <1>19, <2>2, <3>1
  <2> QED
    BY <1>2, <2>1, <2>2 DEF EasyEvents, EasyEvent
<1> QED
  BY <1>19, <1>20 DEF EasyInv

-----------------------------------------------------------------------------
\* The theorems

\* The invariant holds in every state.
THEOREM EasyInvariant == Spec => []EasyInv
<1>1. Init => EasyInv
  BY EasyInitially
<1>2. EasyInv /\ [Next]_vars => EasyInv'
  <2> SUFFICES ASSUME EasyInv, [Next]_vars PROVE EasyInv'
    OBVIOUS
  <2>1. CASE Simulator
    BY <2>1, SimulatorKeeps
  <2>2. CASE Tick
    BY <2>2, TickKeeps
  <2>3. ASSUME NEW j \in Job, onJobSubmission(j) PROVE EasyInv'
    BY <2>3, SubmissionKeeps
  <2>4. ASSUME NEW j \in Job, onJobCompletion(j) PROVE EasyInv'
    BY <2>4, CompletionKeeps
  <2>5. CASE onNoMoreEvents \/ UNCHANGED vars
    BY <2>5, IdleKeeps
  <2> QED
    BY <2>1, <2>2, <2>3, <2>4, <2>5 DEF Next, Callbacks
<1> QED
  BY <1>1, <1>2, PTL DEF Spec

\* Of the list of free spaces: it is exact between two callbacks, with no trace
\* of the reservation the last pass made (allocBackFill), and the jobs that run
\* share no machine.
THEOREM SpacesAreExact == Spec => []FreeSpacesExact
<1>1. EasyInv => FreeSpacesExact
  <2> SUFFICES ASSUME EasyInv PROVE FreeSpacesExact
    OBVIOUS
  <2>1. /\ \A i \in DOMAIN listFreeSpace :
             /\ listFreeSpace[i].first \in Int /\ listFreeSpace[i].last \in Int
             /\ listFreeSpace[i].first <= listFreeSpace[i].last
             /\ listFreeSpace[i].length = Infinity
             /\ ~listFreeSpace[i].linked /\ ~listFreeSpace[i].virtual
        /\ \A i, k \in DOMAIN listFreeSpace : i < k => listFreeSpace[i].last + 1 < listFreeSpace[k].first
        /\ Len(listFreeSpace) \in Nat /\ DOMAIN listFreeSpace = 1 .. Len(listFreeSpace)
    BY PlainHas DEF EasyInv
  <2>2. \A i \in 1 .. Len(listFreeSpace) - 1 : listFreeSpace[i].last + 1 < listFreeSpace[i + 1].first
    <3>1. \A i \in 1 .. Len(listFreeSpace) - 1 :
            i \in DOMAIN listFreeSpace /\ i + 1 \in DOMAIN listFreeSpace /\ i < i + 1
      BY <2>1
    <3> QED
      BY <2>1, <3>1
  <2>3. Taken(listFreeSpace, listRunningJob)
    BY DEF EasyInv
  <2>4. \A m : m \in UNION Spaces <=> m \in Cover(listFreeSpace)
    BY <2>1 DEF Spaces, Cover, Within
  <2>5. /\ \A j \in ToSet(listRunningJob) : place[j] \subseteq Machine
        /\ \A m \in Int : m \in Cover(listFreeSpace) <=>
             m \in Machine /\ \A j \in ToSet(listRunningJob) : m \notin place[j]
    BY <2>3 DEF Taken
  <2>6. Machine \subseteq Int
    BY DEF Machine
  <2>7. UNION Spaces = Machine \ UNION {place[j] : j \in ToSet(listRunningJob)}
    <3>1. ASSUME NEW m \in UNION Spaces PROVE m \in Machine \ UNION {place[j] : j \in ToSet(listRunningJob)}
      <4>1. m \in Int /\ m \in Cover(listFreeSpace)
        BY <2>4 DEF Cover
      <4> QED
        BY <2>5, <4>1
    <3>2. ASSUME NEW m \in Machine \ UNION {place[j] : j \in ToSet(listRunningJob)} PROVE m \in UNION Spaces
      BY <2>4, <2>5, <2>6
    <3> QED
      BY <3>1, <3>2
  <2>8. ASSUME NEW j \in ToSet(listRunningJob), NEW k \in ToSet(listRunningJob), j # k
        PROVE  place[j] \cap place[k] = {}
    BY <2>3, <2>5, <2>6, <2>8 DEF Taken
  <2>9. \A j \in Job : status[j] = "running" => j \in ToSet(listRunningJob)
    BY DEF EasyInv, EasyLists
  <2> QED
    BY <2>1, <2>2, <2>7, <2>8, <2>9 DEF FreeSpacesExact
<1> QED
  BY <1>1, EasyInvariant, PTL

\* Of a pass: no job is left waiting that could run, neither the head of the
\* queue nor one that would end before the head is promised its machines.
THEOREM NobodyLeftBehind == Spec => []NoneLeftBehind
<1>1. EasyInv => NoneLeftBehind
  <2> SUFFICES ASSUME EasyInv, listWaitingJob # <<>> PROVE
        LET head == Head(listWaitingJob)
        IN  \A j \in ToSet(listWaitingJob) : \A M \in Spaces :
              /\ demand[head] > Cardinality(M)
              /\ j # head /\ now + walltime[j] <= promised[head] => demand[j] > Cardinality(M)
    BY DEF NoneLeftBehind
  <2>1. EasyTypes /\ EasyLists /\ Plain(listFreeSpace) /\ Fair(listFreeSpace, listWaitingJob, promised)
    BY DEF EasyInv
  <2>2. PICK head \in Job : head = listWaitingJob[1] /\ head = Head(listWaitingJob)
    BY <2>1, TailHas DEF EasyLists
  <2>3. ToSet(listWaitingJob) \subseteq Job
    BY <2>1, ElementOfSeq, LenProperties DEF EasyLists, ToSet
  <2>4. /\ ~Fits(head, listFreeSpace)
        /\ \A j \in ToSet(listWaitingJob) :
             j # head /\ now + walltime[j] <= promised[head] => ~Fits(j, listFreeSpace)
    BY <2>1, <2>2 DEF Fair
  <2>5. ASSUME NEW j \in Job, ~Fits(j, listFreeSpace), NEW M \in Spaces PROVE demand[j] > Cardinality(M)
    <3>1. PICK i \in DOMAIN listFreeSpace : M = listFreeSpace[i].first .. listFreeSpace[i].last
      BY <2>5 DEF Spaces
    <3>2. PICK a \in Int, b \in Int : a = listFreeSpace[i].first /\ b = listFreeSpace[i].last /\ a <= b
      BY <2>1, PlainHas
    <3>3. Cardinality(a .. b) = b - a + 1
      <4>1. Cardinality(a .. b) = IF a > b THEN 0 ELSE b - a + 1
        BY FS_Interval
      <4> QED
        BY <3>2, <4>1
    <3>4. Res(listFreeSpace[i]) = b - a + 1
      BY <3>2 DEF Res
    <3>5. PICK d \in Nat : d = demand[j]
      BY <2>1 DEF EasyTypes
    <3>6. ~(d <= b - a + 1)
      BY <2>5, <3>4, <3>5 DEF Fits
    <3>7. d > b - a + 1
      BY <3>6
    <3> QED
      BY <3>1, <3>2, <3>3, <3>5, <3>7
  <2> QED
    BY <2>2, <2>3, <2>4, <2>5
<1> QED
  BY <1>1, EasyInvariant, PTL
=============================================================================
