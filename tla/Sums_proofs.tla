----------------------------- MODULE Sums_proofs -----------------------------
(***************************************************************************)
(* What the folds of the community modules compute.  MapThenFoldSet is     *)
(* defined by a recursive function on the subsets of a finite set, that    *)
(* is, by a CHOOSE of a function that satisfies an equation: the lemmas    *)
(* show that there is such a function, that it is the only one, and from   *)
(* that the laws of SumFunctionOnSet and of a FoldLeft that drops the      *)
(* elements of a set from a sequence.  Induction is on sets, not on        *)
(* operators: a set of numbers, or of sets, that is closed has them all.   *)
(***************************************************************************)
EXTENDS Integers, SequencesExt, Functions, FiniteSetTheorems, SequenceTheorems,
        WellFoundedInduction, TLAPS

-----------------------------------------------------------------------------
\* Induction

\* A set of natural numbers that has 0 and all successors has all of them.
LEMMA Induction ==
  ASSUME NEW G, 0 \in G, \A n \in Nat : n \in G => n + 1 \in G
  PROVE  Nat \subseteq G
<1> DEFINE R == OpToRel(<, Nat)
           B == Nat \ G
<1> SUFFICES ASSUME B # {} PROVE FALSE
  OBVIOUS
<1>1. IsWellFoundedOn(R, Nat)
  BY NatLessThanWellFounded
<1>2. \A x, y \in Nat : <<y, x>> \in R <=> y < x
  BY DEF OpToRel
<1>3. B \subseteq Nat
  OBVIOUS
<1> HIDE DEF R, B
<1>4. PICK x \in B : \A y \in B : ~(<<y, x>> \in R)
  BY <1>1, <1>3, WFMin
<1>5. x \in Nat /\ x \notin G
  BY <1>4 DEF B
<1>6. x - 1 \in Nat /\ x - 1 < x
  BY <1>5
<1>7. x - 1 \in G
  BY <1>2, <1>4, <1>5, <1>6 DEF B
<1> QED
  BY <1>5, <1>6, <1>7

\* A set of subsets of S that has T whenever it has all that is smaller has S.
LEMMA SetInduction ==
  ASSUME NEW S, IsFiniteSet(S), NEW G,
         \A T \in SUBSET S : (\A U \in SUBSET T : U # T => U \in G) => T \in G
  PROVE  SUBSET S \subseteq G
<1> DEFINE R == StrictSubsetOrdering(S)
           B == (SUBSET S) \ G
<1> SUFFICES ASSUME B # {} PROVE FALSE
  OBVIOUS
<1>1. IsWellFoundedOn(R, SUBSET S)
  <2>1. IsWellFoundedOn(StrictSubsetOrdering(S), FiniteSubsetsOf(S))
    BY FS_StrictSubsetOrderingWellFounded
  <2>2. FiniteSubsetsOf(S) = SUBSET S
    BY FS_FiniteSubsetsOfFinite
  <2> QED
    BY <2>1, <2>2
<1>2. \A T, U \in SUBSET S : <<U, T>> \in R <=> U \subseteq T /\ U # T
  BY DEF StrictSubsetOrdering
<1>3. B \subseteq SUBSET S /\ B # {}
  OBVIOUS
<1> HIDE DEF R, B
<1>4. PICK T \in B : \A U \in B : ~(<<U, T>> \in R)
  BY <1>1, <1>3, WFMin
<1>5. T \in SUBSET S /\ T \notin G
  BY <1>4 DEF B
<1>6. ASSUME NEW U \in SUBSET T, U # T PROVE U \in G
  <2>1. U \in SUBSET S /\ <<U, T>> \in R
    BY <1>2, <1>5, <1>6
  <2>2. U \notin B
    BY <1>4, <2>1
  <2> QED
    BY <2>1, <2>2 DEF B
<1> QED
  BY <1>5, <1>6

-----------------------------------------------------------------------------
\* Recursion over the subsets of a finite set

\* f takes ch[T] out of T, and g to what it has for the rest.
Recursive(f, S, base, ch, g) ==
  f = [T \in SUBSET S |-> IF T = {} THEN base ELSE g[<<ch[T], f[T \ {ch[T]}]>>]]

LEMMA RecursionExists ==
  ASSUME NEW S, IsFiniteSet(S), NEW V, NEW base \in V,
         NEW ch, \A T \in SUBSET S : T # {} => ch[T] \in T,
         NEW g \in [S \X V -> V]
  PROVE  \E f \in [SUBSET S -> V] : Recursive(f, S, base, ch, g)
<1> DEFINE D(n) == {T \in SUBSET S : Cardinality(T) <= n}
           Next(f, T) == IF T = {} THEN base ELSE g[<<ch[T], f[T \ {ch[T]}]>>]
           G == {n \in Nat : \E f \in [D(n) -> V] : \A T \in D(n) : f[T] = Next(f, T)}
<1>1. \A T \in SUBSET S : IsFiniteSet(T) /\ Cardinality(T) \in Nat /\ Cardinality(T) <= Cardinality(S)
  BY FS_Subset, FS_CardinalityType
<1>2. \A T \in SUBSET S : T # {} =>
        T \ {ch[T]} \in SUBSET S /\ Cardinality(T \ {ch[T]}) = Cardinality(T) - 1
  BY <1>1, FS_RemoveElement
<1>3. \A T \in SUBSET S : Cardinality(T) = 0 <=> T = {}
  BY <1>1, FS_EmptySet
<1>4. 0 \in G
  <2> DEFINE f == [T \in D(0) |-> base]
  <2>1. \A T \in D(0) : T = {}
    BY <1>1, <1>3
  <2>2. f \in [D(0) -> V] /\ \A T \in D(0) : f[T] = Next(f, T)
    BY <2>1
  <2> QED
    BY <2>2
<1>5. ASSUME NEW n \in Nat, n \in G PROVE n + 1 \in G
  <2>1. PICK f \in [D(n) -> V] : \A T \in D(n) : f[T] = Next(f, T)
    BY <1>5
  <2> DEFINE h == [T \in D(n + 1) |-> Next(f, T)]
  <2>2. \A T \in D(n + 1) : T # {} => T \ {ch[T]} \in D(n)
    BY <1>1, <1>2
  <2>3. h \in [D(n + 1) -> V]
    <3>1. ASSUME NEW T \in D(n + 1) PROVE Next(f, T) \in V
      <4>1. T # {} => ch[T] \in S /\ f[T \ {ch[T]}] \in V
        BY <2>2
      <4>2. T # {} => g[<<ch[T], f[T \ {ch[T]}]>>] \in V
        BY <4>1
      <4> QED
        BY <4>2
    <3> QED
      BY <3>1
  <2>4. \A T \in D(n) : T \in D(n + 1) /\ h[T] = f[T]
    BY <1>1, <2>1
  <2>5. \A T \in D(n + 1) : h[T] = Next(h, T)
    BY <2>2, <2>4
  <2> HIDE DEF h
  <2>6. \E e \in [D(n + 1) -> V] : \A T \in D(n + 1) : e[T] = Next(e, T)
    <3> WITNESS h \in [D(n + 1) -> V]
    <3> QED
      BY <2>5
  <2>7. n + 1 \in Nat
    OBVIOUS
  <2> HIDE DEF D, Next
  <2> QED
    BY <2>6, <2>7
<1> HIDE DEF G
<1>6. Cardinality(S) \in G
  <2>1. Nat \subseteq G
    BY <1>4, <1>5, Induction
  <2> QED
    BY <1>1, <2>1
<1>7. PICK f \in [D(Cardinality(S)) -> V] : \A T \in D(Cardinality(S)) : f[T] = Next(f, T)
  BY <1>6 DEF G
<1>8. D(Cardinality(S)) = SUBSET S
  BY <1>1
<1>9. f \in [SUBSET S -> V] /\ \A T \in SUBSET S : f[T] = Next(f, T)
  BY <1>7, <1>8
<1>10. f = [T \in SUBSET S |-> Next(f, T)]
  <2> HIDE DEF Next
  <2> QED
    BY <1>9
<1> QED
  BY <1>9, <1>10 DEF Recursive

-----------------------------------------------------------------------------
\* Sums

\* What the fold under SumFunctionOnSet is a function of.
SumOver(h, f, S) ==
  h = [T \in SUBSET S |-> IF T = {} THEN 0
                          ELSE f[CHOOSE x \in T : TRUE] + h[T \ {CHOOSE x \in T : TRUE}]]

\* Two such functions agree where both are defined.
LEMMA SumUnique ==
  ASSUME NEW S, IsFiniteSet(S), NEW R, NEW f,
         NEW h, SumOver(h, f, S), NEW k, SumOver(k, f, R),
         NEW T \in SUBSET (S \cap R)
  PROVE  h[T] = k[T]
<1> DEFINE G == {U \in SUBSET S : U \subseteq R => h[U] = k[U]}
<1>1. ASSUME NEW U \in SUBSET S, \A W \in SUBSET U : W # U => W \in G PROVE U \in G
  <2> SUFFICES ASSUME U \subseteq R PROVE h[U] = k[U]
    BY <1>1
  <2> DEFINE c == CHOOSE x \in U : TRUE
  <2>1. /\ h[U] = IF U = {} THEN 0 ELSE f[c] + h[U \ {c}]
        /\ k[U] = IF U = {} THEN 0 ELSE f[c] + k[U \ {c}]
    BY DEF SumOver
  <2>2. U # {} => c \in U
    OBVIOUS
  <2> HIDE DEF c
  <2>3. U # {} => h[U \ {c}] = k[U \ {c}]
    BY <1>1, <2>2
  <2> QED
    BY <2>1, <2>3
<1> HIDE DEF G
<1>2. SUBSET S \subseteq G
  BY <1>1, SetInduction
<1> QED
  BY <1>2 DEF G

\* There is one, so the fold is one.
LEMMA SumDefined ==
  ASSUME NEW S, IsFiniteSet(S), NEW f, \A x \in S : f[x] \in Nat
  PROVE  \E h \in [SUBSET S -> Nat] : SumOver(h, f, S) /\ SumFunctionOnSet(f, S) = h[S]
<1> DEFINE ch == [T \in SUBSET S |-> CHOOSE x \in T : TRUE]
           g  == [p \in S \X Nat |-> f[p[1]] + p[2]]
<1>1. \A T \in SUBSET S : T # {} => ch[T] \in T
  OBVIOUS
<1>2. g \in [S \X Nat -> Nat]
  OBVIOUS
<1>3. \A x \in S, n \in Nat : g[<<x, n>>] = f[x] + n
  OBVIOUS
<1>4. \A T \in SUBSET S : ch[T] = CHOOSE x \in T : TRUE
  OBVIOUS
<1> HIDE DEF ch, g
<1>5. PICK h \in [SUBSET S -> Nat] : Recursive(h, S, 0, ch, g)
  BY <1>1, <1>2, RecursionExists
<1>6. h = [T \in SUBSET S |-> IF T = {} THEN 0 ELSE g[<<ch[T], h[T \ {ch[T]}]>>]]
  BY <1>5 DEF Recursive
<1>7. ASSUME NEW T \in SUBSET S, T # {}
      PROVE  g[<<ch[T], h[T \ {ch[T]}]>>] = f[CHOOSE x \in T : TRUE] + h[T \ {CHOOSE x \in T : TRUE}]
  <2>1. ch[T] \in S /\ h[T \ {ch[T]}] \in Nat
    BY <1>1, <1>5, <1>7
  <2> QED
    BY <1>3, <1>4, <2>1
<1>8. SumOver(h, f, S)
  BY <1>6, <1>7 DEF SumOver
<1>9. SumOver(CHOOSE k : SumOver(k, f, S), f, S)
  BY <1>8
<1>10. (CHOOSE k : SumOver(k, f, S))[S] = h[S]
  BY <1>8, <1>9, SumUnique
<1>11. SumFunctionOnSet(f, S) = (CHOOSE k : SumOver(k, f, S))[S]
  BY DEF SumFunctionOnSet, FoldFunctionOnSet, MapThenFoldSet, SumOver
<1> QED
  BY <1>8, <1>10, <1>11

\* The sum of nothing is 0, that of a set is the value of one of its elements
\* and the sum of the others.
LEMMA SumStep ==
  ASSUME NEW S, IsFiniteSet(S), NEW f, \A x \in S : f[x] \in Nat
  PROVE  /\ SumFunctionOnSet(f, S) \in Nat
         /\ S = {} => SumFunctionOnSet(f, S) = 0
         /\ S # {} => \E c \in S : SumFunctionOnSet(f, S) = f[c] + SumFunctionOnSet(f, S \ {c})
<1>1. PICK h \in [SUBSET S -> Nat] : SumOver(h, f, S) /\ SumFunctionOnSet(f, S) = h[S]
  BY SumDefined
<1> DEFINE c == CHOOSE x \in S : TRUE
<1>2. h[S] \in Nat /\ h[S] = IF S = {} THEN 0 ELSE f[c] + h[S \ {c}]
  BY <1>1 DEF SumOver
<1>3. S # {} => c \in S
  OBVIOUS
<1> HIDE DEF c
<1>4. ASSUME S # {} PROVE h[S \ {c}] = SumFunctionOnSet(f, S \ {c})
  <2> DEFINE R == S \ {c}
  <2>1. IsFiniteSet(R) /\ \A x \in R : f[x] \in Nat
    BY FS_Subset
  <2>2. R \in SUBSET (S \cap R)
    OBVIOUS
  <2> HIDE DEF R
  <2>3. PICK k \in [SUBSET R -> Nat] : SumOver(k, f, R) /\ SumFunctionOnSet(f, R) = k[R]
    BY <2>1, SumDefined
  <2>4. h[R] = k[R]
    BY <1>1, <2>2, <2>3, SumUnique
  <2> QED
    BY <2>3, <2>4 DEF R
<1> QED
  BY <1>1, <1>2, <1>3, <1>4

\* Any element can be the one that is taken out.
LEMMA SumTakeOut ==
  ASSUME NEW S, IsFiniteSet(S), NEW f, \A x \in S : f[x] \in Nat, NEW x \in S
  PROVE  SumFunctionOnSet(f, S) = f[x] + SumFunctionOnSet(f, S \ {x})
<1> DEFINE Sum(T) == SumFunctionOnSet(f, T)
           G == {T \in SUBSET S : \A y \in T : Sum(T) = f[y] + Sum(T \ {y})}
<1>1. \A T \in SUBSET S : IsFiniteSet(T) /\ \A y \in T : f[y] \in Nat
  BY FS_Subset
<1>2. \A T \in SUBSET S : Sum(T) \in Nat /\ (T # {} => \E c \in T : Sum(T) = f[c] + Sum(T \ {c}))
  <2> SUFFICES ASSUME NEW T \in SUBSET S
               PROVE  Sum(T) \in Nat /\ (T # {} => \E c \in T : Sum(T) = f[c] + Sum(T \ {c}))
    OBVIOUS
  <2>1. IsFiniteSet(T) /\ \A y \in T : f[y] \in Nat
    BY <1>1
  <2> QED
    BY <2>1, SumStep
<1> HIDE DEF Sum
<1>3. ASSUME NEW T \in SUBSET S, \A U \in SUBSET T : U # T => U \in G PROVE T \in G
  <2> SUFFICES ASSUME NEW y \in T PROVE Sum(T) = f[y] + Sum(T \ {y})
    OBVIOUS
  <2>1. PICK c \in T : Sum(T) = f[c] + Sum(T \ {c})
    BY <1>2
  <2>2. CASE c = y
    BY <2>1, <2>2
  <2>3. CASE c # y
    <3>1. Sum(T \ {c}) = f[y] + Sum((T \ {c}) \ {y})
      BY <1>3, <2>3
    <3>2. Sum(T \ {y}) = f[c] + Sum((T \ {y}) \ {c})
      BY <1>3, <2>3
    <3>3. (T \ {c}) \ {y} = (T \ {y}) \ {c}
      OBVIOUS
    <3>4. f[c] \in Nat /\ f[y] \in Nat /\ Sum((T \ {y}) \ {c}) \in Nat
      BY <1>1, <1>2
    <3> QED
      BY <2>1, <3>1, <3>2, <3>3, <3>4
  <2> QED
    BY <2>2, <2>3
<1> HIDE DEF G
<1>4. SUBSET S \subseteq G
  BY <1>3, SetInduction
<1> QED
  BY <1>4 DEF G, Sum

\* The sum of two sets that share nothing.
LEMMA SumSplit ==
  ASSUME NEW S, IsFiniteSet(S), NEW f, \A x \in S : f[x] \in Nat,
         NEW A \in SUBSET S
  PROVE  SumFunctionOnSet(f, S) = SumFunctionOnSet(f, A) + SumFunctionOnSet(f, S \ A)
<1> DEFINE Sum(T) == SumFunctionOnSet(f, T)
           G == {T \in SUBSET A : Sum(T \cup (S \ A)) = Sum(T) + Sum(S \ A)}
<1>1. \A T \in SUBSET S : IsFiniteSet(T) /\ \A y \in T : f[y] \in Nat
  BY FS_Subset
<1>2. \A T \in SUBSET S : Sum(T) \in Nat /\ (T = {} => Sum(T) = 0)
  <2> SUFFICES ASSUME NEW T \in SUBSET S PROVE Sum(T) \in Nat /\ (T = {} => Sum(T) = 0)
    OBVIOUS
  <2>1. IsFiniteSet(T) /\ \A y \in T : f[y] \in Nat
    BY <1>1
  <2> QED
    BY <2>1, SumStep
<1>3. \A T \in SUBSET S : \A y \in T : Sum(T) = f[y] + Sum(T \ {y})
  <2> SUFFICES ASSUME NEW T \in SUBSET S, NEW y \in T PROVE Sum(T) = f[y] + Sum(T \ {y})
    OBVIOUS
  <2>1. IsFiniteSet(T) /\ \A z \in T : f[z] \in Nat
    BY <1>1
  <2> QED
    BY <2>1, SumTakeOut
<1> HIDE DEF Sum
<1>4. ASSUME NEW T \in SUBSET A, \A U \in SUBSET T : U # T => U \in G PROVE T \in G
  <2>1. CASE T = {}
    <3>1. Sum({}) = 0 /\ Sum(S \ A) \in Nat /\ {} \cup (S \ A) = S \ A
      BY <1>2
    <3> QED
      BY <2>1, <3>1
  <2>2. CASE T # {}
    <3>1. PICK y \in T : TRUE
      BY <2>2
    <3>2. Sum((T \ {y}) \cup (S \ A)) = Sum(T \ {y}) + Sum(S \ A)
      BY <1>4, <3>1
    <3>3. Sum(T) = f[y] + Sum(T \ {y})
      BY <1>3, <3>1
    <3> DEFINE B == T \cup (S \ A)
    <3>4. B \in SUBSET S /\ y \in B /\ B \ {y} = (T \ {y}) \cup (S \ A)
      BY <3>1
    <3> HIDE DEF B
    <3>5. Sum(B) = f[y] + Sum(B \ {y})
      BY <1>3, <3>4
    <3>6. f[y] \in Nat /\ Sum(T \ {y}) \in Nat /\ Sum(S \ A) \in Nat
      BY <1>1, <1>2, <3>1
    <3>7. Sum(B) = Sum(T) + Sum(S \ A)
      BY <3>2, <3>3, <3>4, <3>5, <3>6
    <3> QED
      BY <3>7 DEF B
  <2> QED
    BY <2>1, <2>2
<1>5. IsFiniteSet(A)
  BY FS_Subset
<1> HIDE DEF G
<1>6. SUBSET A \subseteq G
  BY <1>4, <1>5, SetInduction
<1>7. A \cup (S \ A) = S
  OBVIOUS
<1> QED
  BY <1>6, <1>7 DEF G, Sum

\* The sum of fewer elements is not larger.
LEMMA SumMonotone ==
  ASSUME NEW S, IsFiniteSet(S), NEW f, \A x \in S : f[x] \in Nat,
         NEW A \in SUBSET S
  PROVE  SumFunctionOnSet(f, A) <= SumFunctionOnSet(f, S)
<1> DEFINE B == S \ A
<1>1. /\ IsFiniteSet(A) /\ \A x \in A : f[x] \in Nat
      /\ IsFiniteSet(B) /\ \A x \in B : f[x] \in Nat
  BY FS_Subset
<1>2. SumFunctionOnSet(f, S) = SumFunctionOnSet(f, A) + SumFunctionOnSet(f, B)
  BY SumSplit
<1> HIDE DEF B
<1>3. SumFunctionOnSet(f, A) \in Nat
  BY <1>1, SumStep
<1>4. SumFunctionOnSet(f, B) \in Nat
  BY <1>1, SumStep
<1> QED
  BY <1>2, <1>3, <1>4

\* Only the values on the set matter.
LEMMA SumSame ==
  ASSUME NEW S, IsFiniteSet(S), NEW f, \A x \in S : f[x] \in Nat,
         NEW g, \A x \in S : g[x] = f[x]
  PROVE  SumFunctionOnSet(g, S) = SumFunctionOnSet(f, S)
<1> DEFINE G == {T \in SUBSET S : SumFunctionOnSet(g, T) = SumFunctionOnSet(f, T)}
<1>1. ASSUME NEW T \in SUBSET S, \A U \in SUBSET T : U # T => U \in G PROVE T \in G
  <2>1. IsFiniteSet(T) /\ \A x \in T : f[x] \in Nat /\ g[x] \in Nat /\ g[x] = f[x]
    BY FS_Subset
  <2>2. CASE T = {}
    <3>1. SumFunctionOnSet(g, T) = 0
      BY <2>1, <2>2, SumStep
    <3>2. SumFunctionOnSet(f, T) = 0
      BY <2>1, <2>2, SumStep
    <3> QED
      BY <3>1, <3>2
  <2>3. CASE T # {}
    <3>1. PICK c \in T : TRUE
      BY <2>3
    <3>2. SumFunctionOnSet(g, T) = g[c] + SumFunctionOnSet(g, T \ {c})
      BY <2>1, SumTakeOut
    <3>3. SumFunctionOnSet(f, T) = f[c] + SumFunctionOnSet(f, T \ {c})
      BY <2>1, SumTakeOut
    <3>4. SumFunctionOnSet(g, T \ {c}) = SumFunctionOnSet(f, T \ {c})
      BY <1>1, <3>1
    <3> QED
      BY <2>1, <3>2, <3>3, <3>4
  <2> QED
    BY <2>2, <2>3
<1> HIDE DEF G
<1>2. SUBSET S \subseteq G
  BY <1>1, SetInduction
<1> QED
  BY <1>2 DEF G

-----------------------------------------------------------------------------
\* What is left of a sequence

\* Some numbers have a least one.
LEMMA LeastExists ==
  ASSUME NEW U \in SUBSET Nat, U # {}
  PROVE  \E u \in U : \A v \in U : u <= v
<1>1. \A x, y \in Nat : <<y, x>> \in OpToRel(<, Nat) <=> y < x
  BY DEF OpToRel
<1>2. IsWellFoundedOn(OpToRel(<, Nat), Nat)
  BY NatLessThanWellFounded
<1>3. PICK u \in U : \A v \in U : ~(<<v, u>> \in OpToRel(<, Nat))
  BY <1>2, WFMin
<1>4. \A v \in U : ~(v < u) /\ v \in Nat /\ u \in Nat
  BY <1>1, <1>3
<1> QED
  BY <1>4

\* FoldLeft takes the last element out first: the maximum of its index set.
LEMMA MaxExists ==
  ASSUME NEW n \in Nat, NEW T \in SUBSET (1 .. n), T # {}
  PROVE  Max(T) \in T /\ \A x \in T : x <= Max(T)
<1> DEFINE U == {n - x : x \in T}
<1>1. U \subseteq Nat /\ U # {}
  <2>1. \A x \in T : n - x \in Nat
    OBVIOUS
  <2>2. PICK x \in T : TRUE
    OBVIOUS
  <2>3. n - x \in U
    BY <2>2
  <2> QED
    BY <2>1, <2>3
<1>3. \E u \in U : \A v \in U : u <= v
  <2> HIDE DEF U
  <2> QED
    BY <1>1, LeastExists
<1>4. PICK x \in T : \A y \in T : y <= x
  <2>1. PICK x \in T : \A v \in U : n - x <= v
    BY <1>3
  <2>2. \A y \in T : n - x <= n - y
    BY <2>1
  <2>3. \A y \in T : y <= x
    BY <2>2
  <2> QED
    BY <2>3
<1> HIDE DEF U
<1>5. \E z \in T : \A y \in T : z >= y
  BY <1>4
<1> QED
  BY <1>5 DEF Max

\* The elements of q that are not in D, in their order.
Left(q, D) == FoldLeft(LAMBDA kept, d : IF d \in D THEN kept ELSE Append(kept, d), <<>>, q)

\* What that fold is a function of.
LeftOver(h, q, D) ==
  h = [T \in SUBSET DOMAIN q |->
         IF T = {} THEN <<>>
         ELSE IF q[Max(T)] \in D THEN h[T \ {Max(T)}]
         ELSE Append(h[T \ {Max(T)}], q[Max(T)])]

\* There is one.
LEMMA LeftDefined ==
  ASSUME NEW S, NEW q \in Seq(S), NEW D
  PROVE  \E h \in [SUBSET (1 .. Len(q)) -> Seq(S)] : LeftOver(h, q, D) /\ Left(q, D) = h[1 .. Len(q)]
<1> DEFINE I  == 1 .. Len(q)
           ch == [T \in SUBSET I |-> Max(T)]
           g  == [p \in I \X Seq(S) |-> IF q[p[1]] \in D THEN p[2] ELSE Append(p[2], q[p[1]])]
<1>1. DOMAIN q = I /\ Len(q) \in Nat /\ \A i \in I : q[i] \in S
  BY LenProperties, ElementOfSeq
<1>2. IsFiniteSet(I)
  BY <1>1, FS_Interval
<1>3. \A T \in SUBSET I : T # {} => ch[T] \in T
  BY <1>1, MaxExists
<1>4. g \in [I \X Seq(S) -> Seq(S)]
  <2>1. ASSUME NEW i \in I, NEW r \in Seq(S) PROVE Append(r, q[i]) \in Seq(S)
    BY <1>1, AppendProperties
  <2> QED
    BY <2>1
<1>5. \A i \in I, r \in Seq(S) : g[<<i, r>>] = IF q[i] \in D THEN r ELSE Append(r, q[i])
  OBVIOUS
<1>6. \A T \in SUBSET I : ch[T] = Max(T)
  OBVIOUS
<1>7. <<>> \in Seq(S)
  BY EmptySeq
<1> HIDE DEF ch, g, I
<1>8. PICK h \in [SUBSET I -> Seq(S)] : Recursive(h, I, <<>>, ch, g)
  BY <1>2, <1>3, <1>4, <1>7, RecursionExists
<1>9. h = [T \in SUBSET I |-> IF T = {} THEN <<>> ELSE g[<<ch[T], h[T \ {ch[T]}]>>]]
  BY <1>8 DEF Recursive
<1>10. ASSUME NEW T \in SUBSET I, T # {}
       PROVE  g[<<ch[T], h[T \ {ch[T]}]>>] = IF q[Max(T)] \in D THEN h[T \ {Max(T)}]
                                             ELSE Append(h[T \ {Max(T)}], q[Max(T)])
  <2>1. ch[T] \in I /\ h[T \ {ch[T]}] \in Seq(S)
    BY <1>3, <1>8, <1>10
  <2> QED
    BY <1>5, <1>6, <2>1
<1>11. LeftOver(h, q, D)
  BY <1>1, <1>9, <1>10 DEF LeftOver
<1>12. LeftOver(CHOOSE k : LeftOver(k, q, D), q, D)
  BY <1>11
<1>13. ASSUME NEW k, LeftOver(k, q, D) PROVE k[I] = h[I]
  <2> DEFINE G == {T \in SUBSET I : k[T] = h[T]}
  <2>1. ASSUME NEW T \in SUBSET I, \A U \in SUBSET T : U # T => U \in G PROVE T \in G
    <3>1. /\ k[T] = IF T = {} THEN <<>>
                    ELSE IF q[Max(T)] \in D THEN k[T \ {Max(T)}] ELSE Append(k[T \ {Max(T)}], q[Max(T)])
          /\ h[T] = IF T = {} THEN <<>>
                    ELSE IF q[Max(T)] \in D THEN h[T \ {Max(T)}] ELSE Append(h[T \ {Max(T)}], q[Max(T)])
      BY <1>1, <1>11, <1>13 DEF LeftOver
    <3>2. T # {} => k[T \ {Max(T)}] = h[T \ {Max(T)}]
      BY <1>3, <1>6, <2>1
    <3> QED
      BY <3>1, <3>2
  <2> HIDE DEF G
  <2>2. SUBSET I \subseteq G
    BY <1>2, <2>1, SetInduction
  <2> QED
    BY <2>2 DEF G
<1>14. (CHOOSE k : LeftOver(k, q, D))[I] = h[I]
  BY <1>12, <1>13
<1>15. Left(q, D) = (CHOOSE k : LeftOver(k, q, D))[I]
  BY <1>1 DEF Left, FoldLeft, MapThenFoldSet, LeftOver
<1> QED
  BY <1>8, <1>11, <1>14, <1>15 DEF I

\* A longer sequence has one more element, and is injective if that is new.
LEMMA AppendedSet ==
  ASSUME NEW S, NEW r \in Seq(S), NEW e \in S
  PROVE  /\ ToSet(Append(r, e)) = ToSet(r) \cup {e}
         /\ IsInjective(r) /\ e \notin ToSet(r) => IsInjective(Append(r, e))
<1> DEFINE a == Append(r, e)
<1>1. /\ a \in Seq(S) /\ Len(a) = Len(r) + 1 /\ a[Len(r) + 1] = e
      /\ \A i \in 1 .. Len(r) : a[i] = r[i]
  BY AppendProperties
<1> HIDE DEF a
<1>2. /\ DOMAIN r = 1 .. Len(r) /\ Len(r) \in Nat /\ DOMAIN a = 1 .. Len(r) + 1
      /\ \A i \in DOMAIN a : i \in DOMAIN r \/ i = Len(r) + 1
      /\ \A i \in DOMAIN r : i \in DOMAIN a /\ i # Len(r) + 1
      /\ Len(r) + 1 \in DOMAIN a
  BY <1>1, LenProperties
<1>3. ToSet(a) = ToSet(r) \cup {e}
  BY <1>1, <1>2 DEF ToSet
<1>4. ASSUME IsInjective(r), e \notin ToSet(r) PROVE IsInjective(a)
  <2> SUFFICES ASSUME NEW i \in DOMAIN a, NEW k \in DOMAIN a, a[i] = a[k] PROVE i = k
    BY DEF IsInjective
  <2>1. \A l \in DOMAIN r : a[l] = r[l] /\ a[l] # e
    BY <1>1, <1>2, <1>4 DEF ToSet
  <2>2. CASE i \in DOMAIN r /\ k \in DOMAIN r
    BY <1>4, <2>1, <2>2 DEF IsInjective
  <2>3. CASE ~(i \in DOMAIN r /\ k \in DOMAIN r)
    BY <1>1, <1>2, <2>1, <2>3
  <2> QED
    BY <2>2, <2>3
<1> QED
  BY <1>3, <1>4 DEF a

\* What is left has the other elements, each as often as before.
LEMMA LeftHas ==
  ASSUME NEW S, NEW q \in Seq(S), NEW D
  PROVE  /\ Left(q, D) \in Seq(S) /\ ToSet(Left(q, D)) = ToSet(q) \ D
         /\ IsInjective(q) => IsInjective(Left(q, D))
<1>1. PICK h \in [SUBSET (1 .. Len(q)) -> Seq(S)] :
        LeftOver(h, q, D) /\ Left(q, D) = h[1 .. Len(q)]
  BY LeftDefined
<1>2. DOMAIN q = 1 .. Len(q) /\ Len(q) \in Nat /\ \A i \in 1 .. Len(q) : q[i] \in S
  BY LenProperties, ElementOfSeq
<1> DEFINE Taken(n) == {q[i] : i \in 1 .. n} \ D
           G == {n \in Nat : n <= Len(q) =>
                   /\ ToSet(h[1 .. n]) = Taken(n)
                   /\ IsInjective(q) => IsInjective(h[1 .. n])}
<1>3. 0 \in G
  <2>1. h[1 .. 0] = <<>>
    <3>1. 1 .. 0 = {} /\ {} \in SUBSET DOMAIN q
      OBVIOUS
    <3> QED
      BY <1>1, <3>1 DEF LeftOver
  <2>2. ToSet(<<>>) = {} /\ IsInjective(<<>>) /\ Taken(0) = {}
    BY DEF ToSet, IsInjective
  <2> QED
    BY <2>1, <2>2
<1>4. ASSUME NEW n \in Nat, n \in G PROVE n + 1 \in G
  <2> DEFINE m == n + 1
  <2> SUFFICES ASSUME m <= Len(q)
               PROVE  /\ ToSet(h[1 .. m]) = Taken(m)
                      /\ IsInjective(q) => IsInjective(h[1 .. m])
    OBVIOUS
  <2>1. /\ n <= Len(q) /\ m \in 1 .. Len(q) /\ m \in Nat /\ q[m] \in S
        /\ 1 .. m \in SUBSET (1 .. Len(q)) /\ 1 .. n \in SUBSET (1 .. Len(q))
        /\ (1 .. m) \ {m} = 1 .. n /\ 1 .. m # {} /\ 1 .. m = (1 .. n) \cup {m}
        /\ m \notin 1 .. n
    <3>1. n <= Len(q) /\ m \in 1 .. Len(q) /\ m \in Nat /\ m \notin 1 .. n /\ m \in 1 .. m
      BY <1>2
    <3>2. 1 .. m \in SUBSET (1 .. Len(q)) /\ 1 .. n \in SUBSET (1 .. Len(q))
      BY <1>2, <3>1
    <3>3. \A x \in Int : x \in 1 .. m <=> x \in 1 .. n \/ x = m
      OBVIOUS
    <3>4. 1 .. m = (1 .. n) \cup {m}
      BY <3>1, <3>3
    <3> HIDE DEF m
    <3> QED
      BY <1>2, <3>1, <3>2, <3>4
  <2>2. Max(1 .. m) = m
    <3>1. Max(1 .. m) \in 1 .. m /\ \A x \in 1 .. m : x <= Max(1 .. m)
      BY <2>1, MaxExists
    <3> QED
      BY <2>1, <3>1
  <2>3. h[1 .. m] = IF q[m] \in D THEN h[1 .. n] ELSE Append(h[1 .. n], q[m])
    BY <1>1, <1>2, <2>1, <2>2 DEF LeftOver
  <2>4. /\ ToSet(h[1 .. n]) = Taken(n)
        /\ IsInjective(q) => IsInjective(h[1 .. n])
        /\ h[1 .. n] \in Seq(S)
    BY <1>1, <1>4, <2>1
  <2>5. Taken(m) = IF q[m] \in D THEN Taken(n) ELSE Taken(n) \cup {q[m]}
    BY <2>1
  <2> DEFINE r == h[1 .. n]
             e == q[m]
  <2>6. ToSet(Append(r, e)) = ToSet(r) \cup {e}
    <3>1. r \in Seq(S) /\ e \in S
      BY <2>1, <2>4
    <3> HIDE DEF r, e
    <3> QED
      BY <3>1, AppendedSet
  <2>7. IsInjective(r) /\ e \notin ToSet(r) => IsInjective(Append(r, e))
    <3>1. r \in Seq(S) /\ e \in S
      BY <2>1, <2>4
    <3> HIDE DEF r, e
    <3> QED
      BY <3>1, AppendedSet
  <2>8. IsInjective(q) => e \notin Taken(n)
    BY <1>2, <2>1 DEF IsInjective
  <2> HIDE DEF m, Taken
  <2> QED
    BY <2>3, <2>4, <2>5, <2>6, <2>7, <2>8
<1> HIDE DEF G
<1>5. Len(q) \in G
  BY <1>2, <1>3, <1>4, Induction
<1>6. /\ ToSet(h[1 .. Len(q)]) = Taken(Len(q))
      /\ IsInjective(q) => IsInjective(h[1 .. Len(q)])
  BY <1>2, <1>5 DEF G
<1>7. Taken(Len(q)) = ToSet(q) \ D
  BY <1>2 DEF ToSet
<1>8. h[1 .. Len(q)] \in Seq(S)
  BY <1>1
<1> QED
  BY <1>1, <1>6, <1>7, <1>8
-----------------------------------------------------------------------------
\* FoldLeft over a sequence

\* h follows g, from base on, over the index sets of q.
Folding(h, q, base, g) ==
  h = [T \in SUBSET DOMAIN q |->
         IF T = {} THEN base ELSE g[<<h[T \ {Max(T)}], q[Max(T)]>>]]

\* There is a function that follows g.
LEMMA FoldExists ==
  ASSUME NEW E, NEW q \in Seq(E), NEW V, NEW base \in V, NEW g \in [V \X E -> V]
  PROVE  \E h \in [SUBSET DOMAIN q -> V] : Folding(h, q, base, g)
<1> DEFINE I  == 1 .. Len(q)
           ch == [T \in SUBSET I |-> Max(T)]
           f  == [p \in I \X V |-> g[<<p[2], q[p[1]]>>]]
<1>1. DOMAIN q = I /\ Len(q) \in Nat /\ \A i \in I : q[i] \in E
  BY LenProperties, ElementOfSeq
<1>2. IsFiniteSet(I)
  BY <1>1, FS_Interval
<1>3. \A T \in SUBSET I : T # {} => ch[T] \in T
  BY <1>1, MaxExists
<1>4. f \in [I \X V -> V]
  BY <1>1
<1>5. \A i \in I, v \in V : f[<<i, v>>] = g[<<v, q[i]>>]
  OBVIOUS
<1>6. \A T \in SUBSET I : ch[T] = Max(T)
  OBVIOUS
<1> HIDE DEF ch, f, I
<1>7. PICK h \in [SUBSET I -> V] : Recursive(h, I, base, ch, f)
  BY <1>2, <1>3, <1>4, RecursionExists
<1>8. h = [T \in SUBSET I |-> IF T = {} THEN base ELSE f[<<ch[T], h[T \ {ch[T]}]>>]]
  BY <1>7 DEF Recursive
<1>9. ASSUME NEW T \in SUBSET I, T # {}
      PROVE  f[<<ch[T], h[T \ {ch[T]}]>>] = g[<<h[T \ {Max(T)}], q[Max(T)]>>]
  <2>1. ch[T] \in I /\ h[T \ {ch[T]}] \in V
    BY <1>3, <1>7, <1>9
  <2> QED
    BY <1>5, <1>6, <2>1
<1>10. Folding(h, q, base, g)
  BY <1>1, <1>8, <1>9 DEF Folding
<1> QED
  BY <1>1, <1>7, <1>10

\* A function k that begins with base and goes on as g does, wherever g is
\* defined, passes through V, one element of q at a time.
Follows(k, q, V, base, g) ==
  /\ k[{}] = base
  /\ \A T \in SUBSET DOMAIN q : T # {} /\ k[T \ {Max(T)}] \in V =>
       k[T] = g[<<k[T \ {Max(T)}], q[Max(T)]>>]

FoldRun(r, q, base, g, result) ==
  /\ r[0] = base /\ r[Len(q)] = result
  /\ \A n \in 1 .. Len(q) : r[n] = g[<<r[n - 1], q[n]>>]

LEMMA FoldSteps ==
  ASSUME NEW E, NEW q \in Seq(E), NEW V, NEW base \in V, NEW g \in [V \X E -> V], NEW k,
         Follows(k, q, V, base, g)
  PROVE  \E r \in [0 .. Len(q) -> V] : FoldRun(r, q, base, g, k[DOMAIN q])
<1> USE DEF Follows
<1>1. DOMAIN q = 1 .. Len(q) /\ Len(q) \in Nat /\ \A i \in 1 .. Len(q) : q[i] \in E
  BY LenProperties, ElementOfSeq
<1> DEFINE G == {n \in Nat : n <= Len(q) => k[1 .. n] \in V}
<1>2. 1 .. 0 = {}
  OBVIOUS
<1>3. ASSUME NEW n \in 1 .. Len(q), k[1 .. n - 1] \in V
      PROVE  k[1 .. n] = g[<<k[1 .. n - 1], q[n]>>] /\ k[1 .. n] \in V
  <2>1. 1 .. n \in SUBSET DOMAIN q /\ n \in 1 .. n
    BY <1>1
  <2>2. Max(1 .. n) = n
    <3>1. Max(1 .. n) \in 1 .. n /\ \A x \in 1 .. n : x <= Max(1 .. n)
      <4>1. n \in Nat
        BY <1>1
      <4>2. 1 .. n \in SUBSET (1 .. n) /\ 1 .. n # {}
        BY <2>1
      <4> QED
        BY <4>1, <4>2, MaxExists
    <3> QED
      BY <2>1, <3>1
  <2>3. (1 .. n) \ {n} = 1 .. n - 1
    BY <1>1
  <2>4. k[1 .. n] = g[<<k[1 .. n - 1], q[n]>>]
    BY <1>3, <2>1, <2>2, <2>3
  <2>5. <<k[1 .. n - 1], q[n]>> \in V \X E
    BY <1>1, <1>3
  <2> QED
    BY <2>4, <2>5
<1>4. 0 \in G
  BY <1>2
<1>5. ASSUME NEW n \in Nat, n \in G PROVE n + 1 \in G
  <2> SUFFICES ASSUME n + 1 <= Len(q) PROVE k[1 .. n + 1] \in V
    OBVIOUS
  <2>1. n + 1 \in 1 .. Len(q) /\ (n + 1) - 1 = n /\ n <= Len(q)
    BY <1>1
  <2>2. k[1 .. (n + 1) - 1] \in V
    BY <1>5, <2>1
  <2> QED
    BY <1>3, <2>1, <2>2
<1>6. Nat \subseteq G
  <2> HIDE DEF G
  <2> QED
    BY <1>4, <1>5, Induction
<1>7. \A n \in 0 .. Len(q) : k[1 .. n] \in V
  BY <1>1, <1>6
<1> DEFINE r == [n \in 0 .. Len(q) |-> k[1 .. n]]
<1>8. r \in [0 .. Len(q) -> V]
  BY <1>7
<1>9. \A n \in 1 .. Len(q) : n \in 0 .. Len(q) /\ n - 1 \in 0 .. Len(q)
  BY <1>1
<1>10. \A n \in 1 .. Len(q) : r[n] = g[<<r[n - 1], q[n]>>]
  BY <1>3, <1>7, <1>9
<1>11. r[0] = base /\ r[Len(q)] = k[DOMAIN q]
  BY <1>1, <1>2
<1> HIDE DEF r
<1>12. FoldRun(r, q, base, g, k[DOMAIN q])
  BY <1>10, <1>11 DEF FoldRun
<1> QED
  BY <1>8, <1>12
\* The elements that are left, taken one by one.
LeftRun(r, q, D) ==
  /\ r[0] = <<>> /\ r[Len(q)] = Left(q, D)
  /\ \A n \in 1 .. Len(q) : r[n] = IF q[n] \in D THEN r[n - 1] ELSE Append(r[n - 1], q[n])

LEMMA LeftSteps ==
  ASSUME NEW S, NEW q \in Seq(S), NEW D
  PROVE  \E r \in [0 .. Len(q) -> Seq(S)] : LeftRun(r, q, D)
<1> DEFINE g == [p \in Seq(S) \X S |-> IF p[2] \in D THEN p[1] ELSE Append(p[1], p[2])]
<1>1. \A v \in Seq(S), e \in S : g[<<v, e>>] = IF e \in D THEN v ELSE Append(v, e)
  OBVIOUS
<1>2. g \in [Seq(S) \X S -> Seq(S)]
  <2>1. ASSUME NEW v \in Seq(S), NEW e \in S PROVE Append(v, e) \in Seq(S)
    BY AppendProperties
  <2> QED
    BY <2>1
<1>3. <<>> \in Seq(S)
  BY EmptySeq
<1>4. DOMAIN q = 1 .. Len(q) /\ Len(q) \in Nat /\ \A i \in 1 .. Len(q) : q[i] \in S
  BY LenProperties, ElementOfSeq
<1>5. \A T \in SUBSET DOMAIN q : T # {} => q[Max(T)] \in S
  BY <1>4, MaxExists
<1> HIDE DEF g
<1>6. PICK h \in [SUBSET DOMAIN q -> Seq(S)] : Folding(h, q, <<>>, g)
  BY <1>2, <1>3, FoldExists
<1>7. ASSUME NEW T \in SUBSET DOMAIN q, T # {}
      PROVE  g[<<h[T \ {Max(T)}], q[Max(T)]>>] =
               IF q[Max(T)] \in D THEN h[T \ {Max(T)}] ELSE Append(h[T \ {Max(T)}], q[Max(T)])
  BY <1>1, <1>5, <1>6, <1>7
<1>8. LeftOver(h, q, D)
  BY <1>6, <1>7 DEF Folding, LeftOver
<1> DEFINE k == CHOOSE f : LeftOver(f, q, D)
<1>9. LeftOver(k, q, D) /\ Left(q, D) = k[DOMAIN q]
  BY <1>8 DEF Left, FoldLeft, MapThenFoldSet, LeftOver
<1> HIDE DEF k
<1>10. k[{}] = <<>>
  BY <1>9 DEF LeftOver
<1>11. ASSUME NEW T \in SUBSET DOMAIN q, T # {}, k[T \ {Max(T)}] \in Seq(S)
       PROVE  k[T] = g[<<k[T \ {Max(T)}], q[Max(T)]>>]
  <2>1. k[T] = IF q[Max(T)] \in D THEN k[T \ {Max(T)}] ELSE Append(k[T \ {Max(T)}], q[Max(T)])
    BY <1>9, <1>11 DEF LeftOver
  <2> QED
    BY <1>1, <1>5, <1>11, <2>1
<1>12. Follows(k, q, Seq(S), <<>>, g)
  BY <1>10, <1>11 DEF Follows
<1>13. PICK r \in [0 .. Len(q) -> Seq(S)] : FoldRun(r, q, <<>>, g, k[DOMAIN q])
  BY <1>2, <1>3, <1>12, FoldSteps
<1>14. ASSUME NEW n \in 1 .. Len(q)
       PROVE  r[n] = IF q[n] \in D THEN r[n - 1] ELSE Append(r[n - 1], q[n])
  <2>1. n - 1 \in 0 .. Len(q) /\ q[n] \in S
    BY <1>4
  <2> QED
    BY <1>1, <1>13, <2>1 DEF FoldRun
<1>15. LeftRun(r, q, D)
  BY <1>9, <1>13, <1>14 DEF LeftRun, FoldRun
<1> QED
  BY <1>15

\* What is left is in the order of q: f says where it comes from.
LEMMA LeftOrder ==
  ASSUME NEW S, NEW q \in Seq(S), NEW D
  PROVE  \E f \in [1 .. Len(Left(q, D)) -> 1 .. Len(q)] :
           /\ \A i \in 1 .. Len(Left(q, D)) : Left(q, D)[i] = q[f[i]]
           /\ \A i, k \in 1 .. Len(Left(q, D)) : i < k => f[i] < f[k]
<1>0. PICK r \in [0 .. Len(q) -> Seq(S)] : LeftRun(r, q, D)
  BY LeftSteps
<1>1. /\ r \in [0 .. Len(q) -> Seq(S)]
      /\ r[0] = <<>> /\ r[Len(q)] = Left(q, D)
      /\ \A n \in 1 .. Len(q) :
           r[n] = IF q[n] \in D THEN r[n - 1] ELSE Append(r[n - 1], q[n])
  BY <1>0 DEF LeftRun
<1>2. Len(q) \in Nat /\ \A i \in 1 .. Len(q) : q[i] \in S
  BY LenProperties, ElementOfSeq
<1> DEFINE Orders(f, n) ==
             /\ f \in [1 .. Len(r[n]) -> 1 .. n]
             /\ \A i \in 1 .. Len(r[n]) : r[n][i] = q[f[i]]
             /\ \A i, k \in 1 .. Len(r[n]) : i < k => f[i] < f[k]
           G == {n \in Nat : n <= Len(q) => \E f : Orders(f, n)}
<1>3. 0 \in G
  <2>1. Len(r[0]) = 0
    BY <1>1, EmptySeq
  <2>2. Orders([i \in 1 .. 0 |-> 0], 0)
    BY <2>1
  <2> QED
    BY <2>2
<1>4. ASSUME NEW n \in Nat, n \in G PROVE n + 1 \in G
  <2> DEFINE m == n + 1
  <2> SUFFICES ASSUME m <= Len(q) PROVE \E f : Orders(f, m)
    OBVIOUS
  <2>1. m \in 1 .. Len(q) /\ m - 1 = n /\ n \in 0 .. Len(q) /\ n <= Len(q) /\ n < m /\ m \in Nat
    BY <1>2
  <2>2. PICK f : Orders(f, n)
    BY <1>4, <2>1
  <2>3. r[n] \in Seq(S) /\ q[m] \in S /\ Len(r[n]) \in Nat
    BY <1>1, <1>2, <2>1, LenProperties
  <2>4. r[m] = IF q[m] \in D THEN r[n] ELSE Append(r[n], q[m])
    BY <1>1, <2>1
  <2> HIDE DEF m
  <2>5. CASE q[m] \in D
    <3>1. r[m] = r[n]
      BY <2>4, <2>5
    <3>2. \A x \in 1 .. n : x \in 1 .. m
      BY <2>1
    <3>3. Orders(f, m)
      BY <2>2, <3>1, <3>2
    <3> QED
      BY <3>3
  <2>6. CASE q[m] \notin D
    <3> DEFINE l == Len(r[n])
               e == [i \in 1 .. l + 1 |-> IF i = l + 1 THEN m ELSE f[i]]
    <3>1. /\ Len(r[m]) = l + 1 /\ r[m][l + 1] = q[m]
          /\ \A i \in 1 .. l : r[m][i] = r[n][i]
      BY <2>3, <2>4, <2>6, AppendProperties
    <3>2. \A i \in 1 .. l : f[i] \in 1 .. n /\ f[i] < m /\ f[i] \in 1 .. m
      BY <2>1, <2>2
    <3>3. e \in [1 .. l + 1 -> 1 .. m]
      BY <2>1, <2>3, <3>2
    <3>4. \A i \in 1 .. l : e[i] = f[i] /\ i # l + 1
      BY <2>3
    <3>5. e[l + 1] = m
      BY <2>3
    <3>6. \A i \in 1 .. l + 1 : r[m][i] = q[e[i]]
      BY <2>2, <2>3, <3>1, <3>4, <3>5
    <3>7. \A i, k \in 1 .. l + 1 : i < k => e[i] < e[k]
      <4> SUFFICES ASSUME NEW i \in 1 .. l + 1, NEW k \in 1 .. l + 1, i < k PROVE e[i] < e[k]
        OBVIOUS
      <4> HIDE DEF e, l
      <4>0. l \in Nat
        BY <2>3 DEF l
      <4>1. i \in 1 .. l /\ (k = l + 1 \/ k \in 1 .. l)
        BY <4>0
      <4>2. CASE k = l + 1
        BY <3>2, <3>4, <3>5, <4>1, <4>2
      <4>3. CASE k \in 1 .. l
        BY <2>2, <3>4, <4>1, <4>3 DEF l
      <4> QED
        BY <4>1, <4>2, <4>3
    <3> HIDE DEF e
    <3>8. Orders(e, m)
      BY <3>1, <3>3, <3>6, <3>7
    <3> QED
      BY <3>8
  <2> QED
    BY <2>5, <2>6
<1> HIDE DEF G
<1>5. Len(q) \in G
  BY <1>2, <1>3, <1>4, Induction
<1>6. PICK f : Orders(f, Len(q))
  BY <1>2, <1>5 DEF G
<1> QED
  BY <1>1, <1>6
=============================================================================
