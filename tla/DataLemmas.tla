----------------------------- MODULE DataLemmas -----------------------------
(***************************************************************************)
(* Lemmas about data, for the proofs about the components.  Induction over *)
(* finite sets and numbers, in the form of sets that are closed under a    *)
(* step, and what follows for minima and for sums over finite functions;   *)
(* powers of two and remainders; the port of ObiPort as a queue, element   *)
(* by element; the rest of a program; folds over sequences; numbers made   *)
(* of fields of bits or of digits; what sequences hold, and how often;     *)
(* places one behind the other.                                            *)
(***************************************************************************)
EXTENDS Integers, SequencesExt, FiniteSets, FiniteSetsExt, Functions, FiniteSetTheorems,
        SequenceTheorems, WellFoundedInduction, TLAPS

\* A family that holds the empty set and is closed under adding an element of a finite set
\* holds that set.
LEMMA SetInduction ==
  ASSUME NEW D, IsFiniteSet(D), NEW G, {} \in G,
         \A U \in SUBSET D : \A x \in D \ U : U \in G => U \cup {x} \in G
  PROVE  D \in G
<1> DEFINE Out == (SUBSET D) \ G
<1> SUFFICES ASSUME D \notin G PROVE FALSE
  OBVIOUS
<1>1. Out \subseteq FiniteSubsetsOf(D) /\ Out # {}
  BY FS_FiniteSubsetsOfFinite
<1>2. IsWellFoundedOn(StrictSubsetOrdering(D), FiniteSubsetsOf(D))
  BY FS_StrictSubsetOrderingWellFounded
<1> HIDE DEF Out
<1>3. PICK M \in Out : \A U \in Out : <<U, M>> \notin StrictSubsetOrdering(D)
  BY <1>1, <1>2, WFMin
<1>4. PICK x \in M : TRUE
  BY DEF Out
<1>5. M \ {x} \in G
  <2> SUFFICES ASSUME M \ {x} \notin G PROVE FALSE
    OBVIOUS
  <2>1. M \in SUBSET D /\ (M \ {x}) \in SUBSET D /\ (M \ {x}) \subseteq M /\ (M \ {x}) # M
    BY <1>3, <1>4 DEF Out
  <2>2. <<M \ {x}, M>> \in StrictSubsetOrdering(D)
    BY <2>1 DEF StrictSubsetOrdering
  <2>3. (M \ {x}) \in Out
    BY <2>1 DEF Out
  <2> QED BY <1>3, <2>2, <2>3
<1>6. (M \ {x}) \in SUBSET D /\ x \in D \ (M \ {x}) /\ (M \ {x}) \cup {x} = M
  BY <1>3, <1>4 DEF Out
<1> QED BY <1>3, <1>5, <1>6 DEF Out

LEMMA Interval ==
  ASSUME NEW n \in Nat PROVE IsFiniteSet(1..n) /\ Cardinality(1..n) = n
BY FS_Interval

\* Induction over the natural numbers.
LEMMA NumberInduction ==
  ASSUME NEW G, 0 \in G, \A n \in Nat : n \in G => n + 1 \in G
  PROVE  Nat \subseteq G
<1> SUFFICES ASSUME NEW n \in Nat PROVE n \in G
  OBVIOUS
<1> DEFINE H == {U \in SUBSET (1..n) : Cardinality(U) \in G}
<1>1. IsFiniteSet(1..n) /\ Cardinality(1..n) = n
  BY FS_Interval
<1>2. {} \in H
  BY FS_EmptySet
<1>3. ASSUME NEW U \in SUBSET (1..n), NEW x \in (1..n) \ U, U \in H PROVE U \cup {x} \in H
  <2>1. IsFiniteSet(U) /\ Cardinality(U) \in Nat
    BY <1>1, FS_Subset, FS_CardinalityType
  <2>2. Cardinality(U \cup {x}) = Cardinality(U) + 1
    BY <1>3, <2>1, FS_AddElement
  <2> QED BY <1>3, <2>1, <2>2
<1> HIDE DEF H
<1>4. 1..n \in H
  BY <1>1, <1>2, <1>3, SetInduction
<1> QED BY <1>1, <1>4 DEF H

\* A set of natural numbers that is not empty has a least member.
LEMMA LeastMember ==
  ASSUME NEW S \in SUBSET Nat, S # {}
  PROVE  \E m \in S : \A k \in S : m <= k
<1> SUFFICES ASSUME \A m \in S : \E k \in S : k < m PROVE FALSE
  OBVIOUS
<1> DEFINE G == {n \in Nat : \A m \in S : n <= m}
<1>1. 0 \in G
  OBVIOUS
<1>2. ASSUME NEW n \in Nat, n \in G PROVE n + 1 \in G
  BY <1>2
<1> HIDE DEF G
<1>3. Nat \subseteq G
  BY <1>1, <1>2, NumberInduction
<1>4. PICK m \in S : TRUE
  OBVIOUS
<1>5. m + 1 \in G
  BY <1>3, <1>4
<1> QED BY <1>4, <1>5 DEF G

-----------------------------------------------------------------------------
(* Recursive functions.  The value at x depends on that at pre[x], which   *)
(* has a lower rank; where the recursion ends the value is base[x].        *)

LEMMA RankInduction ==
  ASSUME NEW D, NEW rank \in [D -> Nat], NEW G,
         \A x \in D : (\A y \in D : rank[y] < rank[x] => y \in G) => x \in G
  PROVE  D \subseteq G
<1> DEFINE H == {n \in Nat : \A x \in D : rank[x] < n => x \in G}
<1>1. 0 \in H
  OBVIOUS
<1>2. ASSUME NEW n \in Nat, n \in H PROVE n + 1 \in H
  <2> SUFFICES ASSUME NEW x \in D, rank[x] < n + 1 PROVE x \in G
    OBVIOUS
  <2>1. ASSUME NEW y \in D, rank[y] < rank[x] PROVE y \in G
    <3>1. rank[y] < n
      BY <2>1
    <3> QED BY <1>2, <3>1
  <2> QED BY <2>1
<1> HIDE DEF H
<1>3. Nat \subseteq H
  BY <1>1, <1>2, NumberInduction
<1> SUFFICES ASSUME NEW x \in D PROVE x \in G
  OBVIOUS
<1>4. rank[x] + 1 \in H
  BY <1>3
<1> QED BY <1>4 DEF H

Solves(f, D, End, base, pre, F) ==
  \A x \in D : f[x] = IF x \in End THEN base[x] ELSE F[<<f[pre[x]], x>>]

LEMMA Recursion ==
  ASSUME NEW D, NEW bound \in Nat, NEW rank \in [D -> 0..bound], NEW End, NEW pre,
         \A x \in D \ End : pre[x] \in D /\ rank[pre[x]] < rank[x],
         NEW A, NEW base, \A x \in D \cap End : base[x] \in A,
         NEW F \in [A \X D -> A]
  PROVE  \E f \in [D -> A] : Solves(f, D, End, base, pre, F)
<1> DEFINE Low(n) == {x \in D : rank[x] < n}
           G == {n \in Nat : \E f \in [Low(n) -> A] : Solves(f, Low(n), End, base, pre, F)}
<1>1. 0 \in G
  <2> DEFINE f == [x \in Low(0) |-> base[x]]
  <2>1. Low(0) = {}
    OBVIOUS
  <2>2. f \in [Low(0) -> A] /\ Solves(f, Low(0), End, base, pre, F)
    BY <2>1 DEF Solves
  <2> QED BY <2>2
<1>2. ASSUME NEW n \in Nat, n \in G PROVE n + 1 \in G
  <2>1. PICK f \in [Low(n) -> A] : Solves(f, Low(n), End, base, pre, F)
    BY <1>2
  <2> DEFINE value(x) == IF x \in End THEN base[x] ELSE F[<<f[pre[x]], x>>]
             h == [x \in Low(n+1) |-> value(x)]
  <2>2. ASSUME NEW x \in Low(n+1), x \notin End PROVE pre[x] \in Low(n)
    BY <2>2
  <2>3. ASSUME NEW x \in Low(n+1) PROVE value(x) \in A
    <3>1. CASE x \in End
      BY <3>1
    <3>2. CASE x \notin End
      <4>1. <<f[pre[x]], x>> \in A \X D
        BY <2>2, <3>2
      <4> QED BY <3>2, <4>1
    <3> QED BY <3>1, <3>2
  <2>4. h \in [Low(n+1) -> A]
    BY <2>3
  <2>5. ASSUME NEW x \in Low(n) PROVE x \in Low(n+1) /\ h[x] = f[x]
    <3>1. x \in Low(n+1)
      OBVIOUS
    <3>2. f[x] = value(x)
      BY <2>1 DEF Solves
    <3> QED BY <3>1, <3>2
  <2>6. ASSUME NEW x \in Low(n+1)
        PROVE  h[x] = IF x \in End THEN base[x] ELSE F[<<h[pre[x]], x>>]
    <3>1. CASE x \in End
      BY <3>1
    <3>2. CASE x \notin End
      <4>1. h[pre[x]] = f[pre[x]]
        BY <2>2, <2>5, <3>2
      <4>2. h[x] = F[<<f[pre[x]], x>>]
        BY <3>2
      <4> QED BY <3>2, <4>1, <4>2
    <3> QED BY <3>1, <3>2
  <2> HIDE DEF h, Low
  <2>7. Solves(h, Low(n+1), End, base, pre, F)
    BY <2>6 DEF Solves
  <2> QED BY <2>4, <2>7
<1> HIDE DEF G
<1>3. bound + 1 \in G
  BY <1>1, <1>2, NumberInduction
<1>4. Low(bound + 1) = D
  OBVIOUS
<1> HIDE DEF Low
<1> QED BY <1>3, <1>4 DEF G

LEMMA Subsets ==
  ASSUME NEW D, IsFiniteSet(D)
  PROVE  /\ Cardinality(D) \in Nat
         /\ \A s \in SUBSET D :
              /\ IsFiniteSet(s) /\ Cardinality(s) \in Nat /\ Cardinality(s) <= Cardinality(D)
              /\ \A x \in s : Cardinality(s \ {x}) = Cardinality(s) - 1
<1>1. Cardinality(D) \in Nat
  BY FS_CardinalityType
<1>2. ASSUME NEW s \in SUBSET D
      PROVE  IsFiniteSet(s) /\ Cardinality(s) \in Nat /\ Cardinality(s) <= Cardinality(D)
  BY FS_Subset, FS_CardinalityType
<1>3. ASSUME NEW s \in SUBSET D, NEW x \in s PROVE Cardinality(s \ {x}) = Cardinality(s) - 1
  BY <1>2, FS_RemoveElement
<1> QED BY <1>1, <1>2, <1>3

\* The recursions over finite sets, which take out one element after the other.
SetStep(F, base, pick, g, s) ==
  IF s = {} THEN base ELSE F[<<g[s \ {pick[s]}], pick[s]>>]

Picks(pick, D) == \A s \in SUBSET D : s # {} => pick[s] \in s

SetSolves(g, D, F, base, pick) == \A s \in SUBSET D : g[s] = SetStep(F, base, pick, g, s)

LEMMA SetRecursion ==
  ASSUME NEW D, IsFiniteSet(D), NEW pick, Picks(pick, D),
         NEW A, NEW base \in A, NEW F \in [A \X D -> A]
  PROVE  \E g \in [SUBSET D -> A] : SetSolves(g, D, F, base, pick)
<1> DEFINE S    == SUBSET D
           End  == {{}}
           rank == [s \in S |-> Cardinality(s)]
           pre  == [s \in S |-> s \ {pick[s]}]
           zero == [s \in S |-> base]
           next == [p \in A \X S |-> IF p[2] = {} THEN base ELSE F[<<p[1], pick[p[2]]>>]]
           bound == Cardinality(D)
<1>1. bound \in Nat /\ rank \in [S -> 0..bound]
  <2>1. \A s \in S : Cardinality(s) \in 0..bound
    BY Subsets
  <2> QED BY <2>1, Subsets
<1>2. \A s \in S \ End : pick[s] \in D /\ pre[s] \in S /\ rank[pre[s]] < rank[s]
  <2> SUFFICES ASSUME NEW s \in S, s # {}
               PROVE  pick[s] \in D /\ pre[s] \in S /\ rank[pre[s]] < rank[s]
    OBVIOUS
  <2>1. pick[s] \in s /\ s \ {pick[s]} \in S
    BY DEF Picks
  <2>2. Cardinality(s \ {pick[s]}) = Cardinality(s) - 1 /\ Cardinality(s) \in Nat
    BY <2>1, Subsets
  <2> QED BY <2>1, <2>2
<1>3. next \in [A \X S -> A]
  <2> SUFFICES ASSUME NEW a \in A, NEW s \in S, s # {} PROVE F[<<a, pick[s]>>] \in A
    OBVIOUS
  <2>1. <<a, pick[s]>> \in A \X D
    BY <1>2
  <2> QED BY <2>1
<1>4. \A s \in S \cap End : zero[s] \in A
  OBVIOUS
<1> HIDE DEF rank, pre, zero, next, S, End, bound
<1>5. \E g \in [S -> A] : Solves(g, S, End, zero, pre, next)
  BY <1>1, <1>2, <1>3, <1>4, Recursion
<1>6. PICK g \in [S -> A] : Solves(g, S, End, zero, pre, next)
  BY <1>5
<1>7. ASSUME NEW s \in S PROVE g[s] = SetStep(F, base, pick, g, s)
  <2>1. CASE s = {}
    BY <1>6, <2>1 DEF Solves, SetStep, zero, End
  <2>2. CASE s # {}
    <3>1. g[s] = next[<<g[pre[s]], s>>] /\ g[pre[s]] \in A
      BY <1>2, <1>6, <2>2 DEF Solves, End
    <3> QED BY <2>2, <3>1 DEF SetStep, next, pre
  <2> QED BY <2>1, <2>2
<1> QED BY <1>6, <1>7 DEF S, SetSolves

\* What holds of the empty set, and of a set if it holds of what is left of it, holds.
LEMMA SetStays ==
  ASSUME NEW D, IsFiniteSet(D), NEW pick, Picks(pick, D),
         NEW A, NEW h, h[{}] \in A,
         \A s \in SUBSET D : s # {} /\ h[s \ {pick[s]}] \in A => h[s] \in A
  PROVE  \A s \in SUBSET D : h[s] \in A
<1> DEFINE S    == SUBSET D
           rank == [s \in S |-> Cardinality(s)]
           G    == {s \in S : h[s] \in A}
<1>1. \A s \in S : rank[s] = Cardinality(s) /\ rank[s] \in Nat
  BY Subsets
<1>2. rank \in [S -> Nat]
  BY <1>1
<1>3. ASSUME NEW s \in S, \A t \in S : rank[t] < rank[s] => t \in G PROVE s \in G
  <2>1. CASE s = {}
    BY <2>1
  <2>2. CASE s # {}
    <3>1. pick[s] \in s /\ s \ {pick[s]} \in S
      BY <2>2 DEF Picks
    <3>2. Cardinality(s \ {pick[s]}) = Cardinality(s) - 1
      BY <3>1, Subsets
    <3>3. rank[s \ {pick[s]}] < rank[s]
      <4> DEFINE t == s \ {pick[s]}
      <4>1. rank[s] = Cardinality(s) /\ rank[s] \in Nat
        BY <1>1
      <4>2. rank[t] = Cardinality(t)
        BY <1>1, <3>1
      <4> HIDE DEF rank, t
      <4>3. Cardinality(t) = Cardinality(s) - 1
        BY <3>2 DEF t
      <4>4. rank[t] < rank[s]
        BY <4>1, <4>2, <4>3
      <4> QED BY <4>4 DEF t
    <3>4. s \ {pick[s]} \in G
      BY <1>3, <3>1, <3>3
    <3> QED BY <2>2, <3>4
  <2> QED BY <2>1, <2>2
<1> HIDE DEF rank, G, S
<1>4. S \subseteq G
  BY <1>2, <1>3, RankInduction
<1> QED BY <1>4 DEF G, S

-----------------------------------------------------------------------------
(* Sums over finite functions.                                             *)

\* The recursion behind a sum has a solution on every finite domain, with integer values.
SumStep(F, g, s) == IF s = {} THEN 0
                 ELSE LET x == CHOOSE x \in s : TRUE IN F[x] + g[s \ {x}]

\* Partial sums over the subsets of D.
Sums(g, F, D) == g \in [SUBSET D -> Int] /\ \A s \in SUBSET D : g[s] = SumStep(F, g, s)

LEMMA SumRecursion ==
  ASSUME NEW D, IsFiniteSet(D), NEW F \in [D -> Int]
  PROVE  \E g : Sums(g, F, D)
<1> DEFINE pick == [s \in SUBSET D |-> CHOOSE x \in s : TRUE]
           add  == [p \in Int \X D |-> F[p[2]] + p[1]]
<1>1. Picks(pick, D)
  BY DEF Picks
<1>2. add \in [Int \X D -> Int]
  OBVIOUS
<1> HIDE DEF pick, add
<1>3. \E g \in [SUBSET D -> Int] : SetSolves(g, D, add, 0, pick)
  <2>1. \A A : \A base \in A : \A f \in [A \X D -> A] :
          \E g \in [SUBSET D -> A] : SetSolves(g, D, f, base, pick)
    BY <1>1, SetRecursion
  <2>2. 0 \in Int
    OBVIOUS
  <2> QED BY <1>2, <2>1, <2>2, Zenon
<1>3a. PICK g \in [SUBSET D -> Int] : \A s \in SUBSET D : g[s] = SetStep(add, 0, pick, g, s)
  BY <1>3 DEF SetSolves
<1>4. ASSUME NEW s \in SUBSET D PROVE g[s] = SumStep(F, g, s)
  <2>1. CASE s = {}
    BY <1>3a, <2>1 DEF SetStep, SumStep
  <2>2. CASE s # {}
    <3>1. pick[s] \in D /\ g[s \ {pick[s]}] \in Int
      BY <1>1, <1>3a, <2>2 DEF Picks
    <3>2. g[s] = add[<<g[s \ {pick[s]}], pick[s]>>]
      BY <1>3a, <2>2 DEF SetStep
    <3> QED BY <2>2, <3>1, <3>2 DEF SumStep, add, pick
  <2> QED BY <2>1, <2>2
<1> QED BY <1>3a, <1>4 DEF Sums

\* A sum is the first element plus the sum of the rest; an empty sum is zero.
LEMMA SumSolution ==
  ASSUME NEW D, IsFiniteSet(D), NEW F \in [D -> Int]
  PROVE  \E g \in [SUBSET D -> Int] :
           g = [s \in SUBSET D |-> SumStep(F, g, s)] /\ SumFunction(F) = g[D]
<1> DEFINE P(g) == g = [s \in SUBSET D |-> SumStep(F, g, s)]
           it == CHOOSE g : P(g)
<1>1. P(it)
  <2>1. PICK g : Sums(g, F, D)
    BY SumRecursion
  <2>2. P(g)
    BY <2>1 DEF Sums
  <2> QED BY <2>2
<1>2. SumFunction(F) = it[D]
  BY DEF SumFunction, SumFunctionOnSet, FoldFunctionOnSet, MapThenFoldSet, SumStep
<1> HIDE DEF it
<1> DEFINE G == {n \in Nat : \A s \in SUBSET D : Cardinality(s) = n => it[s] \in Int}
<1>3. \A s \in SUBSET D : IsFiniteSet(s) /\ Cardinality(s) \in Nat
  BY FS_Subset, FS_CardinalityType
<1>4. 0 \in G
  <2> SUFFICES ASSUME NEW s \in SUBSET D, Cardinality(s) = 0 PROVE it[s] \in Int
    OBVIOUS
  <2>1. s = {}
    BY <1>3, FS_EmptySet
  <2> QED BY <1>1, <2>1 DEF SumStep
<1>5. ASSUME NEW n \in Nat, n \in G PROVE n + 1 \in G
  <2> SUFFICES ASSUME NEW s \in SUBSET D, Cardinality(s) = n + 1 PROVE it[s] \in Int
    OBVIOUS
  <2> DEFINE x == CHOOSE x \in s : TRUE
             t == s \ {x}
  <2>1. s # {}
    BY <1>3, FS_EmptySet
  <2>2. x \in s /\ x \in D /\ t \in SUBSET D
    BY <2>1
  <2>3. Cardinality(t) = n
    <3>1. Cardinality(t) = Cardinality(s) - 1
      BY <1>3, <2>2, FS_RemoveElement
    <3> QED BY <3>1
  <2>4. it[t] \in Int
    BY <1>5, <2>2, <2>3
  <2>5. it[s] = F[x] + it[t]
    BY <1>1, <2>1 DEF SumStep
  <2> QED BY <2>2, <2>4, <2>5
<1> HIDE DEF G
<1>6. \A n \in Nat : n \in G
  BY <1>4, <1>5, NumberInduction
<1>7. \A s \in SUBSET D : it[s] \in Int
  BY <1>3, <1>6 DEF G
<1>8. it \in [SUBSET D -> Int]
  BY <1>1, <1>7
<1> QED BY <1>1, <1>2, <1>8

\* The sum of numbers between a and b.
LEMMA SumBound ==
  ASSUME NEW D, IsFiniteSet(D), NEW F \in [D -> Int], NEW a \in Int, NEW b \in Int,
         \A i \in D : a <= F[i] /\ F[i] <= b
  PROVE  /\ SumFunction(F) \in Int
         /\ a * Cardinality(D) <= SumFunction(F)
         /\ SumFunction(F) <= b * Cardinality(D)
<1>1. PICK g \in [SUBSET D -> Int] :
        g = [s \in SUBSET D |-> SumStep(F, g, s)] /\ SumFunction(F) = g[D]
  BY SumSolution
<1> DEFINE Bounded(s, n) == a * n <= g[s] /\ g[s] <= b * n
           G == {n \in Nat : \A s \in SUBSET D : Cardinality(s) = n => Bounded(s, n)}
<1>2. \A s \in SUBSET D : IsFiniteSet(s) /\ Cardinality(s) \in Nat
  BY FS_Subset, FS_CardinalityType
<1>3. 0 \in G
  <2> SUFFICES ASSUME NEW s \in SUBSET D, Cardinality(s) = 0 PROVE Bounded(s, 0)
    OBVIOUS
  <2>1. s = {}
    BY <1>2, FS_EmptySet
  <2>2. g[s] = 0
    BY <1>1, <2>1 DEF SumStep
  <2> QED BY <2>2
<1>4. ASSUME NEW n \in Nat, n \in G PROVE n + 1 \in G
  <2> SUFFICES ASSUME NEW s \in SUBSET D, Cardinality(s) = n + 1 PROVE Bounded(s, n + 1)
    OBVIOUS
  <2> DEFINE x == CHOOSE x \in s : TRUE
             t == s \ {x}
  <2>1. s # {}
    BY <1>2, FS_EmptySet
  <2>2. x \in s /\ x \in D /\ t \in SUBSET D
    BY <2>1
  <2>3. g[s] = F[x] + g[t]
    BY <1>1, <2>1 DEF SumStep
  <2> HIDE DEF x
  <2>4. Cardinality(t) = Cardinality(s) - 1
    BY <1>2, <2>2, FS_RemoveElement
  <2>5. Bounded(t, n)
    BY <1>4, <2>2, <2>4
  <2> HIDE DEF t
  <2>6. F[x] \in Int /\ a <= F[x] /\ F[x] <= b /\ g[t] \in Int
    BY <2>2
  <2>7. /\ a * (n + 1) = a * n + a /\ a * n \in Int
        /\ b * (n + 1) = b * n + b /\ b * n \in Int
    OBVIOUS
  <2> QED BY <2>3, <2>5, <2>6, <2>7
<1> HIDE DEF G
<1>5. Cardinality(D) \in G
  BY <1>2, <1>3, <1>4, NumberInduction
<1>6. \A s \in SUBSET D : Cardinality(s) = Cardinality(D) => Bounded(s, Cardinality(D))
  BY <1>5 DEF G
<1>7. Bounded(D, Cardinality(D)) /\ g[D] \in Int
  BY <1>6
<1> QED BY <1>1, <1>7

\* Powers of two grow.
LEMMA PowerOfTwo == ASSUME NEW n \in Nat PROVE 2^n \in Nat /\ n <= 2^n
<1>1. IsFiniteSet(1..n) /\ Cardinality(1..n) = n
  BY FS_Interval
<1>2. IsFiniteSet(SUBSET (1..n)) /\ Cardinality(SUBSET (1..n)) = 2^n
  BY <1>1, FS_SUBSET
<1>3. [x \in 1..n |-> {x}] \in Injection(1..n, SUBSET (1..n))
  BY DEF Injection, IsInjective
<1> QED BY <1>1, <1>2, <1>3, FS_Injection, FS_CardinalityType

\* Euclid's division.
LEMMA Division ==
  ASSUME NEW d \in Nat \ {0}, NEW q \in Int, NEW r \in Int, 0 <= r, r < d,
         NEW x \in Int, x = q * d + r
  PROVE  x \div d = q /\ x % d = r
OBVIOUS

LEMMA Remainder ==
  ASSUME NEW n \in Nat \ {0}, NEW x \in Int
  PROVE  /\ x % n \in 0..n-1
         /\ 0 <= x /\ x < n => x % n = x
         /\ -n <= x /\ x < 0 => x % n = x + n
<1>1. x % n \in 0..n-1
  OBVIOUS
<1>2. ASSUME 0 <= x, x < n PROVE x % n = x
  <2>1. x = 0 * n + x
    OBVIOUS
  <2> QED BY <1>2, <2>1, Division
<1>3. ASSUME -n <= x, x < 0 PROVE x % n = x + n
  <2>1. x = (-1) * n + (x + n) /\ x + n \in Int
    OBVIOUS
  <2>2. 0 <= x + n /\ x + n < n
    BY <1>3
  <2> QED BY <2>1, <2>2, Division
<1> QED BY <1>1, <1>2, <1>3

-----------------------------------------------------------------------------
(* Queues.                                                                 *)

\* r is the queue q after one cycle of the port, element by element.
OneIf(b) == IF b THEN 1 ELSE 0
Advanced(q, x, push, pop, r) ==
  /\ Len(r) = Len(q) - OneIf(pop) + OneIf(push)
  /\ \A i \in 1..Len(r) :
       r[i] = IF i <= Len(q) - OneIf(pop) THEN q[i + OneIf(pop)] ELSE x

\* One cycle of the port: pop and push are independent, the order is kept.
LEMMA QueueStep ==
  ASSUME NEW T, NEW q \in Seq(T), NEW x \in T, NEW push \in BOOLEAN, NEW pop \in BOOLEAN,
         pop => q # <<>>,
         NEW r, r = (IF pop THEN Tail(q) ELSE q) \o (IF push THEN <<x>> ELSE <<>>)
  PROVE  Advanced(q, x, push, pop, r)
<1> DEFINE t == IF pop THEN Tail(q) ELSE q
           u == IF push THEN <<x>> ELSE <<>>
<1>1. /\ t \in Seq(T) /\ Len(t) = Len(q) - (IF pop THEN 1 ELSE 0)
      /\ \A i \in 1..Len(t) : t[i] = q[i + (IF pop THEN 1 ELSE 0)]
  OBVIOUS
<1>2. u \in Seq(T) /\ Len(u) = (IF push THEN 1 ELSE 0) /\ (push => u[1] = x)
  OBVIOUS
<1>3. r = t \o u
  OBVIOUS
<1> HIDE DEF t, u
<1>4. /\ Len(r) = Len(t) + Len(u)
      /\ \A i \in 1..Len(r) : r[i] = IF i <= Len(t) THEN t[i] ELSE u[i - Len(t)]
  <2>1. /\ Len(t \o u) = Len(t) + Len(u)
        /\ \A i \in 1..Len(t) + Len(u) :
             (t \o u)[i] = IF i <= Len(t) THEN t[i] ELSE u[i - Len(t)]
    BY <1>1, <1>2, ConcatProperties, Zenon
  <2> QED BY <1>3, <2>1
<1>6. \A i \in 1..Len(r) : r[i] = IF i <= Len(t) THEN q[i + (IF pop THEN 1 ELSE 0)] ELSE x
  <2> SUFFICES ASSUME NEW i \in 1..Len(r)
               PROVE  r[i] = IF i <= Len(t) THEN q[i + (IF pop THEN 1 ELSE 0)] ELSE x
    OBVIOUS
  <2>1. CASE i <= Len(t)
    BY <1>1, <1>4, <2>1
  <2>2. CASE i > Len(t)
    <3>a. Len(t) \in Nat /\ Len(u) = (IF push THEN 1 ELSE 0)
      BY <1>1, <1>2, LenProperties
    <3>b. i \in Nat /\ i <= Len(t) + Len(u)
      <4>1. i \in 1..(Len(t) + Len(u))
        BY <1>4
      <4>2. Len(u) \in Nat
        BY <3>a
      <4>3. \A a, b \in Nat : \A k \in 1..(a + b) : k \in Nat /\ k <= a + b
        OBVIOUS
      <4> QED BY <3>a, <4>1, <4>2, <4>3, Zenon
    <3>1. Len(u) = (IF push THEN 1 ELSE 0) /\ i <= Len(t) + Len(u) /\ Len(t) \in Nat
      BY <3>a, <3>b
    <3>2. push /\ i - Len(t) = 1
      BY <2>2, <3>1
    <3> QED BY <1>2, <1>4, <2>2, <3>1, <3>2
  <2> QED BY <2>1, <2>2, <1>1
<1> QED BY <1>1, <1>2, <1>4, <1>6 DEF Advanced, OneIf

-----------------------------------------------------------------------------
(* Programs, as the sequences of what they still have to do.               *)

\* What is left of the program P when its first k operations are done.
Rest(P, k) == SubSeq(P, k + 1, Len(P))

LEMMA RestOf ==
  ASSUME NEW T, NEW P \in Seq(T), NEW k \in 0..Len(P)
  PROVE  /\ Rest(P, k) \in Seq(T)
         /\ Len(Rest(P, k)) = Len(P) - k
         /\ \A i \in 1..Len(P) - k : Rest(P, k)[i] = P[k + i]
         /\ Rest(P, 0) = P
         /\ k = Len(P) => Rest(P, k) = <<>>
         /\ k < Len(P) => /\ Rest(P, k) # <<>>
                          /\ Head(Rest(P, k)) = P[k + 1]
                          /\ Tail(Rest(P, k)) = Rest(P, k + 1)
<1>1. /\ Rest(P, k) \in Seq(T)
      /\ Len(Rest(P, k)) = Len(P) - k
      /\ \A i \in 1..Len(P) - k : Rest(P, k)[i] = P[k + i]
  BY SubSeqProperties DEF Rest
<1>2. Rest(P, 0) = P
  BY SubSeqProperties, SeqEqual DEF Rest
<1>3. k = Len(P) => Rest(P, k) = <<>>
  BY <1>1, EmptySeq
<1>4. ASSUME k < Len(P)
      PROVE  /\ Rest(P, k) # <<>>
             /\ Head(Rest(P, k)) = P[k + 1]
             /\ Tail(Rest(P, k)) = Rest(P, k + 1)
  <2>1. Rest(P, k) # <<>> /\ Head(Rest(P, k)) = P[k + 1]
    BY <1>1, <1>4
  <2>2. /\ Tail(Rest(P, k)) \in Seq(T) /\ Len(Tail(Rest(P, k))) = Len(P) - k - 1
        /\ \A i \in 1..Len(P) - k - 1 : Tail(Rest(P, k))[i] = P[k + i + 1]
    BY <1>1, <1>4, <2>1, HeadTailProperties
  <2>3. /\ Rest(P, k + 1) \in Seq(T) /\ Len(Rest(P, k + 1)) = Len(P) - k - 1
        /\ \A i \in 1..Len(P) - k - 1 : Rest(P, k + 1)[i] = P[k + i + 1]
    BY <1>4, SubSeqProperties DEF Rest
  <2> QED BY <2>1, <2>2, <2>3, SeqEqual
<1> QED BY <1>1, <1>2, <1>3, <1>4

LEMMA RestEnd ==
  ASSUME NEW T, NEW P \in Seq(T)
  PROVE  Rest(P, Len(P)) = <<>>
BY RestOf
-----------------------------------------------------------------------------
(* Folds over sequences, which go through the indexes from the greatest    *)
(* on.                                                                     *)

\* A finite set of numbers that is not empty has a greatest member.
LEMMA GreatestMember ==
  ASSUME NEW D \in SUBSET Nat, IsFiniteSet(D), D # {}
  PROVE  Max(D) \in D /\ \A k \in D : k <= Max(D)
<1> DEFINE G == {U \in SUBSET D : U = {} \/ \E m \in U : \A k \in U : k <= m}
<1>1. {} \in G
  OBVIOUS
<1>2. ASSUME NEW U \in SUBSET D, NEW x \in D \ U, U \in G PROVE U \cup {x} \in G
  <2>1. CASE U = {}
    BY <2>1
  <2>2. CASE U # {}
    <3>1. PICK m \in U : \A k \in U : k <= m
      BY <1>2, <2>2
    <3>2. CASE x <= m
      BY <3>1, <3>2
    <3>3. CASE m <= x
      <4>1. \A k \in U \cup {x} : k <= x
        BY <3>1, <3>3
      <4> QED BY <4>1
    <3> QED BY <3>2, <3>3
  <2> QED BY <2>1, <2>2
<1> HIDE DEF G
<1>3. D \in G
  BY <1>1, <1>2, SetInduction
<1>4. PICK m \in D : \A k \in D : m >= k
  BY <1>3 DEF G
<1>5. Max(D) \in D /\ \A k \in D : Max(D) >= k
  BY <1>4, Zenon DEF Max
<1> QED BY <1>5

\* What holds of the base and is kept by every step holds of the fold.
LEMMA FoldStays ==
  ASSUME NEW D \in SUBSET Nat, IsFiniteSet(D), NEW A, NEW h, h[{}] \in A,
         \A s \in SUBSET D : s # {} /\ h[s \ {Max(s)}] \in A => h[s] \in A
  PROVE  \A s \in SUBSET D : h[s] \in A
<1> DEFINE pick == [s \in SUBSET D |-> Max(s)]
<1>1. Picks(pick, D)
  BY FS_Subset, GreatestMember DEF Picks
<1>2. \A s \in SUBSET D : s # {} /\ h[s \ {pick[s]}] \in A => h[s] \in A
  OBVIOUS
<1> HIDE DEF pick
<1> QED BY <1>1, <1>2, SetStays

FoldStep(F, base, h, s) ==
  IF s = {} THEN base ELSE F[<<h[s \ {Max(s)}], Max(s)>>]

FoldOf(D, F, base, g) == \A s \in SUBSET D : g[s] = FoldStep(F, base, g, s)

\* The recursion behind a fold has a solution.
LEMMA FoldRecursion ==
  ASSUME NEW D \in SUBSET Nat, IsFiniteSet(D), NEW A, NEW base \in A,
         NEW F \in [A \X D -> A]
  PROVE  \E g \in [SUBSET D -> A] : FoldOf(D, F, base, g)
<1> DEFINE pick == [s \in SUBSET D |-> Max(s)]
<1>1. Picks(pick, D)
  BY FS_Subset, GreatestMember DEF Picks
<1>2. \A s \in SUBSET D : pick[s] = Max(s)
  OBVIOUS
<1> HIDE DEF pick
<1>3. \E g \in [SUBSET D -> A] : SetSolves(g, D, F, base, pick)
  BY <1>1, SetRecursion
<1>3a. PICK g \in [SUBSET D -> A] : \A s \in SUBSET D : g[s] = SetStep(F, base, pick, g, s)
  BY <1>3 DEF SetSolves
<1>4. \A s \in SUBSET D : g[s] = FoldStep(F, base, g, s)
  BY <1>2, <1>3a DEF SetStep, FoldStep
<1> QED BY <1>3a, <1>4 DEF FoldOf

\* The sets that a fold over 1..n goes through, one step after the other.
LEMMA FirstNumbers ==
  ASSUME NEW n \in Nat, NEW D, D = 1..n
  PROVE  /\ D \in SUBSET Nat /\ IsFiniteSet(D) /\ 1..0 = {} /\ {} \in SUBSET D
         /\ \A i \in 0..n : 1..i \in SUBSET D
         /\ \A i \in 1..n : 1..i # {} /\ Max(1..i) = i /\ (1..i) \ {i} = 1..i-1
<1>1. ASSUME NEW i \in 1..n PROVE 1..i # {} /\ Max(1..i) = i /\ (1..i) \ {i} = 1..i-1
  <2> DEFINE s == 1..i
  <2>1. i \in s /\ \A k \in s : i >= k
    OBVIOUS
  <2>2. s \in SUBSET Nat /\ IsFiniteSet(s) /\ s # {}
    BY <2>1, Interval
  <2>3. Max(s) \in s /\ \A k \in s : Max(s) >= k
    BY <2>2, GreatestMember
  <2>4. Max(s) = i
    BY <2>1, <2>3
  <2> QED BY <2>2, <2>4
<1>2. IsFiniteSet(D)
  BY Interval
<1> QED BY <1>1, <1>2

\* The steps of a fold over 1..n.
StepsTo(A, n, base, F, end) ==
  \E g \in [0..n -> A] :
    g[0] = base /\ g[n] = end /\ \A i \in 1..n : g[i] = F[<<g[i-1], i>>]

LEMMA FoldSteps ==
  ASSUME NEW n \in Nat, NEW D, D = 1..n, NEW A, NEW base \in A, NEW F \in [A \X D -> A],
         NEW it, it[{}] = base,
         \A s \in SUBSET D : s # {} /\ it[s \ {Max(s)}] \in A =>
                               it[s] = F[<<it[s \ {Max(s)}], Max(s)>>]
  PROVE  StepsTo(A, n, base, F, it[D])
<1> DEFINE g == [i \in 0..n |-> it[1..i]]
<1>1. /\ D \in SUBSET Nat /\ IsFiniteSet(D) /\ {} \in SUBSET D /\ 1..0 = {}
      /\ \A i \in 0..n : 1..i \in SUBSET D
      /\ \A i \in 1..n : 1..i # {} /\ Max(1..i) = i /\ (1..i) \ {i} = 1..i-1
  BY FirstNumbers
<1>2. it[{}] \in A
  OBVIOUS
<1>3. ASSUME NEW s \in SUBSET D, s # {} /\ it[s \ {Max(s)}] \in A PROVE it[s] \in A
  <2>1. it[s] = F[<<it[s \ {Max(s)}], Max(s)>>]
    BY <1>3
  <2>2. Max(s) \in D
    BY <1>1, <1>3, FS_Subset, GreatestMember
  <2> QED BY <1>3, <2>1, <2>2
<1>4. \A s \in SUBSET D : it[s] \in A
  BY <1>1, <1>2, <1>3, FoldStays
<1>5. g \in [0..n -> A] /\ g[0] = base /\ g[n] = it[D]
  BY <1>1, <1>4
<1>6. ASSUME NEW i \in 1..n PROVE g[i] = F[<<g[i-1], i>>]
  <2>1. it[1..i] = F[<<it[1..i-1], i>>]
    <3>1. 1..i \in SUBSET D /\ 1..i # {} /\ Max(1..i) = i /\ (1..i) \ {i} = 1..i-1
      BY <1>1
    <3>2. i - 1 \in 0..n /\ 1..i-1 \in SUBSET D
      BY <1>1
    <3>3. it[(1..i) \ {Max(1..i)}] \in A
      BY <1>4, <3>1, <3>2
    <3>4. it[1..i] = F[<<it[(1..i) \ {Max(1..i)}], Max(1..i)>>]
      BY <3>1, <3>3
    <3> QED BY <3>1, <3>4
  <2>2. i - 1 \in 0..n /\ i \in 0..n
    OBVIOUS
  <2> QED BY <2>1, <2>2
<1> QED BY <1>5, <1>6 DEF StepsTo

\* What holds at the start and is kept by each of n steps holds at each of them.
LEMMA StepInduction ==
  ASSUME NEW n \in Nat, NEW G, 0 \in G, \A i \in 1..n : i - 1 \in G => i \in G
  PROVE  \A i \in 0..n : i \in G
<1> DEFINE H == {i \in Nat : i <= n => i \in G}
<1>1. 0 \in H
  OBVIOUS
<1>2. ASSUME NEW i \in Nat, i \in H PROVE i + 1 \in H
  <2> SUFFICES ASSUME i + 1 <= n PROVE i + 1 \in G
    OBVIOUS
  <2>1. i + 1 \in 1..n /\ i \in G /\ (i + 1) - 1 = i
    BY <1>2
  <2> QED BY <2>1
<1> HIDE DEF H
<1>3. Nat \subseteq H
  BY <1>1, <1>2, NumberInduction
<1> QED BY <1>3 DEF H

-----------------------------------------------------------------------------
(* Numbers made of fields of bits.                                         *)

\* Powers of two, by sums of exponents.
LEMMA PowerStep == ASSUME NEW n \in Nat PROVE 2^(n+1) = 2 * 2^n
<1> DEFINE S == SUBSET (1..n)
           with == [s \in S |-> s \cup {n+1}]
           T == {s \cup {n+1} : s \in S}
<1>1. /\ IsFiniteSet(S) /\ Cardinality(S) = 2^n
      /\ IsFiniteSet(SUBSET (1..n+1)) /\ Cardinality(SUBSET (1..n+1)) = 2^(n+1)
  <2>1. ASSUME NEW k \in Nat
        PROVE  IsFiniteSet(SUBSET (1..k)) /\ Cardinality(SUBSET (1..k)) = 2^k
    BY FS_SUBSET, Interval
  <2> QED BY <2>1
<1>2. S \cup T = SUBSET (1..n+1) /\ S \cap T = {}
  <2>1. ASSUME NEW s \in SUBSET (1..n+1), s \notin S PROVE s \in T
    <3>1. s \ {n+1} \in S /\ s = (s \ {n+1}) \cup {n+1}
      BY <2>1
    <3> QED BY <3>1
  <2>2. S \subseteq SUBSET (1..n+1) /\ T \subseteq SUBSET (1..n+1)
    <3>1. 1..n \subseteq 1..n+1 /\ n+1 \in 1..n+1
      OBVIOUS
    <3> QED BY <3>1
  <2>3. S \cap T = {}
    OBVIOUS
  <2> QED BY <2>1, <2>2, <2>3
<1>3. with \in Bijection(S, T)
  <2>1. \A s, t \in S : s \cup {n+1} = t \cup {n+1} => s = t
    <3> SUFFICES ASSUME NEW s \in S, NEW t \in S, s \cup {n+1} = t \cup {n+1} PROVE s \subseteq t /\ t \subseteq s
      OBVIOUS
    <3>1. n + 1 \notin s /\ n + 1 \notin t
      OBVIOUS
    <3> QED BY <3>1
  <2>2. with \in Injection(S, T)
    <3>1. with \in [S -> T] /\ \A s \in S : with[s] = s \cup {n+1}
      OBVIOUS
    <3> HIDE DEF with, S, T
    <3> QED BY <2>1, <3>1 DEF Injection, IsInjective
  <2> QED BY <2>2 DEF Bijection, Surjection
<1> HIDE DEF S, T, with
<1>4. IsFiniteSet(T) /\ Cardinality(T) = Cardinality(S)
  <2>1. IsFiniteSet(S) /\ ExistsBijection(S, T)
    BY <1>1, <1>3 DEF ExistsBijection
  <2> QED BY <2>1, FS_Bijection
<1>5. Cardinality(S \cup T) = Cardinality(S) + Cardinality(T) - Cardinality({})
  BY <1>1, <1>2, <1>4, FS_Union
<1>6. Cardinality({}) = 0
  BY FS_EmptySet
<1>7. 2^n \in Nat
  BY PowerOfTwo
<1>8. 2^(n+1) = Cardinality(S) + Cardinality(T) - Cardinality({}) /\ Cardinality(T) = 2^n
  BY <1>1, <1>2, <1>4, <1>5, Zenon
<1>9. \A a \in Nat : a + a - 0 = 2 * a
  OBVIOUS
<1> QED BY <1>1, <1>6, <1>7, <1>8, <1>9, Zenon

LEMMA PowerSum == ASSUME NEW m \in Nat, NEW n \in Nat PROVE 2^(m+n) = 2^m * 2^n
<1> DEFINE G == {k \in Nat : 2^(m+k) = 2^m * 2^k}
<1>1. 0 \in G
  <2>1. 2^0 = 1
    OBVIOUS
  <2>2. 2^m \in Nat
    BY PowerOfTwo
  <2> QED BY <2>1, <2>2
<1>2. ASSUME NEW k \in Nat, k \in G PROVE k + 1 \in G
  <2>1. 2^(m+k+1) = 2 * 2^(m+k) /\ 2^(k+1) = 2 * 2^k
    BY PowerStep
  <2>2. 2^m \in Nat /\ 2^k \in Nat
    BY PowerOfTwo
  <2>3. \A a, b \in Nat : 2 * (a * b) = a * (2 * b)
    OBVIOUS
  <2> QED BY <1>2, <2>1, <2>2, <2>3
<1> HIDE DEF G
<1>3. n \in G
  BY <1>1, <1>2, NumberInduction
<1> QED BY <1>3 DEF G

LEMMA PowerPositive == ASSUME NEW n \in Nat PROVE 2^n \in Nat \ {0}
<1> DEFINE G == {k \in Nat : 2^k \in Nat \ {0}}
<1>1. 0 \in G
  OBVIOUS
<1>2. ASSUME NEW k \in Nat, k \in G PROVE k + 1 \in G
  BY <1>2, PowerStep
<1> HIDE DEF G
<1> QED BY <1>1, <1>2, NumberInduction DEF G

\* Partial sums may take out any element first.
TakesAny(g, F, D) == \A s \in SUBSET D : \A x \in s : g[s] = F[x] + g[s \ {x}]

LEMMA SumTakesAny ==
  ASSUME NEW D, IsFiniteSet(D), NEW F \in [D -> Int], NEW g, Sums(g, F, D)
  PROVE  TakesAny(g, F, D)
<1>. g \in [SUBSET D -> Int]
  BY DEF Sums
<1> DEFINE S    == SUBSET D
           rank == [s \in S |-> Cardinality(s)]
           G    == {s \in S : \A x \in s : g[s] = F[x] + g[s \ {x}]}
<1>1. \A s \in S : rank[s] = Cardinality(s) /\ rank[s] \in Nat
  BY Subsets
<1>2. rank \in [S -> Nat]
  BY <1>1
<1>3. ASSUME NEW s \in S, \A t \in S : rank[t] < rank[s] => t \in G PROVE s \in G
  <2> SUFFICES ASSUME NEW x \in s PROVE g[s] = F[x] + g[s \ {x}]
    OBVIOUS
  <2> DEFINE p == CHOOSE y \in s : TRUE
  <2>1. p \in s /\ g[s] = F[p] + g[s \ {p}]
    BY DEF Sums, SumStep
  <2>2. CASE x = p
    BY <2>1, <2>2
  <2>3. CASE x # p
    <3>1. \A y \in s : s \ {y} \in S /\ rank[s \ {y}] < rank[s]
      BY <1>1, Subsets
    <3>2. s \ {p} \in G /\ s \ {x} \in G
      BY <1>3, <2>1, <3>1
    <3> HIDE DEF p
    <3>3. g[s \ {p}] = F[x] + g[(s \ {p}) \ {x}] /\ g[s \ {x}] = F[p] + g[(s \ {x}) \ {p}]
      BY <2>1, <2>3, <3>2
    <3>4. (s \ {p}) \ {x} = (s \ {x}) \ {p}
      OBVIOUS
    <3>5. F[x] \in Int /\ F[p] \in Int /\ g[(s \ {x}) \ {p}] \in Int
      BY <2>1
    <3>6. \A a, b, c, d, e \in Int :
            a = b + c /\ c = d + e => a = d + (b + e)
      OBVIOUS
    <3>7. g[s] \in Int /\ g[s \ {p}] \in Int /\ g[s \ {x}] = F[p] + g[(s \ {p}) \ {x}]
      BY <2>1, <3>3, <3>4
    <3> QED BY <2>1, <3>3, <3>4, <3>5, <3>6, <3>7
  <2> QED BY <2>2, <2>3
<1> HIDE DEF rank, G, S
<1>4. S \subseteq G
  BY <1>2, <1>3, RankInduction
<1> QED BY <1>4 DEF S, G, TakesAny

LEMMA PowerMonotonic == ASSUME NEW m \in Nat, NEW n \in Nat, m <= n PROVE 2^m <= 2^n
<1> DEFINE d == n - m
<1>1. d \in Nat /\ n = m + d
  OBVIOUS
<1> HIDE DEF d
<1>2. 2^n = 2^m * 2^d /\ 2^m \in Nat /\ 2^d \in Nat \ {0}
  BY <1>1, PowerSum, PowerPositive
<1>3. \A a \in Nat, b \in Nat \ {0} : a <= a * b
  OBVIOUS
<1> QED BY <1>2, <1>3

LEMMA ProductInNat == ASSUME NEW a \in Nat, NEW b \in Nat PROVE a * b \in Nat
OBVIOUS

\* A digit and what is below it do not reach the next place.
LEMMA TopDigit ==
  ASSUME NEW v \in Nat, NEW k \in Nat, NEW p \in Nat, NEW r \in Nat, v < k, r < p
  PROVE  v * p + r < k * p
<1> DEFINE d == k - (v + 1)
<1>1. d \in Nat /\ k = v + 1 + d
  OBVIOUS
<1> HIDE DEF d
<1>2. k * p = v * p + p + d * p
  BY <1>1
<1>3. d * p \in Nat /\ v * p \in Nat
  BY <1>1
<1> QED BY <1>2, <1>3

\* The digit v of base k, at the place worth p.
HasDigit(x, p, k, v) == \E a, b \in Nat : a < p /\ x = a + (v + b * k) * p

LEMMA MiddleDigit ==
  ASSUME NEW v \in Nat, NEW k \in Nat \ {0}, v < k, NEW p \in Nat \ {0},
         NEW x \in Nat, HasDigit(x, p, k, v)
  PROVE  (x \div p) % k = v
<1>0. PICK a, b \in Nat : a < p /\ x = a + (v + b * k) * p
  BY DEF HasDigit
<1> DEFINE q == v + b * k
<1>1. b * k \in Nat /\ q \in Nat
  OBVIOUS
<1>2. q = b * k + v
  OBVIOUS
<1>3. x = q * p + a
  BY <1>0, <1>1
<1> HIDE DEF q
<1>4. q % k = v
  <2>1. 0 <= v /\ v < k /\ v \in Int /\ b \in Int /\ q \in Int
    BY <1>1
  <2> QED BY <1>2, <2>1, Division, Zenon
<1>5. x \div p = q
  <2>1. 0 <= a /\ a < p /\ a \in Int /\ q \in Int /\ x \in Int
    BY <1>0, <1>1
  <2> QED BY <1>3, <2>1, Division, Zenon
<1> QED BY <1>4, <1>5

\* Numbers v of so many bits, shifted to places that do not overlap.
Shifted(F, v, low, len, D) ==
  /\ low \in [D -> Nat] /\ len \in [D -> Nat \ {0}] /\ v \in [D -> Nat] /\ F \in [D -> Int]
  /\ \A f \in D : v[f] < 2^len[f] /\ F[f] = v[f] * 2^low[f]
  /\ \A f, h \in D : f = h \/ low[f] + len[f] <= low[h] \/ low[h] + len[h] <= low[f]

\* x has each number at its place.
Digits(x, v, low, len, D) ==
  x \in Nat /\ \A f \in D : (x \div 2^low[f]) % 2^len[f] = v[f]

LEMMA DigitsOfSum ==
  ASSUME NEW D, IsFiniteSet(D), NEW low, NEW len, NEW v, NEW F, Shifted(F, v, low, len, D),
         NEW g, Sums(g, F, D)
  PROVE  Digits(g[D], v, low, len, D)
<1>. /\ low \in [D -> Nat] /\ len \in [D -> Nat \ {0}] /\ v \in [D -> Nat] /\ F \in [D -> Int]
     /\ \A f \in D : v[f] < 2^len[f] /\ F[f] = v[f] * 2^low[f]
     /\ \A f, h \in D : f = h \/ low[f] + len[f] <= low[h] \/ low[h] + len[h] <= low[f]
     /\ g \in [SUBSET D -> Int]
  BY DEF Shifted, Sums
<1>0. TakesAny(g, F, D)
  BY SumTakesAny
<1> DEFINE At(s, f) == HasDigit(g[s], 2^low[f], 2^len[f], v[f])
           Below(s) == \A n \in Nat : (\A f \in s : low[f] + len[f] <= n) => g[s] < 2^n
           G    == {s \in SUBSET D : g[s] \in Nat /\ Below(s) /\ \A f \in s : At(s, f)}
           h    == [s \in SUBSET D |-> s]
           pick == [s \in SUBSET D |-> CHOOSE m \in s : \A f \in s : low[f] <= low[m]]
<1>1. ASSUME NEW s \in SUBSET D, s # {}
      PROVE  pick[s] \in s /\ \A f \in s : low[f] <= low[pick[s]]
  <2> DEFINE places == {low[f] : f \in s}
  <2>1. IsFiniteSet(s)
    BY FS_Subset
  <2>2. IsFiniteSet(places) /\ places \in SUBSET Nat /\ places # {}
    <3>1. IsFiniteSet(places)
      <4> DEFINE w == [f \in s |-> low[f]]
      <4>1. w \in Surjection(s, places)
        BY DEF Surjection
      <4> HIDE DEF w, places
      <4> QED BY <2>1, <4>1, FS_Surjection
    <3> QED BY <1>1, <3>1
  <2>3. Max(places) \in places /\ \A k \in places : k <= Max(places)
    BY <2>2, GreatestMember
  <2>4. \E m \in s : \A f \in s : low[f] <= low[m]
    <3> HIDE DEF places
    <3>1. PICK m \in s : low[m] = Max(places)
      BY <2>3 DEF places
    <3>2. \A f \in s : low[f] \in places
      BY DEF places
    <3> QED BY <2>3, <3>1, <3>2
  <2> QED BY <2>4
<1>2. Picks(pick, D)
  BY <1>1 DEF Picks
<1>3. h[{}] \in G
  <2>1. g[{}] = 0
    BY DEF Sums, SumStep
  <2>2. \A n \in Nat : 0 < 2^n
    <3> SUFFICES ASSUME NEW n \in Nat PROVE 0 < 2^n
      OBVIOUS
    <3>1. 2^n \in Nat \ {0}
      BY PowerPositive
    <3> QED BY <3>1
  <2> QED BY <2>1, <2>2
<1>4. ASSUME NEW s \in SUBSET D, s # {}, h[s \ {pick[s]}] \in G PROVE h[s] \in G
  <2> DEFINE m == pick[s]
             t == s \ {m}
             p == 2^low[m]
             k == 2^len[m]
  <2>1. m \in s /\ m \in D /\ \A f \in s : low[f] <= low[m]
    BY <1>1, <1>4
  <2>2. t \in SUBSET D /\ t \in G /\ h[s] = s
    BY <1>4
  <2> HIDE DEF pick, h, G
  <2>3. g[s] = F[m] + g[t] /\ F[m] = v[m] * p
    BY <1>0, <2>1 DEF TakesAny
  <2> HIDE DEF m, t
  <2>4. \A f \in t : low[f] + len[f] <= low[m]
    <3> SUFFICES ASSUME NEW f \in t PROVE low[f] + len[f] <= low[m]
      OBVIOUS
    <3>1. f \in s /\ f \in D /\ f # m
      BY <2>2 DEF t
    <3>2. low[f] <= low[m] /\ low[f] \in Nat /\ low[m] \in Nat /\ len[m] \in Nat \ {0}
      BY <2>1, <3>1
    <3>3. low[f] + len[f] <= low[m] \/ low[m] + len[m] <= low[f]
      BY <2>1, <3>1
    <3>4. \A a, b \in Nat, c \in Nat \ {0} : a <= b => ~(b + c <= a)
      OBVIOUS
    <3>5. ~(low[m] + len[m] <= low[f])
      BY <3>2, <3>4, Zenon
    <3> QED BY <3>3, <3>5, Zenon
  <2>5. g[t] \in Nat /\ g[t] < p
    BY <2>1, <2>2, <2>4 DEF G
  <2>6. p \in Nat \ {0} /\ k \in Nat \ {0} /\ v[m] \in Nat /\ v[m] < k
    BY <2>1, PowerPositive
  <2>7. g[s] = v[m] * p + g[t]
    BY <2>3
  <2>8. g[s] \in Nat
    <3> HIDE DEF p, k
    <3> QED BY <2>5, <2>6, <2>7
  <2>9. Below(s)
    <3> SUFFICES ASSUME NEW n \in Nat, \A f \in s : low[f] + len[f] <= n PROVE g[s] < 2^n
      OBVIOUS
    <3>1. low[m] + len[m] \in Nat /\ low[m] + len[m] <= n
      BY <2>1
    <3>2. 2^(low[m] + len[m]) = p * k /\ 2^(low[m] + len[m]) <= 2^n /\ 2^n \in Nat
      BY <2>1, <3>1, PowerSum, PowerMonotonic, PowerPositive
    <3>3. v[m] * p + g[t] < k * p
      BY <2>5, <2>6, TopDigit
    <3> HIDE DEF p, k
    <3>4. k * p = p * k /\ p * k \in Nat
      BY <2>6
    <3> QED BY <2>7, <2>8, <3>2, <3>3, <3>4
  <2>10. ASSUME NEW f \in s PROVE At(s, f)
    <3>1. CASE f = m
      <4>1. g[s] = g[t] + (v[m] + 0 * k) * p
        <5> HIDE DEF p, k
        <5> QED BY <2>5, <2>6, <2>7
      <4> QED BY <2>5, <3>1, <4>1 DEF HasDigit
    <3>2. CASE f # m
      <4>1. f \in t /\ f \in D
        BY <3>2 DEF t
      <4>2. PICK a, b \in Nat : a < 2^low[f] /\ g[t] = a + (v[f] + b * 2^len[f]) * 2^low[f]
        BY <2>2, <4>1 DEF G, HasDigit
      <4> DEFINE d == low[m] - (low[f] + len[f])
                 q == 2^low[f]
                 l == 2^len[f]
                 e == 2^d
                 c == b + v[m] * e
      <4>3. d \in Nat /\ low[m] = (low[f] + len[f]) + d /\ low[f] + len[f] \in Nat
        BY <2>1, <2>4, <4>1
      <4> HIDE DEF d
      <4>4. p = (q * l) * e
        <5>1. 2^((low[f] + len[f]) + d) = 2^(low[f] + len[f]) * e
          BY <4>3, PowerSum
        <5>2. 2^(low[f] + len[f]) = q * l
          BY <4>1, PowerSum
        <5> QED BY <4>3, <5>1, <5>2
      <4>5. q \in Nat /\ l \in Nat /\ e \in Nat /\ v[f] \in Nat
        BY <4>1, <4>3, PowerPositive
      <4> HIDE DEF p, q, l, e
      <4>6. \A x, y, z, w, i, j \in Nat :
              y * ((i * j) * z) + (x + (w + b * j) * i) = x + (w + (b + y * z) * j) * i
        OBVIOUS
      <4>7. v[m] * ((q * l) * e) + (a + (v[f] + b * l) * q)
              = a + (v[f] + (b + v[m] * e) * l) * q
        BY <2>6, <4>5, <4>6
      <4>8. g[s] = a + (v[f] + c * l) * q
        BY <2>7, <4>2, <4>4, <4>7 DEF q, l
      <4>9. c \in Nat
        BY <2>6, <4>5
      <4>10. a < q
        BY <4>2 DEF q
      <4> HIDE DEF c
      <4>11. HasDigit(g[s], q, l, v[f])
        BY <4>8, <4>9, <4>10 DEF HasDigit
      <4> QED BY <4>11 DEF q, l
    <3> QED BY <3>1, <3>2
  <2> QED BY <2>2, <2>8, <2>9, <2>10 DEF G
<1> HIDE DEF pick, h, G
<1>5. \A s \in SUBSET D : h[s] \in G
  BY <1>2, <1>3, <1>4, SetStays
<1>6. D \in G
  BY <1>5 DEF h
<1> SUFFICES ASSUME NEW f \in D PROVE g[D] \in Nat /\ (g[D] \div 2^low[f]) % 2^len[f] = v[f]
  BY <1>6 DEF G, Digits
<1>7. g[D] \in Nat /\ At(D, f)
  BY <1>6 DEF G
<1>8. 2^low[f] \in Nat \ {0} /\ 2^len[f] \in Nat \ {0} /\ v[f] \in Nat /\ v[f] < 2^len[f]
  BY PowerPositive
<1>9. (g[D] \div 2^low[f]) % 2^len[f] = v[f]
  BY <1>7, <1>8, MiddleDigit
<1> QED BY <1>7, <1>9

\* The product of a number and the factors r are the products of s, which begins with it.
Factors(m, s, g) == /\ g \in [0..m -> Nat] /\ g[0] = 1
                    /\ \A i \in 1..m : s[i] \in Nat /\ g[i] = g[i-1] * s[i]
OneMore(m, s, r, g, h) ==
  Factors(m + 1, s, g) /\ Factors(m, r, h) /\ \A i \in 1..m : s[i+1] = r[i]

LEMMA FirstFactor ==
  ASSUME NEW m \in Nat, NEW s, NEW r, NEW g, NEW h, OneMore(m, s, r, g, h)
  PROVE  g[m+1] = s[1] * h[m]
<1>0. /\ 1 \in 1..m+1 /\ s[1] \in Nat /\ g[0] = 1 /\ h[0] = 1
      /\ g \in [0..m+1 -> Nat] /\ h \in [0..m -> Nat]
      /\ \A i \in 1..m+1 : g[i] = g[i-1] * s[i]
      /\ \A i \in 1..m : r[i] \in Nat /\ h[i] = h[i-1] * r[i] /\ s[i+1] = r[i]
  BY DEF Factors, OneMore
<1> DEFINE c == s[1]
           G == {i \in 0..m : g[i+1] = c * h[i]}
<1>1. c \in Nat
  BY <1>0
<1>2. 0 \in G
  <2>1. g[1] = g[0] * c
    BY <1>0
  <2> HIDE DEF c
  <2>2. g[0+1] = c * h[0]
    BY <1>0, <1>1, <2>1
  <2> QED BY <2>2
<1>3. ASSUME NEW i \in 1..m, i - 1 \in G PROVE i \in G
  <2>1. i + 1 \in 1..m+1 /\ i \in 0..m /\ i - 1 \in 0..m /\ (i+1)-1 = i /\ (i-1)+1 = i
    OBVIOUS
  <2>2. g[i+1] = g[i] * r[i] /\ h[i] = h[i-1] * r[i] /\ g[i] = c * h[i-1]
    <3>1. g[i+1] = g[i] * s[i+1] /\ s[i+1] = r[i]
      BY <1>0, <2>1
    <3> QED BY <1>0, <1>3, <2>1, <3>1
  <2>3. h[i-1] \in Nat /\ r[i] \in Nat
    BY <1>0, <2>1
  <2> HIDE DEF c
  <2>4. (c * h[i-1]) * r[i] = c * (h[i-1] * r[i])
    <3>1. \A j, k, l \in Nat : (j * k) * l = j * (k * l)
      OBVIOUS
    <3> QED BY <1>1, <2>3, <3>1, Zenon
  <2> QED BY <2>1, <2>2, <2>4
<1> HIDE DEF G
<1>4. \A i \in 1..m : i - 1 \in G => i \in G
  BY <1>3
<1>5. \A i \in 0..m : i \in G
  BY <1>2, <1>4, StepInduction
<1> QED BY <1>5 DEF G

\* A number x is the sum of digits ix, each below its base and worth the product of the bases
\* behind it; g are the sums so far.
Mixed(n, dims, ix, w, g, x) ==
  /\ \A i \in 1..n : dims[i] \in Nat \ {0} /\ ix[i] \in Nat /\ ix[i] < dims[i]
  /\ \A k \in 0..n : w[k] \in Nat \ {0}
  /\ \A k \in 1..n : w[k-1] = dims[k] * w[k]
  /\ w[n] = 1
  /\ g \in [0..n -> Nat] /\ g[0] = 0 /\ g[n] = x
  /\ \A i \in 1..n : g[i] = g[i-1] + ix[i] * w[i]

\* Every digit can be read off the number.
LEMMA MixedDigits ==
  ASSUME NEW n \in Nat, NEW dims, NEW ix, NEW w, NEW g, NEW x, Mixed(n, dims, ix, w, g, x)
  PROVE  x \in Nat /\ x < w[0] /\ \A d \in 1..n : (x \div w[d]) % dims[d] = ix[d]
<1>1. /\ n \in Nat /\ \A i \in 1..n : dims[i] \in Nat \ {0}
      /\ \A i \in 1..n : ix[i] \in Nat /\ ix[i] < dims[i]
  BY DEF Mixed
<1>2. /\ \A k \in 0..n : w[k] \in Nat \ {0}
      /\ \A k \in 1..n : w[k-1] = dims[k] * w[k]
      /\ w[n] = 1
  BY DEF Mixed
<1>3. g \in [0..n -> Nat] /\ g[0] = 0 /\ g[n] = x /\ \A i \in 1..n : g[i] = g[i-1] + ix[i] * w[i]
  BY DEF Mixed
<1>5. x \in Nat
  BY <1>1, <1>3
<1> DEFINE Less(k) == \E r \in Nat : r < w[k] /\ x = g[k] + r
           Whole(k) == \E b \in Nat : g[k] = b * w[k]
           G == {i \in 0..n : Less(n-i)}
           H == {k \in 0..n : Whole(k)}
<1>6. 0 \in G
  <2>1. 0 < w[n] /\ x = g[n] + 0 /\ n - 0 = n
    BY <1>1, <1>2, <1>3, <1>5
  <2>2. Less(n)
    BY <2>1
  <2> HIDE DEF Less
  <2> QED BY <1>1, <2>1, <2>2
<1>7. ASSUME NEW i \in 1..n, i - 1 \in G PROVE i \in G
  <2> DEFINE j == n - i + 1
  <2>1. /\ i \in 0..n /\ j \in 1..n /\ j \in 0..n /\ j - 1 \in 0..n
        /\ n - (i - 1) = j /\ n - i = j - 1
    BY <1>1
  <2> HIDE DEF j
  <2>2. PICK r \in Nat : r < w[j] /\ x = g[j] + r
    <3>1. Less(j)
      BY <1>7, <2>1
    <3> QED BY <3>1
  <2>3. /\ ix[j] \in Nat /\ dims[j] \in Nat /\ w[j] \in Nat /\ ix[j] < dims[j]
        /\ g[j] = g[j-1] + ix[j] * w[j] /\ w[j-1] = dims[j] * w[j] /\ g[j-1] \in Nat
    <3>1. ix[j] \in Nat /\ dims[j] \in Nat /\ ix[j] < dims[j]
      BY <1>1, <2>1
    <3>2. w[j] \in Nat /\ w[j-1] = dims[j] * w[j]
      BY <1>2, <2>1
    <3>3. g[j] = g[j-1] + ix[j] * w[j] /\ g[j-1] \in Nat
      BY <1>3, <2>1
    <3> QED BY <3>1, <3>2, <3>3
  <2>4. ix[j] * w[j] + r < dims[j] * w[j]
    BY <2>2, <2>3, TopDigit
  <2>5. ix[j] * w[j] \in Nat
    BY <2>3, ProductInNat
  <2>6. x = g[j-1] + (ix[j] * w[j] + r) /\ ix[j] * w[j] + r \in Nat
    <3> DEFINE a == g[j-1]
               y == ix[j] * w[j]
    <3>1. a \in Nat /\ y \in Nat /\ x = a + y + r
      BY <2>2, <2>3, <2>5
    <3> HIDE DEF a, y
    <3>2. x = a + (y + r) /\ y + r \in Nat
      BY <2>2, <3>1
    <3> QED BY <3>2 DEF a, y
  <2>7. Less(j - 1)
    BY <2>3, <2>4, <2>6
  <2> HIDE DEF Less
  <2> QED BY <2>1, <2>7
<1>8. \A k \in 0..n : Less(k)
  <2> HIDE DEF Less
  <2>1. \A i \in 1..n : i - 1 \in G => i \in G
    BY <1>7
  <2> HIDE DEF G
  <2>2. \A i \in 0..n : i \in G
    BY <1>1, <1>6, <2>1, StepInduction
  <2> SUFFICES ASSUME NEW k \in 0..n PROVE Less(k)
    OBVIOUS
  <2>3. n - k \in 0..n /\ n - (n - k) = k
    BY <1>1
  <2>4. n - k \in G
    BY <2>2, <2>3
  <2> QED BY <2>3, <2>4 DEF G
<1>9. 0 \in H
  <2>1. g[0] = 0 * w[0] /\ 0 \in 0..n
    BY <1>1, <1>2, <1>3
  <2>2. Whole(0)
    BY <2>1
  <2> QED BY <2>1, <2>2
\* At each index: what is before it is a multiple of the index's span.
<1>10. ASSUME NEW k \in 1..n, k - 1 \in H
       PROVE  \E b \in Nat : g[k] = (ix[k] + b * dims[k]) * w[k]
  <2>1. PICK b \in Nat : g[k-1] = b * w[k-1]
    BY <1>10
  <2>2. /\ ix[k] \in Nat /\ dims[k] \in Nat /\ w[k] \in Nat
        /\ g[k] = g[k-1] + ix[k] * w[k] /\ w[k-1] = dims[k] * w[k]
    <3>1. k \in 0..n
      BY <1>1
    <3> QED BY <1>1, <1>2, <1>3, <3>1
  <2>3. \A a, c, d, e \in Nat : a * (c * d) + e * d = (e + a * c) * d
    OBVIOUS
  <2>4. g[k] = b * (dims[k] * w[k]) + ix[k] * w[k]
    BY <2>1, <2>2
  <2>5. g[k] = (ix[k] + b * dims[k]) * w[k]
    BY <2>2, <2>3, <2>4
  <2> QED BY <2>5
<1>11. ASSUME NEW k \in 1..n, k - 1 \in H PROVE k \in H
  <2>1. PICK b \in Nat : g[k] = (ix[k] + b * dims[k]) * w[k]
    BY <1>10, <1>11
  <2>2. ix[k] \in Nat /\ dims[k] \in Nat /\ k \in 0..n
    BY <1>1
  <2>3. ix[k] + b * dims[k] \in Nat
    <3>1. b * dims[k] \in Nat
      BY <2>2, ProductInNat
    <3> QED BY <2>2, <3>1
  <2> QED BY <2>1, <2>2, <2>3
<1>12. \A k \in 0..n : k \in H
  <2>1. \A k \in 1..n : k - 1 \in H => k \in H
    BY <1>11
  <2> HIDE DEF H
  <2> QED BY <1>1, <1>9, <2>1, StepInduction
<1>13. ASSUME NEW d \in 1..n PROVE (x \div w[d]) % dims[d] = ix[d]
  <2>1. d \in 0..n /\ d - 1 \in 0..n
    BY <1>1
  <2>2. PICK b \in Nat : g[d] = (ix[d] + b * dims[d]) * w[d]
    BY <1>10, <1>12, <2>1
  <2>3. PICK r \in Nat : r < w[d] /\ x = g[d] + r
    BY <1>8, <2>1
  <2>4. ix[d] \in Nat /\ dims[d] \in Nat \ {0} /\ w[d] \in Nat \ {0} /\ ix[d] < dims[d]
    BY <1>1, <1>2, <2>1
  <2>5. x = r + (ix[d] + b * dims[d]) * w[d]
    <3>1. g[d] \in Nat
      BY <1>3, <2>1
    <3> QED BY <2>2, <2>3, <3>1
  <2>6. HasDigit(x, w[d], dims[d], ix[d])
    BY <2>3, <2>5 DEF HasDigit
  <2> QED BY <1>5, <2>4, <2>6, MiddleDigit
<1>14. x < w[0]
  <2>1. 0 \in 0..n
    BY <1>1
  <2>2. PICK r \in Nat : r < w[0] /\ x = g[0] + r
    BY <1>8, <2>1
  <2> QED BY <1>2, <1>3, <2>2
<1> QED BY <1>5, <1>13, <1>14

\* The smaller one of zero and a number.
LEMMA NothingLess ==
  ASSUME NEW n \in Nat PROVE Min({0, n}) = 0 /\ Min({n, 0}) = 0
<1>1. 0 \in {0, n} /\ \A k \in {0, n} : 0 <= k
  OBVIOUS
<1>2. \A x \in {0, n} : (\A y \in {0, n} : x <= y) => x = 0
  OBVIOUS
<1> QED BY <1>1, <1>2 DEF Min

-----------------------------------------------------------------------------
(* Sequences: what they hold, and how often.                               *)

LEMMA ConcatSet ==
  ASSUME NEW T, NEW s \in Seq(T), NEW t \in Seq(T)
  PROVE  s \o t \in Seq(T) /\ ToSet(s \o t) = ToSet(s) \cup ToSet(t)
<1>1. /\ s \o t \in Seq(T) /\ Len(s \o t) = Len(s) + Len(t) /\ Len(s) \in Nat /\ Len(t) \in Nat
      /\ \A i \in 1..Len(s) + Len(t) : (s \o t)[i] = IF i <= Len(s) THEN s[i] ELSE t[i - Len(s)]
      /\ DOMAIN (s \o t) = 1..Len(s \o t) /\ DOMAIN s = 1..Len(s) /\ DOMAIN t = 1..Len(t)
  BY ConcatProperties, LenProperties
<1> DEFINE u == s \o t
<1> HIDE DEF u
<1>2. ASSUME NEW i \in DOMAIN s PROVE s[i] \in ToSet(u)
  <2>1. i \in DOMAIN u /\ u[i] = s[i]
    BY <1>1 DEF u
  <2> QED BY <2>1 DEF ToSet
<1>3. ASSUME NEW i \in DOMAIN t PROVE t[i] \in ToSet(u)
  <2>1. Len(s) + i \in DOMAIN u /\ u[Len(s) + i] = t[i]
    BY <1>1 DEF u
  <2> QED BY <2>1 DEF ToSet
<1>4. ASSUME NEW i \in DOMAIN u PROVE u[i] \in ToSet(s) \cup ToSet(t)
  <2>1. CASE i <= Len(s)
    BY <1>1, <2>1 DEF u, ToSet
  <2>2. CASE ~(i <= Len(s))
    <3>1. i - Len(s) \in DOMAIN t /\ u[i] = t[i - Len(s)]
      BY <1>1, <2>2 DEF u
    <3> QED BY <3>1 DEF ToSet
  <2> QED BY <2>1, <2>2
<1>5. ToSet(u) = ToSet(s) \cup ToSet(t)
  BY <1>2, <1>3, <1>4 DEF ToSet
<1> QED BY <1>1, <1>5 DEF u

\* The rest of a sequence behind element k.
LEMMA Suffix ==
  ASSUME NEW A, NEW s \in Seq(A), NEW k \in 0..Len(s)
  PROVE  LET t == SubSeq(s, k + 1, Len(s))
         IN  /\ t \in Seq(A) /\ Len(t) = Len(s) - k
             /\ \A i \in 1..Len(s)-k : t[i] = s[k + i]
<1> DEFINE n == Len(s)
           t == SubSeq(s, k + 1, n)
           l == IF k + 1 <= n THEN n - (k + 1) + 1 ELSE 0
<1>1. n \in Nat /\ k \in Int /\ k + 1 \in Int /\ n \in Int /\ \A i \in k+1..n : s[i] \in A
  BY ElementOfSeq, LenProperties
<1> HIDE DEF n
<1>2. t \in Seq(A) /\ Len(t) = l /\ \A i \in 1..n-(k+1)+1 : t[i] = s[(k+1)+i-1]
  BY <1>1, SubSeqProperties
<1>3. k \in 0..n
  BY DEF n
<1>4. l = n - k /\ n - (k + 1) + 1 = n - k /\ \A i \in 1..n-k : (k+1)+i-1 = k + i
  BY <1>1, <1>3
<1> HIDE DEF t, l
<1>5. ASSUME NEW i \in 1..n-k PROVE t[i] = s[k + i]
  <2>1. i \in 1..n-(k+1)+1 /\ (k+1)+i-1 = k + i
    BY <1>4
  <2> QED BY <1>2, <2>1
<1> QED BY <1>2, <1>4, <1>5 DEF t, n

\* Sequences of sequences, one behind the other, with all that is in one of them.
LEMMA FlattenTyped ==
  ASSUME NEW T, NEW seqs \in Seq(Seq(T))
  PROVE  /\ FlattenSeq(seqs) \in Seq(T)
         /\ \A i \in DOMAIN seqs : ToSet(seqs[i]) \subseteq ToSet(FlattenSeq(seqs))
<1> DEFINE n    == Len(seqs)
           D    == 1..n
           A    == Seq(T)
           P(f) == f = [i \in D |-> IF i = 1 THEN seqs[i] ELSE f[i-1] \o seqs[i]]
           flat == CHOOSE f : P(f)
           End  == {1}
           pre  == [i \in D |-> i - 1]
           rank == [i \in D |-> i]
           F    == [p \in A \X D |-> p[1] \o seqs[p[2]]]
<1>1. n \in Nat /\ DOMAIN seqs = D /\ \A i \in D : seqs[i] \in A
  BY LenProperties, ElementOfSeq
<1>2. CASE n = 0
  <2>1. FlattenSeq(seqs) = <<>>
    BY <1>2, EmptySeq DEF FlattenSeq
  <2>2. DOMAIN seqs = {}
    BY <1>1, <1>2
  <2> QED BY <2>1, <2>2
<1>3. CASE n # 0
  <2>1. FlattenSeq(seqs) = flat[n]
    BY <1>3 DEF FlattenSeq
  <2>2. \A a, b \in A : a \o b \in A /\ ToSet(a \o b) = ToSet(a) \cup ToSet(b)
    BY ConcatSet
  <2> HIDE DEF A
  <2>3. F \in [A \X D -> A]
    <3>1. \A p \in A \X D : p[1] \o seqs[p[2]] \in A
      BY <1>1, <2>2
    <3> QED BY <3>1
  <2>4. rank \in [D -> 0..n] /\ rank \in [D -> Nat]
    BY <1>1
  <2>5. \A i \in D \ End : pre[i] \in D /\ rank[pre[i]] < rank[i]
    BY <1>1
  <2>6. \A i \in D \cap End : seqs[i] \in A
    BY <1>1
  <2> HIDE DEF n, F, D, End, pre, rank
  <2>7. \E f \in [D -> A] : Solves(f, D, End, seqs, pre, F)
    BY <1>1, <2>3, <2>4, <2>5, <2>6, Recursion
  <2>8. PICK f \in [D -> A] : Solves(f, D, End, seqs, pre, F)
    BY <2>7
  <2>9. ASSUME NEW i \in D PROVE f[i] = IF i = 1 THEN seqs[i] ELSE f[i-1] \o seqs[i]
    <3>1. CASE i = 1
      BY <2>8, <3>1 DEF Solves, End
    <3>2. CASE i # 1
      <4>1. i \notin End /\ pre[i] = i - 1 /\ pre[i] \in D
        BY <2>5, <3>2 DEF End, pre
      <4>2. f[i] = F[<<f[i-1], i>>] /\ <<f[i-1], i>> \in A \X D
        BY <2>8, <4>1 DEF Solves
      <4> QED BY <3>2, <4>2 DEF F
    <3> QED BY <3>1, <3>2
  <2>10. P(f)
    BY <2>8, <2>9
  <2>11. P(flat)
    BY <2>10
  <2> HIDE DEF flat
  <2> DEFINE G == {i \in D : flat[i] \in A /\ \A j \in 1..i : ToSet(seqs[j]) \subseteq ToSet(flat[i])}
  <2>12. ASSUME NEW i \in D, \A j \in D : rank[j] < rank[i] => j \in G PROVE i \in G
    <3>1. CASE i = 1
      <4>1. flat[i] = seqs[i] /\ 1..i = {i}
        BY <2>11, <3>1
      <4> QED BY <1>1, <4>1
    <3>2. CASE i # 1
      <4>1. i - 1 \in D /\ rank[i-1] < rank[i]
        BY <2>5, <3>2 DEF End, pre
      <4>2. /\ flat[i] = flat[i-1] \o seqs[i] /\ flat[i-1] \in A
            /\ \A j \in 1..i-1 : ToSet(seqs[j]) \subseteq ToSet(flat[i-1])
        BY <2>11, <2>12, <3>2, <4>1
      <4>3. flat[i] \in A /\ ToSet(flat[i]) = ToSet(flat[i-1]) \cup ToSet(seqs[i])
        BY <1>1, <2>2, <4>2
      <4>4. \A j \in 1..i : j = i \/ j \in 1..i-1
        BY <1>1 DEF D
      <4> QED BY <4>2, <4>3, <4>4
    <3> QED BY <3>1, <3>2
  <2> HIDE DEF G
  <2>13. D \subseteq G
    BY <2>4, <2>12, RankInduction
  <2>14. n \in D
    BY <1>1, <1>3 DEF D
  <2>15. flat[n] \in A /\ \A j \in D : ToSet(seqs[j]) \subseteq ToSet(flat[n])
    BY <2>13, <2>14 DEF G, D
  <2> QED BY <1>1, <2>1, <2>15 DEF A
<1> QED BY <1>2, <1>3

LEMMA InsertTyped ==
  ASSUME NEW T, NEW s \in Seq(T), NEW e \in T, NEW C \in SUBSET DOMAIN s
  PROVE  InsertAt(s, 1 + Cardinality(C), e) \in Seq(T)
<1> DEFINE c == Cardinality(C)
           front == SubSeq(s, 1, c)
           back  == SubSeq(s, c + 1, Len(s))
           mid   == <<e>>
<1>1. c \in 0..Len(s) /\ Len(s) \in Nat
  <2>1. DOMAIN s = 1..Len(s) /\ Len(s) \in Nat
    BY LenProperties
  <2>2. IsFiniteSet(1..Len(s)) /\ Cardinality(1..Len(s)) = Len(s)
    BY <2>1, Interval
  <2>3. C \in SUBSET (1..Len(s))
    BY <2>1
  <2>4. c \in Nat /\ c <= Len(s)
    BY <2>2, <2>3, Subsets
  <2> HIDE DEF c
  <2> QED BY <2>1, <2>4
<1>2. InsertAt(s, 1 + c, e) = SubSeq(s, 1, (1 + c) - 1) \o mid \o SubSeq(s, 1 + c, Len(s))
  BY DEF InsertAt
<1> HIDE DEF c
<1>3. (1 + c) - 1 = c /\ 1 + c = c + 1
  BY <1>1
<1>4. front \in Seq(T) /\ back \in Seq(T)
  BY <1>1, SubSeqProperties
<1>5. mid \in Seq(T)
  OBVIOUS
<1>6. InsertAt(s, 1 + c, e) = front \o mid \o back
  BY <1>2, <1>3
<1> HIDE DEF front, mid, back
<1>7. front \o mid \in Seq(T)
  BY <1>4, <1>5, ConcatProperties
<1>8. front \o mid \o back \in Seq(T)
  BY <1>4, <1>7, ConcatProperties
<1> QED BY <1>6, <1>8 DEF c

\* One part of a sequence, and the other.
LEMMA PartsOfConcat ==
  ASSUME NEW S, NEW u \in Seq(S), NEW v \in Seq(S)
  PROVE  SubSeq(u \o v, 1, Len(u)) = u /\ SubSeq(u \o v, Len(u) + 1, Len(u \o v)) = v
<1> DEFINE w == u \o v
           m == Len(u)
           n == Len(v)
<1>1. /\ w \in Seq(S) /\ Len(w) = m + n /\ m \in Nat /\ n \in Nat
      /\ \A i \in 1..m+n : w[i] = IF i <= m THEN u[i] ELSE v[i - m]
      /\ u \in [1..m -> S] /\ v \in [1..n -> S]
  BY ConcatProperties, LenProperties
<1> HIDE DEF w, m, n
<1>2. \A i \in 1..m+n : w[i] \in S
  <2>1. DOMAIN w = 1..m+n
    BY <1>1, LenProperties
  <2> QED BY <1>1, <2>1, ElementOfSeq
<1>3. SubSeq(w, 1, m) = u
  <2> DEFINE f == SubSeq(w, 1, m)
  <2>1. \A i \in 1..m : w[i] \in S
    BY <1>1, <1>2
  <2>2. /\ f \in Seq(S) /\ Len(f) = (IF 1 <= m THEN m-1+1 ELSE 0)
        /\ \A i \in 1..m-1+1 : f[i] = w[1+i-1]
    BY <1>1, <2>1, SubSeqProperties
  <2> HIDE DEF f
  <2>3. Len(f) = m /\ f \in [1..Len(f) -> S]
    BY <1>1, <2>2, LenProperties
  <2>4. ASSUME NEW i \in 1..m PROVE f[i] = u[i]
    <3>1. i \in 1..m-1+1 /\ 1+i-1 = i /\ i \in 1..m+n /\ i <= m
      BY <1>1
    <3> QED BY <1>1, <2>2, <3>1
  <2>5. f = u
    BY <1>1, <2>3, <2>4
  <2> QED BY <2>5 DEF f
<1>4. SubSeq(w, m + 1, m + n) = v
  <2> DEFINE f == SubSeq(w, m + 1, m + n)
  <2>1. \A i \in m+1..m+n : w[i] \in S
    BY <1>1, <1>2
  <2>2. /\ f \in Seq(S) /\ Len(f) = (IF m+1 <= m+n THEN (m+n)-(m+1)+1 ELSE 0)
        /\ \A i \in 1..(m+n)-(m+1)+1 : f[i] = w[(m+1)+i-1]
    BY <1>1, <2>1, SubSeqProperties
  <2> HIDE DEF f
  <2>3. Len(f) = n /\ f \in [1..Len(f) -> S]
    <3>1. Len(f) = n
      <4>1. CASE m+1 <= m+n
        BY <1>1, <2>2, <4>1
      <4>2. CASE ~(m+1 <= m+n)
        BY <1>1, <2>2, <4>2
      <4> QED BY <4>1, <4>2
    <3> QED BY <2>2, <3>1, LenProperties
  <2>4. ASSUME NEW i \in 1..n PROVE f[i] = v[i]
    <3>1. /\ i \in 1..(m+n)-(m+1)+1 /\ (m+1)+i-1 = m+i /\ m+i \in 1..m+n /\ ~(m+i <= m)
          /\ (m+i) - m = i
      BY <1>1
    <3>2. f[i] = w[m+i] /\ w[m+i] = v[(m+i)-m]
      BY <1>1, <2>2, <3>1
    <3> QED BY <3>1, <3>2
  <2>5. f = v
    BY <1>1, <2>3, <2>4
  <2> QED BY <2>5 DEF f
<1> QED BY <1>1, <1>3, <1>4 DEF w, m, n

\* Taking one element out of a sequence keeps the others.
LEMMA RemoveKeeps ==
  ASSUME NEW S, NEW s \in Seq(S), NEW i \in DOMAIN s
  PROVE  /\ RemoveAt(s, i) \in Seq(S)
         /\ \A j \in DOMAIN s \ {i} : \E k \in DOMAIN RemoveAt(s, i) : RemoveAt(s, i)[k] = s[j]
<1> DEFINE front == SubSeq(s, 1, i-1)
           back  == SubSeq(s, i+1, Len(s))
<1>1. i \in 1..Len(s) /\ Len(s) \in Nat /\ DOMAIN s = 1..Len(s)
  BY LenProperties
<1>2. /\ front \in Seq(S) /\ Len(front) = i - 1
      /\ \A k \in 1..i-1 : front[k] = s[k]
  BY <1>1
<1>3. /\ back \in Seq(S) /\ Len(back) = Len(s) - i
      /\ \A k \in 1..Len(s)-i : back[k] = s[i+k]
  BY <1>1
<1>4. RemoveAt(s, i) = front \o back
  BY DEF RemoveAt
<1> HIDE DEF front, back
<1>5. /\ front \o back \in Seq(S) /\ Len(front \o back) = Len(front) + Len(back)
      /\ \A k \in 1..Len(front)+Len(back) :
           (front \o back)[k] = IF k <= Len(front) THEN front[k] ELSE back[k - Len(front)]
  BY <1>2, <1>3, ConcatProperties, Zenon
<1>6. DOMAIN (front \o back) = 1..Len(s)-1
  <2>1. Len(front) + Len(back) = Len(s) - 1
    BY <1>1, <1>2, <1>3
  <2>2. DOMAIN (front \o back) = 1..Len(front \o back)
    BY <1>5, LenProperties, Zenon
  <2> QED BY <1>5, <2>1, <2>2
<1>7. ASSUME NEW j \in DOMAIN s \ {i}
      PROVE  \E k \in 1..Len(s)-1 : (front \o back)[k] = s[j]
  <2>1. CASE j < i
    <3>1. j \in 1..Len(front) /\ j \in 1..Len(s)-1
      BY <1>1, <1>2, <2>1
    <3>2. j \in 1..Len(front)+Len(back) /\ j <= Len(front)
      BY <1>1, <1>2, <1>3, <3>1
    <3>3. (front \o back)[j] = front[j]
      BY <1>5, <3>2, Zenon
    <3>4. front[j] = s[j]
      BY <1>2, <3>1
    <3> QED BY <3>1, <3>3, <3>4
  <2>2. CASE j > i
    <3>1. j - 1 \in 1..Len(s)-1 /\ j - i \in 1..Len(s)-i /\ j - 1 = (i - 1) + (j - i)
      BY <1>1, <2>2
    <3>2. /\ j - 1 \in 1..Len(front)+Len(back) /\ ~(j - 1 <= Len(front))
          /\ (j - 1) - Len(front) = j - i
      BY <1>1, <1>2, <1>3, <2>2
    <3>3. (front \o back)[j - 1] = back[(j - 1) - Len(front)]
      BY <1>5, <3>2, Zenon
    <3>4. back[j - i] = s[i + (j - i)]
      BY <1>3, <3>1
    <3>5. i + (j - i) = j
      BY <1>1, <3>1
    <3>6. (front \o back)[j - 1] = s[j]
      BY <3>2, <3>4, <3>5, <3>3, Zenon
    <3> QED BY <3>1, <3>6
  <2>3. j < i \/ j > i
    BY <1>1
  <2> QED BY <2>1, <2>2, <2>3
<1> QED BY <1>4, <1>5, <1>6, <1>7

\* Appending an element is joining a sequence of one.
LEMMA AppendIsJoin == ASSUME NEW T, NEW s \in Seq(T), NEW e \in T PROVE Append(s, e) = s \o <<e>>
OBVIOUS

\* Sequences without repetition: how long they are, how they grow.
LEMMA OnceCounts ==
  ASSUME NEW T, NEW s \in Seq(T), IsInjective(s)
  PROVE  IsFiniteSet(ToSet(s)) /\ Cardinality(ToSet(s)) = Len(s) /\ Len(s) \in Nat
<1>1. DOMAIN s = 1..Len(s) /\ Len(s) \in Nat /\ s = [i \in DOMAIN s |-> s[i]]
  BY LenProperties
<1>2. s \in [1..Len(s) -> ToSet(s)] /\ \A e \in ToSet(s) : \E i \in 1..Len(s) : s[i] = e
  BY <1>1 DEF ToSet
<1>3. s \in Bijection(1..Len(s), ToSet(s))
  BY <1>1, <1>2 DEF Bijection, Injection, Surjection
<1>4. ExistsBijection(1..Len(s), ToSet(s))
  BY <1>3 DEF ExistsBijection
<1> QED BY <1>1, <1>4, Interval, FS_Bijection

LEMMA OnceNothing == <<>> \in Seq({}) /\ IsInjective(<<>>) /\ ToSet(<<>>) = {}
BY DEF IsInjective, ToSet

LEMMA OnceOne ==
  ASSUME NEW T, NEW e \in T PROVE <<e>> \in Seq(T) /\ IsInjective(<<e>>) /\ ToSet(<<e>>) = {e}
<1> DEFINE s == <<e>>
<1>1. s \in Seq(T) /\ DOMAIN s = {1} /\ s[1] = e
  OBVIOUS
<1> HIDE DEF s
<1>2. IsInjective(s) /\ ToSet(s) = {e}
  BY <1>1 DEF IsInjective, ToSet
<1> QED BY <1>1, <1>2 DEF s

LEMMA OnceJoined ==
  ASSUME NEW T, NEW s \in Seq(T), NEW t \in Seq(T), IsInjective(s), IsInjective(t),
         ToSet(s) \cap ToSet(t) = {}
  PROVE  IsInjective(s \o t)
<1>1. /\ Len(s \o t) = Len(s) + Len(t) /\ Len(s) \in Nat /\ Len(t) \in Nat
      /\ \A i \in 1..Len(s) + Len(t) : (s \o t)[i] = IF i <= Len(s) THEN s[i] ELSE t[i - Len(s)]
      /\ DOMAIN (s \o t) = 1..Len(s) + Len(t) /\ DOMAIN s = 1..Len(s) /\ DOMAIN t = 1..Len(t)
  BY ConcatProperties, LenProperties
<1> DEFINE u == s \o t
<1> SUFFICES ASSUME NEW i \in DOMAIN u, NEW j \in DOMAIN u, u[i] = u[j] PROVE i = j
  BY DEF IsInjective
<1> HIDE DEF u
<1>2. ASSUME NEW k \in DOMAIN u, k <= Len(s) PROVE k \in DOMAIN s /\ u[k] = s[k]
  BY <1>1, <1>2 DEF u
<1>3. ASSUME NEW k \in DOMAIN u, ~(k <= Len(s))
      PROVE  k - Len(s) \in DOMAIN t /\ u[k] = t[k - Len(s)]
  BY <1>1, <1>3 DEF u
<1>4. \A k \in DOMAIN s : s[k] \in ToSet(s)
  BY DEF ToSet
<1>5. \A k \in DOMAIN t : t[k] \in ToSet(t)
  BY DEF ToSet
<1>6. i \in Nat /\ j \in Nat
  BY <1>1 DEF u
<1>7. CASE i <= Len(s) /\ j <= Len(s)
  BY <1>2, <1>7 DEF IsInjective
<1>8. CASE ~(i <= Len(s)) /\ ~(j <= Len(s))
  <2>1. i - Len(s) = j - Len(s)
    BY <1>3, <1>8 DEF IsInjective
  <2> QED BY <1>1, <1>6, <2>1
<1>9. CASE i <= Len(s) /\ ~(j <= Len(s))
  <2>1. u[i] \in ToSet(s)
    BY <1>2, <1>4, <1>9
  <2>2. u[j] \in ToSet(t)
    BY <1>3, <1>5, <1>9
  <2> QED BY <2>1, <2>2
<1>10. CASE ~(i <= Len(s)) /\ j <= Len(s)
  <2>1. u[j] \in ToSet(s)
    BY <1>2, <1>4, <1>10
  <2>2. u[i] \in ToSet(t)
    BY <1>3, <1>5, <1>10
  <2> QED BY <2>1, <2>2
<1> QED BY <1>7, <1>8, <1>9, <1>10

\* A list with one more place in it, wherever that is put.
LEMMA InsertOnce ==
  ASSUME NEW T, NEW s \in Seq(T), NEW e \in T, NEW C \in SUBSET DOMAIN s,
         IsInjective(s), e \notin ToSet(s)
  PROVE  LET t == InsertAt(s, 1 + Cardinality(C), e)
         IN  IsInjective(t) /\ ToSet(t) = ToSet(s) \cup {e}
<1> DEFINE c == Cardinality(C)
           front == SubSeq(s, 1, c)
           back  == SubSeq(s, c + 1, Len(s))
           mid   == <<e>>
<1>1. c \in 0..Len(s) /\ Len(s) \in Nat /\ DOMAIN s = 1..Len(s) /\ \A i \in 1..Len(s) : s[i] \in T
  <2>1. DOMAIN s = 1..Len(s) /\ Len(s) \in Nat /\ \A i \in 1..Len(s) : s[i] \in T
    BY LenProperties, ElementOfSeq
  <2>2. IsFiniteSet(1..Len(s)) /\ Cardinality(1..Len(s)) = Len(s)
    BY <2>1, Interval
  <2>3. C \in SUBSET (1..Len(s))
    BY <2>1
  <2>4. c \in Nat /\ c <= Len(s)
    BY <2>2, <2>3, Subsets
  <2> HIDE DEF c
  <2> QED BY <2>1, <2>4
<1>2. InsertAt(s, 1 + c, e) = SubSeq(s, 1, (1 + c) - 1) \o mid \o SubSeq(s, 1 + c, Len(s))
  BY DEF InsertAt
<1> HIDE DEF c
<1>3. (1 + c) - 1 = c /\ 1 + c = c + 1
  BY <1>1
<1>4. /\ front \in Seq(T) /\ Len(front) = c /\ \A i \in 1..c : front[i] = s[i]
      /\ back \in Seq(T) /\ Len(back) = Len(s) - c /\ \A i \in 1..Len(s)-c : back[i] = s[c+i]
  <2>1. front \in Seq(T) /\ Len(front) = c /\ \A i \in 1..c : front[i] = s[i]
    BY <1>1, SubSeqProperties
  <2>2. back \in Seq(T) /\ Len(back) = Len(s) - c /\ \A i \in 1..Len(s)-c : back[i] = s[c+i]
    <3>1. /\ back \in Seq(T) /\ Len(back) = IF c+1 <= Len(s) THEN Len(s)-(c+1)+1 ELSE 0
          /\ \A i \in 1..Len(s)-(c+1)+1 : back[i] = s[(c+1)+i-1]
      BY <1>1, SubSeqProperties
    <3>2. Len(s)-(c+1)+1 = Len(s)-c /\ \A i \in 1..Len(s)-c : (c+1)+i-1 = c+i
      BY <1>1
    <3> HIDE DEF back
    <3>3. Len(back) = Len(s) - c
      <4>1. c \in Nat /\ Len(s) \in Nat /\ c <= Len(s)
        BY <1>1
      <4>2. Len(back) = IF c+1 <= Len(s) THEN Len(s)-(c+1)+1 ELSE 0
        BY <3>1
      <4>3. CASE c+1 <= Len(s)
        BY <4>1, <4>2, <4>3
      <4>4. CASE ~(c+1 <= Len(s))
        BY <4>1, <4>2, <4>4
      <4> QED BY <4>3, <4>4
    <3>4. ASSUME NEW i \in 1..Len(s)-c PROVE back[i] = s[c+i]
      <4>1. i \in 1..Len(s)-(c+1)+1 /\ (c+1)+i-1 = c+i
        BY <1>1, <3>2
      <4> QED BY <3>1, <4>1
    <3> QED BY <3>1, <3>3, <3>4
  <2> QED BY <2>1, <2>2
<1>5. mid \in Seq(T) /\ IsInjective(mid) /\ ToSet(mid) = {e}
  BY OnceOne
<1>6. InsertAt(s, 1 + c, e) = front \o mid \o back
  BY <1>2, <1>3
<1> HIDE DEF front, mid, back
<1>7. /\ DOMAIN front = 1..c /\ DOMAIN back = 1..Len(s)-c
      /\ ToSet(front) = {s[i] : i \in 1..c}
      /\ ToSet(back) = {s[c+i] : i \in 1..Len(s)-c}
      /\ ToSet(s) = {s[i] : i \in 1..Len(s)}
  <2>1. DOMAIN front = 1..c /\ DOMAIN back = 1..Len(s)-c
    BY <1>4, LenProperties
  <2>2. ToSet(front) = {s[i] : i \in 1..c}
    <3>1. ToSet(front) = {front[i] : i \in 1..c} /\ \A i \in 1..c : front[i] = s[i]
      BY <1>4, <2>1 DEF ToSet
    <3> QED BY <3>1
  <2>3. ToSet(back) = {s[c+i] : i \in 1..Len(s)-c}
    <3>1. ToSet(back) = {back[i] : i \in 1..Len(s)-c} /\ \A i \in 1..Len(s)-c : back[i] = s[c+i]
      BY <1>4, <2>1 DEF ToSet
    <3> QED BY <3>1
  <2>4. ToSet(s) = {s[i] : i \in 1..Len(s)}
    BY <1>1 DEF ToSet
  <2> QED BY <2>1, <2>2, <2>3, <2>4
<1>8. \A i \in 1..c : i \in 1..Len(s)
  BY <1>1
<1>9. \A i \in 1..Len(s)-c : c + i \in 1..Len(s) /\ c + i \notin 1..c
  BY <1>1
<1>10. \A i \in 1..Len(s) : i \in 1..c \/ (i - c \in 1..Len(s)-c /\ c + (i - c) = i)
  BY <1>1
<1>11. \A i, j \in 1..Len(s) : s[i] = s[j] => i = j
  BY <1>1 DEF IsInjective
<1>12. ToSet(front) \cup ToSet(back) = ToSet(s)
  BY <1>7, <1>8, <1>9, <1>10
<1>13. ToSet(front) \cap ToSet(back) = {}
  <2>1. ASSUME NEW i \in 1..c, NEW j \in 1..Len(s)-c PROVE s[i] # s[c+j]
    <3>1. i \in 1..Len(s) /\ c + j \in 1..Len(s) /\ i # c + j
      BY <1>8, <1>9
    <3> QED BY <1>11, <3>1
  <2> QED BY <1>7, <2>1
<1>14. IsInjective(front)
  <2> SUFFICES ASSUME NEW i \in 1..c, NEW j \in 1..c, front[i] = front[j] PROVE i = j
    BY <1>7 DEF IsInjective
  <2>1. s[i] = s[j] /\ i \in 1..Len(s) /\ j \in 1..Len(s)
    BY <1>4, <1>8
  <2> QED BY <1>11, <2>1
<1>15. IsInjective(back)
  <2> SUFFICES ASSUME NEW i \in 1..Len(s)-c, NEW j \in 1..Len(s)-c, back[i] = back[j] PROVE i = j
    BY <1>7 DEF IsInjective
  <2>0. s[c+i] = s[c+j] /\ c + i \in 1..Len(s) /\ c + j \in 1..Len(s)
    BY <1>4, <1>9
  <2>1. c + i = c + j
    BY <1>11, <2>0
  <2> QED BY <1>1, <2>1
<1>16. e \notin ToSet(front)
  BY <1>12
<1>17. IsInjective(front \o mid) /\ front \o mid \in Seq(T) /\ ToSet(front \o mid) = ToSet(front) \cup {e}
  BY <1>4, <1>5, <1>14, <1>16, OnceJoined, ConcatSet
<1>18. ToSet(front \o mid) \cap ToSet(back) = {}
  BY <1>12, <1>13, <1>17
<1>19. IsInjective(front \o mid \o back) /\ ToSet(front \o mid \o back) = ToSet(s) \cup {e}
  <2> DEFINE u == front \o mid
  <2>0. u \in Seq(T) /\ IsInjective(u) /\ ToSet(u) \cap ToSet(back) = {} /\ back \in Seq(T)
        /\ ToSet(u) = ToSet(front) \cup {e}
    BY <1>4, <1>17, <1>18
  <2> HIDE DEF u
  <2>1. IsInjective(u \o back)
    BY <1>15, <2>0, OnceJoined
  <2>2. ToSet(u \o back) = ToSet(u) \cup ToSet(back)
    BY <2>0, ConcatSet
  <2>3. IsInjective(u \o back) /\ ToSet(u \o back) = ToSet(s) \cup {e}
    BY <1>12, <2>0, <2>1, <2>2
  <2> QED BY <2>3 DEF u
<1> QED BY <1>6, <1>19 DEF c

-----------------------------------------------------------------------------
(* Sequences of records as lists of the spots their elements are about.    *)

\* What the results of a search are about.
Spots(s) == [i \in DOMAIN s |-> <<s[i].id, s[i].anchor>>]
SpotsIn(T) == {<<r.id, r.anchor>> : r \in T}

LEMMA SpotsTyped ==
  ASSUME NEW T, NEW s \in Seq(T)
  PROVE  Spots(s) \in Seq(SpotsIn(T)) /\ Len(Spots(s)) = Len(s) /\ DOMAIN Spots(s) = DOMAIN s
<1>1. DOMAIN s = 1..Len(s) /\ Len(s) \in Nat /\ \A i \in DOMAIN s : s[i] \in T
  BY LenProperties, ElementOfSeq
<1>2. \A i \in DOMAIN s : <<s[i].id, s[i].anchor>> \in SpotsIn(T)
  BY <1>1 DEF SpotsIn
<1> DEFINE spots == Spots(s)
<1>3. DOMAIN spots = 1..Len(s) /\ \A i \in 1..Len(s) : spots[i] \in SpotsIn(T)
  BY <1>1, <1>2 DEF Spots
<1>4. spots = [i \in 1..Len(s) |-> spots[i]]
  BY <1>1 DEF Spots
<1> HIDE DEF spots
<1>5. spots \in Seq(SpotsIn(T))
  BY <1>1, <1>3, <1>4
<1> QED BY <1>1, <1>3, <1>5, LenProperties DEF spots

LEMMA SpotsJoined ==
  ASSUME NEW T, NEW s \in Seq(T), NEW t \in Seq(T)
  PROVE  Spots(s \o t) = Spots(s) \o Spots(t)
<1>1. /\ Len(s \o t) = Len(s) + Len(t) /\ Len(s) \in Nat /\ Len(t) \in Nat
      /\ \A i \in 1..Len(s) + Len(t) : (s \o t)[i] = IF i <= Len(s) THEN s[i] ELSE t[i - Len(s)]
      /\ DOMAIN (s \o t) = 1..Len(s) + Len(t) /\ DOMAIN s = 1..Len(s) /\ DOMAIN t = 1..Len(t)
  BY ConcatProperties, LenProperties
<1> DEFINE u == Spots(s)
           v == Spots(t)
           w == Spots(s \o t)
           S == SpotsIn(T)
<1>2. u \in Seq(S) /\ Len(u) = Len(s) /\ v \in Seq(S) /\ Len(v) = Len(t)
  BY SpotsTyped
<1>3. /\ DOMAIN w = 1..Len(s) + Len(t) /\ \A i \in DOMAIN s : u[i] = <<s[i].id, s[i].anchor>>
      /\ \A i \in DOMAIN t : v[i] = <<t[i].id, t[i].anchor>>
      /\ \A i \in 1..Len(s) + Len(t) : w[i] = <<(s \o t)[i].id, (s \o t)[i].anchor>>
      /\ w = [i \in DOMAIN w |-> w[i]]
  BY <1>1 DEF Spots
<1> HIDE DEF u, v, w, S
<1>4. /\ DOMAIN (u \o v) = 1..Len(s) + Len(t) /\ u \o v \in [1..Len(s) + Len(t) -> S]
      /\ \A i \in 1..Len(s) + Len(t) : (u \o v)[i] = IF i <= Len(s) THEN u[i] ELSE v[i - Len(s)]
  <2>1. /\ u \o v \in Seq(S) /\ Len(u \o v) = Len(u) + Len(v)
        /\ \A i \in 1..Len(u) + Len(v) : (u \o v)[i] = IF i <= Len(u) THEN u[i] ELSE v[i - Len(u)]
    BY <1>2, ConcatProperties
  <2>2. DOMAIN (u \o v) = 1..Len(u \o v) /\ u \o v \in [1..Len(u \o v) -> S]
    BY <2>1, LenProperties
  <2> QED BY <1>2, <2>1, <2>2
<1>5. ASSUME NEW i \in 1..Len(s) + Len(t) PROVE (u \o v)[i] = w[i]
  <2>1. CASE i <= Len(s)
    <3>1. i \in DOMAIN s
      BY <1>1, <2>1
    <3> QED BY <1>1, <1>3, <1>4, <2>1, <3>1
  <2>2. CASE ~(i <= Len(s))
    <3>1. i - Len(s) \in DOMAIN t
      BY <1>1, <2>2
    <3> QED BY <1>1, <1>3, <1>4, <2>2, <3>1
  <2> QED BY <2>1, <2>2
<1>6. u \o v = [i \in 1..Len(s) + Len(t) |-> (u \o v)[i]]
  BY <1>4
<1>7. u \o v = w
  BY <1>3, <1>5, <1>6
<1> QED BY <1>7 DEF u, v, w

\* Results about each of some places once, and about no other.
Lists(s, S) == IsInjective(Spots(s)) /\ ToSet(Spots(s)) = S

LEMMA ListsNothing == Lists(<<>>, {})
<1>1. Spots(<<>>) = <<>>
  BY DEF Spots
<1> QED BY <1>1, OnceNothing DEF Lists

LEMMA ListsJoined ==
  ASSUME NEW T, NEW s \in Seq(T), NEW t \in Seq(T), NEW S, NEW R, Lists(s, S), Lists(t, R),
         S \cap R = {}
  PROVE  Lists(s \o t, S \cup R)
<1> DEFINE u == Spots(s)
           v == Spots(t)
<1>1. Spots(s \o t) = u \o v
  BY SpotsJoined
<1>2. u \in Seq(SpotsIn(T)) /\ v \in Seq(SpotsIn(T))
  BY SpotsTyped
<1>3. IsInjective(u) /\ IsInjective(v) /\ ToSet(u) = S /\ ToSet(v) = R
  BY DEF Lists
<1> HIDE DEF u, v
<1>4. IsInjective(u \o v) /\ ToSet(u \o v) = S \cup R
  BY <1>2, <1>3, OnceJoined, ConcatSet
<1> QED BY <1>1, <1>4 DEF Lists

LEMMA ListsCounts ==
  ASSUME NEW T, NEW s \in Seq(T), NEW S, Lists(s, S)
  PROVE  IsFiniteSet(S) /\ Cardinality(S) = Len(s)
<1> DEFINE u == Spots(s)
<1>1. u \in Seq(SpotsIn(T)) /\ Len(u) = Len(s) /\ IsInjective(u) /\ ToSet(u) = S
  BY SpotsTyped DEF Lists
<1> HIDE DEF u
<1> QED BY <1>1, OnceCounts

\* Results s are the paths p, as many as found, and then the texts t.
Split(s, p, t, found) ==
  /\ p \in Seq(ToSet(s)) /\ t \in Seq(ToSet(s)) /\ s = p \o t /\ Len(p) = found

\* So far there are paths and no texts.
LEMMA PartsWhole ==
  ASSUME NEW T, NEW s \in Seq(T) PROVE Split(s, s, <<>>, Len(s))
<1>1. s \in Seq(ToSet(s)) /\ <<>> \in Seq(ToSet(s))
  BY LenProperties DEF ToSet
<1>2. s = s \o <<>>
  BY ConcatEmptySeq
<1> QED BY <1>1, <1>2 DEF Split

-----------------------------------------------------------------------------
(* Places one behind the other: the walk from left to right takes of each  *)
(* set the first place behind the one before, and says where that ends.    *)

From(places, start) == {k \in places : start > 0 /\ k >= start}
Past(places, start, len) ==
  IF From(places, start) = {} THEN 0 ELSE Min(From(places, start)) + len

LEMMA PastLeast ==
  ASSUME NEW places \in SUBSET Nat, NEW start, NEW len \in Nat
  PROVE  /\ Past(places, start, len) \in Nat
         /\ From(places, start) # {} =>
              \E m \in From(places, start) :
                 Past(places, start, len) = m + len /\ \A i \in From(places, start) : m <= i
<1> DEFINE H == From(places, start)
<1>1. H \in SUBSET Nat
  BY DEF From
<1>2. Past(places, start, len) = IF H = {} THEN 0 ELSE Min(H) + len
  BY DEF Past
<1> HIDE DEF H
<1>3. CASE H = {}
  BY <1>2, <1>3 DEF H
<1>4. CASE H # {}
  <2>1. PICK m \in H : \A i \in H : m <= i
    BY <1>1, <1>4, LeastMember
  <2>2. Min(H) \in H /\ \A i \in H : Min(H) <= i
    BY <2>1 DEF Min
  <2>3. Min(H) \in Nat
    BY <1>1, <2>2
  <2> QED BY <1>2, <1>4, <2>2, <2>3 DEF H
<1> QED BY <1>3, <1>4

TakesFirst(n, O, l, v) ==
  /\ \A i \in 1..n : O[i] \in SUBSET (Nat \ {0}) /\ l[i] \in Nat
  /\ v \in [0..n -> Nat] /\ v[0] = 1 /\ \A i \in 1..n : v[i] = Past(O[i], v[i-1], l[i])
InTurn(n, O, l, at) ==
  \A i \in 1..n : at[i] \in O[i] /\ (i > 1 => at[i] >= at[i-1] + l[i-1])

\* A walk that does not fail has found places.
LEMMA WalkFinds ==
  ASSUME NEW n \in Nat, NEW O, NEW l, NEW v, TakesFirst(n, O, l, v), v[n] # 0
  PROVE  \E at \in [1..n -> Nat] : InTurn(n, O, l, at)
<1> DEFINE G == {i \in 0..n :
                   v[i] # 0 =>
                     \E at \in [1..i -> Nat] :
                       InTurn(i, O, l, at) /\ (i > 0 => v[i] = at[i] + l[i])}
<1>1. /\ \A i \in 1..n : O[i] \in SUBSET Nat /\ l[i] \in Nat
      /\ v \in [0..n -> Nat] /\ \A i \in 1..n : v[i] = Past(O[i], v[i-1], l[i])
  BY DEF TakesFirst
<1>2. 0 \in G
  <2> DEFINE at == [i \in 1..0 |-> 0]
  <2>1. at \in [1..0 -> Nat] /\ InTurn(0, O, l, at)
    BY DEF InTurn
  <2> HIDE DEF at
  <2>2. 0 \in 0..n /\ ~(0 > 0)
    OBVIOUS
  <2> QED BY <2>1, <2>2
<1>3. ASSUME NEW i \in 1..n, i - 1 \in G PROVE i \in G
  <2> SUFFICES ASSUME v[i] # 0
               PROVE  \E at \in [1..i -> Nat] : InTurn(i, O, l, at) /\ v[i] = at[i] + l[i]
    OBVIOUS
  <2> DEFINE H == From(O[i], v[i-1])
  <2>1. /\ v[i] = Past(O[i], v[i-1], l[i]) /\ v[i-1] \in Nat /\ l[i] \in Nat
        /\ O[i] \in SUBSET Nat
    BY <1>1
  <2>2. H # {}
    BY <2>1 DEF Past
  <2>3. PICK m \in H : v[i] = m + l[i]
    <3>1. \E m \in H : Past(O[i], v[i-1], l[i]) = m + l[i]
      BY <2>1, <2>2, PastLeast, ZenonT(60)
    <3> QED BY <2>1, <3>1, Zenon
  <2>4. m \in O[i] /\ m \in Nat /\ v[i-1] > 0 /\ m >= v[i-1]
    BY <2>1 DEF From
  <2>5. PICK at \in [1..i-1 -> Nat] :
          InTurn(i-1, O, l, at) /\ (i-1 > 0 => v[i-1] = at[i-1] + l[i-1])
    BY <1>3, <2>1, <2>4
  <2> DEFINE more == [j \in 1..i |-> IF j = i THEN m ELSE at[j]]
  <2>6. more \in [1..i -> Nat] /\ more[i] = m /\ \A j \in 1..i-1 : more[j] = at[j]
    BY <2>4
  <2> HIDE DEF more
  <2>7. InTurn(i, O, l, more)
    <3> SUFFICES ASSUME NEW j \in 1..i
                 PROVE  more[j] \in O[j] /\ (j > 1 => more[j] >= more[j-1] + l[j-1])
      BY DEF InTurn
    <3>1. CASE j = i
      <4>1. j > 1 => i - 1 \in 1..i-1 /\ i - 1 > 0
        BY <3>1
      <4> QED BY <2>4, <2>5, <2>6, <3>1, <4>1
    <3>2. CASE j # i
      <4>1. j \in 1..i-1 /\ (j > 1 => j - 1 \in 1..i-1)
        BY <3>2
      <4> QED BY <2>5, <2>6, <4>1 DEF InTurn
    <3> QED BY <3>1, <3>2
  <2> QED BY <2>3, <2>6, <2>7
<1> HIDE DEF G
<1>4. \A i \in 1..n : i - 1 \in G => i \in G
  BY <1>3
<1>5. \A i \in 0..n : i \in G
  BY <1>2, <1>4, StepInduction, Zenon
<1> QED BY <1>5 DEF G

\* It does not fail if there are places: the earliest leave most room for the rest.
LEMMA WalkMisses ==
  ASSUME NEW n \in Nat, NEW O, NEW l, NEW v, TakesFirst(n, O, l, v),
         NEW at \in [1..n -> Nat], InTurn(n, O, l, at)
  PROVE  v[n] # 0
<1> DEFINE G == {i \in 0..n : v[i] # 0 /\ (i > 0 => v[i] <= at[i] + l[i])}
<1>1. /\ \A i \in 1..n : O[i] \in SUBSET (Nat \ {0}) /\ l[i] \in Nat
      /\ v \in [0..n -> Nat] /\ v[0] = 1 /\ \A i \in 1..n : v[i] = Past(O[i], v[i-1], l[i])
  BY DEF TakesFirst
<1>2. 0 \in G
  BY <1>1
<1>3. ASSUME NEW i \in 1..n, i - 1 \in G PROVE i \in G
  <2> DEFINE H == From(O[i], v[i-1])
  <2>0. i - 1 \in 0..n /\ i \in 0..n
    OBVIOUS
  <2>1. /\ v[i] = Past(O[i], v[i-1], l[i]) /\ v[i-1] \in Nat /\ v[i] \in Nat
        /\ O[i] \in SUBSET Nat /\ l[i] \in Nat /\ at[i] \in O[i] /\ at[i] \in Nat /\ at[i] >= 1
    BY <1>1, <2>0 DEF InTurn
  <2>2. v[i-1] > 0
    BY <1>3, <2>1
  <2>3. at[i] >= v[i-1]
    <3>1. CASE i = 1
      BY <1>1, <2>1, <3>1
    <3>2. CASE i # 1
      <4>1. i - 1 \in 1..n /\ i - 1 > 0 /\ i > 1
        BY <3>2
      <4>2. v[i-1] <= at[i-1] + l[i-1] /\ at[i] >= at[i-1] + l[i-1]
        BY <1>3, <4>1 DEF InTurn
      <4>3. at[i-1] \in Nat /\ l[i-1] \in Nat
        BY <1>1, <4>1
      <4> QED BY <2>1, <4>2, <4>3
    <3> QED BY <3>1, <3>2
  <2>4. at[i] \in H
    BY <2>1, <2>2, <2>3 DEF From
  <2>5. PICK m \in H : v[i] = m + l[i] /\ \A j \in H : m <= j
    BY <2>1, <2>4, PastLeast
  <2>6. m <= at[i] /\ m >= v[i-1] /\ m \in Nat
    BY <2>1, <2>4, <2>5 DEF From
  <2> QED BY <2>0, <2>1, <2>2, <2>5, <2>6
<1> HIDE DEF G
<1>4. \A i \in 1..n : i - 1 \in G => i \in G
  BY <1>3
<1>5. \A i \in 0..n : i \in G
  BY <1>2, <1>4, StepInduction, Zenon
<1> QED BY <1>5 DEF G
=============================================================================
