------------------------------ MODULE FoldLemmas ------------------------------
(***************************************************************************)
(* What the proofs about the models keep needing and the library does not  *)
(* state: least and greatest elements, which stand in for induction, what  *)
(* the sum of a function over a finite set is, what FlattenSeq lays end to *)
(* end, what a step function comes to along a sequence, that there are     *)
(* functions whose recursion goes down, division by a size, pieces of      *)
(* sequences, and numbers in their order and what is cut at them.          *)
(***************************************************************************)
EXTENDS Integers, FiniteSets, FiniteSetsExt, FiniteSetTheorems,
        SequencesExt, SequenceTheorems, WellFoundedInduction, TLAPS

Less == {pair \in Nat \X Nat : pair[1] < pair[2]}

\* A set of numbers has a least element: with a set of counterexamples, this is
\* how the lemmas below are proved by induction.
LEMMA LeastNumber ==
  ASSUME NEW T, T \subseteq Nat, T # {}
  PROVE  \E m \in T : \A n \in T : m <= n
<1>0. IsWellFoundedOn(Less, Nat)
  BY NatLessThanWellFounded, Zenon DEF OpToRel, Less
<1>1. PICK m \in T : \A n \in T : ~ (<<n, m>> \in Less)
  BY <1>0, WFMin
<1> SUFFICES ASSUME NEW n \in T, ~ (m <= n) PROVE FALSE
  OBVIOUS
<1>2. m \in Nat /\ n \in Nat
  OBVIOUS
<1>3. <<n, m>> \in Less
  BY <1>2 DEF Less
<1> QED BY <1>1, <1>3

\* A nonempty set of numbers with an upper bound has its Max.
LEMMA GreatestNumber ==
  ASSUME NEW T, NEW bound \in Nat, T \subseteq 0 .. bound, T # {}
  PROVE  Max(T) \in T /\ \A n \in T : n <= Max(T)
<1> DEFINE D == {bound - n : n \in T}
<1>1. D \subseteq Nat /\ D # {}
  <2>1. \A n \in T : n \in Nat /\ bound - n \in Nat
    OBVIOUS
  <2> QED BY <2>1
<1>2. \E d \in D : \A e \in D : d <= e
  <2> HIDE DEF D
  <2> QED BY <1>1, LeastNumber
<1>3. PICK m \in T : \A e \in D : bound - m <= e
  BY <1>2
<1>4. ASSUME NEW n \in T PROVE m >= n
  <2>1. bound - m <= bound - n
    BY <1>3
  <2>2. n \in 0 .. bound /\ m \in 0 .. bound
    OBVIOUS
  <2> QED BY <2>1, <2>2
<1>5. \E x \in T : \A y \in T : x >= y
  BY <1>4
<1>6. Max(T) \in T /\ \A y \in T : Max(T) >= y
  BY <1>5, Zenon DEF Max
<1> QED BY <1>6

\* A nonempty set of finite sets has a smallest member: induction over the
\* subsets of a finite set.
LEMMA SmallestSubset ==
  ASSUME NEW S, IsFiniteSet(S), NEW T, T \subseteq SUBSET S, T # {}
  PROVE  \E U \in T : \A V \in SUBSET U : V # U => V \notin T
<1>1. IsWellFoundedOn(StrictSubsetOrdering(S), FiniteSubsetsOf(S))
  BY FS_StrictSubsetOrderingWellFounded
<1>2. FiniteSubsetsOf(S) = SUBSET S
  BY FS_FiniteSubsetsOfFinite
<1>3. PICK U \in T : \A V \in T : ~ (<<V, U>> \in StrictSubsetOrdering(S))
  BY <1>1, <1>2, WFMin
<1>4. ASSUME NEW V \in SUBSET U, V # U, V \in T PROVE FALSE
  <2>1. <<V, U>> \in StrictSubsetOrdering(S)
    BY <1>4 DEF StrictSubsetOrdering
  <2> QED BY <1>3, <1>4, <2>1
<1> QED BY <1>4

-----------------------------------------------------------------------------
(* Sums over finite sets.                                                   *)

SumOver(f, S) == MapThenSumSet(LAMBDA x : f[x], S)

Pick(s) == CHOOSE x \in s : TRUE

\* g[s] is the sum over s, for every s \in D.
IsSum(f, D, g) ==
  g = [s \in D |-> IF s = {} THEN 0 ELSE f[Pick(s)] + g[s \ {Pick(s)}]]

LEMMA SumUnfold ==
  ASSUME NEW f, NEW S
  PROVE  SumOver(f, S) = (CHOOSE g : IsSum(f, SUBSET S, g))[S]
BY DEF SumOver, MapThenSumSet, MapThenFoldSet, IsSum, Pick

UpTo(S, n) == {s \in SUBSET S : Cardinality(s) <= n}

LEMMA SumExists ==
  ASSUME NEW f, NEW S, IsFiniteSet(S)
  PROVE  \E g : IsSum(f, SUBSET S, g)
<1> DEFINE T == {n \in Nat : ~ \E g : IsSum(f, UpTo(S, n), g)}
<1>0. \A s \in SUBSET S : IsFiniteSet(s) /\ Cardinality(s) \in Nat
                       /\ Cardinality(s) <= Cardinality(S)
  BY FS_Subset, FS_CardinalityType
<1>1. ASSUME T # {} PROVE FALSE
  <2>1. PICK n \in T : \A k \in T : n <= k
    BY <1>1, LeastNumber
  <2>2. n \in Nat /\ n \in T
    OBVIOUS
  <2>3. CASE n = 0
    <3> DEFINE g == [s \in UpTo(S, 0) |-> 0]
    <3>1. \A s \in UpTo(S, 0) : s = {}
      BY <1>0, FS_EmptySet DEF UpTo
    <3>2. IsSum(f, UpTo(S, 0), g)
      BY <3>1 DEF IsSum
    <3> QED BY <2>2, <2>3, <3>2
  <2>4. CASE n # 0
    <3>1. n - 1 \in Nat /\ n - 1 \notin T
      BY <2>1, <2>2, <2>4
    <3>2. PICK h : IsSum(f, UpTo(S, n - 1), h)
      BY <3>1
    <3> DEFINE g == [s \in UpTo(S, n) |-> IF s \in UpTo(S, n - 1) THEN h[s]
                                         ELSE f[Pick(s)] + h[s \ {Pick(s)}]]
    <3>3. ASSUME NEW s \in UpTo(S, n)
          PROVE  g[s] = IF s = {} THEN 0 ELSE f[Pick(s)] + g[s \ {Pick(s)}]
      <4>1. s \in SUBSET S /\ Cardinality(s) \in Nat /\ Cardinality(s) <= n /\ IsFiniteSet(s)
        BY <1>0 DEF UpTo
      <4>2. CASE s = {}
        <5>1. s \in UpTo(S, n - 1)
          BY <4>1, <4>2, <3>1, FS_EmptySet DEF UpTo
        <5>2. h[s] = 0
          BY <5>1, <3>2, <4>2 DEF IsSum
        <5> QED BY <5>1, <5>2, <4>2
      <4>3. CASE s # {}
        <5>1. Pick(s) \in s
          BY <4>3 DEF Pick
        <5>2. Cardinality(s \ {Pick(s)}) = Cardinality(s) - 1
          BY <4>1, <5>1, FS_RemoveElement
        <5>3. s \ {Pick(s)} \in UpTo(S, n - 1) /\ s \ {Pick(s)} \in UpTo(S, n)
          BY <4>1, <5>2, <2>2 DEF UpTo
        <5>4. g[s \ {Pick(s)}] = h[s \ {Pick(s)}]
          BY <5>3
        <5>5. CASE s \in UpTo(S, n - 1)
          <6>1. h[s] = f[Pick(s)] + h[s \ {Pick(s)}]
            BY <3>2, <5>5, <4>3 DEF IsSum
          <6> QED BY <6>1, <5>4, <5>5, <4>3
        <5>6. CASE s \notin UpTo(S, n - 1)
          BY <5>4, <5>6, <4>3
        <5> QED BY <5>5, <5>6
      <4> QED BY <4>2, <4>3
    <3>4. g = [s \in UpTo(S, n) |-> g[s]]
      OBVIOUS
    <3> HIDE DEF g
    <3>5. IsSum(f, UpTo(S, n), g)
      BY <3>3, <3>4 DEF IsSum
    <3> QED BY <3>5, <2>2
  <2> QED BY <2>3, <2>4
<1>2. Cardinality(S) \in Nat
  BY FS_CardinalityType
<1>3. UpTo(S, Cardinality(S)) = SUBSET S
  BY <1>0 DEF UpTo
<1>4. \E g : IsSum(f, UpTo(S, Cardinality(S)), g)
  BY <1>1, <1>2
<1> QED BY <1>3, <1>4

\* The fold over a subset is the same one.
LEMMA SumUnique ==
  ASSUME NEW f, NEW S, IsFiniteSet(S), NEW U \in SUBSET S,
         NEW g, IsSum(f, SUBSET S, g), NEW h, IsSum(f, SUBSET U, h)
  PROVE  g[U] = h[U]
<1> DEFINE bad == {s \in SUBSET U : g[s] # h[s]}
<1>1. ASSUME bad # {} PROVE FALSE
  <2>1. IsFiniteSet(U)
    BY FS_Subset
  <2>0. bad \subseteq SUBSET U
    OBVIOUS
  <2>2. PICK s \in bad : \A t \in SUBSET s : t # s => t \notin bad
    <3> HIDE DEF bad
    <3> QED BY <1>1, <2>0, <2>1, SmallestSubset
  <2>3. s \in SUBSET U /\ s \in SUBSET S /\ g[s] # h[s]
    OBVIOUS
  <2>4. s # {}
    BY <2>3 DEF IsSum
  <2>5. Pick(s) \in s
    BY <2>4 DEF Pick
  <2>6. g[s \ {Pick(s)}] = h[s \ {Pick(s)}]
    BY <2>2, <2>3, <2>5
  <2>7. /\ g[s] = f[Pick(s)] + g[s \ {Pick(s)}]
        /\ h[s] = f[Pick(s)] + h[s \ {Pick(s)}]
    BY <2>3, <2>4 DEF IsSum
  <2> QED BY <2>3, <2>6, <2>7
<1> QED BY <1>1

LEMMA SumStep ==
  ASSUME NEW f, NEW S, IsFiniteSet(S)
  PROVE  SumOver(f, S) = IF S = {} THEN 0
                         ELSE f[Pick(S)] + SumOver(f, S \ {Pick(S)})
<1> DEFINE U == S \ {Pick(S)}
<1>1. IsFiniteSet(U) /\ U \in SUBSET S
  BY FS_Subset
<1>2. PICK g : /\ IsSum(f, SUBSET S, g) /\ SumOver(f, S) = g[S]
  BY SumExists, SumUnfold
<1>3. PICK h : /\ IsSum(f, SUBSET U, h) /\ SumOver(f, U) = h[U]
  BY <1>1, SumExists, SumUnfold
<1>4. g[U] = h[U]
  <2>1. IsSum(f, SUBSET S, g)
    BY <1>2
  <2>2. IsSum(f, SUBSET U, h)
    BY <1>3
  <2>3. \A V \in SUBSET S : IsSum(f, SUBSET V, h) => g[V] = h[V]
    BY <2>1, SumUnique, ZenonT(30)
  <2> HIDE DEF U
  <2> QED BY <1>1, <2>2, <2>3
<1>5. g[S] = IF S = {} THEN 0 ELSE f[Pick(S)] + g[U]
  BY <1>2 DEF IsSum
<1> QED BY <1>2, <1>3, <1>4, <1>5

\* The sum is a number, and any element may be taken out of it.
LEMMA SumRemove ==
  ASSUME NEW D, NEW f \in [D -> Nat], NEW S \in SUBSET D, IsFiniteSet(S)
  PROVE  /\ SumOver(f, S) \in Nat
         /\ S = {} => SumOver(f, S) = 0
         /\ \A x \in S : SumOver(f, S) = f[x] + SumOver(f, S \ {x})
<1> DEFINE Good(U) == /\ SumOver(f, U) \in Nat
                      /\ U = {} => SumOver(f, U) = 0
                      /\ \A x \in U : SumOver(f, U) = f[x] + SumOver(f, U \ {x})
           bad == {U \in SUBSET S : ~ Good(U)}
<1>1. ASSUME bad # {} PROVE FALSE
  <2>1. PICK U \in bad : \A V \in SUBSET U : V # U => V \notin bad
    <3>1. bad \subseteq SUBSET S
      OBVIOUS
    <3> HIDE DEF bad
    <3> QED BY <1>1, <3>1, SmallestSubset
  <2>2. U \in SUBSET S /\ IsFiniteSet(U) /\ ~ Good(U)
    BY FS_Subset
  <2>3. ASSUME NEW x \in U PROVE Good(U \ {x}) /\ f[x] \in Nat
    BY <2>1, <2>2
  <2>4. U # {}
    <3>1. SumOver(f, {}) = 0
      BY SumStep, FS_EmptySet
    <3>2. ~ Good({}) => U # {}
      BY <3>1
    <3>3. U = {} => Good({})
      BY <3>1
    <3> QED BY <2>2, <3>3
  <2>5. PICK c \in U : SumOver(f, U) = f[c] + SumOver(f, U \ {c})
    <3>1. Pick(U) \in U
      BY <2>4 DEF Pick
    <3>2. SumOver(f, U) = f[Pick(U)] + SumOver(f, U \ {Pick(U)})
      BY <2>2, <2>4, SumStep
    <3> QED BY <3>1, <3>2
  <2>6. f[c] \in Nat /\ SumOver(f, U \ {c}) \in Nat
    BY <2>3
  <2>7. ASSUME NEW x \in U PROVE SumOver(f, U) = f[x] + SumOver(f, U \ {x})
    <3>1. CASE x = c
      BY <2>5, <3>1
    <3>2. CASE x # c
      <4> DEFINE both == U \ {x, c}
      <4>1. (U \ {c}) \ {x} = both /\ (U \ {x}) \ {c} = both
        OBVIOUS
      <4>2. SumOver(f, U \ {c}) = f[x] + SumOver(f, both)
        <5>1. x \in U \ {c} /\ Good(U \ {c})
          BY <2>3, <3>2
        <5> QED BY <4>1, <5>1
      <4>3. SumOver(f, U \ {x}) = f[c] + SumOver(f, both)
        <5>1. c \in U \ {x} /\ Good(U \ {x})
          BY <2>3, <3>2
        <5> QED BY <4>1, <5>1
      <4>4. IsFiniteSet(both) /\ IsFiniteSet(U \ {x})
        BY <2>2, FS_Subset
      <4>5. f[x] \in Nat /\ SumOver(f, U \ {x}) \in Nat
        BY <2>3
      <4>6. SumOver(f, both) \in Nat
        <5>1. both \in SUBSET U /\ both # U
          OBVIOUS
        <5>2. Good(both)
          BY <2>1, <2>2, <5>1
        <5> QED BY <5>2
      <4> HIDE DEF both
      <4> QED BY <2>5, <2>6, <4>2, <4>3, <4>5, <4>6
    <3> QED BY <3>1, <3>2
  <2>8. Good(U)
    <3>1. f[c] + SumOver(f, U \ {c}) \in Nat
      BY <2>6
    <3> QED BY <2>4, <2>5, <2>7, <3>1
  <2> QED BY <2>2, <2>8
<1>2. S \notin bad
  BY <1>1
<1> QED BY <1>2

\* More elements, or bigger ones, do not make a sum smaller.
LEMMA SumMonotone ==
  ASSUME NEW D, NEW f \in [D -> Nat], NEW E, NEW g \in [E -> Nat],
         NEW S \in SUBSET D, NEW U \in SUBSET E, IsFiniteSet(U), S \subseteq U,
         \A x \in S : f[x] <= g[x]
  PROVE  SumOver(f, S) <= SumOver(g, U)
<1> DEFINE bad == {V \in SUBSET U : ~ (SumOver(f, V \cap S) <= SumOver(g, V))}
<1>1. ASSUME bad # {} PROVE FALSE
  <2>1. PICK V \in bad : \A W \in SUBSET V : W # V => W \notin bad
    <3>1. bad \subseteq SUBSET U
      OBVIOUS
    <3> HIDE DEF bad
    <3> QED BY <1>1, <3>1, SmallestSubset
  <2>2. /\ V \in SUBSET U /\ V \in SUBSET E /\ IsFiniteSet(V)
        /\ V \cap S \in SUBSET D /\ IsFiniteSet(V \cap S)
        /\ ~ (SumOver(f, V \cap S) <= SumOver(g, V))
    BY FS_Subset
  <2>3. V # {}
    <3>1. SumOver(f, {}) = 0 /\ SumOver(g, {}) = 0
      BY SumStep, FS_EmptySet
    <3>2. V = {} => V \cap S = {}
      OBVIOUS
    <3> QED BY <2>2, <3>1, <3>2
  <2>4. PICK x \in V : TRUE
    BY <2>3
  <2> DEFINE W == V \ {x}
  <2>5. /\ SumOver(g, V) = g[x] + SumOver(g, W)
        /\ g[x] \in Nat /\ SumOver(g, W) \in Nat
    <3>1. IsFiniteSet(W) /\ W \in SUBSET E
      BY <2>2, FS_Subset
    <3> QED BY <2>2, <2>4, <3>1, SumRemove
  <2>6. W \cap S \in SUBSET D /\ IsFiniteSet(W \cap S)
    BY <2>2, FS_Subset
  <2>7. SumOver(f, W \cap S) <= SumOver(g, W) /\ SumOver(f, W \cap S) \in Nat
    <3>1. W \in SUBSET U /\ W \notin bad
      BY <2>1, <2>2, <2>4
    <3>2. SumOver(f, W \cap S) \in Nat
      BY <2>6, SumRemove
    <3> QED BY <3>1, <3>2
  <2>8. CASE x \in S
    <3>1. (V \cap S) \ {x} = W \cap S
      OBVIOUS
    <3>2. SumOver(f, V \cap S) = f[x] + SumOver(f, W \cap S)
      <4>1. x \in V \cap S
        BY <2>4, <2>8
      <4> QED BY <2>2, <3>1, <4>1, SumRemove
    <3>3. f[x] \in Nat /\ f[x] <= g[x]
      BY <2>8
    <3> HIDE DEF W
    <3> QED BY <2>2, <2>5, <2>7, <3>2, <3>3
  <2>9. CASE x \notin S
    <3>1. V \cap S = W \cap S
      BY <2>9
    <3>2. SumOver(f, V \cap S) <= SumOver(g, W)
      BY <2>7, <3>1
    <3>3. SumOver(f, V \cap S) \in Nat
      BY <2>7, <3>1
    <3> HIDE DEF W
    <3> QED BY <2>2, <2>5, <3>2, <3>3
  <2> QED BY <2>8, <2>9
<1>2. U \notin bad
  BY <1>1
<1>3. U \cap S = S
  OBVIOUS
<1> QED BY <1>2, <1>3

-----------------------------------------------------------------------------
(* Sequences laid end to end.                                               *)

\* The sequences of d laid end to end, one more at each index.
LaidOut(d, n, f) == f = [i \in 1 .. n |-> IF i = 1 THEN d[i] ELSE f[i - 1] \o d[i]]

\* There is such a function: the definition of FlattenSeq chooses one.
LEMMA LaidOutExists ==
  ASSUME NEW d, NEW n \in Nat
  PROVE  \E f : LaidOut(d, n, f)
<1> DEFINE T == {k \in Nat : ~ \E f : LaidOut(d, k, f)}
<1> SUFFICES ASSUME T # {} PROVE FALSE
  OBVIOUS
<1>1. PICK m \in T : \A k \in T : m <= k
  BY LeastNumber
<1>4. m \in Nat
  BY <1>1
<1>2. CASE m = 0
  <2> DEFINE f == [i \in 1 .. 0 |-> i]
  <2>1. LaidOut(d, 0, f)
    BY DEF LaidOut
  <2> QED BY <1>2, <2>1
<1>3. CASE m # 0
  <2>1. m - 1 \in Nat /\ m - 1 \notin T
    BY <1>1, <1>3
  <2>2. PICK f : LaidOut(d, m - 1, f)
    BY <2>1
  <2> DEFINE last == IF m = 1 THEN d[m] ELSE f[m - 1] \o d[m]
             g == [i \in 1 .. m |-> IF i < m THEN f[i] ELSE last]
  <2>3. LaidOut(d, m, g)
    <3>1. ASSUME NEW i \in 1 .. m
          PROVE  g[i] = IF i = 1 THEN d[i] ELSE g[i - 1] \o d[i]
      <4>1. CASE i < m
        <5>0. i \in 1 .. m - 1
          BY <1>4, <4>1
        <5>1. f[i] = IF i = 1 THEN d[i] ELSE f[i - 1] \o d[i]
          BY <2>2, <5>0 DEF LaidOut
        <5>2. i # 1 => i - 1 \in 1 .. m - 1
          BY <4>1
        <5> QED BY <4>1, <5>1, <5>2
      <4>2. CASE i = m
        <5>1. m # 1 => m - 1 \in 1 .. m /\ m - 1 < m
          BY <1>3
        <5> QED BY <4>2, <5>1
      <4> QED BY <4>1, <4>2
    <3> HIDE DEF last
    <3>2. g = [i \in 1 .. m |-> g[i]]
      OBVIOUS
    <3> HIDE DEF g
    <3> QED BY <3>1, <3>2 DEF LaidOut
  <2> QED BY <1>1, <2>3
<1> QED BY <1>2, <1>3

\* F[i] is the first i of them, from none on.
Heads(d, n, F) == /\ F[0] = <<>>
                  /\ \A i \in 1 .. n : F[i] = F[i - 1] \o d[i]

\* The first m pieces are the same.
Agree(d, e, m) == \A i \in 1 .. m : d[i] = e[i]

\* Where the pieces agree, so do the ends.
LEMMA EndsAgree ==
  ASSUME NEW d, NEW n \in Nat, NEW F, Heads(d, n, F),
         NEW e, NEW k \in Nat, NEW G, Heads(e, k, G),
         NEW m \in Nat, m <= n, m <= k, Agree(d, e, m)
  PROVE  \A i \in 0 .. m : F[i] = G[i]
<1> DEFINE T == {i \in 0 .. m : F[i] # G[i]}
<1> SUFFICES ASSUME T # {} PROVE FALSE
  OBVIOUS
<1>1. PICK i \in T : \A j \in T : i <= j
  <2>1. T \subseteq Nat
    OBVIOUS
  <2> HIDE DEF T
  <2> QED BY <2>1, LeastNumber
<1>2. i \in 0 .. m /\ F[i] # G[i]
  OBVIOUS
<1>3. i # 0
  BY <1>2 DEF Heads
<1>4. PICK p \in 0 .. m : i = p + 1
  <2>1. i - 1 \in 0 .. m /\ i = (i - 1) + 1
    BY <1>2, <1>3
  <2> QED BY <2>1
<1>5. p \notin T
  BY <1>1, <1>4
<1>6. F[p] = G[p]
  BY <1>5
<1>7. i \in 1 .. n /\ i \in 1 .. k /\ i \in 1 .. m /\ i - 1 = p
  BY <1>2, <1>3, <1>4
<1> HIDE DEF T
<1>8. F[i] = F[p] \o d[i] /\ G[i] = G[p] \o e[i] /\ d[i] = e[i]
  BY <1>7 DEF Heads, Agree
<1> QED BY <1>2, <1>6, <1>8

\* There are such ends, and FlattenSeq is the last of them.
LEMMA EndsExist ==
  ASSUME NEW R, NEW d \in Seq(Seq(R))
  PROVE  \E F : Heads(d, Len(d), F) /\ FlattenSeq(d) = F[Len(d)]
<1>0. Len(d) \in Nat /\ DOMAIN d = 1 .. Len(d) /\ \A i \in 1 .. Len(d) : d[i] \in Seq(R)
  BY LenProperties, ElementOfSeq
<1>1. CASE Len(d) = 0
  <2>1. FlattenSeq(d) = d
    BY <1>1 DEF FlattenSeq
  <2>2. d = <<>>
    BY <1>1, EmptySeq
  <2> DEFINE F == [i \in {0} |-> <<>>]
  <2>3. F[0] = <<>>
    OBVIOUS
  <2> HIDE DEF F
  <2>4. Heads(d, Len(d), F)
    BY <1>1, <2>3 DEF Heads
  <2> QED BY <1>1, <2>1, <2>2, <2>3, <2>4
<1>2. CASE Len(d) # 0
  <2> DEFINE L == CHOOSE f : LaidOut(d, Len(d), f)
             F == [i \in 0 .. Len(d) |-> IF i = 0 THEN <<>> ELSE L[i]]
  <2>1. FlattenSeq(d) = L[Len(d)]
    BY <1>2 DEF FlattenSeq, LaidOut
  <2>2. LaidOut(d, Len(d), L)
    BY <1>0, LaidOutExists
  <2> HIDE DEF L
  <2>3. \A i \in 1 .. Len(d) : L[i] = IF i = 1 THEN d[i] ELSE L[i - 1] \o d[i]
    BY <2>2 DEF LaidOut
  <2>4. F[0] = <<>> /\ F[Len(d)] = L[Len(d)]
    BY <1>0, <1>2
  <2>5. ASSUME NEW i \in 1 .. Len(d) PROVE F[i] = F[i - 1] \o d[i]
    <3>1. CASE i = 1
      <4>1. F[i] = d[i] /\ F[i - 1] = <<>> /\ d[i] \in Seq(R)
        BY <1>0, <2>3, <3>1
      <4> QED BY <4>1, ConcatEmptySeq
    <3>2. CASE i # 1
      <4>1. i - 1 \in 1 .. Len(d) /\ i \in 0 .. Len(d) /\ i - 1 \in 0 .. Len(d) /\ i # 0 /\ i - 1 # 0
        BY <1>0, <3>2
      <4>2. F[i] = L[i] /\ F[i - 1] = L[i - 1]
        BY <4>1
      <4> QED BY <2>3, <3>2, <4>2
    <3> QED BY <3>1, <3>2
  <2> HIDE DEF F
  <2> QED BY <2>1, <2>4, <2>5 DEF Heads
<1> QED BY <1>1, <1>2

\* The ends of sequences over R are sequences over R.
LEMMA EndsAreSeqs ==
  ASSUME NEW R, NEW d, NEW n \in Nat, NEW F, Heads(d, n, F), \A i \in 1 .. n : d[i] \in Seq(R)
  PROVE  \A i \in 0 .. n : F[i] \in Seq(R)
<1> DEFINE T == {i \in 0 .. n : F[i] \notin Seq(R)}
<1> SUFFICES ASSUME T # {} PROVE FALSE
  OBVIOUS
<1>1. PICK i \in T : \A j \in T : i <= j
  <2>1. T \subseteq Nat
    OBVIOUS
  <2> HIDE DEF T
  <2> QED BY <2>1, LeastNumber
<1>2. i \in 0 .. n /\ F[i] \notin Seq(R)
  OBVIOUS
<1>3. i # 0
  BY <1>2, EmptySeq DEF Heads
<1>4. PICK p \in 0 .. n : i = p + 1
  <2>1. i - 1 \in 0 .. n /\ i = (i - 1) + 1
    BY <1>2, <1>3
  <2> QED BY <2>1
<1>5. p \notin T
  BY <1>1, <1>4
<1>6. F[p] \in Seq(R)
  BY <1>5
<1>7. i \in 1 .. n /\ i - 1 = p
  BY <1>2, <1>3, <1>4
<1> HIDE DEF T
<1>8. F[i] = F[p] \o d[i] /\ d[i] \in Seq(R)
  BY <1>7 DEF Heads
<1> QED BY <1>2, <1>6, <1>8, ConcatProperties

\* FlattenSeq is the last of them, however they were found.
LEMMA FlattenIsLast ==
  ASSUME NEW R, NEW d \in Seq(Seq(R)), NEW F, Heads(d, Len(d), F)
  PROVE  FlattenSeq(d) = F[Len(d)]
<1>1. PICK G : Heads(d, Len(d), G) /\ FlattenSeq(d) = G[Len(d)]
  BY EndsExist
<1>2. Len(d) \in Nat /\ Len(d) \in 0 .. Len(d)
  BY LenProperties
<1>3. \A i \in 0 .. Len(d) : F[i] = G[i]
  <2> DEFINE n == Len(d)
  <2>1. n \in Nat /\ n <= n /\ Heads(d, n, F) /\ Heads(d, n, G) /\ Agree(d, d, n)
    BY <1>1, <1>2 DEF Agree
  <2> HIDE DEF n
  <2>2. \A i \in 0 .. n : F[i] = G[i]
    BY <2>1, EndsAgree
  <2> QED BY <2>2 DEF n
<1> QED BY <1>1, <1>2, <1>3

\* The ends are determined by the pieces.
LEMMA EndsUnique ==
  ASSUME NEW d, NEW n \in Nat, NEW F, Heads(d, n, F), NEW G, Heads(d, n, G)
  PROVE  \A i \in 0 .. n : F[i] = G[i]
<1>1. n <= n /\ Agree(d, d, n)
  BY DEF Agree
<1>2. \A i \in 0 .. n : F[i] = G[i]
  BY <1>1, EndsAgree
<1> QED BY <1>2

\* Nothing is added by empty sequences at the end, and nothing lost by others.
LEMMA EndsFlat ==
  ASSUME NEW d, NEW n \in Nat, NEW F, Heads(d, n, F), NEW m \in 0 .. n,
         NEW R, \A i \in 1 .. n : d[i] \in Seq(R),
         \A i \in m + 1 .. n : d[i] = <<>>
  PROVE  F[n] = F[m]
<1> DEFINE H == [i \in 0 .. n |-> IF i <= m THEN F[i] ELSE F[m]]
<1>0. F[m] \in Seq(R)
  BY EndsAreSeqs
<1>1. Heads(d, n, H)
  <2>1. H[0] = <<>>
    BY DEF Heads
  <2>2. ASSUME NEW i \in 1 .. n PROVE H[i] = H[i - 1] \o d[i]
    <3>1. i \in 0 .. n /\ i - 1 \in 0 .. n /\ i - 1 < i
      OBVIOUS
    <3>2. CASE i <= m
      <4>1. H[i] = F[i] /\ H[i - 1] = F[i - 1]
        BY <3>1, <3>2
      <4> QED BY <4>1 DEF Heads
    <3>3. CASE ~ (i <= m)
      <4>1. H[i] = F[m] /\ H[i - 1] = F[m]
        <5>1. i - 1 <= m => i - 1 = m
          BY <3>3
        <5> QED BY <3>1, <3>3, <5>1
      <4>2. d[i] = <<>>
        BY <3>3
      <4> HIDE DEF H
      <4> QED BY <1>0, <4>1, <4>2, ConcatEmptySeq
    <3> QED BY <3>2, <3>3
  <2> HIDE DEF H
  <2> QED BY <2>1, <2>2 DEF Heads
<1>2. H[n] = F[m]
  BY <1>0
<1> HIDE DEF H
<1>3. n \in 0 .. n /\ n \in Nat
  OBVIOUS
<1>4. \A i \in 0 .. n : F[i] = H[i]
  <2>1. Heads(d, n, F)
    OBVIOUS
  <2> QED BY <1>1, <1>3, <2>1, EndsUnique
<1> QED BY <1>2, <1>3, <1>4

AreSeqs(d, n, R) == \A i \in 1 .. n : d[i] \in Seq(R)

Continues(s, t, R) == \E u \in Seq(R) : t = s \o u

\* Later ends continue earlier ones.
LEMMA EndsGrow ==
  ASSUME NEW R, NEW d, NEW n \in Nat, NEW F, Heads(d, n, F), AreSeqs(d, n, R),
         NEW m \in 0 .. n
  PROVE  Continues(F[m], F[n], R)
<1> DEFINE T == {k \in Nat : k <= n - m /\ ~ \E u \in Seq(R) : F[m + k] = F[m] \o u}
<1>0. (\A i \in 0 .. n : F[i] \in Seq(R)) /\ \A i \in 1 .. n : d[i] \in Seq(R)
  BY EndsAreSeqs DEF AreSeqs
<1>1. ASSUME T # {} PROVE FALSE
  <2>1. PICK k \in T : \A j \in T : k <= j
    <3>1. T \subseteq Nat
      OBVIOUS
    <3> HIDE DEF T
    <3> QED BY <1>1, <3>1, LeastNumber
  <2>2. k \in Nat /\ k <= n - m /\ ~ \E u \in Seq(R) : F[m + k] = F[m] \o u
    OBVIOUS
  <2>3. k # 0
    <3>1. F[m] = F[m] \o <<>> /\ <<>> \in Seq(R)
      BY <1>0, ConcatEmptySeq, EmptySeq
    <3>2. m + 0 = m
      OBVIOUS
    <3> QED BY <2>2, <3>1, <3>2
  <2>4. PICK p \in Nat : k = p + 1
    <3>1. k - 1 \in Nat /\ k = (k - 1) + 1
      BY <2>2, <2>3
    <3> QED BY <3>1
  <2>5. p \notin T
    <3> HIDE DEF T
    <3> QED BY <2>1, <2>4
  <2>10. p <= n - m
    BY <2>2, <2>4
  <2>6. PICK u \in Seq(R) : F[m + p] = F[m] \o u
    BY <2>5, <2>10
  <2> HIDE DEF T
  <2>7. m + k \in 1 .. n /\ (m + k) - 1 = m + p
    BY <2>2, <2>4
  <2>8. F[m + k] = F[m + p] \o d[m + k] /\ d[m + k] \in Seq(R)
    BY <1>0, <2>7 DEF Heads
  <2>9. (F[m] \o u) \o d[m + k] = F[m] \o (u \o d[m + k]) /\ u \o d[m + k] \in Seq(R)
    <3>1. F[m] \in Seq(R) /\ u \in Seq(R) /\ d[m + k] \in Seq(R)
      BY <1>0, <2>8
    <3>2. u \o d[m + k] \in Seq(R)
      BY <3>1, ConcatProperties
    <3> DEFINE f == F[m]
               e == d[m + k]
    <3>3. (f \o u) \o e = f \o (u \o e)
      <4>1. f \in Seq(R) /\ u \in Seq(R) /\ e \in Seq(R)
        BY <3>1
      <4> HIDE DEF f, e
      <4> QED BY <4>1, ConcatAssociative, SMTT(30)
    <3> QED BY <3>2, <3>3
  <2> QED BY <2>2, <2>6, <2>8, <2>9
<1>2. n - m \in Nat /\ n - m <= n - m /\ m + (n - m) = n
  OBVIOUS
<1>3. n - m \notin T
  BY <1>1
<1> QED BY <1>2, <1>3 DEF Continues

\* Where two lists of pieces agree, they meet.
LEMMA EndsMeet ==
  ASSUME NEW d, NEW n \in Nat, NEW F, Heads(d, n, F),
         NEW e, NEW k \in Nat, NEW G, Heads(e, k, G),
         NEW m \in Nat, m <= n, m <= k, Agree(d, e, m)
  PROVE  F[m] = G[m]
<1>2. \A i \in 0 .. m : F[i] = G[i]
  BY EndsAgree
<1>3. m \in 0 .. m
  OBVIOUS
<1> QED BY <1>2, <1>3

-----------------------------------------------------------------------------
(* A state that is carried along a sequence.                                *)

\* A state that is carried along a sequence of steps.
StepsOf(X, b, step) == step \in [1 .. b -> [X -> X]]

IsChain(X, start, b, step, g) ==
  /\ g \in [0 .. b -> X]
  /\ g[0] = start
  /\ \A n \in 1 .. b : g[n] = step[n][g[n - 1]]

LEMMA ChainExists ==
  ASSUME NEW X, NEW start \in X, NEW b \in Nat, NEW step, StepsOf(X, b, step)
  PROVE  \E g : IsChain(X, start, b, step, g)
<1> USE DEF StepsOf, IsChain
<1> DEFINE Is(m, g) == /\ g \in [0 .. m -> X]
                       /\ g[0] = start /\ \A n \in 1 .. m : g[n] = step[n][g[n - 1]]
           T == {m \in 0 .. b : ~ \E g : Is(m, g)}
<1>1. ASSUME T # {} PROVE FALSE
  <2>1. PICK m \in T : \A k \in T : m <= k
    <3> T \subseteq Nat
      OBVIOUS
    <3> HIDE DEF T
    <3> QED BY <1>1, LeastNumber
  <2>2. CASE m = 0
    <3>1. Is(0, [n \in {0} |-> start])
      OBVIOUS
    <3> QED BY <2>2, <3>1
  <2>3. CASE m # 0
    <3>1. m - 1 \in 0 .. b /\ m \in 1 .. b /\ m - 1 \notin T
      <4>1. m \in 0 .. b
        OBVIOUS
      <4>2. ~ (m <= m - 1) /\ m - 1 \in 0 .. b /\ m \in 1 .. b
        BY <2>3, <4>1
      <4> HIDE DEF T
      <4> QED BY <2>1, <4>2
    <3>2. PICK h : Is(m - 1, h)
      BY <3>1
    <3> DEFINE g == [n \in 0 .. m |-> IF n = m THEN step[m][h[m - 1]] ELSE h[n]]
    <3>3. step[m][h[m - 1]] \in X
      BY <3>1, <3>2
    <3>4. g \in [0 .. m -> X]
      BY <3>1, <3>2, <3>3
    <3>5. g[0] = start /\ \A n \in 1 .. m : g[n] = step[n][g[n - 1]]
      BY <3>1, <3>2
    <3> QED BY <3>4, <3>5
  <2> QED BY <2>2, <2>3
<1>2. b \notin T
  BY <1>1
<1> QED BY <1>2

-----------------------------------------------------------------------------
(* What a step function comes to along a sequence.                          *)

\* Where two functions begin alike and each value follows from the one before, they
\* are alike.
GoAlike(f, g, n) == /\ f[0] = g[0]
                    /\ \A i \in 1 .. n : f[i - 1] = g[i - 1] => f[i] = g[i]

LEMMA GoAlikeAllAlong ==
  ASSUME NEW f, NEW g, NEW n \in Nat, GoAlike(f, g, n), NEW m \in 0 .. n
  PROVE  f[m] = g[m]
<1> DEFINE T == {i \in 0 .. n : f[i] # g[i]}
<1>1. ASSUME T # {} PROVE FALSE
  <2>1. PICK i \in T : \A j \in T : i <= j
    <3>1. T \subseteq Nat
      OBVIOUS
    <3> HIDE DEF T
    <3> QED BY <1>1, <3>1, LeastNumber
  <2>2. i \in 0 .. n /\ i \in Nat /\ f[i] # g[i]
    OBVIOUS
  <2>3. i # 0
    BY <2>2 DEF GoAlike
  <2>4. i - 1 \in 0 .. n /\ ~ (i <= i - 1) /\ i \in 1 .. n
    BY <2>2, <2>3
  <2>5. i - 1 \notin T
    <3> HIDE DEF T
    <3> QED BY <2>1, <2>4
  <2>6. f[i - 1] = g[i - 1]
    BY <2>4, <2>5
  <2> QED BY <2>2, <2>4, <2>6 DEF GoAlike
<1> QED BY <1>1

StepOf(X, Y, step) == step \in [X -> [Y -> X]]

\* The values that a state takes along a sequence.
IsTrace(step, start, s, g) ==
  /\ g[0] = start
  /\ \A n \in 1 .. Len(s) : g[n] = step[g[n - 1]][s[n]]

Along(step, start, s) == (CHOOSE g : IsTrace(step, start, s, g))[Len(s)]

\* There is one, of the right type.
LEMMA TraceExists ==
  ASSUME NEW X, NEW Y, NEW step, StepOf(X, Y, step), NEW start \in X, NEW s \in Seq(Y)
  PROVE  \E g : IsTrace(step, start, s, g) /\ g \in [0 .. Len(s) -> X]
<1> DEFINE b == Len(s)
           steps == [k \in 1 .. b |-> [x \in X |-> step[x][s[k]]]]
<1>0. b \in Nat /\ \A k \in 1 .. b : s[k] \in Y
  BY LenProperties, ElementOfSeq
<1>1. StepsOf(X, b, steps)
  BY <1>0 DEF StepsOf, StepOf
<1> HIDE DEF steps
<1>2. PICK g : IsChain(X, start, b, steps, g)
  <2> HIDE DEF b
  <2> QED BY <1>0, <1>1, ChainExists
<1>3. ASSUME NEW k \in 1 .. b PROVE g[k] = step[g[k - 1]][s[k]]
  <2>1. g[k - 1] \in X /\ g[k] = steps[k][g[k - 1]]
    BY <1>0, <1>2 DEF IsChain
  <2> QED BY <2>1 DEF steps
<1>4. IsTrace(step, start, s, g)
  BY <1>2, <1>3 DEF IsTrace, IsChain
<1> QED BY <1>2, <1>4 DEF IsChain

\* Any trace says where it ends.
LEMMA TraceEnds ==
  ASSUME NEW X, NEW Y, NEW step, StepOf(X, Y, step), NEW start \in X, NEW s \in Seq(Y),
         NEW g, IsTrace(step, start, s, g)
  PROVE  /\ \A n \in 0 .. Len(s) : g[n] \in X
         /\ Along(step, start, s) = g[Len(s)]
<1>0. Len(s) \in Nat
  BY LenProperties
<1>1. PICK h : IsTrace(step, start, s, h) /\ h \in [0 .. Len(s) -> X]
  BY TraceExists
<1> DEFINE f == CHOOSE k : IsTrace(step, start, s, k)
<1>2. IsTrace(step, start, s, f)
  BY <1>1
<1> HIDE DEF f
<1>3. GoAlike(g, h, Len(s)) /\ GoAlike(g, f, Len(s))
  <2>1. GoAlike(g, h, Len(s))
    BY <1>1 DEF GoAlike, IsTrace
  <2>2. GoAlike(g, f, Len(s))
    BY <1>2 DEF GoAlike, IsTrace
  <2> QED BY <2>1, <2>2
<1>4. \A n \in 0 .. Len(s) : g[n] = h[n]
  BY <1>0, <1>3, GoAlikeAllAlong
<1>5. g[Len(s)] = f[Len(s)]
  BY <1>0, <1>3, GoAlikeAllAlong
<1> QED BY <1>1, <1>4, <1>5 DEF Along, f

\* Along one step.
LEMMA AlongShort ==
  ASSUME NEW X, NEW Y, NEW step, StepOf(X, Y, step), NEW start \in X, NEW s \in Seq(Y)
  PROVE  Len(s) = 1 => Along(step, start, s) = step[start][s[1]]
<1>1. PICK g : IsTrace(step, start, s, g)
  BY TraceExists
<1>2. Along(step, start, s) = g[Len(s)]
  BY <1>1, TraceEnds
<1>3. Len(s) = 1 => g[1] = step[g[1 - 1]][s[1]]
  BY <1>1 DEF IsTrace
<1> QED BY <1>1, <1>2, <1>3 DEF IsTrace

\* Along nothing, and along one element.
LEMMA AlongNothing ==
  ASSUME NEW X, NEW Y, NEW step, StepOf(X, Y, step), NEW start \in X
  PROVE  Along(step, start, <<>>) = start
<1>1. ASSUME NEW s \in Seq(Y), Len(s) = 0 PROVE Along(step, start, s) = start
  <2>1. PICK g : IsTrace(step, start, s, g)
    BY TraceExists
  <2>2. Along(step, start, s) = g[Len(s)]
    BY <2>1, TraceEnds
  <2> QED BY <1>1, <2>1, <2>2 DEF IsTrace
<1>2. <<>> \in Seq(Y) /\ Len(<<>>) = 0
  OBVIOUS
<1>3. \A s \in Seq(Y) : Len(s) = 0 => Along(step, start, s) = start
  BY <1>1
<1> QED BY <1>2, <1>3

LEMMA AlongOne ==
  ASSUME NEW X, NEW Y, NEW step, StepOf(X, Y, step), NEW start \in X, NEW y \in Y
  PROVE  Along(step, start, <<y>>) = step[start][y]
<1> DEFINE s == <<y>>
<1>2. s \in Seq(Y) /\ Len(s) = 1 /\ s[1] = y
  OBVIOUS
<1> HIDE DEF s
<1>3. Along(step, start, s) = step[start][s[1]]
  BY <1>2, AlongShort
<1> QED BY <1>2, <1>3 DEF s

\* The state stays within its type.
LEMMA AlongType ==
  ASSUME NEW X, NEW Y, NEW step, StepOf(X, Y, step), NEW start \in X, NEW s \in Seq(Y)
  PROVE  Along(step, start, s) \in X
<1>1. PICK g : IsTrace(step, start, s, g)
  BY TraceExists
<1>2. Len(s) \in 0 .. Len(s)
  BY LenProperties
<1> QED BY <1>1, <1>2, TraceEnds

\* Along two sequences laid end to end, one after the other.
LEMMA AlongBoth ==
  ASSUME NEW X, NEW Y, NEW step, StepOf(X, Y, step), NEW start \in X, NEW s \in Seq(Y), NEW t \in Seq(Y)
  PROVE  Along(step, start, s \o t) = Along(step, Along(step, start, s), t)
<1> DEFINE m == Len(s)
           n == Len(t)
           u == s \o t
<1>1. PICK g : IsTrace(step, start, s, g)
  BY TraceExists
<1>2. Along(step, start, s) = g[m] /\ g[m] \in X
  <2>1. m \in 0 .. m
    BY LenProperties
  <2> QED BY <1>1, <2>1, TraceEnds
<1>3. PICK h : IsTrace(step, g[m], t, h)
  BY <1>2, TraceExists
<1>4. Along(step, g[m], t) = h[n]
  BY <1>2, <1>3, TraceEnds
<1>5. /\ u \in Seq(Y) /\ Len(u) = m + n /\ m \in Nat /\ n \in Nat
      /\ \A i \in 1 .. m : u[i] = s[i]
      /\ \A i \in 1 .. n : u[m + i] = t[i]
  BY ConcatProperties, LenProperties
<1> DEFINE f == [i \in 0 .. m + n |-> IF i <= m THEN g[i] ELSE h[i - m]]
<1> HIDE DEF u, m, n
<1>6. IsTrace(step, start, u, f)
  <2>1. f[0] = start
    BY <1>1, <1>5 DEF IsTrace
  <2>2. ASSUME NEW i \in 1 .. m + n PROVE f[i] = step[f[i - 1]][u[i]]
    <3>1. CASE i <= m
      <4>1. f[i] = g[i] /\ f[i - 1] = g[i - 1] /\ i \in 1 .. m
        BY <1>5, <3>1
      <4> QED BY <1>1, <1>5, <4>1 DEF IsTrace, m
    <3>2. CASE i = m + 1
      <4>0. i \in 0 .. m + n /\ i - 1 \in 0 .. m + n /\ i - m = 1 /\ i - 1 = m /\ 1 \in 1 .. n
            /\ ~ (i <= m) /\ m <= m
        BY <1>5, <3>2
      <4>1. f[i] = h[1] /\ f[i - 1] = g[m] /\ 1 \in 1 .. n /\ u[i] = t[1]
        BY <1>5, <3>2, <4>0
      <4>2. h[1] = step[h[1 - 1]][t[1]] /\ h[0] = g[m] /\ 1 - 1 = 0
        BY <1>3, <4>1 DEF IsTrace, n
      <4> QED BY <4>1, <4>2
    <3>3. CASE i > m + 1
      <4>1. /\ f[i] = h[i - m] /\ f[i - 1] = h[(i - m) - 1] /\ i - m \in 1 .. n
            /\ m + (i - m) = i
        BY <1>5, <3>3
      <4>2. u[i] = t[i - m]
        BY <1>5, <4>1
      <4>3. h[i - m] = step[h[(i - m) - 1]][t[i - m]]
        BY <1>3, <4>1 DEF IsTrace, n
      <4> QED BY <4>1, <4>2, <4>3
    <3> QED BY <1>5, <3>1, <3>2, <3>3
  <2> HIDE DEF f
  <2> QED BY <1>5, <2>1, <2>2 DEF IsTrace
<1>7. Along(step, start, u) = f[m + n]
  <2> HIDE DEF f
  <2> QED BY <1>5, <1>6, TraceEnds
<1>8. f[m + n] = h[n]
  <2>1. CASE n = 0
    <3>1. f[m + n] = g[m] /\ h[n] = h[0]
      BY <1>5, <2>1
    <3> QED BY <1>3, <3>1 DEF IsTrace
  <2>2. CASE n # 0
    BY <1>5, <2>2
  <2> QED BY <2>1, <2>2
<1> QED BY <1>2, <1>4, <1>7, <1>8 DEF u, n

-----------------------------------------------------------------------------
(* Recursion along a rank.                                                  *)

\* What a step says of a place follows from what it is told of the places below.
Descends(D, R, rank, step) ==
  /\ rank \in [D -> Nat]
  /\ step \in [[D -> R] -> [D -> R]]
  /\ \A G, H \in [D -> R] : \A d \in D :
       (\A e \in D : rank[e] < rank[d] => G[e] = H[e]) => step[G][d] = step[H][d]

\* So there is a function that is what the step makes of it.
LEMMA FixedPoint ==
  ASSUME NEW D, NEW R, NEW r \in R, NEW rank, NEW step, Descends(D, R, rank, step),
         NEW b \in Nat, \A d \in D : rank[d] <= b
  PROVE  \E g \in [D -> R] : g = step[g]
<1> DEFINE X == [D -> R]
           start == [d \in D |-> r]
           steps == [n \in 1 .. b + 2 |-> step]
<1>0. start \in X /\ rank \in [D -> Nat] /\ step \in [X -> X] /\ b + 2 \in Nat
  BY DEF Descends
<1>1. \A G, H \in X : \A d \in D :
        (\A e \in D : rank[e] < rank[d] => G[e] = H[e]) => step[G][d] = step[H][d]
  BY DEF Descends
<1>2. StepsOf(X, b + 2, steps)
  <2> HIDE DEF X
  <2>2. step \in [X -> X]
    BY <1>0
  <2> DEFINE Y == [X -> X]
  <2>3. step \in Y
    BY <2>2
  <2> HIDE DEF Y
  <2>4. steps \in [1 .. b + 2 -> Y]
    BY <2>3
  <2> QED BY <2>4 DEF StepsOf, Y
<1> HIDE DEF X, start
<1>3. PICK F : IsChain(X, start, b + 2, steps, F)
  <2> HIDE DEF steps
  <2> QED BY <1>0, <1>2, ChainExists
<1>4. /\ \A n \in 0 .. b + 2 : F[n] \in X
      /\ \A n \in 1 .. b + 2 : F[n] = step[F[n - 1]]
  BY <1>3 DEF IsChain
<1> DEFINE Same(n) == \A d \in D : rank[d] < n => F[n][d] = F[n + 1][d]
           T == {n \in 0 .. b + 1 : ~ Same(n)}
<1>5. ASSUME T # {} PROVE FALSE
  <2>1. PICK n \in T : \A m \in T : n <= m
    <3>1. T \subseteq Nat
      OBVIOUS
    <3> HIDE DEF T
    <3> QED BY <1>5, <3>1, LeastNumber
  <2>2. n \in 0 .. b + 1 /\ ~ Same(n)
    OBVIOUS
  <2>3. PICK d \in D : rank[d] < n /\ F[n][d] # F[n + 1][d]
    BY <2>2
  <2>4. rank[d] \in Nat /\ n \in Nat
    BY <1>0, <2>2
  <2>5. n - 1 \in 0 .. b + 1 /\ ~ (n <= n - 1) /\ n \in 1 .. b + 2 /\ n + 1 \in 1 .. b + 2
        /\ (n + 1) - 1 = n /\ (n - 1) + 1 = n
    BY <2>2, <2>3, <2>4
  <2>6. Same(n - 1)
    <3>1. n - 1 \notin T
      <4> HIDE DEF T
      <4> QED BY <2>1, <2>5
    <3> HIDE DEF Same
    <3> QED BY <2>5, <3>1
  <2>7. \A e \in D : rank[e] < rank[d] => F[n - 1][e] = F[n][e]
    <3> SUFFICES ASSUME NEW e \in D, rank[e] < rank[d] PROVE F[n - 1][e] = F[n][e]
      OBVIOUS
    <3>1. rank[e] \in Nat /\ rank[e] < n - 1
      BY <1>0, <2>3, <2>4
    <3> QED BY <2>5, <2>6, <3>1
  <2>8. F[n - 1] \in X /\ F[n] \in X /\ F[n] = step[F[n - 1]] /\ F[n + 1] = step[F[n]]
    <3>1. F[n - 1] \in X /\ F[n] \in X
      BY <1>4, <2>2, <2>5
    <3>2. F[n] = step[F[n - 1]]
      BY <1>4, <2>5
    <3>3. F[n + 1] = step[F[(n + 1) - 1]]
      BY <1>4, <2>5
    <3> QED BY <2>5, <3>1, <3>2, <3>3
  <2>9. step[F[n - 1]][d] = step[F[n]][d]
    BY <1>1, <2>7, <2>8
  <2> QED BY <2>3, <2>8, <2>9
<1>6. Same(b + 1)
  <2>1. b + 1 \in 0 .. b + 1
    OBVIOUS
  <2> HIDE DEF Same
  <2> QED BY <1>5, <2>1
<1>7. \A d \in D : F[b + 1][d] = F[b + 2][d]
  <2> SUFFICES ASSUME NEW d \in D PROVE F[b + 1][d] = F[b + 2][d]
    OBVIOUS
  <2>1. rank[d] \in Nat /\ rank[d] <= b
    BY <1>0
  <2>2. rank[d] < b + 1 /\ b + 1 + 1 = b + 2
    BY <2>1
  <2> QED BY <1>6, <2>2
<1>8. F[b + 1] \in [D -> R] /\ F[b + 2] \in [D -> R] /\ F[b + 2] = step[F[b + 1]]
  <2>1. b + 1 \in 0 .. b + 2 /\ b + 2 \in 1 .. b + 2 /\ b + 2 \in 0 .. b + 2 /\ b + 2 - 1 = b + 1
    OBVIOUS
  <2> QED BY <1>4, <2>1 DEF X
<1>9. F[b + 1] = F[b + 2]
  BY <1>7, <1>8
<1> QED BY <1>8, <1>9

-----------------------------------------------------------------------------
(* Numbers.                                                                 *)

MinOf(a, b) == IF a <= b THEN a ELSE b

LEMMA MinIs ==
  ASSUME NEW a \in Int, NEW b \in Int
  PROVE  Min({a, b}) = MinOf(a, b)
<1>1. \E x \in {a, b} : \A y \in {a, b} : x <= y
  OBVIOUS
<1>2. Min({a, b}) \in {a, b} /\ \A y \in {a, b} : Min({a, b}) <= y
  BY <1>1, Zenon DEF Min
<1> QED BY <1>2 DEF MinOf

LEMMA MaxIs ==
  ASSUME NEW a \in Int, NEW b \in Int
  PROVE  Max({a, b}) = IF a <= b THEN b ELSE a
<1>1. \E x \in {a, b} : \A y \in {a, b} : x >= y
  OBVIOUS
<1>2. Max({a, b}) \in {a, b} /\ \A y \in {a, b} : Max({a, b}) >= y
  BY <1>1, Zenon DEF Max
<1> QED BY <1>2

\* Pages of any size.
LEMMA MultipleOf ==
  ASSUME NEW size \in Nat \ {0}, NEW n \in Nat
  PROVE  n * size \in Nat /\ (n + 1) * size = n * size + size
OBVIOUS

LEMMA MultiplesInOrder ==
  ASSUME NEW size \in Nat \ {0}, NEW n \in Nat, NEW m \in Nat, n < m
  PROVE  (n + 1) * size <= m * size
<1>1. PICK k \in Nat : m = (n + 1) + k
  <2>1. m - (n + 1) \in Nat /\ m = (n + 1) + (m - (n + 1))
    OBVIOUS
  <2> QED BY <2>1
<1>2. ((n + 1) + k) * size = (n + 1) * size + k * size
  OBVIOUS
<1>3. k * size \in Nat /\ (n + 1) * size \in Nat
  OBVIOUS
<1> QED BY <1>1, <1>2, <1>3

\* Division by a size, with what is left over.
LEMMA LeftOverDivision ==
  ASSUME NEW p \in Nat \ {0}, NEW t \in Int
  PROVE  /\ t \div p \in Int /\ t % p \in Nat /\ t % p < p
         /\ t = (t \div p) * p + (t % p)
<1>1. t \div p \in Int /\ t % p \in 0 .. p - 1 /\ t = p * (t \div p) + (t % p)
  OBVIOUS
<1> DEFINE q == t \div p
           r == t % p
<1> HIDE DEF q, r
<1>2. q \in Int /\ r \in 0 .. p - 1 /\ t = p * q + r
  BY <1>1 DEF q, r
<1>3. p * q = q * p
  BY <1>2
<1>4. t = q * p + r /\ r \in Nat /\ r < p
  BY <1>2, <1>3
<1> QED BY <1>2, <1>4 DEF q, r

LEMMA QuotientIs ==
  ASSUME NEW size \in Nat \ {0}, NEW t \in Nat
  PROVE  /\ t \div size \in Nat
         /\ (t \div size) * size <= t /\ t < ((t \div size) + 1) * size
<1> DEFINE q == t \div size
           r == t % size
<1>1. q \in Int /\ r \in Nat /\ r < size /\ t = q * size + r
  BY LeftOverDivision
<1> HIDE DEF q, r
<1>2. q \in Nat
  <2>1. SUFFICES ASSUME q < 0 PROVE FALSE
    BY <1>1
  <2>2. PICK k \in Nat : q = -1 - k
    <3>1. -1 - q \in Nat /\ q = -1 - (-1 - q)
      BY <1>1, <2>1
    <3> QED BY <3>1
  <2>3. (-1 - k) * size = -size - k * size /\ k * size \in Nat
    OBVIOUS
  <2> QED BY <1>1, <2>2, <2>3
<1>3. (q + 1) * size = q * size + size /\ q * size \in Nat
  BY <1>2
<1>4. q * size <= t /\ t < (q + 1) * size
  BY <1>1, <1>3
<1> QED BY <1>2, <1>4 DEF q

\* Rounded up.
LEMMA RoundedUp ==
  ASSUME NEW p \in Nat \ {0}, NEW t \in Int
  PROVE  LET c == (t + p - 1) \div p
         IN c \in Int /\ c * p >= t /\ c * p < t + p
<1> DEFINE u == t + p - 1
           q == u \div p
           r == u % p
<1>1. u \in Int /\ u = t + p - 1
  OBVIOUS
<1> HIDE DEF u
<1>2. q \in Int /\ r \in Nat /\ r < p /\ u = q * p + r
  BY <1>1, LeftOverDivision
<1> HIDE DEF q, r
<1>3. q * p \in Int
  BY <1>2
<1>4. q * p >= t /\ q * p < t + p
  BY <1>1, <1>2, <1>3
<1> QED BY <1>2, <1>4 DEF q, u

\* How far so many steps of one size go, of c that reach the end.
Upto(from, to, page, n) == MinOf(from + n * page, to)

StepsGo(from, to, page, c) ==
  /\ c \in Nat /\ \A n \in 0 .. c : Upto(from, to, page, n) \in from .. to
  /\ Upto(from, to, page, 0) = from
  /\ Upto(from, to, page, c) = to
  /\ \A n \in 1 .. c :
       /\ Upto(from, to, page, n - 1) = from + (n - 1) * page
       /\ Upto(from, to, page, n - 1) < Upto(from, to, page, n)
       /\ Upto(from, to, page, n) - Upto(from, to, page, n - 1) <= page

LEMMA UptoGoes ==
  ASSUME NEW from \in Nat, NEW to \in Nat, from <= to, NEW page \in Nat \ {0},
         NEW c \in Nat, c * page >= to - from, c * page < (to - from) + page
  PROVE  StepsGo(from, to, page, c)
<1>1. to - from \in Nat
  OBVIOUS
<1>2. c \in Nat /\ c * page \in Nat /\ c * page >= to - from /\ c * page < (to - from) + page
  OBVIOUS
<1>3. \A n \in 0 .. c : n * page \in Nat
  OBVIOUS
<1>4. ASSUME NEW n \in 1 .. c
      PROVE  n * page = (n - 1) * page + page /\ (n - 1) * page < to - from /\ (n - 1) * page \in Nat
  <2>1. n - 1 \in Nat /\ (n - 1) + 1 = n
    OBVIOUS
  <2> DEFINE k == n - 1
  <2>2. k * page \in Nat /\ (k + 1) * page = k * page + page
    <3> HIDE DEF k
    <3> QED BY <2>1, MultipleOf DEF k
  <2>3. k * page < to - from
    <3>1. (k + 1) * page <= c * page
      <4>1. CASE k + 1 = c
        BY <1>2, <4>1
      <4>2. CASE k + 1 # c
        <5>1. k + 1 < c /\ k + 1 \in Nat /\ k \in Nat
          BY <1>2, <2>1, <4>2
        <5> HIDE DEF k
        <5> DEFINE j == k + 1
        <5>2. (j + 1) * page <= c * page /\ j * page \in Nat /\ (j + 1) * page = j * page + page
          <6>1. j < c /\ j \in Nat
            BY <5>1
          <6> HIDE DEF j
          <6> QED BY <1>2, <6>1, MultiplesInOrder, MultipleOf
        <5> QED BY <1>2, <5>2
      <4> QED BY <4>1, <4>2
    <3> QED BY <1>1, <1>2, <2>2, <3>1
  <2> QED BY <2>1, <2>2, <2>3
<1>5. ASSUME NEW n \in 0 .. c PROVE Upto(from, to, page, n) \in from .. to
  BY <1>3 DEF Upto, MinOf
<1>6. Upto(from, to, page, 0) = from
  <2>1. 0 * page = 0
    OBVIOUS
  <2> QED BY <2>1 DEF Upto, MinOf
<1>7. Upto(from, to, page, c) = to
  BY <1>2 DEF Upto, MinOf
<1>8. ASSUME NEW n \in 1 .. c
      PROVE  /\ Upto(from, to, page, n - 1) = from + (n - 1) * page
             /\ Upto(from, to, page, n - 1) < Upto(from, to, page, n)
             /\ Upto(from, to, page, n) - Upto(from, to, page, n - 1) <= page
  <2> DEFINE y == (n - 1) * page
  <2>1. n * page = y + page /\ y < to - from /\ y \in Nat
    BY <1>4
  <2>2. Upto(from, to, page, n - 1) = MinOf(from + y, to)
    BY DEF Upto
  <2>3. Upto(from, to, page, n) = MinOf(from + (y + page), to)
    BY <2>1 DEF Upto
  <2> HIDE DEF y
  <2>4. Upto(from, to, page, n - 1) = from + y
    BY <2>1, <2>2 DEF MinOf
  <2> QED BY <2>1, <2>3, <2>4 DEF MinOf, y
<1> QED BY <1>2, <1>5, <1>6, <1>7, <1>8 DEF StepsGo

\* The digits of a number to the base of 256, while four of them are enough.
LEMMA FourDigits ==
  ASSUME NEW n \in Nat, n \div 16777216 < 256
  PROVE  LET a == (n \div 16777216) % 256
             b == (n \div 65536) % 256
             c == (n \div 256) % 256
             d == n % 256
         IN /\ a \in Nat /\ b \in Nat /\ c \in Nat /\ d \in Nat
            /\ 16777216 * a + 65536 * b + 256 * c + d = n
<1> DEFINE a == (n \div 16777216) % 256
           b == (n \div 65536) % 256
           c == (n \div 256) % 256
           d == n % 256
           x == n \div 256
           y == n \div 65536
           z == n \div 16777216
           x2 == x \div 256
           y2 == y \div 256
           rn == n % 65536
           rm == n % 16777216
<1>0. n \in Nat /\ n \div 16777216 < 256
  BY SMT
<1>2. a \in Nat /\ b \in Nat /\ c \in Nat /\ d \in Nat
  BY <1>0, SMT
<1>3. 16777216 * a + 65536 * b + 256 * c + d = n
  <2>1. n = 256 * x + d /\ x \in Nat /\ d >= 0 /\ d < 256
    BY <1>0, SMT
  <2>2. n = 65536 * y + rn /\ y \in Nat /\ rn \in Int /\ rn >= 0 /\ rn < 65536
    BY <1>0, SMT
  <2>3. n = 16777216 * z + rm /\ z \in Nat /\ rm \in Int /\ rm >= 0 /\ rm < 16777216 /\ z < 256
    BY <1>0, SMT
  <2>4. c = x % 256 /\ b = y % 256 /\ a = z % 256
    BY SMT
  <2> HIDE DEF x, y, z, rn, rm, a, b, c, d
  <2>5. x = 256 * x2 + c /\ x2 \in Nat /\ c >= 0 /\ c < 256
    BY <2>1, <2>4, SMT
  <2>6. y = 256 * y2 + b /\ y2 \in Nat /\ b >= 0 /\ b < 256
    BY <2>2, <2>4, SMT
  <2>7. a = z
    BY <2>3, <2>4, SMT
  <2> HIDE DEF x2, y2
  <2>8. x2 = y
    <3>1. n = 65536 * x2 + (256 * c + d) /\ 256 * c + d >= 0 /\ 256 * c + d < 65536
      BY <1>2, <2>1, <2>5, SMT
    <3>2. 65536 * (x2 - y) < 65536 /\ 65536 * (y - x2) < 65536 /\ x2 \in Int /\ y \in Int
      BY <1>2, <2>2, <2>5, <3>1, SMT
    <3> QED BY <3>2, SMT
  <2>9. y2 = z
    <3>1. n = 16777216 * y2 + (65536 * b + rn) /\ 65536 * b + rn >= 0 /\ 65536 * b + rn < 16777216
      BY <1>2, <2>2, <2>6, SMT
    <3>2. 16777216 * (y2 - z) < 16777216 /\ 16777216 * (z - y2) < 16777216 /\ y2 \in Int /\ z \in Int
      BY <1>2, <2>2, <2>3, <2>6, <3>1, SMT
    <3> QED BY <3>2, SMT
  <2> QED BY <1>0, <1>2, <2>1, <2>2, <2>3, <2>5, <2>6, <2>7, <2>8, <2>9, SMT
<1> QED BY <1>2, <1>3, SMT

-----------------------------------------------------------------------------
(* Sequences laid end to end, and pieces of them.                           *)

\* One byte more at the end.
LEMMA ConcatAppend ==
  ASSUME NEW R, NEW s \in Seq(R), NEW t \in Seq(R), NEW x \in R
  PROVE  s \o Append(t, x) = Append(s \o t, x)
<1> DEFINE u == Append(t, x)
           v == s \o t
           left == s \o u
           right == Append(v, x)
           m == Len(s)
           n == Len(t)
<1>0. m \in Nat /\ n \in Nat
  BY LenProperties
<1>1. u \in Seq(R) /\ Len(u) = n + 1 /\ u[n + 1] = x /\ \A i \in 1 .. n : u[i] = t[i]
  BY AppendProperties
<1>2. /\ v \in Seq(R) /\ Len(v) = m + n
      /\ \A i \in 1 .. m + n : v[i] = IF i <= m THEN s[i] ELSE t[i - m]
  BY <1>0, ConcatProperties
<1> HIDE DEF u, v
<1>3. /\ left \in Seq(R) /\ Len(left) = m + (n + 1)
      /\ \A i \in 1 .. m + (n + 1) : left[i] = IF i <= m THEN s[i] ELSE u[i - m]
  <2>1. /\ left \in Seq(R) /\ Len(left) = Len(s) + Len(u)
        /\ \A i \in 1 .. Len(s) + Len(u) : left[i] = IF i <= Len(s) THEN s[i] ELSE u[i - Len(s)]
    BY <1>1, ConcatProperties
  <2> QED BY <1>1, <2>1
<1>4. /\ right \in Seq(R) /\ Len(right) = m + n + 1 /\ right[m + n + 1] = x
      /\ \A i \in 1 .. m + n : right[i] = v[i]
  <2>1. /\ right \in Seq(R) /\ Len(right) = Len(v) + 1 /\ right[Len(v) + 1] = x
        /\ \A i \in 1 .. Len(v) : right[i] = v[i]
    <3>1. v \in Seq(R)
      BY <1>2
    <3> HIDE DEF m, n
    <3> QED BY <3>1, AppendProperties
  <2> HIDE DEF right, m, n
  <2> QED BY <1>2, <2>1
<1> HIDE DEF left, right, m, n
<1>5. ASSUME NEW i \in 1 .. m + (n + 1) PROVE left[i] = right[i]
  <2>1. CASE i = m + n + 1
    <3>1. i - m = n + 1 /\ ~ (i <= m)
      BY <1>0, <2>1
    <3> QED BY <1>1, <1>3, <1>4, <2>1, <3>1
  <2>2. CASE i # m + n + 1
    <3>1. i \in 1 .. m + n /\ (~ (i <= m) => i - m \in 1 .. n)
      BY <1>0, <2>2
    <3> QED BY <1>1, <1>2, <1>3, <1>4, <3>1
  <2> QED BY <2>1, <2>2
<1>6. Len(left) = Len(right)
  BY <1>0, <1>3, <1>4
<1>7. left = right
  BY <1>3, <1>4, <1>5, <1>6, SeqEqual
<1> QED BY <1>7 DEF left, right, u, v

\* The last record of a list goes on.
LEMMA AddToLast ==
  ASSUME NEW logs \in Seq(Seq(Nat)), NEW log \in Seq(Nat), NEW byte \in Nat
  PROVE  LET long == Append(logs, log) IN
         [long EXCEPT ![Len(long)] = Append(@, byte)] = Append(logs, Append(log, byte))
<1> DEFINE long == Append(logs, log)
           n == Len(logs)
           new == [long EXCEPT ![Len(long)] = Append(@, byte)]
           end == Append(logs, Append(log, byte))
<1>0. n \in Nat
  BY LenProperties
<1>1. /\ long \in Seq(Seq(Nat)) /\ Len(long) = n + 1 /\ long[n + 1] = log
      /\ \A i \in 1 .. n : long[i] = logs[i]
  BY AppendProperties
<1>2. Append(log, byte) \in Seq(Nat)
  BY AppendProperties
<1>3. /\ end \in Seq(Seq(Nat)) /\ Len(end) = n + 1 /\ end[n + 1] = Append(log, byte)
      /\ \A i \in 1 .. n : end[i] = logs[i]
  BY <1>2, AppendProperties
<1> HIDE DEF long, n, end
<1>4. DOMAIN long = 1 .. n + 1 /\ DOMAIN end = 1 .. n + 1
  BY <1>1, <1>3, LenProperties
<1>5. new = [i \in 1 .. n + 1 |-> IF i = n + 1 THEN Append(log, byte) ELSE long[i]]
  BY <1>1, <1>4
<1>6. end = [i \in 1 .. n + 1 |-> end[i]]
  BY <1>3, <1>4
<1>7. \A i \in 1 .. n + 1 : end[i] = IF i = n + 1 THEN Append(log, byte) ELSE long[i]
  BY <1>0, <1>1, <1>3
<1> QED BY <1>5, <1>6, <1>7 DEF long, end

\* Where a stream grows: old and new offsets.
Longer(bytes, more, long) ==
  /\ bytes \in Seq(Nat) /\ more \in Seq(Nat) /\ long \in Seq(Nat)
  /\ Len(bytes) \in Nat /\ Len(more) \in Nat
  /\ Len(long) = Len(bytes) + Len(more)
  /\ \A i \in 1 .. Len(bytes) : long[i] = bytes[i]
  /\ \A i \in 1 .. Len(more) : long[Len(bytes) + i] = more[i]

LEMMA ConcatIsLonger ==
  ASSUME NEW bytes \in Seq(Nat), NEW more \in Seq(Nat)
  PROVE  Longer(bytes, more, bytes \o more)
<1> DEFINE long == bytes \o more
<1>1. /\ long \in Seq(Nat) /\ Len(long) = Len(bytes) + Len(more)
      /\ \A i \in 1 .. Len(bytes) + Len(more) :
           long[i] = IF i <= Len(bytes) THEN bytes[i] ELSE more[i - Len(bytes)]
      /\ Len(bytes) \in Nat /\ Len(more) \in Nat
  BY ConcatProperties, LenProperties
<1> HIDE DEF long
<1>2. ASSUME NEW i \in 1 .. Len(bytes) PROVE long[i] = bytes[i]
  <2>1. i \in 1 .. Len(bytes) + Len(more) /\ i <= Len(bytes)
    BY <1>1
  <2> QED BY <1>1, <2>1
<1>3. ASSUME NEW i \in 1 .. Len(more) PROVE long[Len(bytes) + i] = more[i]
  <2>1. Len(bytes) + i \in 1 .. Len(bytes) + Len(more) /\ ~ (Len(bytes) + i <= Len(bytes))
        /\ (Len(bytes) + i) - Len(bytes) = i
    BY <1>1
  <2> QED BY <1>1, <2>1
<1>4. Longer(bytes, more, long)
  BY <1>1, <1>2, <1>3 DEF Longer
<1> QED BY <1>4 DEF long

Equal(s, t) == s = t

LEMMA Associates ==
  ASSUME NEW s \in Seq(Nat), NEW t \in Seq(Nat), NEW u \in Seq(Nat), NEW front, NEW back,
         front = s \o t, back = t \o u
  PROVE  Equal(front \o u, s \o back)
<1>1. front \o u = s \o back
  BY ConcatAssociative, SMTT(30)
<1> QED BY <1>1 DEF Equal

\* w is what lies between two offsets.
Piece(w, bytes, x, y) ==
  /\ w \in Seq(Nat)
  /\ Len(w) = y - x
  /\ \A i \in 1 .. y - x : w[i] = bytes[x + i]

\* The bytes of a piece.
LEMMA PieceIs ==
  ASSUME NEW bytes \in Seq(Nat), NEW x \in Nat, NEW y \in Nat, x <= y, y <= Len(bytes)
  PROVE  Piece(SubSeq(bytes, x + 1, y), bytes, x, y)
<1>0. Len(bytes) \in Nat
  BY LenProperties
<1>1. \A i \in x + 1 .. y : bytes[i] \in Nat
  <2> SUFFICES ASSUME NEW i \in x + 1 .. y PROVE bytes[i] \in Nat
    OBVIOUS
  <2>1. i \in 1 .. Len(bytes)
    BY <1>0
  <2> QED BY <2>1, ElementOfSeq
<1> DEFINE w == SubSeq(bytes, x + 1, y)
<1>2. /\ w \in Seq(Nat)
      /\ Len(w) = IF x + 1 <= y THEN y - (x + 1) + 1 ELSE 0
      /\ \A i \in 1 .. y - (x + 1) + 1 : w[i] = bytes[(x + 1) + i - 1]
  <2> DEFINE m == x + 1
  <2>1. m \in Int /\ y \in Int
    OBVIOUS
  <2> HIDE DEF m
  <2>2. /\ SubSeq(bytes, m, y) \in Seq(Nat)
        /\ Len(SubSeq(bytes, m, y)) = IF m <= y THEN y - m + 1 ELSE 0
        /\ \A i \in 1 .. y - m + 1 : SubSeq(bytes, m, y)[i] = bytes[m + i - 1]
    <3>1. \A i \in m .. y : bytes[i] \in Nat
      BY <1>1 DEF m
    <3> QED BY <2>1, <3>1, SubSeqProperties
  <2> QED BY <2>2 DEF m
<1> HIDE DEF w
<1>3. Len(w) = y - x
  BY <1>2
<1>4. \A i \in 1 .. y - x : w[i] = bytes[x + i]
  BY <1>2
<1>5. Piece(w, bytes, x, y)
  BY <1>2, <1>3, <1>4 DEF Piece
<1> QED BY <1>5 DEF w

LEMMA SamePiece ==
  ASSUME NEW v, NEW w, NEW bytes, NEW x, NEW y, Piece(v, bytes, x, y), Piece(w, bytes, x, y)
  PROVE  v = w
BY SeqEqual DEF Piece

LEMMA PieceOfPiece ==
  ASSUME NEW w, NEW bytes, NEW x \in Nat, NEW y \in Nat, Piece(w, bytes, x, y),
         NEW a \in Nat, NEW b \in Nat, a <= b, x + b <= y
  PROVE  Piece(SubSeq(w, a + 1, b), bytes, x + a, x + b)
<1>1. w \in Seq(Nat) /\ Len(w) = y - x /\ b <= Len(w)
  BY DEF Piece
<1>2. Piece(SubSeq(w, a + 1, b), w, a, b)
  BY <1>1, PieceIs
<1> DEFINE v == SubSeq(w, a + 1, b)
<1> HIDE DEF v
<1>3. ASSUME NEW i \in 1 .. (x + b) - (x + a) PROVE v[i] = bytes[(x + a) + i]
  <2>1. i \in 1 .. b - a /\ a + i \in 1 .. y - x /\ x + (a + i) = (x + a) + i
    OBVIOUS
  <2>2. v[i] = w[a + i]
    BY <1>2, <2>1 DEF Piece, v
  <2>3. w[a + i] = bytes[x + (a + i)]
    BY <2>1 DEF Piece
  <2> QED BY <2>1, <2>2, <2>3
<1>4. v \in Seq(Nat) /\ Len(v) = (x + b) - (x + a)
  BY <1>2, SMTT(30) DEF Piece, v
<1>5. Piece(v, bytes, x + a, x + b)
  BY <1>3, <1>4 DEF Piece
<1> QED BY <1>5 DEF v

LEMMA PiecesMeet ==
  ASSUME NEW v, NEW w, NEW bytes, NEW x \in Int, NEW y \in Int, NEW z \in Int, x <= y, y <= z,
         Piece(v, bytes, x, y), Piece(w, bytes, y, z)
  PROVE  Piece(v \o w, bytes, x, z)
<1> DEFINE u == v \o w
<1>1. v \in Seq(Nat) /\ w \in Seq(Nat) /\ Len(v) = y - x /\ Len(w) = z - y
  BY DEF Piece
<1>2. /\ u \in Seq(Nat) /\ Len(u) = (y - x) + (z - y)
      /\ \A i \in 1 .. (y - x) + (z - y) : u[i] = IF i <= y - x THEN v[i] ELSE w[i - (y - x)]
  <2>1. /\ u \in Seq(Nat) /\ Len(u) = Len(v) + Len(w)
        /\ \A i \in 1 .. Len(v) + Len(w) : u[i] = IF i <= Len(v) THEN v[i] ELSE w[i - Len(v)]
    BY <1>1, ConcatProperties
  <2> HIDE DEF u
  <2> QED BY <1>1, <2>1
<1> HIDE DEF u
<1>3. ASSUME NEW i \in 1 .. z - x PROVE u[i] = bytes[x + i]
  <2>1. CASE i <= y - x
    BY <1>2, <2>1 DEF Piece
  <2>2. CASE ~ (i <= y - x)
    <3>1. i - (y - x) \in 1 .. z - y /\ y + (i - (y - x)) = x + i
      BY <2>2
    <3>2. w[i - (y - x)] = bytes[y + (i - (y - x))]
      BY <3>1 DEF Piece
    <3> QED BY <1>2, <2>2, <3>1, <3>2
  <2> QED BY <2>1, <2>2
<1>4. Piece(u, bytes, x, z)
  BY <1>2, <1>3, SMTT(30) DEF Piece
<1> QED BY <1>4 DEF u

\* What is appended to a stream changes nothing in front of it.
LEMMA PieceOfLonger ==
  ASSUME NEW bytes \in Seq(Nat), NEW more \in Seq(Nat), NEW x \in Nat, NEW y \in Nat, x <= y,
         y <= Len(bytes)
  PROVE  SubSeq(bytes \o more, x + 1, y) = SubSeq(bytes, x + 1, y)
<1> DEFINE long == bytes \o more
<1>1. /\ long \in Seq(Nat) /\ Len(long) = Len(bytes) + Len(more)
      /\ \A i \in 1 .. Len(bytes) + Len(more) :
           long[i] = IF i <= Len(bytes) THEN bytes[i] ELSE more[i - Len(bytes)]
      /\ Len(bytes) \in Nat /\ Len(more) \in Nat
  BY ConcatProperties, LenProperties
<1> HIDE DEF long
<1>2. Piece(SubSeq(bytes, x + 1, y), bytes, x, y)
  BY PieceIs
<1>3. Piece(SubSeq(long, x + 1, y), long, x, y)
  BY <1>1, PieceIs
<1>4. \A i \in 1 .. y - x : long[x + i] = bytes[x + i]
  BY <1>1
<1>5. Piece(SubSeq(long, x + 1, y), bytes, x, y)
  BY <1>3, <1>4 DEF Piece
<1> QED BY <1>2, <1>5, SamePiece DEF long

\* A piece of a piece, by what it holds.
LEMMA PieceWithin ==
  ASSUME NEW w, NEW bytes, NEW x \in Nat, NEW y \in Nat, Piece(w, bytes, x, y),
         NEW v, NEW a \in Nat, NEW b \in Nat, b <= y - x, Piece(v, w, a, b)
  PROVE  Piece(v, bytes, a + x, b + x)
<1>1. v \in Seq(Nat) /\ Len(v) = (b + x) - (a + x)
  BY DEF Piece
<1>2. ASSUME NEW i \in 1 .. (b + x) - (a + x) PROVE v[i] = bytes[(a + x) + i]
  <2>1. i \in 1 .. b - a /\ a + i \in 1 .. y - x /\ x + (a + i) = (a + x) + i
    OBVIOUS
  <2>2. v[i] = w[a + i]
    BY <2>1 DEF Piece
  <2>3. w[a + i] = bytes[x + (a + i)]
    BY <2>1 DEF Piece
  <2> QED BY <2>1, <2>2, <2>3
<1> QED BY <1>1, <1>2 DEF Piece

\* Two sequences that lie end to end.
LEMMA PieceSplit ==
  ASSUME NEW u \in Seq(Nat), NEW v \in Seq(Nat), NEW bytes, NEW x \in Nat, NEW y \in Nat,
         x <= y, Piece(u \o v, bytes, x, y)
  PROVE  /\ x + Len(u) \in Nat /\ x + Len(u) <= y
         /\ Piece(u, bytes, x, x + Len(u)) /\ Piece(v, bytes, x + Len(u), y)
<1> DEFINE w == u \o v
           m == Len(u)
           n == Len(v)
<1>0. m \in Nat /\ n \in Nat
  BY LenProperties
<1>1. /\ w \in Seq(Nat) /\ Len(w) = m + n
      /\ \A i \in 1 .. m + n : w[i] = IF i <= m THEN u[i] ELSE v[i - m]
  BY ConcatProperties
<1>2. Len(w) = y - x /\ \A i \in 1 .. y - x : w[i] = bytes[x + i]
  BY DEF Piece
<1> HIDE DEF w, m, n
<1>3. m + n = y - x
  BY <1>0, <1>1, <1>2
<1>4. ASSUME NEW i \in 1 .. (x + m) - x PROVE u[i] = bytes[x + i]
  <2>1. i \in 1 .. m + n /\ i <= m
    BY <1>0
  <2> QED BY <1>1, <1>2, <1>3, <2>1
<1>5. ASSUME NEW i \in 1 .. y - (x + m) PROVE v[i] = bytes[(x + m) + i]
  <2>1. m + i \in 1 .. m + n /\ ~ (m + i <= m) /\ (m + i) - m = i /\ x + (m + i) = (x + m) + i
    BY <1>0, <1>3
  <2>2. w[m + i] = v[(m + i) - m] /\ w[m + i] = bytes[x + (m + i)]
    BY <1>1, <1>2, <1>3, <2>1
  <2> QED BY <2>1, <2>2
<1>6. Len(u) = (x + m) - x /\ Len(v) = y - (x + m) /\ x + m \in Nat /\ x + m <= y
  <2>1. Len(u) = m /\ Len(v) = n
    BY DEF m, n
  <2> QED BY <1>0, <1>3, <2>1
<1>7. Piece(u, bytes, x, x + m) /\ Piece(v, bytes, x + m, y)
  BY <1>4, <1>5, <1>6 DEF Piece
<1> QED BY <1>6, <1>7 DEF m

\* A sequence is its first part and the rest.
LEMMA SplitAt ==
  ASSUME NEW R, NEW s \in Seq(R), NEW d \in Nat, d <= Len(s)
  PROVE  /\ s = SubSeq(s, 1, d) \o SubSeq(s, d + 1, Len(s))
         /\ SubSeq(s, 1, d) \in Seq(R) /\ Len(SubSeq(s, 1, d)) = d
         /\ SubSeq(s, d + 1, Len(s)) \in Seq(R)
         /\ \A i \in 1 .. d : SubSeq(s, 1, d)[i] = s[i]
<1> DEFINE n == Len(s)
           one == 1
           e == d + 1
<1>0. n \in Nat /\ one \in 1 .. n + 1 /\ d \in one - 1 .. n /\ n \in d .. n
  BY LenProperties
<1>1. SubSeq(s, 1, d) \o SubSeq(s, d + 1, n) = SubSeq(s, 1, n)
  <2> HIDE DEF n, one
  <2>1. SubSeq(s, one, d) \o SubSeq(s, d + 1, n) = SubSeq(s, one, n)
    BY <1>0, ConcatAdjacentSubSeq DEF n
  <2> QED BY <2>1 DEF one
<1>2. SubSeq(s, 1, n) = s
  BY SubSeqFull
<1>3. \A i \in 1 .. n : s[i] \in R
  BY ElementOfSeq
<1>4. (\A i \in one .. d : s[i] \in R) /\ \A i \in e .. n : s[i] \in R
  <2> HIDE DEF n
  <2> QED BY <1>0, <1>3
<1>5. /\ SubSeq(s, one, d) \in Seq(R) /\ Len(SubSeq(s, one, d)) = IF one <= d THEN d - one + 1 ELSE 0
      /\ \A i \in 1 .. d - one + 1 : SubSeq(s, one, d)[i] = s[one + i - 1]
  <2>1. one \in Int /\ d \in Int
    OBVIOUS
  <2> HIDE DEF one, n, e
  <2> QED BY <1>4, <2>1, SubSeqProperties
<1>6. SubSeq(s, e, n) \in Seq(R)
  <2>1. e \in Int /\ n \in Int
    BY <1>0
  <2> HIDE DEF n, e, one
  <2> QED BY <1>4, <2>1, SubSeqProperties
<1>7. Len(SubSeq(s, 1, d)) = d /\ \A i \in 1 .. d : SubSeq(s, 1, d)[i] = s[i]
  <2> DEFINE h == SubSeq(s, 1, d)
  <2>1. Len(h) = (IF 1 <= d THEN d - 1 + 1 ELSE 0) /\ \A i \in 1 .. d - 1 + 1 : h[i] = s[1 + i - 1]
    BY <1>5
  <2> HIDE DEF h, n
  <2>2. \A i \in 1 .. d : i \in 1 .. d - 1 + 1 /\ 1 + i - 1 = i
    OBVIOUS
  <2>3. \A i \in 1 .. d : h[i] = s[i]
    BY <2>1, <2>2
  <2>4. Len(h) = d
    BY <2>1
  <2> QED BY <2>3, <2>4 DEF h
<1> QED BY <1>1, <1>2, <1>5, <1>6, <1>7

-----------------------------------------------------------------------------
(* Numbers in their order, and lists turned round.                          *)

\* A sequence that goes through a set of numbers in their order.
Sorts(s, S) ==
  /\ s \in Seq(Nat)
  /\ \A i, j \in 1 .. Len(s) : i < j => s[i] < s[j]
  /\ \A i \in 1 .. Len(s) : s[i] \in S
  /\ \A n \in S : \E i \in 1 .. Len(s) : s[i] = n

\* There is no other.
LEMMA SortsStart ==
  ASSUME NEW S, NEW s, Sorts(s, S), NEW t, Sorts(t, S),
         NEW n \in Nat, n \in 1 .. Len(s), n \in 1 .. Len(t)
  PROVE  s[n] = t[n]
<1> DEFINE T == {k \in Nat : k \in 1 .. Len(s) /\ k \in 1 .. Len(t) /\ s[k] # t[k]}
<1> SUFFICES ASSUME T # {} PROVE FALSE
  OBVIOUS
<1>0. Len(s) \in Nat /\ Len(t) \in Nat
  BY LenProperties DEF Sorts
<1>1. PICK m \in T : \A k \in T : m <= k
  <2> HIDE DEF T
  <2>1. T \subseteq Nat
    BY DEF T
  <2> QED BY <2>1, LeastNumber
<1>2. m \in 1 .. Len(s) /\ m \in 1 .. Len(t) /\ s[m] # t[m] /\ m \in Nat
  OBVIOUS
<1>3. ASSUME NEW k \in 1 .. Len(s), k \in 1 .. Len(t), k < m PROVE s[k] = t[k]
  <2>1. k \in Nat /\ k \notin T
    BY <1>1, <1>2, <1>3
  <2> QED BY <1>3, <2>1
<1> HIDE DEF T
<1>4. s[m] \in Nat /\ t[m] \in Nat
  BY <1>2, ElementOfSeq DEF Sorts
<1>a. /\ \A i, j \in 1 .. Len(s) : i < j => s[i] < s[j]
      /\ \A i, j \in 1 .. Len(t) : i < j => t[i] < t[j]
  BY DEF Sorts
<1>5. ASSUME s[m] < t[m] PROVE FALSE
  <2>1. PICK k \in 1 .. Len(t) : t[k] = s[m]
    BY <1>2 DEF Sorts
  <2>2. k < m
    <3>1. ~ (m < k) /\ m # k
      BY <1>2, <1>4, <1>5, <1>a, <2>1
    <3> QED BY <1>0, <1>2, <3>1
  <2>3. k \in 1 .. Len(s) /\ s[k] = t[k]
    BY <1>0, <1>2, <1>3, <2>2
  <2>4. s[k] < s[m]
    BY <1>2, <2>2, <2>3 DEF Sorts
  <2> QED BY <1>4, <2>1, <2>3, <2>4
<1>6. ASSUME t[m] < s[m] PROVE FALSE
  <2>1. PICK k \in 1 .. Len(s) : s[k] = t[m]
    BY <1>2 DEF Sorts
  <2>2. k < m
    <3>1. ~ (m < k) /\ m # k
      BY <1>2, <1>4, <1>6, <1>a, <2>1
    <3> QED BY <1>0, <1>2, <3>1
  <2>3. k \in 1 .. Len(t) /\ s[k] = t[k]
    BY <1>0, <1>2, <1>3, <2>2
  <2>4. t[k] < t[m]
    BY <1>2, <2>2, <2>3 DEF Sorts
  <2> QED BY <1>4, <2>1, <2>3, <2>4
<1> QED BY <1>2, <1>4, <1>5, <1>6

LEMMA SortsLength ==
  ASSUME NEW S, NEW s, Sorts(s, S), NEW t, Sorts(t, S)
  PROVE  Len(s) <= Len(t)
<1>0. Len(s) \in Nat /\ Len(t) \in Nat
  BY LenProperties DEF Sorts
<1> SUFFICES ASSUME Len(t) < Len(s) PROVE FALSE
  BY <1>0
<1> DEFINE m == Len(t) + 1
<1>1. m \in 1 .. Len(s)
  BY <1>0
<1>2. PICK k \in 1 .. Len(t) : t[k] = s[m]
  BY <1>1 DEF Sorts
<1>3. k \in Nat /\ k \in 1 .. Len(s) /\ k < m
  BY <1>0, <1>1
<1>4. s[k] = t[k]
  BY <1>3, SortsStart
<1>5. s[k] < s[m] /\ s[k] \in Nat
  BY <1>1, <1>3, ElementOfSeq DEF Sorts
<1> QED BY <1>2, <1>4, <1>5

LEMMA SortsUnique ==
  ASSUME NEW S, NEW s, Sorts(s, S), NEW t, Sorts(t, S)
  PROVE  s = t
<1>1. Len(s) <= Len(t) /\ Len(t) <= Len(s)
  BY SortsLength
<1>2. s \in Seq(Nat) /\ t \in Seq(Nat) /\ Len(s) = Len(t)
  <2>1. s \in Seq(Nat) /\ t \in Seq(Nat)
    BY DEF Sorts
  <2>2. Len(s) \in Nat /\ Len(t) \in Nat
    BY <2>1, LenProperties
  <2> QED BY <1>1, <2>1, <2>2
<1>3. \A i \in 1 .. Len(s) : s[i] = t[i]
  BY <1>2, SortsStart
<1> QED BY <1>2, <1>3, SeqEqual

\* Numbers in front of others.
LEMMA SortsMeet ==
  ASSUME NEW S, NEW s, Sorts(s, S), NEW T, NEW t, Sorts(t, T),
         \A a \in S : \A b \in T : a < b
  PROVE  Sorts(s \o t, S \cup T)
<1> DEFINE u == s \o t
           m == Len(s)
           n == Len(t)
<1>1. s \in Seq(Nat) /\ t \in Seq(Nat) /\ m \in Nat /\ n \in Nat
  BY LenProperties DEF Sorts
<1>2. /\ u \in Seq(Nat) /\ Len(u) = m + n
      /\ \A i \in 1 .. m + n : u[i] = IF i <= m THEN s[i] ELSE t[i - m]
  BY <1>1, ConcatProperties
<1> HIDE DEF u, m, n
<1>3. /\ \A i, j \in 1 .. m : i < j => s[i] < s[j]
      /\ \A i, j \in 1 .. n : i < j => t[i] < t[j]
      /\ \A i \in 1 .. m : s[i] \in S
      /\ \A i \in 1 .. n : t[i] \in T
      /\ \A k \in S : \E i \in 1 .. m : s[i] = k
      /\ \A k \in T : \E i \in 1 .. n : t[i] = k
  BY DEF Sorts, m, n
<1>4. ASSUME NEW i \in 1 .. m + n, NEW j \in 1 .. m + n, i < j PROVE u[i] < u[j]
  <2>1. CASE j <= m
    <3>1. i \in 1 .. m /\ j \in 1 .. m /\ i <= m
      BY <1>1, <1>4, <2>1
    <3> QED BY <1>2, <1>3, <1>4, <2>1, <3>1
  <2>2. CASE i <= m /\ ~ (j <= m)
    <3>1. i \in 1 .. m /\ j - m \in 1 .. n
      BY <1>1, <2>2
    <3> QED BY <1>2, <1>3, <2>2, <3>1
  <2>3. CASE ~ (i <= m)
    <3>1. i - m \in 1 .. n /\ j - m \in 1 .. n /\ i - m < j - m /\ ~ (j <= m)
      BY <1>1, <1>4, <2>3
    <3> QED BY <1>2, <1>3, <2>3, <3>1
  <2> QED BY <2>1, <2>2, <2>3
<1>5. ASSUME NEW i \in 1 .. m + n PROVE u[i] \in S \cup T
  <2>1. CASE i <= m
    <3>1. i \in 1 .. m
      BY <1>1, <2>1
    <3> QED BY <1>2, <1>3, <2>1, <3>1
  <2>2. CASE ~ (i <= m)
    <3>1. i - m \in 1 .. n
      BY <1>1, <2>2
    <3> QED BY <1>2, <1>3, <2>2, <3>1
  <2> QED BY <2>1, <2>2
<1>6. ASSUME NEW k \in S \cup T PROVE \E i \in 1 .. m + n : u[i] = k
  <2>1. CASE k \in S
    <3>1. PICK i \in 1 .. m : s[i] = k
      BY <1>3, <2>1
    <3>2. i \in 1 .. m + n /\ i <= m
      BY <1>1
    <3> QED BY <1>2, <3>1, <3>2
  <2>2. CASE k \in T
    <3>1. PICK i \in 1 .. n : t[i] = k
      BY <1>3, <2>2
    <3>2. m + i \in 1 .. m + n /\ ~ (m + i <= m) /\ (m + i) - m = i
      BY <1>1
    <3>3. u[m + i] = k
      BY <1>2, <3>1, <3>2
    <3> QED BY <3>2, <3>3
  <2> QED BY <2>1, <2>2
<1> QED BY <1>2, <1>4, <1>5, <1>6 DEF Sorts, u

LEMMA SortsNone == Sorts(<<>>, {})
BY DEF Sorts

LEMMA SortsOne ==
  ASSUME NEW n \in Nat
  PROVE  Sorts(<<n>>, {n})
<1> DEFINE s == <<n>>
<1>1. s \in Seq(Nat) /\ Len(s) = 1 /\ s[1] = n
  OBVIOUS
<1> HIDE DEF s
<1>2. Sorts(s, {n})
  BY <1>1 DEF Sorts
<1> QED BY <1>2 DEF s

\* The first of the numbers is the least.
LEMMA SortsFirst ==
  ASSUME NEW S, NEW s, Sorts(s, S), NEW n \in S, \A m \in S : n <= m
  PROVE  s # <<>> /\ s[1] = n
<1>0. Len(s) \in Nat /\ s \in Seq(Nat)
  BY LenProperties DEF Sorts
<1>1. PICK i \in 1 .. Len(s) : s[i] = n
  BY DEF Sorts
<1>2. 1 \in 1 .. Len(s) /\ s # <<>>
  <2>1. Len(s) # 0
    BY <1>0
  <2> QED BY <1>0, <2>1, EmptySeq
<1>3. s[1] \in S /\ s[1] \in Nat /\ s[i] \in Nat
  BY <1>2, ElementOfSeq DEF Sorts
<1>4. n <= s[1]
  BY <1>3
<1>5. i # 1 => s[1] < s[i]
  BY <1>0, <1>2 DEF Sorts
<1> QED BY <1>1, <1>2, <1>3, <1>4, <1>5

LEMMA SortsEmpty ==
  ASSUME NEW S, NEW s, Sorts(s, S)
  PROVE  /\ s = <<>> <=> S = {}
         /\ s # <<>> => s[1] \in S /\ Last(s) \in S /\ s[1] \in Nat /\ Last(s) \in Nat
<1>0. Len(s) \in Nat /\ s \in Seq(Nat)
  BY LenProperties DEF Sorts
<1>1. s = <<>> => S = {}
  <2> SUFFICES ASSUME s = <<>>, NEW n \in S PROVE FALSE
    OBVIOUS
  <2>1. PICK i \in 1 .. Len(s) : s[i] = n
    BY DEF Sorts
  <2> QED BY <1>0, <2>1, EmptySeq
<1>2. ASSUME s # <<>> PROVE s[1] \in S /\ Last(s) \in S /\ s[1] \in Nat /\ Last(s) \in Nat
  <2>1. 1 \in 1 .. Len(s) /\ Len(s) \in 1 .. Len(s)
    BY <1>0, <1>2, EmptySeq
  <2>2. Last(s) = s[Len(s)]
    BY DEF Last
  <2> QED BY <1>0, <2>1, <2>2, ElementOfSeq DEF Sorts
<1> QED BY <1>1, <1>2

\* The numbers behind the first.
Later(s) == SubSeq(s, 2, Len(s))

LEMMA LaterIs ==
  ASSUME NEW R, NEW s \in Seq(R), s # <<>>
  PROVE  /\ Later(s) \in Seq(R) /\ Len(Later(s)) = Len(s) - 1
         /\ \A i \in 1 .. Len(s) - 1 : Later(s)[i] = s[i + 1]
<1>0. Len(s) \in Nat /\ Len(s) # 0 /\ \A i \in 1 .. Len(s) : s[i] \in R
  BY LenProperties, EmptySeq, ElementOfSeq
<1>1. \A i \in 2 .. Len(s) : s[i] \in R
  BY <1>0
<1> DEFINE n == Len(s)
           r == SubSeq(s, 2, n)
<1>2. n \in Int /\ 2 \in Int /\ \A i \in 2 .. n : s[i] \in R
  BY <1>0, <1>1
<1>3. /\ r \in Seq(R) /\ Len(r) = IF 2 <= n THEN n - 2 + 1 ELSE 0
      /\ \A i \in 1 .. n - 2 + 1 : r[i] = s[2 + i - 1]
  <2> HIDE DEF n
  <2> QED BY <1>2, SubSeqProperties
<1> HIDE DEF r
<1>4. Len(r) = n - 1
  <2>1. n \in Nat /\ n # 0
    BY <1>0
  <2> HIDE DEF n
  <2> QED BY <1>3, <2>1
<1>5. ASSUME NEW i \in 1 .. n - 1 PROVE r[i] = s[i + 1]
  <2>1. i \in 1 .. n - 2 + 1 /\ 2 + i - 1 = i + 1
    BY <1>0
  <2> QED BY <1>3, <2>1
<1> QED BY <1>3, <1>4, <1>5 DEF Later, r

LEMMA SortsLater ==
  ASSUME NEW S, NEW s, Sorts(s, S), s # <<>>
  PROVE  Sorts(Later(s), S \ {s[1]}) /\ \A n \in S \ {s[1]} : s[1] < n
<1> DEFINE r == Later(s)
           m == Len(s)
<1>0. m \in Nat /\ s \in Seq(Nat) /\ m # 0 /\ 1 \in 1 .. m
  BY LenProperties, EmptySeq DEF Sorts
<1>1. r \in Seq(Nat) /\ Len(r) = m - 1 /\ \A i \in 1 .. m - 1 : r[i] = s[i + 1]
  BY <1>0, LaterIs
<1> HIDE DEF r
<1>2. /\ \A i, j \in 1 .. m : i < j => s[i] < s[j]
      /\ \A i \in 1 .. m : s[i] \in S /\ s[i] \in Nat
      /\ \A n \in S : \E i \in 1 .. m : s[i] = n
  BY <1>0, ElementOfSeq DEF Sorts
<1> HIDE DEF m
<1>3. \A i \in 1 .. m - 1 : i + 1 \in 1 .. m /\ 1 < i + 1
  BY <1>0
<1>4. ASSUME NEW i \in 1 .. m - 1, NEW j \in 1 .. m - 1, i < j PROVE r[i] < r[j]
  <2>1. i + 1 < j + 1
    BY <1>4
  <2> QED BY <1>1, <1>2, <1>3, <2>1
<1>5. ASSUME NEW i \in 1 .. m - 1 PROVE r[i] \in S \ {s[1]}
  <2>1. s[1] < s[i + 1] /\ s[i + 1] \in S /\ s[i + 1] \in Nat /\ s[1] \in Nat
    BY <1>0, <1>2, <1>3
  <2> QED BY <1>1, <2>1
<1>6. ASSUME NEW n \in S \ {s[1]} PROVE s[1] < n /\ \E i \in 1 .. m - 1 : r[i] = n
  <2>1. PICK i \in 1 .. m : s[i] = n
    BY <1>2
  <2>2. i # 1
    BY <2>1
  <2>3. i - 1 \in 1 .. m - 1 /\ (i - 1) + 1 = i /\ 1 < i
    BY <1>0, <2>2
  <2>4. r[i - 1] = n
    BY <1>1, <2>1, <2>3
  <2> QED BY <1>0, <1>2, <2>1, <2>3, <2>4
<1>7. Sorts(r, S \ {s[1]})
  BY <1>1, <1>4, <1>5, <1>6 DEF Sorts
<1> QED BY <1>6, <1>7 DEF r

\* The same numbers, further on.
MovedBy(s, x) == [i \in 1 .. Len(s) |-> s[i] + x]

LEMMA MovedByIs ==
  ASSUME NEW s \in Seq(Nat), NEW x \in Nat
  PROVE  /\ MovedBy(s, x) \in Seq(Nat) /\ Len(MovedBy(s, x)) = Len(s)
         /\ \A i \in 1 .. Len(s) : MovedBy(s, x)[i] = s[i] + x
<1> DEFINE r == MovedBy(s, x)
           m == Len(s)
<1>0. m \in Nat /\ \A i \in 1 .. m : s[i] \in Nat
  BY LenProperties, ElementOfSeq
<1>1. r = [i \in 1 .. m |-> s[i] + x]
  BY DEF MovedBy
<1> HIDE DEF r, m
<1>2. \A i \in 1 .. m : s[i] + x \in Nat
  BY <1>0
<1>3. r \in Seq(Nat) /\ Len(r) = m /\ \A i \in 1 .. m : r[i] = s[i] + x
  BY <1>0, <1>1, <1>2
<1> QED BY <1>3 DEF r, m

LEMMA SortsMoved ==
  ASSUME NEW S, NEW s, Sorts(s, S), NEW x \in Nat
  PROVE  Sorts(MovedBy(s, x), {n + x : n \in S})
<1> DEFINE r == MovedBy(s, x)
           m == Len(s)
           T == {n + x : n \in S}
<1>0. m \in Nat /\ s \in Seq(Nat)
  BY LenProperties DEF Sorts
<1>2. /\ \A i, j \in 1 .. m : i < j => s[i] < s[j]
      /\ \A i \in 1 .. m : s[i] \in S /\ s[i] \in Nat
      /\ \A n \in S : \E i \in 1 .. m : s[i] = n
  BY <1>0, ElementOfSeq DEF Sorts
<1>1. r \in Seq(Nat) /\ Len(r) = m /\ \A i \in 1 .. m : r[i] = s[i] + x
  BY <1>0, MovedByIs
<1> HIDE DEF r, m
<1>3. ASSUME NEW i \in 1 .. m, NEW j \in 1 .. m, i < j PROVE r[i] < r[j]
  <2>1. s[i] \in Nat /\ s[j] \in Nat /\ s[i] < s[j]
    BY <1>2, <1>3
  <2> QED BY <1>1, <2>1
<1>4. \A i \in 1 .. m : r[i] \in T
  BY <1>1, <1>2
<1>5. \A n \in T : \E i \in 1 .. m : r[i] = n
  BY <1>1, <1>2
<1> HIDE DEF T
<1>6. Sorts(r, T)
  BY <1>1, <1>3, <1>4, <1>5 DEF Sorts
<1> QED BY <1>6 DEF r, T

-----------------------------------------------------------------------------
(* Sequences turned round.                                                  *)

LEMMA ReverseIsSeq ==
  ASSUME NEW R, NEW s \in Seq(R)
  PROVE  /\ Reverse(s) \in Seq(R) /\ Len(Reverse(s)) = Len(s)
         /\ \A i \in 1 .. Len(s) : Reverse(s)[i] = s[Len(s) - i + 1]
<1> DEFINE n == Len(s)
           r == [i \in 1 .. n |-> s[(n - i) + 1]]
<1>1. n \in Nat /\ \A i \in 1 .. n : s[i] \in R
  BY LenProperties, ElementOfSeq
<1>2. Reverse(s) = r
  BY <1>1 DEF Reverse
<1> HIDE DEF n
<1>3. \A i \in 1 .. n : (n - i) + 1 \in 1 .. n
  BY <1>1
<1>4. r \in Seq(R) /\ Len(r) = n /\ \A i \in 1 .. n : r[i] = s[n - i + 1]
  BY <1>1, <1>3
<1> HIDE DEF r
<1> QED BY <1>2, <1>4 DEF n

LEMMA ReverseTwice ==
  ASSUME NEW R, NEW s \in Seq(R)
  PROVE  Reverse(Reverse(s)) = s
<1> DEFINE n == Len(s)
           r == Reverse(s)
           t == Reverse(r)
<1>0. n \in Nat
  BY LenProperties
<1>1. r \in Seq(R) /\ Len(r) = n /\ \A i \in 1 .. n : r[i] = s[n - i + 1]
  BY ReverseIsSeq
<1> HIDE DEF r
<1>2. t \in Seq(R) /\ Len(t) = n /\ \A i \in 1 .. n : t[i] = r[n - i + 1]
  BY <1>1, ReverseIsSeq
<1> HIDE DEF t
<1>3. ASSUME NEW i \in 1 .. n PROVE t[i] = s[i]
  <2>1. n - i + 1 \in 1 .. n /\ n - (n - i + 1) + 1 = i
    BY <1>0
  <2> QED BY <1>1, <1>2, <2>1
<1> HIDE DEF n
<1>4. Len(t) = Len(s)
  BY <1>2 DEF n
<1>5. t = s
  BY <1>2, <1>3, <1>4, SeqEqual DEF n
<1> QED BY <1>5 DEF t, r

LEMMA ReverseBoth ==
  ASSUME NEW R, NEW s \in Seq(R), NEW t \in Seq(R)
  PROVE  Reverse(s \o t) = Reverse(t) \o Reverse(s)
<1> DEFINE m == Len(s)
           n == Len(t)
           u == s \o t
           ru == Reverse(u)
           rs == Reverse(s)
           rt == Reverse(t)
           v == rt \o rs
<1>0. m \in Nat /\ n \in Nat
  BY LenProperties
<1>1. u \in Seq(R) /\ Len(u) = m + n /\ \A i \in 1 .. m + n : u[i] = IF i <= m THEN s[i] ELSE t[i - m]
  BY ConcatProperties
<1>2. /\ rs \in Seq(R) /\ Len(rs) = m /\ \A i \in 1 .. m : rs[i] = s[m - i + 1]
      /\ rt \in Seq(R) /\ Len(rt) = n /\ \A i \in 1 .. n : rt[i] = t[n - i + 1]
  BY ReverseIsSeq
<1> HIDE DEF u, rs, rt
<1>3. ru \in Seq(R) /\ Len(ru) = m + n /\ \A i \in 1 .. m + n : ru[i] = u[(m + n) - i + 1]
  <2>1. ru \in Seq(R) /\ Len(ru) = Len(u) /\ \A i \in 1 .. Len(u) : ru[i] = u[Len(u) - i + 1]
    BY <1>1, ReverseIsSeq
  <2> HIDE DEF ru, m, n
  <2> QED BY <1>1, <2>1
<1>4. v \in Seq(R) /\ Len(v) = n + m /\ \A i \in 1 .. n + m : v[i] = IF i <= n THEN rt[i] ELSE rs[i - n]
  <2>1. /\ v \in Seq(R) /\ Len(v) = Len(rt) + Len(rs)
        /\ \A i \in 1 .. Len(rt) + Len(rs) : v[i] = IF i <= Len(rt) THEN rt[i] ELSE rs[i - Len(rt)]
    <3>1. rt \in Seq(R) /\ rs \in Seq(R)
      BY <1>2
    <3> HIDE DEF m, n
    <3> QED BY <3>1, ConcatProperties
  <2> HIDE DEF v, m, n
  <2> QED BY <1>2, <2>1
<1> HIDE DEF ru, v, m, n
<1>5. ASSUME NEW i \in 1 .. m + n PROVE ru[i] = v[i]
  <2> DEFINE j == (m + n) - i + 1
  <2>1. j \in 1 .. m + n /\ i \in 1 .. n + m /\ ru[i] = u[j]
    BY <1>0, <1>3
  <2>2. CASE i <= n
    <3>1. i \in 1 .. n /\ ~ (j <= m) /\ j - m = n - i + 1
      BY <1>0, <2>2
    <3>2. u[j] = t[j - m] /\ v[i] = rt[i]
      BY <1>1, <1>4, <2>1, <2>2, <3>1
    <3> QED BY <1>2, <2>1, <3>1, <3>2
  <2>3. CASE ~ (i <= n)
    <3>1. i - n \in 1 .. m /\ j <= m /\ j = m - (i - n) + 1
      BY <1>0, <2>3
    <3>2. u[j] = s[j] /\ v[i] = rs[i - n]
      BY <1>1, <1>4, <2>1, <2>3, <3>1
    <3> QED BY <1>2, <2>1, <3>1, <3>2
  <2> QED BY <2>2, <2>3
<1>6. Len(ru) = Len(v)
  BY <1>0, <1>3, <1>4
<1>7. ru = v
  BY <1>3, <1>4, <1>5, <1>6, SeqEqual
<1> QED BY <1>7 DEF ru, v, u, rs, rt

LEMMA ReverseOne ==
  ASSUME NEW x
  PROVE  Reverse(<<x>>) = <<x>> /\ Reverse(<<>>) = <<>>
<1> DEFINE s == <<x>>
           r == Reverse(s)
<1>1. s \in Seq({x}) /\ Len(s) = 1 /\ s[1] = x
  OBVIOUS
<1> HIDE DEF s
<1>2. r \in Seq({x}) /\ Len(r) = 1 /\ \A i \in 1 .. 1 : r[i] = s[1 - i + 1]
  BY <1>1, ReverseIsSeq
<1> HIDE DEF r
<1>3. r[1] = s[1] /\ \A i \in 1 .. 1 : i = 1
  BY <1>2
<1>4. r = s
  BY <1>1, <1>2, <1>3, SeqEqual
<1>5. Reverse(<<>>) = <<>>
  <2>1. <<>> \in Seq({x}) /\ Len(<<>>) = 0
    OBVIOUS
  <2>2. Reverse(<<>>) \in Seq({x}) /\ Len(Reverse(<<>>)) = 0
    BY <2>1, ReverseIsSeq
  <2> QED BY <2>2, EmptySeq
<1> QED BY <1>4, <1>5 DEF r, s

-----------------------------------------------------------------------------
(* Sequences of sequences.                                                  *)

LEMMA FlattenSmall ==
  ASSUME NEW R, NEW s \in Seq(R)
  PROVE  FlattenSeq(<<>>) = <<>> /\ FlattenSeq(<<s>>) = s
<1>1. FlattenSeq(<<>>) = <<>>
  BY DEF FlattenSeq
<1> DEFINE d == <<s>>
<1>2. d \in Seq(Seq(R)) /\ Len(d) = 1 /\ d[1] = s
  OBVIOUS
<1> HIDE DEF d
<1>3. PICK F : Heads(d, Len(d), F) /\ FlattenSeq(d) = F[Len(d)]
  BY <1>2, EndsExist
<1>4. F[1] = <<>> \o s
  <2>1. 1 \in 1 .. Len(d) /\ 1 - 1 = 0
    BY <1>2
  <2> QED BY <1>2, <1>3, <2>1 DEF Heads
<1>5. FlattenSeq(d) = s
  BY <1>2, <1>3, <1>4, ConcatEmptySeq
<1> QED BY <1>1, <1>5 DEF d

LEMMA FlattenIsSeq ==
  ASSUME NEW R, NEW d \in Seq(Seq(R))
  PROVE  FlattenSeq(d) \in Seq(R)
<1>1. PICK F : Heads(d, Len(d), F) /\ FlattenSeq(d) = F[Len(d)]
  BY EndsExist
<1>2. Len(d) \in Nat /\ \A i \in 1 .. Len(d) : d[i] \in Seq(R)
  BY LenProperties, ElementOfSeq
<1>3. \A i \in 0 .. Len(d) : F[i] \in Seq(R)
  <2> DEFINE n == Len(d)
  <2>1. n \in Nat /\ Heads(d, n, F) /\ \A i \in 1 .. n : d[i] \in Seq(R)
    BY <1>1, <1>2
  <2> HIDE DEF n
  <2>2. \A i \in 0 .. n : F[i] \in Seq(R)
    BY <2>1, EndsAreSeqs
  <2> QED BY <2>2 DEF n
<1> QED BY <1>1, <1>2, <1>3

LEMMA FlattenBoth ==
  ASSUME NEW R, NEW d \in Seq(Seq(R)), NEW e \in Seq(Seq(R))
  PROVE  FlattenSeq(d \o e) = FlattenSeq(d) \o FlattenSeq(e)
<1> DEFINE m == Len(d)
           n == Len(e)
           u == d \o e
<1>0. /\ m \in Nat /\ n \in Nat
      /\ \A i \in 1 .. m : d[i] \in Seq(R)
      /\ \A i \in 1 .. n : e[i] \in Seq(R)
  BY LenProperties, ElementOfSeq
<1>1. /\ u \in Seq(Seq(R)) /\ Len(u) = m + n
      /\ \A i \in 1 .. m + n : u[i] = IF i <= m THEN d[i] ELSE e[i - m]
  BY ConcatProperties
<1> HIDE DEF u
<1>2. PICK F : Heads(d, m, F) /\ FlattenSeq(d) = F[m]
  BY EndsExist
<1>3. PICK G : Heads(e, n, G) /\ FlattenSeq(e) = G[n]
  BY EndsExist
<1> HIDE DEF m, n
<1>4. (\A i \in 0 .. m : F[i] \in Seq(R)) /\ \A i \in 0 .. n : G[i] \in Seq(R)
  BY <1>0, <1>2, <1>3, EndsAreSeqs
<1> DEFINE H == [i \in 0 .. m + n |-> IF i <= m THEN F[i] ELSE F[m] \o G[i - m]]
<1>5. H[0] = <<>>
  BY <1>0, <1>2 DEF Heads
<1>6. ASSUME NEW i \in 1 .. m + n PROVE H[i] = H[i - 1] \o u[i]
  <2>0. i - 1 \in 0 .. m + n /\ i \in 0 .. m + n
    BY <1>0
  <2>1. CASE i <= m
    <3>1. i \in 1 .. m /\ i - 1 <= m
      BY <1>0, <2>1
    <3>2. F[i] = F[i - 1] \o d[i]
      BY <1>2, <3>1 DEF Heads
    <3> QED BY <1>1, <2>0, <2>1, <3>1, <3>2
  <2>2. CASE ~ (i <= m)
    <3> DEFINE k == i - m
    <3>1. k \in 1 .. n /\ k - 1 \in 0 .. n /\ (i - 1) - m = k - 1 /\ m \in 0 .. m
      BY <1>0, <2>2
    <3>2. G[k] = G[k - 1] \o e[k] /\ G[k - 1] \in Seq(R) /\ e[k] \in Seq(R) /\ F[m] \in Seq(R)
      BY <1>0, <1>3, <1>4, <3>1 DEF Heads
    <3>3. u[i] = e[k] /\ H[i] = F[m] \o G[k]
      BY <1>1, <2>0, <2>2
    <3> HIDE DEF k
    <3>4. H[i - 1] = F[m] \o G[k - 1]
      <4>1. CASE i - 1 <= m
        <5>1. i - 1 = m /\ k - 1 = 0
          BY <1>0, <2>2, <4>1 DEF k
        <5>2. G[k - 1] = <<>>
          BY <1>3, <5>1 DEF Heads
        <5>3. H[i - 1] = F[m]
          BY <2>0, <5>1
        <5> QED BY <3>2, <5>2, <5>3, ConcatEmptySeq
      <4>2. CASE ~ (i - 1 <= m)
        BY <2>0, <3>1, <4>2
      <4> QED BY <4>1, <4>2
    <3> DEFINE f == F[m]
               g == G[k - 1]
               x == e[k]
    <3>5. (f \o g) \o x = f \o (g \o x)
      <4>1. f \in Seq(R) /\ g \in Seq(R) /\ x \in Seq(R)
        BY <3>2
      <4> HIDE DEF f, g, x
      <4> QED BY <4>1, ConcatAssociative, SMTT(30)
    <3> HIDE DEF H
    <3> QED BY <3>2, <3>3, <3>4, <3>5
  <2> QED BY <2>1, <2>2
<1>7. H[m + n] = FlattenSeq(d) \o FlattenSeq(e)
  <2>1. m + n \in 0 .. m + n
    BY <1>0
  <2>2. CASE n = 0
    <3>1. G[n] = <<>> /\ m + n = m
      BY <1>0, <1>3, <2>2 DEF Heads
    <3>2. F[m] \in Seq(R)
      BY <1>0, <1>4
    <3>3. H[m + n] = F[m]
      BY <1>0, <2>1, <3>1
    <3> HIDE DEF H
    <3> QED BY <1>2, <1>3, <3>1, <3>2, <3>3, ConcatEmptySeq
  <2>3. CASE n # 0
    <3>1. ~ (m + n <= m) /\ (m + n) - m = n
      BY <1>0, <2>3
    <3> QED BY <1>2, <1>3, <2>1, <3>1
  <2> QED BY <2>2, <2>3
<1> HIDE DEF H
<1>8. Heads(u, Len(u), H)
  BY <1>1, <1>5, <1>6 DEF Heads
<1> QED BY <1>1, <1>7, <1>8, FlattenIsLast DEF u

\* A sequence at the end of the others.
LEMMA FlattenAppend ==
  ASSUME NEW R, NEW d \in Seq(Seq(R)), NEW s \in Seq(R)
  PROVE  FlattenSeq(Append(d, s)) = FlattenSeq(d) \o s
<1> DEFINE e == <<s>>
<1>1. Append(d, s) = d \o e
  BY AppendIsConcat
<1>2. e \in Seq(Seq(R)) /\ FlattenSeq(e) = s
  BY FlattenSmall
<1> HIDE DEF e
<1> QED BY <1>1, <1>2, FlattenBoth

-----------------------------------------------------------------------------
(* A state that is carried along steps, each of which keeps something up.   *)

KeptUp(I, b, step) ==
  \A n \in 1 .. b : \A s \in I[n - 1] : step[n][s] \in I[n]

StaysUp(I, start, b, step, g) ==
  /\ g[0] = start
  /\ \A n \in 1 .. b : g[n] = step[n][g[n - 1]]
  /\ \A n \in 0 .. b : g[n] \in I[n]

LEMMA ChainKeeps ==
  ASSUME NEW b \in Nat, NEW I, NEW start \in I[0], NEW step, KeptUp(I, b, step)
  PROVE  \E g : StaysUp(I, start, b, step, g)
<1> DEFINE T == {m \in 0 .. b : ~ \E g : StaysUp(I, start, m, step, g)}
<1>1. ASSUME T # {} PROVE FALSE
  <2>1. PICK m \in T : \A k \in T : m <= k
    <3> T \subseteq Nat
      OBVIOUS
    <3> HIDE DEF T
    <3> QED BY <1>1, LeastNumber
  <2>2. CASE m = 0
    <3> DEFINE g == [n \in {0} |-> start]
    <3>1. g[0] = start
      OBVIOUS
    <3> HIDE DEF g
    <3>2. StaysUp(I, start, 0, step, g)
      BY <3>1 DEF StaysUp
    <3> QED BY <2>2, <3>2
  <2>3. CASE m # 0
    <3>1. m - 1 \in 0 .. b /\ m \in 1 .. b /\ m - 1 \notin T
      <4>1. m \in 0 .. b
        OBVIOUS
      <4>2. ~ (m <= m - 1) /\ m - 1 \in 0 .. b /\ m \in 1 .. b
        BY <2>3, <4>1
      <4> HIDE DEF T
      <4> QED BY <2>1, <4>2
    <3>2. PICK h : StaysUp(I, start, m - 1, step, h)
      BY <3>1
    <3> DEFINE g == [n \in 0 .. m |-> IF n = m THEN step[m][h[m - 1]] ELSE h[n]]
    <3>3. h[m - 1] \in I[m - 1] /\ step[m][h[m - 1]] \in I[m]
      <4>1. m - 1 \in 0 .. m - 1
        BY <3>1
      <4>2. h[m - 1] \in I[m - 1]
        BY <3>2, <4>1 DEF StaysUp
      <4> QED BY <3>1, <4>2 DEF KeptUp
    <3>4. \A n \in 0 .. m : n # m => n \in 0 .. m - 1
      BY <3>1
    <3>5. \A n \in 0 .. m - 1 : n \in 0 .. m /\ n # m
      BY <3>1
    <3>6. g[m] = step[m][h[m - 1]] /\ \A n \in 0 .. m - 1 : g[n] = h[n]
      BY <3>1, <3>5
    <3> HIDE DEF g
    <3>7. ASSUME NEW n \in 1 .. m PROVE g[n] = step[n][g[n - 1]]
      <4>1. n - 1 \in 0 .. m - 1
        BY <3>1
      <4>2. CASE n = m
        BY <3>6, <4>1, <4>2
      <4>3. CASE n # m
        <5>1. n \in 1 .. m - 1 /\ n \in 0 .. m - 1
          BY <3>1, <4>3
        <5>2. h[n] = step[n][h[n - 1]]
          BY <3>2, <5>1 DEF StaysUp
        <5> QED BY <3>6, <4>1, <5>1, <5>2
      <4> QED BY <4>2, <4>3
    <3>8. ASSUME NEW n \in 0 .. m PROVE g[n] \in I[n]
      <4>1. CASE n = m
        BY <3>3, <3>6, <4>1
      <4>2. CASE n # m
        <5>1. n \in 0 .. m - 1
          BY <3>4, <4>2
        <5> QED BY <3>2, <3>6, <5>1 DEF StaysUp
      <4> QED BY <4>1, <4>2
    <3>9. g[0] = start
      <4>1. 0 \in 0 .. m - 1
        BY <3>1
      <4> QED BY <3>2, <3>6, <4>1 DEF StaysUp
    <3>10. StaysUp(I, start, m, step, g)
      BY <3>7, <3>8, <3>9 DEF StaysUp
    <3> QED BY <3>10
  <2> QED BY <2>2, <2>3
<1>2. b \notin T
  BY <1>1
<1> QED BY <1>2

\* The same as a function on those numbers.
LEMMA ChainIsFunction ==
  ASSUME NEW b \in Nat, NEW I, NEW start \in I[0], NEW step, KeptUp(I, b, step)
  PROVE  \E h : h = [n \in 0 .. b |-> h[n]] /\ StaysUp(I, start, b, step, h)
<1>1. PICK g : StaysUp(I, start, b, step, g)
  BY ChainKeeps
<1> DEFINE h == [n \in 0 .. b |-> g[n]]
<1>2. \A n \in 0 .. b : h[n] = g[n]
  OBVIOUS
<1>3. h = [n \in 0 .. b |-> h[n]]
  OBVIOUS
<1> HIDE DEF h
<1>4. 0 \in 0 .. b /\ \A n \in 1 .. b : n \in 0 .. b /\ n - 1 \in 0 .. b
  OBVIOUS
<1>5. StaysUp(I, start, b, step, h)
  BY <1>1, <1>2, <1>4 DEF StaysUp
<1> QED BY <1>3, <1>5

\* What is so at first and kept up is so in the end.
KeepsUp(I, b, f) ==
  /\ f[0] \in I[0]
  /\ \A n \in 1 .. b : f[n - 1] \in I[n - 1] => f[n] \in I[n]

LEMMA KeptToTheEnd ==
  ASSUME NEW b \in Nat, NEW I, NEW f, KeepsUp(I, b, f)
  PROVE  f[b] \in I[b]
<1> DEFINE T == {n \in 0 .. b : f[n] \notin I[n]}
<1>1. ASSUME T # {} PROVE FALSE
  <2>1. PICK n \in T : \A k \in T : n <= k
    <3>1. T \subseteq Nat
      OBVIOUS
    <3> HIDE DEF T
    <3> QED BY <1>1, <3>1, LeastNumber
  <2>2. n \in 0 .. b /\ f[n] \notin I[n]
    OBVIOUS
  <2>3. n # 0
    BY <2>2 DEF KeepsUp
  <2>4. n \in 1 .. b /\ n - 1 \in 0 .. b /\ ~ (n <= n - 1)
    BY <2>2, <2>3
  <2>5. n - 1 \notin T
    <3> HIDE DEF T
    <3> QED BY <2>1, <2>4
  <2>6. f[n - 1] \in I[n - 1]
    BY <2>4, <2>5
  <2> QED BY <2>2, <2>4, <2>6 DEF KeepsUp
<1>2. b \in 0 .. b /\ b \notin T
  BY <1>1
<1> QED BY <1>2

LEMMA FlattenLastFirst ==
  ASSUME NEW R, NEW d \in Seq(Seq(R)), NEW s \in Seq(R)
  PROVE  /\ FlattenSeq(Reverse(Append(d, s))) = s \o FlattenSeq(Reverse(d))
         /\ Append(d, s) # <<>> /\ Append(d, s) \in Seq(Seq(R))
<1> DEFINE o == <<s>>
<1>1. o \in Seq(Seq(R)) /\ Reverse(o) = o /\ FlattenSeq(o) = s
  BY ReverseOne, FlattenSmall
<1>2. Append(d, s) = d \o o /\ Append(d, s) \in Seq(Seq(R)) /\ Len(Append(d, s)) = Len(d) + 1
  BY AppendIsConcat, AppendProperties
<1> HIDE DEF o
<1>3. Reverse(d \o o) = o \o Reverse(d)
  BY <1>1, ReverseBoth
<1>4. Reverse(d) \in Seq(Seq(R))
  BY ReverseIsSeq
<1>5. FlattenSeq(o \o Reverse(d)) = s \o FlattenSeq(Reverse(d))
  BY <1>1, <1>4, FlattenBoth
<1>6. Append(d, s) # <<>>
  BY <1>2, LenProperties, EmptySeq
<1> QED BY <1>2, <1>3, <1>5, <1>6

\* g[n] has the numbers below n.
IsInOrder(S, bound, g) ==
  g = [n \in 0 .. bound + 1 |->
         IF n = 0 THEN <<>>
         ELSE IF n - 1 \in S THEN Append(g[n - 1], n - 1) ELSE g[n - 1]]

LEMMA InOrderExists ==
  ASSUME NEW bound \in Nat, NEW S, S \subseteq 0 .. bound
  PROVE  \E g : IsInOrder(S, bound, g)
<1> DEFINE b == bound + 1
           X == Seq(Nat)
           steps == [n \in 1 .. b |-> [s \in X |-> IF n - 1 \in S THEN Append(s, n - 1) ELSE s]]
<1>0. b \in Nat
  OBVIOUS
<1>1. StepsOf(X, b, steps)
  <2>1. ASSUME NEW n \in 1 .. b, NEW s \in X PROVE Append(s, n - 1) \in X
    <3>1. n - 1 \in Nat
      OBVIOUS
    <3> QED BY <3>1, AppendProperties
  <2> HIDE DEF X, b
  <2> QED BY <2>1 DEF StepsOf
<1>2. <<>> \in X
  OBVIOUS
<1>3. PICK g : IsChain(X, <<>>, b, steps, g)
  <2> HIDE DEF X, b, steps
  <2> QED BY <1>0, <1>1, <1>2, ChainExists
<1>4. /\ g \in [0 .. b -> X] /\ g[0] = <<>>
      /\ \A n \in 1 .. b : g[n] = IF n - 1 \in S THEN Append(g[n - 1], n - 1) ELSE g[n - 1]
  <2>1. g \in [0 .. b -> X] /\ g[0] = <<>> /\ \A n \in 1 .. b : g[n] = steps[n][g[n - 1]]
    BY <1>3 DEF IsChain
  <2>2. ASSUME NEW n \in 1 .. b
        PROVE  g[n] = IF n - 1 \in S THEN Append(g[n - 1], n - 1) ELSE g[n - 1]
    <3>1. n - 1 \in 0 .. b
      OBVIOUS
    <3>2. g[n - 1] \in X
      BY <2>1, <3>1
    <3> QED BY <2>1, <3>2
  <2> QED BY <2>1, <2>2
<1>5. IsInOrder(S, bound, g)
  <2>1. g = [n \in 0 .. b |-> g[n]]
    BY <1>4
  <2>2. \A n \in 0 .. b : g[n] = IF n = 0 THEN <<>>
                                 ELSE IF n - 1 \in S THEN Append(g[n - 1], n - 1) ELSE g[n - 1]
    <3>1. \A n \in 0 .. b : n # 0 => n \in 1 .. b
      OBVIOUS
    <3> HIDE DEF b
    <3> QED BY <1>4, <3>1
  <2> QED BY <2>1, <2>2 DEF IsInOrder
<1> QED BY <1>5

LEMMA InOrderSorts ==
  ASSUME NEW bound \in Nat, NEW S, S \subseteq 0 .. bound, NEW f, IsInOrder(S, bound, f)
  PROVE  Sorts(f[bound + 1], S)
<1> DEFINE b == bound + 1
<1>0. b \in Nat
  OBVIOUS
<1> HIDE DEF b
<1>8. /\ f[0] = <<>>
      /\ \A n \in 1 .. b : f[n] = IF n - 1 \in S THEN Append(f[n - 1], n - 1) ELSE f[n - 1]
  <2>1. \A n \in 1 .. b : n \in 0 .. b /\ n # 0
    BY <1>0
  <2>2. f = [n \in 0 .. b |->
         IF n = 0 THEN <<>>
         ELSE IF n - 1 \in S THEN Append(f[n - 1], n - 1) ELSE f[n - 1]]
    BY DEF IsInOrder, b
  <2>3. 0 \in 0 .. b
    BY <1>0
  <2>4. f[0] = <<>>
    BY <2>2, <2>3
  <2>5. ASSUME NEW n \in 1 .. b
        PROVE  f[n] = IF n - 1 \in S THEN Append(f[n - 1], n - 1) ELSE f[n - 1]
    <3> DEFINE rest(k) == IF k - 1 \in S THEN Append(f[k - 1], k - 1) ELSE f[k - 1]
    <3>1. f = [k \in 0 .. b |-> IF k = 0 THEN <<>> ELSE rest(k)]
      BY <2>2, Zenon
    <3> HIDE DEF rest
    <3>2. f[n] = rest(n)
      BY <2>1, <3>1
    <3> QED BY <3>2 DEF rest
  <2> QED BY <2>4, <2>5
<1> DEFINE Below(n) == {k \in S : k < n}
           T == {n \in 0 .. b : ~ Sorts(f[n], Below(n))}
<1>a. \A k \in S : k \in Nat /\ k < b
  BY DEF b
<1>9. ASSUME T # {} PROVE FALSE
  <2>1. PICK n \in T : \A k \in T : n <= k
    <3>1. T \subseteq Nat
      BY <1>0
    <3> HIDE DEF T
    <3> QED BY <1>9, <3>1, LeastNumber
  <2>2. n \in 0 .. b /\ ~ Sorts(f[n], Below(n))
    OBVIOUS
  <2>3. CASE n = 0
    <3>1. Below(0) = {}
      <4>1. \A k \in S : ~ (k < 0)
        BY <1>a
      <4> QED BY <4>1
    <3> QED BY <1>8, <2>2, <2>3, <3>1, SortsNone
  <2>4. CASE n # 0
    <3>1. n - 1 \in 0 .. b /\ n - 1 \in Nat /\ n \in 1 .. b /\ ~ (n <= n - 1)
      BY <1>0, <2>2, <2>4
    <3>2. Sorts(f[n - 1], Below(n - 1))
      <4>1. n - 1 \notin T
        <5> HIDE DEF T
        <5> QED BY <2>1, <3>1
      <4> HIDE DEF Below
      <4> QED BY <3>1, <4>1
    <3>3. CASE n - 1 \in S
      <4>1. f[n] = Append(f[n - 1], n - 1)
        BY <1>8, <3>1, <3>3
      <4>2. f[n - 1] \in Seq(Nat)
        BY <3>2 DEF Sorts
      <4>3. f[n] = f[n - 1] \o <<n - 1>>
        <5> HIDE DEF Below, T
        <5> DEFINE s == f[n - 1]
                   e == n - 1
        <5>1. s \in Seq(Nat) /\ e \in Nat
          BY <3>1, <4>2
        <5> HIDE DEF s, e
        <5>2. Append(s, e) = s \o <<e>>
          BY <5>1, AppendIsConcat
        <5> QED BY <4>1, <5>2 DEF s, e
      <4>4. Below(n) = Below(n - 1) \cup {n - 1}
        <5>1. \A k \in S : k < n <=> (k < n - 1 \/ k = n - 1)
          BY <1>a, <3>1
        <5> QED BY <3>3, <5>1
      <4>5. Sorts(<<n - 1>>, {n - 1})
        BY <3>1, SortsOne
      <4>6. \A a \in Below(n - 1) : \A c \in {n - 1} : a < c
        OBVIOUS
      <4> HIDE DEF Below
      <4>7. Sorts(f[n - 1] \o <<n - 1>>, Below(n - 1) \cup {n - 1})
        BY <3>2, <4>5, <4>6, SortsMeet
      <4> QED BY <2>2, <4>3, <4>4, <4>7
    <3>4. CASE n - 1 \notin S
      <4>1. f[n] = f[n - 1]
        BY <1>8, <3>1, <3>4
      <4>2. Below(n) = Below(n - 1)
        <5>1. \A k \in S : k < n <=> k < n - 1
          BY <1>a, <3>1, <3>4
        <5> QED BY <5>1
      <4> QED BY <2>2, <3>2, <4>1, <4>2
    <3> QED BY <3>3, <3>4
  <2> QED BY <2>3, <2>4
<1>10. Sorts(f[b], Below(b))
  <2>1. b \in 0 .. b
    BY <1>0
  <2> HIDE DEF Below
  <2> QED BY <1>9, <2>1
<1>11. Below(b) = S
  BY <1>a
<1> QED BY <1>10, <1>11 DEF b

\* No number is greater than the last.
LEMMA SortsLast ==
  ASSUME NEW S, NEW s, Sorts(s, S), s # <<>>
  PROVE  Last(s) \in S /\ \A n \in S : n <= Last(s)
<1> DEFINE m == Len(s)
<1>0. m \in Nat /\ s \in Seq(Nat) /\ m # 0
  BY LenProperties, EmptySeq DEF Sorts
<1>1. m \in 1 .. m /\ Last(s) = s[m]
  BY <1>0 DEF Last
<1> HIDE DEF m
<1>2. /\ \A i, j \in 1 .. m : i < j => s[i] < s[j]
      /\ \A i \in 1 .. m : s[i] \in S /\ s[i] \in Nat
      /\ \A n \in S : \E i \in 1 .. m : s[i] = n
  BY <1>0, ElementOfSeq DEF Sorts, m
<1>3. ASSUME NEW n \in S PROVE n <= s[m]
  <2>1. PICK i \in 1 .. m : s[i] = n
    BY <1>2
  <2>2. s[i] \in Nat /\ s[m] \in Nat /\ (i < m => s[i] < s[m]) /\ i <= m
    BY <1>1, <1>2
  <2>3. CASE i = m
    BY <2>1, <2>2, <2>3
  <2>4. CASE i # m
    <3>1. i < m
      BY <1>0, <2>2, <2>4
    <3> QED BY <2>1, <2>2, <3>1
  <2> QED BY <2>3, <2>4
<1> QED BY <1>1, <1>2, <1>3

LEMMA MovedEnds ==
  ASSUME NEW s \in Seq(Nat), s # <<>>, NEW x \in Nat
  PROVE  /\ MovedBy(s, x) # <<>>
         /\ MovedBy(s, x)[1] = s[1] + x /\ Last(MovedBy(s, x)) = Last(s) + x
<1> DEFINE r == MovedBy(s, x)
<1>0. Len(s) \in Nat /\ Len(s) # 0
  BY LenProperties, EmptySeq
<1>1. r \in Seq(Nat) /\ Len(r) = Len(s) /\ \A i \in 1 .. Len(s) : r[i] = s[i] + x
  BY MovedByIs
<1> HIDE DEF r
<1>2. 1 \in 1 .. Len(s) /\ Len(s) \in 1 .. Len(s)
  BY <1>0
<1>3. r # <<>> /\ r[1] = s[1] + x /\ r[Len(s)] = s[Len(s)] + x
  BY <1>0, <1>1, <1>2, EmptySeq
<1>4. Last(r) = Last(s) + x
  BY <1>1, <1>3 DEF Last
<1> QED BY <1>3, <1>4 DEF r

\* Pieces that lie end to end.
LEMMA PiecesFlatten ==
  ASSUME NEW d \in Seq(Seq(Nat)), NEW bytes, NEW at \in [0 .. Len(d) -> Nat],
         \A n \in 1 .. Len(d) : at[n - 1] <= at[n] /\ Piece(d[n], bytes, at[n - 1], at[n])
  PROVE  Piece(FlattenSeq(d), bytes, at[0], at[Len(d)])
<1> DEFINE m == Len(d)
<1>1. PICK F : Heads(d, m, F) /\ FlattenSeq(d) = F[m]
  BY EndsExist
<1>0. m \in Nat
  BY LenProperties
<1>2. /\ at \in [0 .. m -> Nat]
      /\ \A n \in 1 .. m : at[n - 1] <= at[n] /\ Piece(d[n], bytes, at[n - 1], at[n])
  OBVIOUS
<1> HIDE DEF m
<1> DEFINE Fine(n) == at[0] <= at[n] /\ Piece(F[n], bytes, at[0], at[n])
           T == {n \in 0 .. m : ~ Fine(n)}
<1>3. ASSUME T # {} PROVE FALSE
  <2>1. PICK n \in T : \A k \in T : n <= k
    <3>1. T \subseteq Nat
      BY <1>0
    <3> HIDE DEF T
    <3> QED BY <1>3, <3>1, LeastNumber
  <2>2. n \in 0 .. m /\ ~ Fine(n)
    OBVIOUS
  <2>3. CASE n = 0
    <3>1. F[0] = <<>> /\ at[0] \in Nat /\ at[0] - at[0] = 0
      BY <1>0, <1>1, <1>2 DEF Heads
    <3>2. Piece(F[0], bytes, at[0], at[0])
      BY <3>1 DEF Piece
    <3> QED BY <2>2, <2>3, <3>1, <3>2
  <2>4. CASE n # 0
    <3>1. n - 1 \in 0 .. m /\ n \in 1 .. m /\ ~ (n <= n - 1)
      BY <1>0, <2>2, <2>4
    <3>2. Fine(n - 1)
      <4>1. n - 1 \notin T
        <5> HIDE DEF T
        <5> QED BY <2>1, <3>1
      <4> HIDE DEF Fine
      <4> QED BY <3>1, <4>1
    <3>3. F[n] = F[n - 1] \o d[n] /\ at[n - 1] <= at[n] /\ Piece(d[n], bytes, at[n - 1], at[n])
      BY <1>1, <1>2, <3>1 DEF Heads
    <3>4. at[0] \in Nat /\ at[n - 1] \in Nat /\ at[n] \in Nat
      <4>1. 0 \in 0 .. m /\ n \in 0 .. m /\ n - 1 \in 0 .. m
        BY <1>0, <3>1
      <4> QED BY <1>2, <4>1
    <3>5. Piece(F[n - 1] \o d[n], bytes, at[0], at[n])
      BY <3>2, <3>3, <3>4, PiecesMeet
    <3>6. Fine(n)
      BY <3>2, <3>3, <3>4, <3>5
    <3> QED BY <2>2, <3>6
  <2> QED BY <2>3, <2>4
<1>4. Fine(m)
  <2>1. m \in 0 .. m
    BY <1>0
  <2> HIDE DEF Fine
  <2> QED BY <1>3, <2>1
<1> QED BY <1>1, <1>4 DEF m

\* The list has the bytes between neighbouring offsets.
CutAt(list, bytes, s) ==
  /\ list \in Seq(Seq(Nat))
  /\ Len(list) = IF s = <<>> THEN 0 ELSE Len(s) - 1
  /\ \A i \in 1 .. Len(s) - 1 : Piece(list[i], bytes, s[i], s[i + 1])

LEMMA CutUnique ==
  ASSUME NEW bytes, NEW s \in Seq(Nat), NEW l, CutAt(l, bytes, s), NEW m, CutAt(m, bytes, s)
  PROVE  l = m
<1>1. /\ l \in Seq(Seq(Nat)) /\ m \in Seq(Seq(Nat)) /\ Len(l) = Len(m)
      /\ Len(l) = IF s = <<>> THEN 0 ELSE Len(s) - 1
  BY DEF CutAt
<1>2. Len(s) \in Nat /\ \A i \in 1 .. Len(l) : i \in 1 .. Len(s) - 1
  BY <1>1, LenProperties
<1>3. ASSUME NEW i \in 1 .. Len(l) PROVE l[i] = m[i]
  <2>1. Piece(l[i], bytes, s[i], s[i + 1]) /\ Piece(m[i], bytes, s[i], s[i + 1])
    BY <1>2 DEF CutAt
  <2> QED BY <2>1, SamePiece
<1> QED BY <1>1, <1>3, SeqEqual

LEMMA CutMoved ==
  ASSUME NEW w, NEW bytes, NEW x \in Nat, NEW y \in Nat, Piece(w, bytes, x, y),
         NEW S, NEW s, Sorts(s, S), S \subseteq 0 .. y - x, NEW l, CutAt(l, w, s)
  PROVE  CutAt(l, bytes, MovedBy(s, x))
<1> DEFINE t == MovedBy(s, x)
<1>1. Len(t) = Len(s) /\ \A i \in 1 .. Len(s) : t[i] = s[i] + x
  <2>1. s \in Seq(Nat) /\ x \in Nat
    BY DEF Sorts
  <2> HIDE DEF t
  <2> QED BY <2>1, MovedByIs DEF t
<1>0. Sorts(t, {n + x : n \in S})
  BY SortsMoved
<1> HIDE DEF t
<1>2. Len(s) \in Nat /\ s \in Seq(Nat) /\ t \in Seq(Nat)
  BY <1>0, LenProperties DEF Sorts
<1>3. t = <<>> <=> s = <<>>
  BY <1>1, <1>2, EmptySeq
<1>4. ASSUME NEW i \in 1 .. Len(t) - 1 PROVE Piece(l[i], bytes, t[i], t[i + 1])
  <2>1. i \in 1 .. Len(s) /\ i + 1 \in 1 .. Len(s) /\ i \in 1 .. Len(s) - 1
    BY <1>1, <1>2
  <2>2. t[i] = s[i] + x /\ t[i + 1] = s[i + 1] + x
    BY <1>1, <2>1
  <2>3. s[i] \in Nat /\ s[i + 1] \in Nat /\ s[i + 1] <= y - x
    BY <2>1 DEF Sorts
  <2>4. Piece(l[i], w, s[i], s[i + 1])
    BY <2>1 DEF CutAt
  <2> QED BY <2>2, <2>3, <2>4, PieceWithin
<1>5. CutAt(l, bytes, t)
  BY <1>1, <1>3, <1>4 DEF CutAt
<1> QED BY <1>5 DEF t

\* Offsets, and others from the last of them on.
LEMMA JoinedIs ==
  ASSUME NEW s \in Seq(Nat), s # <<>>, NEW t \in Seq(Nat), t # <<>>, Last(s) = t[1]
  PROVE  LET u == s \o Later(t)
             p == Len(s)
             q == Len(t)
         IN /\ u \in Seq(Nat) /\ u # <<>> /\ Len(u) = p + (q - 1) /\ Last(u) = Last(t)
            /\ \A i \in 1 .. p + (q - 1) : u[i] = IF i <= p THEN s[i] ELSE t[(i - p) + 1]
<1> DEFINE p == Len(s)
           q == Len(t)
           r == Later(t)
           u == s \o r
<1>0. p \in Nat \ {0} /\ q \in Nat \ {0}
  BY LenProperties, EmptySeq
<1>1. r \in Seq(Nat) /\ Len(r) = q - 1 /\ \A i \in 1 .. q - 1 : r[i] = t[i + 1]
  <2> HIDE DEF r, q
  <2>1. r \in Seq(Nat) /\ Len(r) = Len(t) - 1 /\ \A i \in 1 .. Len(t) - 1 : r[i] = t[i + 1]
    BY LaterIs DEF r
  <2> QED BY <2>1 DEF q
<1>2. s[p] = t[1] /\ Last(t) = t[q]
  BY DEF Last
<1> HIDE DEF r
<1>4. /\ u \in Seq(Nat) /\ Len(u) = p + (q - 1)
      /\ \A i \in 1 .. p + (q - 1) : u[i] = IF i <= p THEN s[i] ELSE r[i - p]
  <2>1. /\ u \in Seq(Nat) /\ Len(u) = Len(s) + Len(r)
        /\ \A i \in 1 .. Len(s) + Len(r) : u[i] = IF i <= Len(s) THEN s[i] ELSE r[i - Len(s)]
    <3>1. r \in Seq(Nat)
      BY <1>1
    <3> HIDE DEF p, q
    <3> QED BY <3>1, ConcatProperties
  <2> HIDE DEF u, q
  <2> QED BY <1>1, <2>1
<1> HIDE DEF p, q, u
<1>6. u # <<>> /\ Len(u) \in Nat \ {0}
  <2>1. Len(u) # 0 /\ Len(u) \in Nat
    BY <1>0, <1>4
  <2> QED BY <1>4, <2>1, EmptySeq
<1>8. Last(u) = Last(t)
  <2>1. Last(u) = u[p + (q - 1)] /\ p + (q - 1) \in 1 .. p + (q - 1)
    BY <1>0, <1>4 DEF Last
  <2>2. CASE q = 1
    <3>1. p + (q - 1) = p /\ p <= p
      BY <1>0, <2>2
    <3> QED BY <1>2, <1>4, <2>1, <2>2, <3>1
  <2>3. CASE q # 1
    <3>1. ~ (p + (q - 1) <= p) /\ (p + (q - 1)) - p \in 1 .. q - 1 /\ (p + (q - 1)) - p + 1 = q
      BY <1>0, <2>3
    <3> QED BY <1>1, <1>2, <1>4, <2>1, <3>1
  <2> QED BY <2>2, <2>3
<1>9. ASSUME NEW i \in 1 .. p + (q - 1)
      PROVE  u[i] = IF i <= p THEN s[i] ELSE t[(i - p) + 1]
  <2>1. ~ (i <= p) => i - p \in 1 .. q - 1
    BY <1>0
  <2> QED BY <1>1, <1>4, <2>1
<1> QED BY <1>4, <1>6, <1>8, <1>9 DEF u, r, p, q

\* What is cut up to an offset, and what is cut from there on.
LEMMA CutsMeet ==
  ASSUME NEW bytes, NEW s \in Seq(Nat), s # <<>>, NEW t \in Seq(Nat), t # <<>>,
         Last(s) = t[1], NEW l, CutAt(l, bytes, s), NEW m, CutAt(m, bytes, t)
  PROVE  CutAt(l \o m, bytes, s \o Later(t))
<1> DEFINE p == Len(s)
           q == Len(t)
           u == s \o Later(t)
           k == l \o m
<1>0. p \in Nat \ {0} /\ q \in Nat \ {0}
  BY LenProperties, EmptySeq
<1>1. /\ u \in Seq(Nat) /\ u # <<>> /\ Len(u) = p + (q - 1)
      /\ \A i \in 1 .. p + (q - 1) : u[i] = IF i <= p THEN s[i] ELSE t[(i - p) + 1]
  BY JoinedIs
<1>2. s[p] = t[1]
  BY DEF Last
<1>3. /\ l \in Seq(Seq(Nat)) /\ Len(l) = p - 1 /\ \A i \in 1 .. p - 1 : Piece(l[i], bytes, s[i], s[i + 1])
      /\ m \in Seq(Seq(Nat)) /\ Len(m) = q - 1 /\ \A i \in 1 .. q - 1 : Piece(m[i], bytes, t[i], t[i + 1])
  BY DEF CutAt
<1>4. /\ k \in Seq(Seq(Nat)) /\ Len(k) = (p - 1) + (q - 1)
      /\ \A i \in 1 .. (p - 1) + (q - 1) : k[i] = IF i <= p - 1 THEN l[i] ELSE m[i - (p - 1)]
  <2>1. /\ k \in Seq(Seq(Nat)) /\ Len(k) = Len(l) + Len(m)
        /\ \A i \in 1 .. Len(l) + Len(m) : k[i] = IF i <= Len(l) THEN l[i] ELSE m[i - Len(l)]
    <3>1. l \in Seq(Seq(Nat)) /\ m \in Seq(Seq(Nat))
      BY <1>3
    <3> HIDE DEF p, q
    <3> QED BY <3>1, ConcatProperties
  <2> HIDE DEF k, p, q
  <2> QED BY <1>3, <2>1
<1> HIDE DEF p, q, u, k
<1>5. ASSUME NEW i \in 1 .. Len(u) - 1 PROVE Piece(k[i], bytes, u[i], u[i + 1])
  <2>0. i \in 1 .. (p - 1) + (q - 1) /\ i \in 1 .. p + (q - 1) /\ i + 1 \in 1 .. p + (q - 1)
    BY <1>0, <1>1
  <2>1. CASE i <= p - 1
    <3>1. k[i] = l[i] /\ u[i] = s[i] /\ u[i + 1] = s[i + 1] /\ i \in 1 .. p - 1
      BY <1>0, <1>1, <1>4, <2>0, <2>1, SMTT(30)
    <3> QED BY <1>3, <3>1
  <2>2. CASE ~ (i <= p - 1)
    <3> DEFINE j == i - (p - 1)
    <3>1. j \in 1 .. q - 1 /\ k[i] = m[j] /\ ~ (i + 1 <= p) /\ (i + 1) - p = j
      BY <1>0, <1>4, <2>0, <2>2
    <3>2. u[i + 1] = t[j + 1]
      <4>1. u[i + 1] = t[((i + 1) - p) + 1]
        BY <1>1, <2>0, <3>1
      <4> HIDE DEF j
      <4> QED BY <3>1, <4>1
    <3>3. u[i] = t[j]
      <4>1. CASE i = p
        <5>1. j = 1 /\ i <= p
          BY <1>0, <4>1
        <5> QED BY <1>1, <1>2, <2>0, <4>1, <5>1
      <4>2. CASE i # p
        <5>1. ~ (i <= p) /\ i - p \in 1 .. q - 1 /\ (i - p) + 1 = j
          BY <1>0, <2>0, <2>2, <4>2
        <5> QED BY <1>1, <2>0, <5>1
      <4> QED BY <4>1, <4>2
    <3> QED BY <1>3, <3>1, <3>2, <3>3
  <2> QED BY <2>1, <2>2
<1>6. Len(k) = Len(u) - 1
  BY <1>0, <1>1, <1>4
<1>7. CutAt(k, bytes, u)
  BY <1>1, <1>4, <1>5, <1>6 DEF CutAt
<1> QED BY <1>7 DEF u, k

\* The records of a block, those from a to b, in two parts: up from the first
\* one, and down from the last one.
Shares(logs, up, down, a, b) ==
  /\ Len(up) + Len(down) = b - a + 1
  /\ \A k \in 1 .. Len(up) : up[k] = logs[a + k - 1].log
  /\ \A k \in 1 .. Len(down) : down[k] = logs[b - k + 1].log

\* A record is handed out: from the upper part of its block, or from the lower.
LEMMA SharesMove ==
  ASSUME NEW logs, NEW up \in Seq(Seq(Nat)), NEW down \in Seq(Seq(Nat)), NEW a \in Nat, NEW b \in Nat,
         Shares(logs, up, down, a, b)
  PROVE  /\ Len(down) >= 1 =>
              /\ Shares(logs, Append(up, Last(down)), Front(down), a, b)
              /\ Last(down) = logs[a + Len(up)].log
              /\ Len(Append(up, Last(down))) = Len(up) + 1
         /\ Len(up) >= 1 =>
              /\ Shares(logs, Front(up), Append(down, Last(up)), a, b)
              /\ Last(up) = logs[a + Len(up) - 1].log
              /\ Len(Front(up)) = Len(up) - 1
<1> DEFINE m == Len(up)
           n == Len(down)
<1>1. m \in Nat /\ n \in Nat
  BY LenProperties
<1>2. /\ m + n = b - a + 1
      /\ \A k \in 1 .. m : up[k] = logs[a + k - 1].log
      /\ \A k \in 1 .. n : down[k] = logs[b - k + 1].log
  BY DEF Shares
<1> HIDE DEF m, n
<1>3. ASSUME NEW v \in Seq(Seq(Nat)), Len(v) >= 1
      PROVE  /\ Last(v) = v[Len(v)] /\ Last(v) \in Seq(Nat)
             /\ Len(Front(v)) = Len(v) - 1
             /\ \A k \in 1 .. Len(v) - 1 : Front(v)[k] = v[k]
  <2> DEFINE l == Len(v)
             e == l - 1
  <2>1. l \in Nat /\ l >= 1 /\ \A k \in 1 .. l : v[k] \in Seq(Nat)
    BY <1>3, LenProperties, ElementOfSeq
  <2>2. Last(v) = v[l] /\ Front(v) = SubSeq(v, 1, e)
    BY DEF Last, Front
  <2> HIDE DEF l
  <2>3. e \in Nat /\ \A k \in 1 .. e : v[k] \in Seq(Nat)
    BY <2>1
  <2> HIDE DEF e
  <2>4. /\ Len(SubSeq(v, 1, e)) = (IF 1 <= e THEN e - 1 + 1 ELSE 0)
        /\ \A k \in 1 .. e - 1 + 1 : SubSeq(v, 1, e)[k] = v[1 + k - 1]
    BY <2>3, SubSeqProperties
  <2>5. Len(SubSeq(v, 1, e)) = e /\ \A k \in 1 .. e : SubSeq(v, 1, e)[k] = v[k]
    BY <2>3, <2>4
  <2> QED BY <2>1, <2>2, <2>5 DEF l, e
<1>4. ASSUME NEW v \in Seq(Seq(Nat)), NEW r \in Seq(Nat)
      PROVE  /\ Len(Append(v, r)) = Len(v) + 1
             /\ \A k \in 1 .. Len(v) : Append(v, r)[k] = v[k]
             /\ Append(v, r)[Len(v) + 1] = r
  BY AppendProperties
<1>5. ASSUME n >= 1
      PROVE  /\ Shares(logs, Append(up, Last(down)), Front(down), a, b)
             /\ Last(down) = logs[a + Len(up)].log
             /\ Len(Append(up, Last(down))) = Len(up) + 1
  <2> DEFINE r == Last(down)
             more == Append(up, r)
             less == Front(down)
  <2>1. /\ r = down[n] /\ r \in Seq(Nat) /\ Len(less) = n - 1
        /\ \A k \in 1 .. n - 1 : less[k] = down[k]
    BY <1>3, <1>5 DEF n
  <2> HIDE DEF r
  <2>2. Len(more) = m + 1 /\ (\A k \in 1 .. m : more[k] = up[k]) /\ more[m + 1] = r
    BY <1>4, <2>1 DEF m
  <2>3. r = logs[a + m].log
    <3>1. b - n + 1 = a + m /\ n \in 1 .. n
      BY <1>1, <1>2, <1>5
    <3> QED BY <1>2, <2>1, <3>1
  <2> HIDE DEF more, less
  <2>4. ASSUME NEW k \in 1 .. Len(more) PROVE more[k] = logs[a + k - 1].log
    <3>1. CASE k = m + 1
      <4>1. a + k - 1 = a + m
        BY <1>1, <3>1
      <4> QED BY <2>2, <2>3, <3>1, <4>1
    <3>2. CASE k # m + 1
      <4>1. k \in 1 .. m
        BY <1>1, <2>2, <3>2
      <4> QED BY <1>2, <2>2, <4>1
    <3> QED BY <3>1, <3>2
  <2>5. ASSUME NEW k \in 1 .. Len(less) PROVE less[k] = logs[b - k + 1].log
    <3>1. k \in 1 .. n - 1 /\ k \in 1 .. n
      BY <1>1, <2>1
    <3> QED BY <1>2, <2>1, <3>1
  <2>6. Len(more) + Len(less) = b - a + 1
    BY <1>1, <1>2, <2>1, <2>2
  <2>7. Shares(logs, more, less, a, b)
    BY <2>4, <2>5, <2>6 DEF Shares
  <2> QED BY <2>2, <2>3, <2>7 DEF more, less, r, m
<1>6. ASSUME m >= 1
      PROVE  /\ Shares(logs, Front(up), Append(down, Last(up)), a, b)
             /\ Last(up) = logs[a + Len(up) - 1].log
             /\ Len(Front(up)) = Len(up) - 1
  <2> DEFINE r == Last(up)
             more == Append(down, r)
             less == Front(up)
  <2>1. /\ r = up[m] /\ r \in Seq(Nat) /\ Len(less) = m - 1
        /\ \A k \in 1 .. m - 1 : less[k] = up[k]
    BY <1>3, <1>6 DEF m
  <2> HIDE DEF r
  <2>2. Len(more) = n + 1 /\ (\A k \in 1 .. n : more[k] = down[k]) /\ more[n + 1] = r
    BY <1>4, <2>1 DEF n
  <2>3. r = logs[a + m - 1].log
    <3>1. m \in 1 .. m
      BY <1>1, <1>6
    <3> QED BY <1>2, <2>1, <3>1
  <2> HIDE DEF more, less
  <2>4. ASSUME NEW k \in 1 .. Len(more) PROVE more[k] = logs[b - k + 1].log
    <3>1. CASE k = n + 1
      <4>1. b - k + 1 = a + m - 1
        BY <1>1, <1>2, <3>1
      <4> QED BY <2>2, <2>3, <3>1, <4>1
    <3>2. CASE k # n + 1
      <4>1. k \in 1 .. n
        BY <1>1, <2>2, <3>2
      <4> QED BY <1>2, <2>2, <4>1
    <3> QED BY <3>1, <3>2
  <2>5. ASSUME NEW k \in 1 .. Len(less) PROVE less[k] = logs[a + k - 1].log
    <3>1. k \in 1 .. m - 1 /\ k \in 1 .. m
      BY <1>1, <2>1
    <3> QED BY <1>2, <2>1, <3>1
  <2>6. Len(less) + Len(more) = b - a + 1
    BY <1>1, <1>2, <2>1, <2>2
  <2>7. Shares(logs, less, more, a, b)
    BY <2>4, <2>5, <2>6 DEF Shares
  <2> QED BY <2>1, <2>3, <2>7 DEF more, less, r, m
<1> QED BY <1>5, <1>6 DEF m, n
=============================================================================
