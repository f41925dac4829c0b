----------------------------- MODULE DataTheorems -----------------------------
(***************************************************************************)
(* Facts about the data operators of the specifications that the library   *)
(* does not state: sums over finite sets, removals from a sequence, least   *)
(* and greatest elements.                                                   *)
(*                                                                         *)
(* An induction is a least counterexample: a non-empty set of naturals has  *)
(* a least element.                                                         *)
(***************************************************************************)
EXTENDS Integers, Sequences, FiniteSets, FiniteSetsExt, FiniteSetTheorems,
        SequenceTheorems, WellFoundedInduction, TLAPS

\* Every non-empty set of naturals has a least element.
LEMMA LeastNatural ==
    ASSUME NEW T, T \subseteq Nat, T # {}
    PROVE  \E m \in T : \A n \in T : m <= n
  <1>1. PICK x \in T : \A y \in T : ~(<<y, x>> \in OpToRel(<, Nat))
    BY WFMin, NatLessThanWellFounded, Zenon
  <1>2. \A y \in T : ~(y < x)
    BY <1>1 DEF OpToRel
  <1> QED BY <1>2

\* A bounded set of naturals has a largest member.
LEMMA LargestNumber ==
    ASSUME NEW n \in Nat, NEW T \in SUBSET (0 .. n), T # {}
    PROVE  Max(T) \in T /\ \A y \in T : y <= Max(T)
  <1> DEFINE D == {m \in Nat : n - m \in T}
  <1>1. D \subseteq Nat /\ D # {}
    <2>1. PICK y \in T : TRUE
      OBVIOUS
    <2>2. n - y \in Nat /\ n - (n - y) = y
      BY <2>1
    <2> QED BY <2>1, <2>2
  <1>2. PICK m \in D : \A q \in D : m <= q
    BY <1>1, LeastNatural
  <1>3. n - m \in T /\ m \in Nat
    BY <1>2
  <1>4. ASSUME NEW y \in T PROVE y <= n - m
    <2>1. n - y \in Nat /\ n - (n - y) = y /\ y \in Nat
      OBVIOUS
    <2>2. n - y \in D
      BY <2>1
    <2>3. m <= n - y
      BY <1>2, <2>2
    <2> QED BY <1>3, <2>1, <2>3
  <1>5. \E x \in T : \A y \in T : x >= y
    <2>1. \A y \in T : n - m >= y
      BY <1>3, <1>4
    <2> QED BY <1>3, <2>1
  <1>6. Max(T) \in T /\ \A y \in T : Max(T) >= y
    BY <1>5 DEF Max
  <1> QED BY <1>6

-----------------------------------------------------------------------------
(***************************************************************************)
(* What MapThenSumSet computes.  It folds over the set in an order CHOOSE   *)
(* picks, through a recursive function.  The lemmas say that the function   *)
(* exists, that the order does not matter, and how a sum changes with its   *)
(* set.                                                                     *)
(***************************************************************************)
SumOver(f, S) == MapThenSumSet(LAMBDA x : f[x], S)

\* The recursion of the fold, and what a function that solves it on D satisfies.
Pick(s) == CHOOSE x \in s : TRUE
FoldStep(f, g, s) == IF s = {} THEN 0 ELSE f[Pick(s)] + g[s \ {Pick(s)}]
Solves(f, g, D) == g = [s \in D |-> FoldStep(f, g, s)]
Fold(f, S) == CHOOSE g : Solves(f, g, SUBSET S)

LEMMA SumUnfold ==
    ASSUME NEW f, NEW S
    PROVE  SumOver(f, S) = Fold(f, S)[S]
  BY DEF SumOver, MapThenSumSet, MapThenFoldSet, Fold, Solves, FoldStep, Pick

LEMMA PickIn ==
    ASSUME NEW s, s # {}
    PROVE  Pick(s) \in s
  BY DEF Pick

\* The finite sets smaller than a given one are counted by their cardinality.
LEMMA RestSmaller ==
    ASSUME NEW s, IsFiniteSet(s), NEW x \in s
    PROVE  /\ IsFiniteSet(s \ {x})
           /\ Cardinality(s \ {x}) \in Nat
           /\ Cardinality(s) = Cardinality(s \ {x}) + 1
  <1>1. IsFiniteSet(s \ {x}) /\ Cardinality(s \ {x}) = Cardinality(s) - 1
    BY FS_RemoveElement
  <1>2. Cardinality(s \ {x}) \in Nat /\ Cardinality(s) \in Nat
    BY <1>1, FS_CardinalityType
  <1> QED BY <1>1, <1>2

LEMMA SolvesAt ==
    ASSUME NEW f, NEW g, NEW D, Solves(f, g, D), NEW s \in D
    PROVE  g[s] = FoldStep(f, g, s)
  BY DEF Solves

Upto(S, n) == {s \in SUBSET S : Cardinality(s) <= n}

\* The recursion has a solution on the subsets of a finite set.
LEMMA FoldExists ==
    ASSUME NEW S, IsFiniteSet(S), NEW f
    PROVE  Solves(f, Fold(f, S), SUBSET S)
  <1>0. \A s \in SUBSET S : IsFiniteSet(s) /\ Cardinality(s) \in Nat
    BY FS_Subset, FS_CardinalityType
  <1> DEFINE Bad == {n \in Nat : ~\E g : Solves(f, g, Upto(S, n))}
  <1>1. Bad = {}
    <2> SUFFICES ASSUME Bad # {} PROVE FALSE
      OBVIOUS
    <2>1. PICK m \in Bad : \A n \in Bad : m <= n
      BY LeastNatural
    <2>2. CASE m = 0
      <3>1. Upto(S, 0) = {{}}
        BY <1>0, FS_EmptySet DEF Upto
      <3> DEFINE g == [s \in {{}} |-> 0]
      <3>2. g = [s \in Upto(S, 0) |-> FoldStep(f, g, s)]
        BY <3>1 DEF FoldStep
      <3> QED BY <2>1, <2>2, <3>2 DEF Solves
    <2>3. CASE m # 0
      <3>1. m - 1 \in Nat /\ m - 1 \notin Bad
        BY <2>1, <2>3
      <3>2. PICK g : Solves(f, g, Upto(S, m - 1))
        BY <3>1
      <3> DEFINE h == [s \in Upto(S, m) |-> FoldStep(f, g, s)]
      <3>3. ASSUME NEW s \in Upto(S, m), s # {}
            PROVE  s \ {Pick(s)} \in Upto(S, m - 1) /\ s \ {Pick(s)} \in Upto(S, m)
        BY <1>0, <2>1, <2>3, <3>3, PickIn, RestSmaller DEF Upto
      <3>4. ASSUME NEW t \in Upto(S, m - 1)
            PROVE  t \in Upto(S, m) /\ h[t] = g[t]
        <4>1. t \in Upto(S, m)
          BY <1>0, <2>1 DEF Upto
        <4>2. g[t] = FoldStep(f, g, t)
          BY <3>2 DEF Solves
        <4> QED BY <4>1, <4>2
      <3>5. ASSUME NEW s \in Upto(S, m)
            PROVE  FoldStep(f, g, s) = FoldStep(f, h, s)
        BY <3>3, <3>4 DEF FoldStep
      <3>6. Solves(f, h, Upto(S, m))
        BY <3>5 DEF Solves
      <3> QED BY <2>1, <3>6
    <2> QED BY <2>2, <2>3
  <1>2. Upto(S, Cardinality(S)) = SUBSET S
    BY <1>0, FS_Subset DEF Upto
  <1>3. \E g : Solves(f, g, SUBSET S)
    <2>1. Cardinality(S) \in Nat /\ Cardinality(S) \notin Bad
      BY <1>0, <1>1
    <2>2. \E g : Solves(f, g, Upto(S, Cardinality(S)))
      BY <2>1
    <2> QED BY <1>2, <2>2
  <1> QED BY <1>3 DEF Fold

\* A sum over a part of S can be read from the fold over S.
LEMMA FoldAgrees ==
    ASSUME NEW S, IsFiniteSet(S), NEW f, NEW U \in SUBSET S
    PROVE  Fold(f, S)[U] = Fold(f, U)[U]
  <1> DEFINE G == Fold(f, S)
             H == Fold(f, U)
             Bad == {n \in Nat : \E s \in SUBSET U : Cardinality(s) = n /\ G[s] # H[s]}
  <1>0. \A s \in SUBSET U : s \in SUBSET S /\ IsFiniteSet(s) /\ Cardinality(s) \in Nat
    BY FS_Subset, FS_CardinalityType
  <1>1. IsFiniteSet(U)
    BY <1>0
  <1>2. /\ \A s \in SUBSET S : G[s] = FoldStep(f, G, s)
        /\ \A s \in SUBSET U : H[s] = FoldStep(f, H, s)
    <2>1. Solves(f, G, SUBSET S) /\ Solves(f, H, SUBSET U)
      BY <1>1, FoldExists
    <2> HIDE DEF G, H
    <2> QED BY <2>1, SolvesAt
  <1>3. Bad = {}
    <2> SUFFICES ASSUME Bad # {} PROVE FALSE
      OBVIOUS
    <2>1. PICK m \in Bad : \A n \in Bad : m <= n
      BY LeastNatural
    <2>2. PICK s \in SUBSET U : Cardinality(s) = m /\ G[s] # H[s]
      BY <2>1
    <2>3. s # {}
      BY <1>0, <1>2, <2>2 DEF FoldStep
    <2>4. /\ s \ {Pick(s)} \in SUBSET U
          /\ Cardinality(s \ {Pick(s)}) \in Nat
          /\ Cardinality(s \ {Pick(s)}) < m
      BY <1>0, <2>2, <2>3, PickIn, RestSmaller
    <2>5. G[s \ {Pick(s)}] = H[s \ {Pick(s)}]
      BY <2>1, <2>4
    <2> QED BY <1>0, <1>2, <2>2, <2>5 DEF FoldStep
  <1> QED BY <1>0, <1>3

\* The recursion of the sum itself.
LEMMA SumStep ==
    ASSUME NEW S, IsFiniteSet(S), NEW f
    PROVE  /\ SumOver(f, {}) = 0
           /\ S # {} => SumOver(f, S) = f[Pick(S)] + SumOver(f, S \ {Pick(S)})
  <1>1. SumOver(f, {}) = 0
    BY FoldExists, SumUnfold, FS_EmptySet DEF Solves, FoldStep
  <1>2. ASSUME S # {} PROVE SumOver(f, S) = f[Pick(S)] + SumOver(f, S \ {Pick(S)})
    <2>1. SumOver(f, S) = FoldStep(f, Fold(f, S), S)
      <3>1. Solves(f, Fold(f, S), SUBSET S)
        BY FoldExists
      <3>2. Fold(f, S)[S] = FoldStep(f, Fold(f, S), S)
        BY <3>1, SolvesAt
      <3> QED BY <3>2, SumUnfold
    <2>2. Fold(f, S)[S \ {Pick(S)}] = SumOver(f, S \ {Pick(S)})
      BY FoldAgrees, SumUnfold
    <2> QED BY <1>2, <2>1, <2>2 DEF FoldStep
  <1> QED BY <1>1, <1>2

\* A sum of naturals is a natural.
LEMMA SumNat ==
    ASSUME NEW S, IsFiniteSet(S), NEW f, \A x \in S : f[x] \in Nat
    PROVE  SumOver(f, S) \in Nat
  <1> DEFINE Bad == {n \in Nat : \E s \in SUBSET S :
                        Cardinality(s) = n /\ SumOver(f, s) \notin Nat}
  <1>0. \A s \in SUBSET S : IsFiniteSet(s) /\ Cardinality(s) \in Nat
    BY FS_Subset, FS_CardinalityType
  <1>1. Bad = {}
    <2> SUFFICES ASSUME Bad # {} PROVE FALSE
      OBVIOUS
    <2>1. PICK m \in Bad : \A n \in Bad : m <= n
      BY LeastNatural
    <2>2. PICK s \in SUBSET S : Cardinality(s) = m /\ SumOver(f, s) \notin Nat
      BY <2>1
    <2>3. s # {}
      BY <1>0, <2>2, SumStep
    <2>4. Pick(s) \in s
      BY <2>3, PickIn
    <2>5. /\ s \ {Pick(s)} \in SUBSET S
          /\ Cardinality(s \ {Pick(s)}) \in Nat
          /\ Cardinality(s \ {Pick(s)}) < m
      BY <1>0, <2>2, <2>4, RestSmaller
    <2>6. SumOver(f, s \ {Pick(s)}) \in Nat
      BY <2>1, <2>5
    <2>7. SumOver(f, s) = f[Pick(s)] + SumOver(f, s \ {Pick(s)})
      BY <1>0, <2>3, SumStep
    <2> QED BY <2>2, <2>4, <2>6, <2>7
  <1> QED BY <1>0, <1>1

\* Any element can be taken out of a sum first.
LEMMA SumRemove ==
    ASSUME NEW S, IsFiniteSet(S), NEW f, \A x \in S : f[x] \in Nat, NEW e \in S
    PROVE  SumOver(f, S) = f[e] + SumOver(f, S \ {e})
  <1> DEFINE Bad == {n \in Nat : \E s \in SUBSET S : \E x \in s :
                        Cardinality(s) = n /\ SumOver(f, s) # f[x] + SumOver(f, s \ {x})}
  <1>0. \A s \in SUBSET S : IsFiniteSet(s) /\ Cardinality(s) \in Nat
    BY FS_Subset, FS_CardinalityType
  <1>1. Bad = {}
    <2> SUFFICES ASSUME Bad # {} PROVE FALSE
      OBVIOUS
    <2>1. PICK m \in Bad : \A n \in Bad : m <= n
      BY LeastNatural
    <2>a. PICK s \in SUBSET S : \E x \in s :
             Cardinality(s) = m /\ SumOver(f, s) # f[x] + SumOver(f, s \ {x})
      BY <2>1
    <2>2. PICK x \in s :
             Cardinality(s) = m /\ SumOver(f, s) # f[x] + SumOver(f, s \ {x})
      BY <2>a
    <2>b. \A n \in Nat : n < m => n \notin Bad
      BY <2>1
    <2> DEFINE y == Pick(s)
               both == (s \ {x}) \ {y}
    <2> HIDE DEF y
    <2>3. y \in s
      BY PickIn DEF y
    <2>4. SumOver(f, s) = f[y] + SumOver(f, s \ {y})
      BY <1>0, <2>3, SumStep DEF y
    <2>5. x # y
      BY <2>2, <2>4
    <2>6. /\ s \ {y} \in SUBSET S /\ s \ {x} \in SUBSET S
          /\ Cardinality(s \ {y}) \in Nat /\ Cardinality(s \ {y}) < m
          /\ Cardinality(s \ {x}) \in Nat /\ Cardinality(s \ {x}) < m
      BY <1>0, <2>2, <2>3, RestSmaller
    <2>7. SumOver(f, s \ {y}) = f[x] + SumOver(f, (s \ {y}) \ {x})
      <3>1. x \in s \ {y}
        BY <2>5
      <3>2. Cardinality(s \ {y}) \notin Bad
        BY ONLY <2>6, <2>b
      <3> QED BY <2>6, <3>1, <3>2
    <2>8. SumOver(f, s \ {x}) = f[y] + SumOver(f, both)
      <3>1. y \in s \ {x}
        BY <2>3, <2>5
      <3>2. Cardinality(s \ {x}) \notin Bad
        BY ONLY <2>6, <2>b
      <3> QED BY <2>6, <3>1, <3>2
    <2>9. (s \ {y}) \ {x} = both
      OBVIOUS
    <2>10. f[x] \in Nat /\ f[y] \in Nat
      BY <2>3
    <2>11. SumOver(f, both) \in Nat
      <3>1. both \in SUBSET S
        OBVIOUS
      <3>2. IsFiniteSet(both)
        BY <1>0, <3>1
      <3>3. \A z \in both : f[z] \in Nat
        BY <3>1
      <3> QED BY <3>2, <3>3, SumNat
    <2>12. SumOver(f, s) # f[x] + SumOver(f, s \ {x})
      BY <2>2
    <2>13. SumOver(f, s \ {y}) = f[x] + SumOver(f, both)
      BY <2>7, <2>9
    <2> HIDE DEF both
    <2> QED BY ONLY <2>4, <2>8, <2>10, <2>11, <2>12, <2>13
  <1> QED BY <1>0, <1>1

\* A part of a set sums to no more than the set.
LEMMA SumSubset ==
    ASSUME NEW S, IsFiniteSet(S), NEW f, \A x \in S : f[x] \in Nat, NEW T \in SUBSET S
    PROVE  SumOver(f, T) <= SumOver(f, S)
  <1> DEFINE Bad == {n \in Nat : \E s \in SUBSET S :
                        /\ T \subseteq s /\ Cardinality(s) = n
                        /\ ~(SumOver(f, T) <= SumOver(f, s))}
  <1>0. \A s \in SUBSET S : /\ IsFiniteSet(s) /\ Cardinality(s) \in Nat
                            /\ SumOver(f, s) \in Nat
    BY FS_Subset, FS_CardinalityType, SumNat
  <1>1. Bad = {}
    <2> SUFFICES ASSUME Bad # {} PROVE FALSE
      OBVIOUS
    <2>1. PICK m \in Bad : \A n \in Bad : m <= n
      BY LeastNatural
    <2>2. PICK s \in SUBSET S : /\ T \subseteq s /\ Cardinality(s) = m
                                /\ ~(SumOver(f, T) <= SumOver(f, s))
      BY <2>1
    <2>3. T # s
      BY <1>0, <2>2
    <2>4. PICK x \in s : x \notin T
      BY <2>2, <2>3
    <2>5. /\ s \ {x} \in SUBSET S /\ T \subseteq s \ {x}
          /\ Cardinality(s \ {x}) \in Nat /\ Cardinality(s \ {x}) < m
      BY <1>0, <2>2, <2>4, RestSmaller
    <2>6. SumOver(f, T) <= SumOver(f, s \ {x})
      BY <2>1, <2>5
    <2>7. SumOver(f, s) = f[x] + SumOver(f, s \ {x})
      BY <1>0, <2>4, SumRemove
    <2>8. f[x] \in Nat
      BY <2>4
    <2> QED BY <1>0, <2>2, <2>5, <2>6, <2>7, <2>8
  <1> QED BY <1>0, <1>1

\* A sum splits into the sum of a part and the sum of the rest.
LEMMA SumSplit ==
    ASSUME NEW S, IsFiniteSet(S), NEW f, \A x \in S : f[x] \in Nat, NEW T \in SUBSET S
    PROVE  SumOver(f, S) = SumOver(f, T) + SumOver(f, S \ T)
  <1> DEFINE Bad == {n \in Nat : \E s \in SUBSET S :
                        /\ T \subseteq s /\ Cardinality(s) = n
                        /\ SumOver(f, s) # SumOver(f, T) + SumOver(f, s \ T)}
  <1>0. \A s \in SUBSET S : /\ IsFiniteSet(s) /\ Cardinality(s) \in Nat
                            /\ SumOver(f, s) \in Nat
    BY FS_Subset, FS_CardinalityType, SumNat
  <1>1. Bad = {}
    <2> SUFFICES ASSUME Bad # {} PROVE FALSE
      OBVIOUS
    <2>1. PICK m \in Bad : \A n \in Bad : m <= n
      BY LeastNatural
    <2>2. PICK s \in SUBSET S : /\ T \subseteq s /\ Cardinality(s) = m
                                /\ SumOver(f, s) # SumOver(f, T) + SumOver(f, s \ T)
      BY <2>1
    <2> DEFINE rest == s \ T
    <2>3. T # s
      <3>1. SumOver(f, {}) = 0
        BY SumStep, FS_EmptySet
      <3>2. T = s => rest = {}
        OBVIOUS
      <3> HIDE DEF rest
      <3>3. rest = {} => SumOver(f, rest) = 0
        BY <3>1
      <3>4. SumOver(f, T) \in Nat /\ (T = s => SumOver(f, s) = SumOver(f, T))
        BY <1>0
      <3> QED BY <2>2, <3>2, <3>3, <3>4 DEF rest
    <2>4. PICK x \in s : x \notin T
      BY <2>2, <2>3
    <2> DEFINE less == s \ {x}
               both == rest \ {x}
    <2>5. /\ less \in SUBSET S /\ T \subseteq less
          /\ Cardinality(less) \in Nat /\ Cardinality(less) < m
      BY <1>0, <2>2, <2>4, RestSmaller
    <2>6. SumOver(f, less) = SumOver(f, T) + SumOver(f, less \ T)
      <3>1. Cardinality(less) \notin Bad
        <4> HIDE DEF less, Bad
        <4>1. m \in Nat
          BY <2>2, <1>0
        <4> QED BY <2>1, <2>5, <4>1
      <3> HIDE DEF less
      <3> QED BY <2>5, <3>1
    <2>7. SumOver(f, s) = f[x] + SumOver(f, less)
      BY <1>0, <2>4, SumRemove
    <2>8. less \ T = both /\ rest \in SUBSET S /\ x \in rest /\ both \in SUBSET S
      BY <2>4
    <2>9. SumOver(f, rest) = f[x] + SumOver(f, both)
      <3> HIDE DEF rest
      <3>1. IsFiniteSet(rest) /\ \A z \in rest : f[z] \in Nat
        BY <1>0, <2>8
      <3> QED BY <2>8, <3>1, SumRemove
    <2>10. f[x] \in Nat /\ SumOver(f, T) \in Nat /\ SumOver(f, both) \in Nat
      BY <1>0, <2>4, <2>8
    <2>11. SumOver(f, s) # SumOver(f, T) + SumOver(f, rest)
      BY <2>2
    <2>12. SumOver(f, less) = SumOver(f, T) + SumOver(f, both)
      BY <2>6, <2>8
    <2> HIDE DEF rest, less, both
    <2> QED BY ONLY <2>7, <2>9, <2>10, <2>11, <2>12
  <1> QED BY <1>0, <1>1

\* Smaller terms sum to no more.
LEMMA SumMonotone ==
    ASSUME NEW S, IsFiniteSet(S), NEW f, NEW g,
           \A x \in S : f[x] \in Nat /\ g[x] \in Nat /\ f[x] <= g[x]
    PROVE  SumOver(f, S) <= SumOver(g, S)
  <1> DEFINE Bad == {n \in Nat : \E s \in SUBSET S :
                        Cardinality(s) = n /\ ~(SumOver(f, s) <= SumOver(g, s))}
  <1>0. \A s \in SUBSET S : /\ IsFiniteSet(s) /\ Cardinality(s) \in Nat
                            /\ SumOver(f, s) \in Nat /\ SumOver(g, s) \in Nat
    BY FS_Subset, FS_CardinalityType, SumNat
  <1>1. Bad = {}
    <2> SUFFICES ASSUME Bad # {} PROVE FALSE
      OBVIOUS
    <2>1. PICK m \in Bad : \A n \in Bad : m <= n
      BY LeastNatural
    <2>2. PICK s \in SUBSET S : Cardinality(s) = m /\ ~(SumOver(f, s) <= SumOver(g, s))
      BY <2>1
    <2>3. s # {}
      <3>1. SumOver(f, {}) = 0 /\ SumOver(g, {}) = 0
        BY SumStep
      <3> QED BY <2>2, <3>1
    <2>4. PICK x \in s : TRUE
      BY <2>3
    <2>5. /\ s \ {x} \in SUBSET S
          /\ Cardinality(s \ {x}) \in Nat /\ Cardinality(s \ {x}) < m
      BY <1>0, <2>2, RestSmaller
    <2>6. SumOver(f, s \ {x}) <= SumOver(g, s \ {x})
      BY <2>1, <2>5
    <2>7. /\ SumOver(f, s) = f[x] + SumOver(f, s \ {x})
          /\ SumOver(g, s) = g[x] + SumOver(g, s \ {x})
      BY <1>0, SumRemove
    <2>8. f[x] \in Nat /\ g[x] \in Nat /\ f[x] <= g[x]
      OBVIOUS
    <2> QED BY <1>0, <2>2, <2>5, <2>6, <2>7, <2>8
  <1> QED BY <1>0, <1>1
-----------------------------------------------------------------------------
(***************************************************************************)
(* What is left of a sequence when the elements of a set are taken out.     *)
(***************************************************************************)
Outside(seq, S) == {i \in DOMAIN seq : seq[i] \notin S}
Rank(K, i) == Cardinality({j \in K : j <= i})
Nth(K, k) == CHOOSE i \in K : Rank(K, i) = k
Remaining(seq, S) ==
    [k \in 1 .. Cardinality(Outside(seq, S)) |-> seq[Nth(Outside(seq, S), k)]]

\* The entries of K, counted from below, have the ranks 1 to its size.
LEMMA RankBijective ==
    ASSUME NEW n \in Nat, NEW K \in SUBSET (1 .. n)
    PROVE  /\ IsFiniteSet(K)
           /\ \A i \in K : Rank(K, i) \in 1 .. Cardinality(K)
           /\ \A i, j \in K : i < j => Rank(K, i) < Rank(K, j)
           /\ \A k \in 1 .. Cardinality(K) : \E i \in K : Rank(K, i) = k
  <1>0. IsFiniteSet(1 .. n) /\ \A i \in K : i \in Nat
    BY FS_Interval
  <1>1. IsFiniteSet(K) /\ Cardinality(K) \in Nat
    BY <1>0, FS_Subset, FS_CardinalityType
  <1>2. ASSUME NEW i \in K
        PROVE  /\ IsFiniteSet({j \in K : j <= i})
               /\ Rank(K, i) \in Nat
               /\ Rank(K, i) <= Cardinality(K)
    <2>1. {j \in K : j <= i} \in SUBSET K
      OBVIOUS
    <2> QED BY <1>1, <2>1, FS_Subset, FS_CardinalityType DEF Rank
  <1>3. ASSUME NEW i \in K PROVE Rank(K, i) # 0
    <2>1. i \in {j \in K : j <= i}
      OBVIOUS
    <2> QED BY <1>2, <2>1, FS_EmptySet DEF Rank
  <1>4. ASSUME NEW i \in K, NEW j \in K, i < j
        PROVE  Rank(K, i) < Rank(K, j)
    <2> DEFINE A == {x \in K : x <= i}
               B == {x \in K : x <= j}
    <2>0. i \in Int /\ j \in Int /\ \A x \in K : x \in Int
      BY <1>0
    <2>a. ASSUME NEW x \in A PROVE x \in B
      <3>1. x \in K /\ x \in Int /\ x <= i
        BY <2>0
      <3> QED BY <2>0, <1>4, <3>1
    <2>b. j \notin A
      BY <2>0, <1>4
    <2>c. j \in B
      BY <2>0
    <2> HIDE DEF A, B
    <2>1. A \subseteq B /\ j \in B /\ j \notin A
      BY <2>a, <2>b, <2>c
    <2>2. IsFiniteSet(B) /\ Cardinality(A) \in Nat /\ Cardinality(B) \in Nat
      BY <1>2 DEF Rank, A, B
    <2>3. A # B
      BY <2>1
    <2>4. Cardinality(A) <= Cardinality(B) /\ Cardinality(A) # Cardinality(B)
      BY <2>1, <2>2, <2>3, FS_Subset
    <2> QED BY <2>2, <2>4 DEF Rank, A, B
  <1>6. \A i \in K : Rank(K, i) \in 1 .. Cardinality(K)
    <2> TAKE i \in K
    <2>1. Rank(K, i) \in Nat /\ Rank(K, i) <= Cardinality(K) /\ Rank(K, i) # 0
      BY <1>2, <1>3
    <2> QED BY <1>1, <2>1
  <1>5. \A k \in 1 .. Cardinality(K) : \E i \in K : Rank(K, i) = k
    <2> DEFINE T == 1 .. Cardinality(K)
               f == [i \in K |-> Rank(K, i)]
    <2>0. \A i \in K : Rank(K, i) \in T
      BY <1>6
    <2>1. f \in [K -> T]
      BY <2>0
    <2>2. \A i, j \in K : f[i] = f[j] => i = j
      <3> SUFFICES ASSUME NEW i \in K, NEW j \in K, Rank(K, i) = Rank(K, j), i # j
                   PROVE  FALSE
        OBVIOUS
      <3>1. i < j \/ j < i
        BY <1>0
      <3>2. Rank(K, i) \in Nat /\ Rank(K, j) \in Nat
        BY <1>2
      <3> QED BY <1>4, <3>1, <3>2
    <2>3. f \in Injection(K, T)
      BY <2>1, <2>2 DEF Injection, IsInjective
    <2>4. IsFiniteSet(T) /\ Cardinality(T) = Cardinality(K)
      BY <1>1, FS_Interval
    <2>5. f \in Surjection(K, T)
      BY <2>3, <2>4, FS_Injection
    <2> QED BY <2>5 DEF Surjection
  <1>7. \A i, j \in K : i < j => Rank(K, i) < Rank(K, j)
    BY <1>4
  <1> QED BY <1>1, <1>5, <1>6, <1>7

\* The elements outside S remain, each as often as before if it occurred once, and a
\* first element that is not in S stays first.
LEMMA RemainingFacts ==
    ASSUME NEW R, NEW seq \in Seq(R), NEW S
    PROVE  /\ Remaining(seq, S) \in Seq(R)
           /\ {Remaining(seq, S)[k] : k \in DOMAIN Remaining(seq, S)}
                = {seq[i] : i \in DOMAIN seq} \ S
           /\ (\A i, j \in DOMAIN seq : seq[i] = seq[j] => i = j)
                => \A i, j \in DOMAIN Remaining(seq, S) :
                      Remaining(seq, S)[i] = Remaining(seq, S)[j] => i = j
           /\ seq # <<>> /\ Head(seq) \notin S
                => /\ Remaining(seq, S) # <<>>
                   /\ Head(Remaining(seq, S)) = Head(seq)
  <1> DEFINE K == Outside(seq, S)
             c == Cardinality(K)
             W == Remaining(seq, S)
  <1>1. K \in SUBSET (1 .. Len(seq)) /\ Len(seq) \in Nat
    BY DEF Outside
  <1>2. /\ IsFiniteSet(K)
        /\ \A i \in K : Rank(K, i) \in 1 .. c
        /\ \A i, j \in K : i < j => Rank(K, i) < Rank(K, j)
        /\ \A k \in 1 .. c : \E i \in K : Rank(K, i) = k
    BY <1>1, RankBijective
  <1>3. c \in Nat
    BY <1>2, FS_CardinalityType
  <1>4. \A i \in K : i \in 1 .. Len(seq) /\ seq[i] \in R \ S
    BY <1>1 DEF Outside
  <1> HIDE DEF c
  <1>5. \A k \in 1 .. c : Nth(K, k) \in K /\ Rank(K, Nth(K, k)) = k
    BY <1>2 DEF Nth
  <1>6. \A i \in K : Nth(K, Rank(K, i)) = i
    <2> TAKE i \in K
    <2> DEFINE j == Nth(K, Rank(K, i))
    <2>1. j \in K /\ Rank(K, j) = Rank(K, i)
      BY <1>2, <1>5
    <2>2. i \in Int /\ j \in Int /\ Rank(K, i) \in Int
      BY <1>2, <1>3, <1>4, <2>1
    <2> HIDE DEF j
    <2>3. ~(i < j) /\ ~(j < i)
      BY <1>2, <2>1, <2>2
    <2>4. i = j
      BY <2>2, <2>3
    <2> QED BY <2>4 DEF j
  <1>7. /\ W \in [1 .. c -> R]
        /\ \A k \in 1 .. c : W[k] = seq[Nth(K, k)]
    BY <1>4, <1>5 DEF Remaining, c
  <1>8. W \in Seq(R) /\ DOMAIN W = 1 .. c /\ Len(W) = c
    BY <1>3, <1>7
  <1> HIDE DEF W
  <1>9. {W[k] : k \in DOMAIN W} = {seq[i] : i \in DOMAIN seq} \ S
    <2>1. ASSUME NEW k \in 1 .. c PROVE W[k] \in {seq[i] : i \in DOMAIN seq} \ S
      BY <1>4, <1>5, <1>7
    <2>2. ASSUME NEW i \in DOMAIN seq, seq[i] \notin S
          PROVE  \E k \in 1 .. c : W[k] = seq[i]
      <3>1. i \in K
        BY <2>2 DEF Outside
      <3> QED BY <1>2, <1>6, <1>7, <3>1
    <2>3. ASSUME NEW x \in {W[k] : k \in DOMAIN W}
          PROVE  x \in {seq[i] : i \in DOMAIN seq} \ S
      <3>1. PICK k \in 1 .. c : x = W[k]
        BY <1>8
      <3> QED BY <2>1, <3>1
    <2>4. ASSUME NEW x \in {seq[i] : i \in DOMAIN seq} \ S
          PROVE  x \in {W[k] : k \in DOMAIN W}
      <3>1. PICK i \in DOMAIN seq : x = seq[i]
        OBVIOUS
      <3>2. PICK k \in 1 .. c : W[k] = seq[i]
        BY <2>2, <3>1
      <3> QED BY <1>8, <3>1, <3>2
    <2> QED BY <2>3, <2>4
  <1>10. ASSUME \A i, j \in DOMAIN seq : seq[i] = seq[j] => i = j,
                NEW k \in 1 .. c, NEW m \in 1 .. c, W[k] = W[m]
         PROVE  k = m
    <2>1. Nth(K, k) = Nth(K, m)
      BY <1>4, <1>5, <1>7, <1>10
    <2> QED BY <1>5, <2>1
  <1>11. ASSUME seq # <<>>, Head(seq) \notin S
         PROVE  W # <<>> /\ Head(W) = Head(seq)
    <2>1. 1 \in K /\ seq[1] = Head(seq)
      BY <1>11 DEF Outside
    <2>2. Rank(K, 1) = 1
      <3>1. {j \in K : j <= 1} = {1}
        BY <1>4, <2>1
      <3> QED BY <3>1, FS_Singleton DEF Rank
    <2>3. 1 \in 1 .. c /\ Nth(K, 1) = 1
      BY <1>2, <1>6, <2>1, <2>2
    <2>4. W[1] = Head(seq)
      BY <1>7, <2>1, <2>3
    <2> QED BY <1>3, <1>8, <2>3, <2>4
  <1> QED BY <1>8, <1>9, <1>10, <1>11 DEF W
-----------------------------------------------------------------------------
(***************************************************************************)
(* First elements.                                                         *)
(***************************************************************************)

\* A finite non-empty set has a first element in every total preorder R: the one
\* that is preceded by fewest.
LEMMA FirstElement ==
    ASSUME NEW S, IsFiniteSet(S), S # {}, NEW R,
           \A a, b \in S : <<a, b>> \in R \/ <<b, a>> \in R,
           \A a, b, c \in S : <<a, b>> \in R /\ <<b, c>> \in R => <<a, c>> \in R
    PROVE  \E a \in S : \A b \in S : <<a, b>> \in R
  <1> DEFINE before(a) == {b \in S : <<a, b>> \notin R}
             sizes == {n \in Nat : \E a \in S : Cardinality(before(a)) = n}
  <1>1. \A a \in S : IsFiniteSet(before(a)) /\ Cardinality(before(a)) \in Nat
    BY FS_Subset, FS_CardinalityType
  <1>2. sizes # {} /\ sizes \subseteq Nat
    BY <1>1
  <1>3. PICK m \in sizes : \A n \in sizes : m <= n
    BY <1>2, LeastNatural
  <1>4. PICK a \in S : Cardinality(before(a)) = m
    OBVIOUS
  <1>5. ASSUME NEW b \in S, <<a, b>> \notin R PROVE FALSE
    <2>1. before(b) \subseteq before(a)
      <3>1. ASSUME NEW c \in before(b) PROVE c \in before(a)
        <4>1. c \in S /\ <<b, c>> \notin R
          OBVIOUS
        <4>2. <<c, b>> \in R
          BY <4>1
        <4>3. <<a, c>> \notin R
          BY <4>1, <4>2, <1>5
        <4> QED BY <4>1, <4>3
      <3> QED BY <3>1
    <2>2. b \in before(a) /\ b \notin before(b)
      BY <1>5
    <2>3. before(b) \subseteq before(a) \ {b}
      BY <2>1, <2>2
    <2>4. /\ IsFiniteSet(before(a) \ {b})
          /\ Cardinality(before(a) \ {b}) \in Nat
          /\ Cardinality(before(a)) = Cardinality(before(a) \ {b}) + 1
      BY <1>1, <2>2, RestSmaller
    <2>5. Cardinality(before(b)) <= Cardinality(before(a) \ {b})
      BY <2>3, <2>4, FS_Subset
    <2>6. Cardinality(before(b)) \in sizes
      BY <1>1
    <2>7. m <= Cardinality(before(b))
      BY <1>3, <2>6
    <2> HIDE DEF before, sizes
    <2> QED BY <1>1, <1>4, <2>4, <2>5, <2>7
  <1> QED BY <1>5

LEMMA LeastNumber ==
    ASSUME NEW T, T \subseteq Nat, T # {}
    PROVE  Min(T) \in T /\ \A n \in T : Min(T) <= n
  <1>1. \E m \in T : \A n \in T : m <= n
    BY LeastNatural
  <1> QED BY <1>1 DEF Min
-----------------------------------------------------------------------------
(***************************************************************************)
(* Counting the units that the members of a set hold, f[x] of them each and *)
(* at most n.                                                               *)
(***************************************************************************)
Units(L, f, n) == {u \in L \X (1 .. n) : u[2] <= f[u[1]]}

LEMMA UnitsFinite ==
    ASSUME NEW L, IsFiniteSet(L), NEW f, NEW n \in Nat
    PROVE  IsFiniteSet(Units(L, f, n)) /\ Cardinality(Units(L, f, n)) \in Nat
  <1>1. IsFiniteSet(1 .. n)
    BY FS_Interval
  <1>2. IsFiniteSet(L \X (1 .. n))
    BY <1>1, FS_Product
  <1>3. Units(L, f, n) \subseteq L \X (1 .. n)
    BY DEF Units
  <1> QED BY <1>2, <1>3, FS_Subset, FS_CardinalityType

\* A one-to-one map to members that hold at least as much.
LEMMA UnitsMap ==
    ASSUME NEW L, NEW M, IsFiniteSet(M), NEW f, NEW g, NEW n \in Nat, NEW m \in Nat, n <= m,
           NEW h \in [L -> M], \A x, y \in L : h[x] = h[y] => x = y,
           \A x \in L, i \in 1 .. n : i <= f[x] => i <= g[h[x]]
    PROVE  Cardinality(Units(L, f, n)) <= Cardinality(Units(M, g, m))
  <1> DEFINE A == Units(L, f, n)
             B == Units(M, g, m)
             e == [u \in A |-> <<h[u[1]], u[2]>>]
  <1>1. ASSUME NEW u \in A PROVE u[1] \in L /\ u[2] \in 1 .. n /\ u = <<u[1], u[2]>> /\ e[u] \in B
    <2>1. u[1] \in L /\ u[2] \in 1 .. n /\ u = <<u[1], u[2]>> /\ u[2] <= f[u[1]]
      BY DEF Units
    <2>2. u[2] \in 1 .. m /\ h[u[1]] \in M /\ u[2] <= g[h[u[1]]]
      BY <2>1
    <2>3. <<h[u[1]], u[2]>> \in B
      BY <2>2 DEF Units
    <2> QED BY <2>1, <2>3
  <1>2. ASSUME NEW u \in A, NEW w \in A, e[u] = e[w] PROVE u = w
    <2>1. h[u[1]] = h[w[1]] /\ u[2] = w[2]
      BY <1>2
    <2>2. u[1] = w[1]
      BY <1>1, <2>1
    <2> QED BY <1>1, <2>1, <2>2
  <1>3. e \in [A -> B]
    BY <1>1
  <1> HIDE DEF e, A, B
  <1>4. e \in Injection(A, B)
    BY <1>2, <1>3, Zenon DEF Injection, IsInjective
  <1>5. IsFiniteSet(B)
    BY UnitsFinite DEF B
  <1> QED BY <1>4, <1>5, FS_Injection DEF A, B

\* One more member.
LEMMA UnitsAdd ==
    ASSUME NEW L, IsFiniteSet(L), NEW f, NEW n \in Nat, NEW x, x \notin L,
           f[x] \in Nat, f[x] <= n
    PROVE  Cardinality(Units(L \cup {x}, f, n)) = Cardinality(Units(L, f, n)) + f[x]
  <1> DEFINE A == Units(L, f, n)
             C == {x} \X (1 .. f[x])
  <1>1. IsFiniteSet(A) /\ Cardinality(A) \in Nat
    BY UnitsFinite
  <1>2. IsFiniteSet(C) /\ Cardinality(C) = f[x]
    <2>1. IsFiniteSet({x}) /\ Cardinality({x}) = 1
      BY FS_Singleton
    <2>2. ASSUME NEW m \in Nat
          PROVE  IsFiniteSet({x} \X (1 .. m)) /\ Cardinality({x} \X (1 .. m)) = m
      <3> DEFINE I == 1 .. m
      <3>1. IsFiniteSet(I) /\ Cardinality(I) = IF 1 > m THEN 0 ELSE m - 1 + 1
        <4>1. 1 \in Int /\ m \in Int
          OBVIOUS
        <4> QED BY <4>1, FS_Interval, Zenon
      <3> HIDE DEF I
      <3>2. Cardinality(I) = m
        BY <3>1
      <3>3. /\ IsFiniteSet({x} \X I)
            /\ Cardinality({x} \X I) = Cardinality({x}) * Cardinality(I)
        BY <2>1, <3>1, FS_Product
      <3>4. Cardinality({x}) * Cardinality(I) = 1 * m
        BY <2>1, <3>2
      <3> QED BY <3>3, <3>4 DEF I
    <2> QED BY <2>2
  <1>3. A \cap C = {}
    BY DEF Units
  <1>4. Units(L \cup {x}, f, n) = A \cup C
    <2>1. ASSUME NEW u \in Units(L \cup {x}, f, n) PROVE u \in A \cup C
      <3>1. u \in (L \cup {x}) \X (1 .. n) /\ u[2] <= f[u[1]]
        BY DEF Units
      <3>2. CASE u[1] \in L
        BY <3>1, <3>2 DEF Units
      <3>3. CASE u[1] = x
        BY <3>1, <3>3
      <3> QED BY <3>1, <3>2, <3>3
    <2>2. ASSUME NEW u \in A \cup C PROVE u \in Units(L \cup {x}, f, n)
      <3>1. CASE u \in A
        BY <3>1 DEF Units
      <3>2. CASE u \in C
        BY <3>2 DEF Units
      <3> QED BY <3>1, <3>2
    <2> QED BY <2>1, <2>2
  <1> HIDE DEF A, C
  <1>5. Cardinality(A \cup C) = Cardinality(A) + Cardinality(C) - Cardinality({})
    BY <1>1, <1>2, <1>3, FS_Union
  <1>6. Cardinality({}) = 0
    BY FS_EmptySet
  <1>7. Cardinality(A \cup C) = Cardinality(A) + f[x]
    BY <1>1, <1>2, <1>5, <1>6
  <1> QED BY <1>4, <1>7 DEF A
=============================================================================
