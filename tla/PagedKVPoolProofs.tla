------------------------- MODULE PagedKVPoolProofs -------------------------
(***************************************************************************)
(* For every number of pools, handles, pages and rows: the accounting of   *)
(* PagedKVPool is exact, so an entitlement is always honoured.             *)
(***************************************************************************)
EXTENDS PagedKVPool, FiniteSetTheorems, FunctionTheorems, TLAPS

\* The units below f are a finite set, and counting one handle's share apart
\* from the others' splits it.
Units(p, f) == {u \in Handles \X Logical(p) : u[2] <= f[u[1]]}
Others(p, f, h) == {u \in Handles \X Logical(p) : u[2] <= f[u[1]] /\ u[1] # h}
Share(h, n) == {h} \X (1 .. n)

LEMMA UnitsFinite ==
    ASSUME NEW p \in Pools, NEW f
    PROVE  /\ IsFiniteSet(Units(p, f))
           /\ Total(p, f) = Cardinality(Units(p, f))
           /\ Total(p, f) \in Nat
  <1>1. IsFiniteSet(Logical(p))
    BY FS_Interval, PoolAssumption DEF Logical
  <1>2. IsFiniteSet(Handles \X Logical(p))
    BY <1>1, FS_Product, PoolAssumption
  <1>3. IsFiniteSet(Units(p, f))
    BY <1>2, FS_Subset DEF Units
  <1>4. QED
    BY <1>3, FS_CardinalityType DEF Units, Total

\* f[h] = n splits the total into the other handles' total and n.
LEMMA TotalSplit ==
    ASSUME NEW p \in Pools, NEW h \in Handles,
           NEW f \in [Handles -> 0 .. LogicalPageCapacity[p]]
    PROVE  /\ IsFiniteSet(Others(p, f, h))
           /\ Total(p, f) = Cardinality(Others(p, f, h)) + f[h]
  <1> DEFINE O == Others(p, f, h)
             T == Share(h, f[h])
  <1>0. O \subseteq Units(p, f)
    BY DEF Others, Units
  <1>1. IsFiniteSet(O)
    BY <1>0, UnitsFinite, FS_Subset
  <1>2. f[h] \in Nat /\ f[h] <= LogicalPageCapacity[p]
    BY PoolAssumption
  <1>3. IsFiniteSet(T) /\ Cardinality(T) = f[h]
    <2>1. IsFiniteSet(1 .. f[h]) /\ Cardinality(1 .. f[h]) = f[h]
      BY <1>2, FS_Interval
    <2>2. IsFiniteSet({h}) /\ Cardinality({h}) = 1
      BY FS_Singleton
    <2>3. IsFiniteSet(T) /\ Cardinality(T) = 1 * f[h]
      BY <2>1, <2>2, FS_Product DEF Share
    <2> QED BY <1>2, <2>3
  <1>4. Units(p, f) = O \cup T
    BY <1>2, PoolAssumption DEF Units, Others, Share, Logical
  <1>5. O \cap T = {}
    BY DEF Others, Share
  <1>6. Cardinality(O \cap T) = 0
    BY <1>5, FS_EmptySet
  <1>7. Cardinality(O) \in Nat
    BY <1>1, FS_CardinalityType
  <1>8. Cardinality(O \cup T) = Cardinality(O) + Cardinality(T) - Cardinality(O \cap T)
    BY <1>1, <1>3, FS_Union
  <1>9. Total(p, f) = Cardinality(O \cup T)
    BY <1>4, UnitsFinite
  <1> QED BY <1>1, <1>2, <1>3, <1>6, <1>7, <1>8, <1>9

\* Changing one handle's share changes the total by the difference.
LEMMA TotalUpdate ==
    ASSUME NEW p \in Pools, NEW h \in Handles,
           NEW f \in [Handles -> 0 .. LogicalPageCapacity[p]],
           NEW g \in [Handles -> 0 .. LogicalPageCapacity[p]],
           \A k \in Handles : k # h => g[k] = f[k]
    PROVE  /\ Total(p, g) = Total(p, f) - f[h] + g[h]
           /\ f[h] <= Total(p, f)
  <1>1. Others(p, g, h) = Others(p, f, h)
    BY DEF Others
  <1>2. Total(p, f) = Cardinality(Others(p, f, h)) + f[h]
    BY TotalSplit
  <1>3. Total(p, g) = Cardinality(Others(p, f, h)) + g[h]
    BY <1>1, TotalSplit
  <1>4. Cardinality(Others(p, f, h)) \in Nat
    BY TotalSplit, FS_CardinalityType
  <1>5. f[h] \in Nat /\ g[h] \in Nat
    BY PoolAssumption
  <1> QED BY <1>2, <1>3, <1>4, <1>5

\* Nothing counts to nothing.
LEMMA TotalZero ==
    ASSUME NEW p \in Pools
    PROVE  Total(p, [h \in Handles |-> 0]) = 0
  <1>1. Units(p, [h \in Handles |-> 0]) = {}
    BY PoolAssumption DEF Units, Logical
  <1> QED BY <1>1, UnitsFinite, FS_EmptySet

\* A mapping below its entitlement everywhere leaves, in the totals, at least the
\* room it leaves at any one handle.
LEMMA TotalRoom ==
    ASSUME NEW p \in Pools, NEW h \in Handles,
           NEW f \in [Handles -> 0 .. LogicalPageCapacity[p]],
           NEW g \in [Handles -> 0 .. LogicalPageCapacity[p]],
           \A k \in Handles : f[k] <= g[k]
    PROVE  Total(p, f) + (g[h] - f[h]) <= Total(p, g)
  <1>1. Others(p, f, h) \subseteq Others(p, g, h)
    BY PoolAssumption DEF Others, Logical
  <1>2. /\ IsFiniteSet(Others(p, g, h))
        /\ Total(p, f) = Cardinality(Others(p, f, h)) + f[h]
        /\ Total(p, g) = Cardinality(Others(p, g, h)) + g[h]
    BY TotalSplit
  <1>3. Cardinality(Others(p, f, h)) <= Cardinality(Others(p, g, h))
    BY <1>1, <1>2, FS_Subset
  <1>4. Cardinality(Others(p, f, h)) \in Nat /\ Cardinality(Others(p, g, h)) \in Nat
    BY TotalSplit, FS_CardinalityType
  <1>5. f[h] \in Nat /\ g[h] \in Nat
    BY PoolAssumption
  <1> QED BY <1>2, <1>3, <1>4, <1>5

\* The pages after the first n of a mapping without repetitions are as many as
\* the entries.
LEMMA PagesFromCount ==
    ASSUME NEW S, NEW ids \in Seq(S), NEW n \in 0 .. Len(ids),
           \A i, j \in 1 .. Len(ids) : ids[i] = ids[j] => i = j
    PROVE  /\ IsFiniteSet(PagesFrom(ids, n))
           /\ Cardinality(PagesFrom(ids, n)) = Len(ids) - n
  <1> DEFINE m == Len(ids) - n
             T == PagesFrom(ids, n)
             g == [k \in 1 .. m |-> ids[n + k]]
  <1>1. m \in Nat /\ Len(ids) \in Nat /\ n \in Nat
    OBVIOUS
  <1>2. g \in [1 .. m -> T]
    BY <1>1 DEF PagesFrom
  <1>3. \A t \in T : \E k \in 1 .. m : g[k] = t
    <2> TAKE t \in T
    <2>1. PICK i \in n + 1 .. Len(ids) : t = ids[i]
      BY DEF PagesFrom
    <2>2. i - n \in 1 .. m /\ n + (i - n) = i
      BY <1>1
    <2> QED BY <2>1, <2>2
  <1>4. \A a, b \in 1 .. m : g[a] = g[b] => a = b
    BY <1>1
  <1>5. g \in Bijection(1 .. m, T)
    BY <1>2, <1>3, <1>4, Fun_IsBij
  <1>6. ExistsBijection(1 .. m, T)
    BY <1>5 DEF ExistsBijection
  <1> QED BY <1>1, <1>6, FS_NatBijection, FS_CountingElements

-----------------------------------------------------------------------------
(***************************************************************************)
(* The inductive invariant.  Beside the properties it says what relates an *)
(* allocation's fields: a mapping stays within its entitlement, an         *)
(* entitlement within a block-table row, and an empty handle holds nothing.*)
(***************************************************************************)
PoolShape(p) ==
    /\ \A r \in Row : Len(table[p][r]) = LogicalPageCapacity[p]
    /\ \A h \in Handles : /\ entitlement[p][h] <= LogicalPageCapacity[p]
                          /\ Len(pageIds[p][h]) <= entitlement[p][h]
    /\ \A h \in Handles : h \notin live[p] =>
          /\ entitlement[p][h] = 0
          /\ pageIds[p][h] = <<>>
          /\ boundRow[p][h] = NoRow

PoolInv(p) ==
    /\ PoolShape(p)
    /\ PoolNotAliased(p)
    /\ PoolCountersExact(p)
    /\ PoolPublished(p)
    /\ PoolRowsExclusive(p)

IInv == TypeOK /\ EntitlementHonoured /\ \A p \in Pools : PoolInv(p)

\* The part of the state that belongs to pool p.
PoolVars(p) == <<free[p], mapped[p], entitled[p], rowInUse[p], table[p], live[p],
                 entitlement[p], pageIds[p], boundRow[p]>>

\* A pool no variable of which changes keeps its invariant.
LEMMA PoolFrame ==
    ASSUME NEW p \in Pools, PoolInv(p), UNCHANGED PoolVars(p)
    PROVE  PoolInv(p)'
  BY DEF PoolInv, PoolShape, PoolNotAliased, PoolCountersExact, PoolPublished,
         PoolRowsExclusive, PoolVars, MappedCount

\* The two per-handle counts are functions the sums are about.
LEMMA CountTypes ==
    ASSUME NEW p \in Pools, TypeOK, PoolShape(p)
    PROVE  /\ entitlement[p] \in [Handles -> 0 .. LogicalPageCapacity[p]]
           /\ MappedCount(p) \in [Handles -> 0 .. LogicalPageCapacity[p]]
           /\ LogicalPageCapacity[p] \in Nat /\ PageGroupCount[p] \in Nat
           /\ \A h \in Handles : /\ Len(pageIds[p][h]) \in Nat
                                 /\ entitlement[p][h] \in Nat
                                 /\ MappedCount(p)[h] = Len(pageIds[p][h])
  <1>1. LogicalPageCapacity[p] \in Nat /\ PageGroupCount[p] \in Nat
    BY PoolAssumption
  <1>2. \A h \in Handles : /\ Len(pageIds[p][h]) \in 0 .. LogicalPageCapacity[p]
                           /\ entitlement[p][h] \in 0 .. LogicalPageCapacity[p]
    <2> TAKE h \in Handles
    <2>1. pageIds[p][h] \in Seq(Nat) /\ entitlement[p][h] \in Nat
      BY DEF TypeOK
    <2>2. Len(pageIds[p][h]) \in Nat
      BY <2>1
    <2> QED BY <1>1, <2>1, <2>2 DEF PoolShape
  <1>3. entitlement[p] \in [Handles -> Nat]
    BY DEF TypeOK
  <1> QED BY <1>1, <1>2, <1>3 DEF MappedCount

\* Free pages of a pool are finitely many.
LEMMA FreeFinite ==
    ASSUME NEW p \in Pools, PoolNotAliased(p)
    PROVE  IsFiniteSet(free[p]) /\ Cardinality(free[p]) \in Nat
  <1>1. IsFiniteSet(Page(p))
    BY FS_Interval, PoolAssumption DEF Page
  <1>2. free[p] \subseteq Page(p)
    BY DEF PoolNotAliased
  <1> QED BY <1>1, <1>2, FS_Subset, FS_CardinalityType

\* A step that gives handle h the entitlement e and a mapping of k pages, and
\* moves the counters and the free list by the differences.
CountersFollow(p, h, e, k) ==
    /\ \A g \in Handles :
          /\ entitlement'[p][g] = IF g = h THEN e ELSE entitlement[p][g]
          /\ Len(pageIds'[p][g]) = IF g = h THEN k ELSE Len(pageIds[p][g])
    /\ entitlement'[p] \in [Handles -> Nat]
    /\ entitled'[p] = entitled[p] - entitlement[p][h] + e
    /\ e <= PageGroupCount[p] - (entitled[p] - entitlement[p][h])
    /\ mapped'[p] = mapped[p] + (k - Len(pageIds[p][h]))
    /\ Cardinality(free'[p]) = Cardinality(free[p]) - (k - Len(pageIds[p][h]))

\* Such a step keeps the counters exact.
LEMMA CountersAt ==
    ASSUME NEW p \in Pools, NEW h \in Handles, TypeOK, PoolInv(p),
           NEW e \in 0 .. LogicalPageCapacity[p], NEW k \in 0 .. LogicalPageCapacity[p],
           CountersFollow(p, h, e, k)
    PROVE  PoolCountersExact(p)'
  <1> DEFINE M == [g \in Handles |-> Len(pageIds[p][g])]
             N == [g \in Handles |-> Len(pageIds'[p][g])]
             E == entitlement[p]
             F == entitlement'[p]
  <1>1. LogicalPageCapacity[p] \in Nat /\ PageGroupCount[p] \in Nat /\ e \in Nat
        /\ k \in Nat
    BY PoolAssumption
  <1>2. /\ E \in [Handles -> 0 .. LogicalPageCapacity[p]]
        /\ M \in [Handles -> 0 .. LogicalPageCapacity[p]]
    BY CountTypes DEF PoolInv, MappedCount
  <1>3. /\ F \in [Handles -> 0 .. LogicalPageCapacity[p]]
        /\ \A g \in Handles : g # h => F[g] = E[g]
        /\ F[h] = e
    BY <1>2 DEF CountersFollow
  <1>4. /\ N \in [Handles -> 0 .. LogicalPageCapacity[p]]
        /\ \A g \in Handles : g # h => N[g] = M[g]
        /\ N[h] = k /\ M[h] = Len(pageIds[p][h])
    BY <1>2 DEF CountersFollow
  <1>5. /\ entitled[p] = Total(p, E)
        /\ mapped[p] = Total(p, M)
        /\ Cardinality(free[p]) + mapped[p] = PageGroupCount[p]
    BY DEF PoolInv, PoolCountersExact, MappedCount
  <1>6. Total(p, E) \in Nat /\ Total(p, M) \in Nat /\ Cardinality(free[p]) \in Nat
        /\ E[h] \in Nat /\ Len(pageIds[p][h]) \in Nat
    BY <1>2, <1>4, UnitsFinite, FreeFinite, CountTypes DEF PoolInv
  <1>7. /\ entitled'[p] = entitled[p] - E[h] + e
        /\ e <= PageGroupCount[p] - (entitled[p] - E[h])
        /\ mapped'[p] = mapped[p] + (k - Len(pageIds[p][h]))
        /\ Cardinality(free'[p]) = Cardinality(free[p]) - (k - Len(pageIds[p][h]))
    BY DEF CountersFollow
  <1> HIDE DEF M, N, E, F
  <1>8. Total(p, F) = Total(p, E) - E[h] + F[h]
    BY ONLY <1>2, <1>3, p \in Pools, h \in Handles, TotalUpdate
  <1>9. Total(p, N) = Total(p, M) - M[h] + N[h]
    BY ONLY <1>2, <1>4, p \in Pools, h \in Handles, TotalUpdate
  <1>10. entitled'[p] = Total(p, F) /\ entitled'[p] <= PageGroupCount[p]
    BY ONLY <1>1, <1>3, <1>5, <1>6, <1>7, <1>8
  <1>11. mapped'[p] = Total(p, N)
    <2>1. /\ mapped[p] = Total(p, M) /\ mapped'[p] = mapped[p] + (k - Len(pageIds[p][h]))
          /\ N[h] = k /\ M[h] = Len(pageIds[p][h])
          /\ k \in Nat /\ Total(p, M) \in Nat /\ Len(pageIds[p][h]) \in Nat
      BY <1>1, <1>4, <1>5, <1>6, <1>7
    <2>2. Total(p, N) = Total(p, M) - Len(pageIds[p][h]) + k
      BY ONLY <1>9, <2>1
    <2> QED BY ONLY <2>1, <2>2
  <1>12. Cardinality(free'[p]) + mapped'[p] = PageGroupCount[p]
    BY ONLY <1>1, <1>5, <1>6, <1>7
  <1> QED BY <1>10, <1>11, <1>12 DEF PoolCountersExact, MappedCount, F, N

\* A reservation that passed can_reserve keeps the pool's invariant.
LEMMA ReserveAt ==
    ASSUME NEW p \in Pools, NEW h \in Handles, NEW n \in Nat,
           TypeOK, PoolInv(p), h \notin live[p], CanReserve(p, n),
           entitled'[p] = entitled[p] + n,
           live'[p] = live[p] \cup {h},
           entitlement'[p] = [entitlement[p] EXCEPT ![h] = n],
           UNCHANGED <<free[p], mapped[p], rowInUse[p], table[p], pageIds[p],
                       boundRow[p]>>
    PROVE  PoolInv(p)'
  <1> USE DEF PoolInv
  <1>1. PoolShape(p)'
    BY PoolAssumption DEF PoolShape, CanReserve, TypeOK
  <1>2. PoolNotAliased(p)' /\ PoolPublished(p)' /\ PoolRowsExclusive(p)'
    BY DEF PoolNotAliased, PoolPublished, PoolRowsExclusive
  <1>3. PoolCountersExact(p)'
    <2>1. entitlement[p][h] = 0 /\ Len(pageIds[p][h]) = 0
      BY DEF PoolShape
    <2>2. /\ n \in 0 .. LogicalPageCapacity[p] /\ 0 \in 0 .. LogicalPageCapacity[p]
          /\ entitlement[p] \in [Handles -> Nat]
          /\ entitled[p] \in Int /\ mapped[p] \in Int /\ Cardinality(free[p]) \in Nat
      <3>1. LogicalPageCapacity[p] \in Nat
        BY PoolAssumption
      <3>2. Cardinality(free[p]) \in Nat
        BY FreeFinite
      <3> QED BY <3>1, <3>2 DEF CanReserve, TypeOK
    <2>3. /\ \A g \in Handles :
                /\ entitlement'[p][g] = IF g = h THEN n ELSE entitlement[p][g]
                /\ Len(pageIds'[p][g]) = IF g = h THEN 0 ELSE Len(pageIds[p][g])
          /\ entitlement'[p] \in [Handles -> Nat]
      BY <2>1, <2>2
    <2>4. /\ entitled'[p] = entitled[p] - entitlement[p][h] + n
          /\ n <= PageGroupCount[p] - (entitled[p] - entitlement[p][h])
          /\ mapped'[p] = mapped[p] + (0 - Len(pageIds[p][h]))
          /\ Cardinality(free'[p]) = Cardinality(free[p]) - (0 - Len(pageIds[p][h]))
      BY <2>1, <2>2 DEF CanReserve
    <2>5. CountersFollow(p, h, n, 0)
      BY ONLY <2>3, <2>4 DEF CountersFollow
    <2> QED BY ONLY <2>2, <2>5, TypeOK, PoolInv(p), p \in Pools, h \in Handles, CountersAt
  <1> QED BY <1>1, <1>2, <1>3

\* The pages after the first k of a mapping are as many as its entries, and none
\* of them is free.
LEMMA ReturnCount ==
    ASSUME NEW p \in Pools, NEW h \in Handles, TypeOK, PoolInv(p),
           NEW k \in 0 .. Len(pageIds[p][h])
    PROVE  /\ PagesFrom(pageIds[p][h], k) \subseteq Page(p)
           /\ Cardinality(free[p] \cup PagesFrom(pageIds[p][h], k))
                = Cardinality(free[p]) + (Len(pageIds[p][h]) - k)
  <1> DEFINE ids == pageIds[p][h]
             R == PagesFrom(ids, k)
  <1>1. ids \in Seq(Nat) /\ Len(ids) \in Nat
    BY DEF TypeOK
  <1>2. \A i, j \in 1 .. Len(ids) : ids[i] = ids[j] => i = j
    BY DEF PoolInv, PoolNotAliased
  <1>3. IsFiniteSet(R) /\ Cardinality(R) = Len(ids) - k
    BY <1>1, <1>2, PagesFromCount
  <1>4. R \subseteq Page(p) \ free[p]
    BY <1>1 DEF PoolInv, PoolNotAliased, PagesFrom
  <1>5. IsFiniteSet(free[p]) /\ Cardinality(free[p]) \in Nat
    BY FreeFinite DEF PoolInv
  <1>6. Cardinality(free[p] \cap R) = 0
    <2>1. free[p] \cap R = {}
      BY <1>4
    <2> QED BY <2>1, FS_EmptySet
  <1>7. Cardinality(free[p] \cup R)
          = Cardinality(free[p]) + Cardinality(R) - Cardinality(free[p] \cap R)
    BY <1>3, <1>5, FS_Union
  <1> QED BY <1>1, <1>3, <1>4, <1>5, <1>6, <1>7

\* Trimming to k pages and setting the entitlement to e keeps the invariant; this
\* is trim_pages, set_page_entitlement, cancel_unmapped_entitlement and
\* resize_paged_kv_bundle on one pool.
LEMMA ResizeAt ==
    ASSUME NEW p \in Pools, NEW h \in Handles, TypeOK, PoolInv(p),
           NEW k \in 0 .. Len(pageIds[p][h]), NEW e \in Nat,
           h \in live[p], k <= e, CanReplaceEntitlement(p, entitlement[p][h], e),
           free'[p] = free[p] \cup PagesFrom(pageIds[p][h], k),
           mapped'[p] = mapped[p] - (Len(pageIds[p][h]) - k),
           pageIds'[p] = [pageIds[p] EXCEPT ![h] = SubSeq(pageIds[p][h], 1, k)],
           entitled'[p] = entitled[p] - entitlement[p][h] + e,
           entitlement'[p] = [entitlement[p] EXCEPT ![h] = e],
           UNCHANGED <<rowInUse[p], table[p], live[p], boundRow[p]>>
    PROVE  PoolInv(p)'
  <1> DEFINE ids == pageIds[p][h]
             R == PagesFrom(ids, k)
  <1>1. /\ pageIds[p] \in [Handles -> Seq(Nat)]
        /\ entitlement[p] \in [Handles -> Nat]
        /\ ids \in Seq(Nat) /\ Len(ids) \in Nat /\ k \in Nat /\ k <= Len(ids)
        /\ LogicalPageCapacity[p] \in Nat
    BY PoolAssumption DEF TypeOK
  <1>2. /\ Len(SubSeq(ids, 1, k)) = k
        /\ \A i \in 1 .. k : SubSeq(ids, 1, k)[i] = ids[i]
    BY <1>1
  <1>3. \A g \in Handles :
           /\ Len(pageIds'[p][g]) = IF g = h THEN k ELSE Len(pageIds[p][g])
           /\ Len(pageIds'[p][g]) <= Len(pageIds[p][g])
           /\ \A i \in 1 .. Len(pageIds'[p][g]) :
                 /\ i \in 1 .. Len(pageIds[p][g])
                 /\ pageIds'[p][g][i] = pageIds[p][g][i]
    BY <1>1, <1>2
  <1>4. PoolShape(p)'
    <2>1. \A g \in Handles : /\ entitlement'[p][g] <= LogicalPageCapacity[p]
                             /\ Len(pageIds'[p][g]) <= entitlement'[p][g]
      BY <1>1, <1>2 DEF PoolInv, PoolShape, CanReplaceEntitlement
    <2>2. \A g \in Handles : g \notin live'[p] =>
            /\ entitlement'[p][g] = 0 /\ pageIds'[p][g] = <<>> /\ boundRow'[p][g] = NoRow
      BY <1>1 DEF PoolInv, PoolShape
    <2> QED BY <2>1, <2>2 DEF PoolInv, PoolShape
  <1>5. PoolNotAliased(p)'
    <2>1. free'[p] \subseteq Page(p)
      BY ReturnCount DEF PoolInv, PoolNotAliased
    <2>2. ASSUME NEW g \in Handles, NEW i \in 1 .. Len(pageIds'[p][g])
          PROVE  pageIds'[p][g][i] \in Page(p) \ free'[p]
      <3>1. /\ i \in 1 .. Len(pageIds[p][g]) /\ pageIds'[p][g][i] = pageIds[p][g][i]
            /\ pageIds[p][g][i] \in Page(p) \ free[p]
        BY <1>3, <2>2 DEF PoolInv, PoolNotAliased
      <3>2. ASSUME pageIds[p][g][i] \in R PROVE FALSE
        <4>1. PICK j \in k + 1 .. Len(ids) : pageIds[p][g][i] = ids[j]
          BY <3>2 DEF PagesFrom
        <4>2. j \in 1 .. Len(ids) /\ j > k
          BY <1>1
        <4>3. g = h /\ i = j
          BY <3>1, <4>1, <4>2 DEF PoolInv, PoolNotAliased
        <4> QED BY <1>1, <1>3, <4>2, <4>3
      <3> QED BY <3>1, <3>2
    <2>3. ASSUME NEW f \in Handles, NEW g \in Handles,
                 NEW i \in 1 .. Len(pageIds'[p][f]), NEW j \in 1 .. Len(pageIds'[p][g]),
                 pageIds'[p][f][i] = pageIds'[p][g][j]
          PROVE  f = g /\ i = j
      <3>1. /\ i \in 1 .. Len(pageIds[p][f]) /\ pageIds'[p][f][i] = pageIds[p][f][i]
            /\ j \in 1 .. Len(pageIds[p][g]) /\ pageIds'[p][g][j] = pageIds[p][g][j]
        BY <1>3
      <3> QED BY <2>3, <3>1 DEF PoolInv, PoolNotAliased
    <2> QED BY <2>1, <2>2, <2>3 DEF PoolNotAliased, Page
  <1>6. PoolCountersExact(p)'
    <2>1. /\ e \in 0 .. LogicalPageCapacity[p] /\ k \in 0 .. LogicalPageCapacity[p]
          /\ entitled[p] \in Int /\ mapped[p] \in Int /\ Cardinality(free[p]) \in Nat
      BY <1>1, FreeFinite DEF CanReplaceEntitlement, TypeOK, PoolInv
    <2>2. /\ \A g \in Handles :
                /\ entitlement'[p][g] = IF g = h THEN e ELSE entitlement[p][g]
                /\ Len(pageIds'[p][g]) = IF g = h THEN k ELSE Len(pageIds[p][g])
          /\ entitlement'[p] \in [Handles -> Nat]
      BY <1>1, <1>3
    <2>3. Cardinality(free'[p]) = Cardinality(free[p]) + (Len(pageIds[p][h]) - k)
      BY ReturnCount
    <2>4. /\ e <= PageGroupCount[p] - (entitled[p] - entitlement[p][h])
          /\ mapped'[p] = mapped[p] + (k - Len(pageIds[p][h]))
          /\ Cardinality(free'[p]) = Cardinality(free[p]) - (k - Len(pageIds[p][h]))
      BY <1>1, <2>1, <2>3 DEF CanReplaceEntitlement
    <2>5. CountersFollow(p, h, e, k)
      BY <2>2, <2>4 DEF CountersFollow
    <2> QED BY ONLY <2>1, <2>5, TypeOK, PoolInv(p), p \in Pools, h \in Handles, CountersAt
  <1>7. PoolPublished(p)'
    BY <1>3 DEF PoolInv, PoolPublished
  <1>8. PoolRowsExclusive(p)'
    BY DEF PoolInv, PoolRowsExclusive
  <1> QED BY <1>4, <1>5, <1>6, <1>7, <1>8 DEF PoolInv

\* Room in the entitlement is room on the free list: the pages a handle may still
\* map are there, whatever the other handles mapped.
LEMMA RoomIsFree ==
    ASSUME NEW p \in Pools, NEW h \in Handles, TypeOK, PoolInv(p)
    PROVE  entitlement[p][h] - Len(pageIds[p][h]) <= Cardinality(free[p])
  <1> DEFINE M == MappedCount(p)
             E == entitlement[p]
  <1>1. /\ E \in [Handles -> 0 .. LogicalPageCapacity[p]]
        /\ M \in [Handles -> 0 .. LogicalPageCapacity[p]]
        /\ M[h] = Len(pageIds[p][h])
    BY CountTypes DEF PoolInv
  <1>2. \A k \in Handles : M[k] <= E[k]
    BY DEF PoolInv, PoolShape, MappedCount
  <1>3. /\ E[h] \in Nat /\ M[h] \in Nat /\ PageGroupCount[p] \in Nat
        /\ Cardinality(free[p]) \in Nat /\ Total(p, E) \in Nat /\ Total(p, M) \in Nat
    BY CountTypes, FreeFinite, UnitsFinite DEF PoolInv
  <1>4. /\ Total(p, E) <= PageGroupCount[p]
        /\ Cardinality(free[p]) + Total(p, M) = PageGroupCount[p]
    BY DEF PoolInv, PoolCountersExact
  <1> HIDE DEF M, E
  <1>5. Total(p, M) + (E[h] - M[h]) <= Total(p, E)
    BY ONLY <1>1, <1>2, p \in Pools, h \in Handles, TotalRoom
  <1>6. E[h] - M[h] <= Cardinality(free[p])
    BY ONLY <1>3, <1>4, <1>5
  <1> QED BY <1>1, <1>6 DEF E

\* A function on 1 .. n is a sequence of length n.
LEMMA TupleIsSeq ==
    ASSUME NEW S, NEW n \in Nat, NEW f \in [1 .. n -> S]
    PROVE  f \in Seq(S) /\ Len(f) = n
  <1>1. DOMAIN f = 1 .. n
    OBVIOUS
  <1>2. f \in Seq(S)
    OBVIOUS
  <1>3. DOMAIN f = 1 .. Len(f) /\ Len(f) \in Nat
    BY <1>2
  <1> QED BY <1>1, <1>2, <1>3

\* Appending pages to a mapping.
LEMMA JoinPages ==
    ASSUME NEW a \in Seq(Nat), NEW b \in Seq(Nat)
    PROVE  a \o b \in Seq(Nat) /\ Len(a \o b) = Len(a) + Len(b)
  OBVIOUS

\* Publishing a range keeps a row a row and replaces exactly the range.
LEMMA PublishRangeRow ==
    ASSUME NEW row \in Seq(Nat), NEW m \in Seq(Nat), NEW a \in Nat, NEW b \in Nat,
           a + b <= Len(m)
    PROVE  /\ PublishRange(row, m, a, b) \in Seq(Nat)
           /\ Len(PublishRange(row, m, a, b)) = Len(row)
           /\ \A i \in 1 .. Len(row) : PublishRange(row, m, a, b)[i] =
                 IF i > a /\ i <= a + b THEN m[i] ELSE row[i]
  <1> DEFINE q == PublishRange(row, m, a, b)
  <1>1. DOMAIN row = 1 .. Len(row) /\ Len(row) \in Nat /\ Len(m) \in Nat
    OBVIOUS
  <1>2. \A i \in 1 .. Len(row) : i > a /\ i <= a + b => m[i] \in Nat
    BY <1>1
  <1>3. q \in [1 .. Len(row) -> Nat]
    BY <1>1, <1>2 DEF PublishRange
  <1> HIDE DEF q
  <1>4. q \in Seq(Nat) /\ Len(q) = Len(row)
    BY ONLY <1>1, <1>3, TupleIsSeq
  <1> QED BY <1>1, <1>4 DEF PublishRange, q

\* Mapping more pages, all from the free list, keeps the invariant.
LEMMA MaterializeAt ==
    ASSUME NEW p \in Pools, NEW h \in Handles, TypeOK, PoolInv(p),
           NEW n \in Nat, h \in live[p],
           n > Len(pageIds[p][h]), n <= entitlement[p][h],
           NEW acquired \in [1 .. n - Len(pageIds[p][h]) -> free[p]],
           \A i, j \in 1 .. n - Len(pageIds[p][h]) : i < j => acquired[i] < acquired[j],
           free'[p] = free[p] \ PagesOf(acquired),
           mapped'[p] = mapped[p] + (n - Len(pageIds[p][h])),
           pageIds'[p] = [pageIds[p] EXCEPT ![h] = pageIds[p][h] \o acquired],
           table'[p] = IF boundRow[p][h] = NoRow THEN table[p]
                       ELSE [table[p] EXCEPT ![boundRow[p][h]] =
                               PublishRange(table[p][boundRow[p][h]],
                                            pageIds[p][h] \o acquired,
                                            Len(pageIds[p][h]),
                                            n - Len(pageIds[p][h]))],
           UNCHANGED <<entitled[p], rowInUse[p], live[p], entitlement[p], boundRow[p]>>
    PROVE  PoolInv(p)'
  <1> DEFINE ids == pageIds[p][h]
             old == Len(ids)
             count == n - old
             more == ids \o acquired
  <1>1. /\ ids \in Seq(Nat) /\ old \in Nat /\ count \in Nat /\ old < n
        /\ pageIds[p] \in [Handles -> Seq(Nat)]
        /\ free[p] \subseteq Nat
    BY DEF TypeOK
  <1>2. acquired \in Seq(free[p]) /\ Len(acquired) = count
    <2>1. acquired \in [1 .. count -> free[p]]
      OBVIOUS
    <2> HIDE DEF count
    <2> QED BY ONLY <1>1, <2>1, TupleIsSeq
  <1>3. /\ more \in Seq(Nat) /\ Len(more) = n
        /\ \A i \in 1 .. n : more[i] = IF i <= old THEN ids[i] ELSE acquired[i - old]
    BY <1>1, <1>2
  <1>4. /\ \A g \in Handles : pageIds'[p][g] = IF g = h THEN more ELSE pageIds[p][g]
        /\ pageIds'[p] \in [Handles -> Seq(Nat)]
    BY <1>1, <1>3
  <1>5. \A g \in Handles : \A i \in 1 .. Len(pageIds'[p][g]) :
           \/ /\ i \in 1 .. Len(pageIds[p][g])
              /\ pageIds'[p][g][i] = pageIds[p][g][i]
           \/ /\ g = h /\ i - old \in 1 .. count
              /\ pageIds'[p][g][i] = acquired[i - old]
    <2> SUFFICES ASSUME NEW g \in Handles, NEW i \in 1 .. Len(pageIds'[p][g])
                 PROVE  \/ /\ i \in 1 .. Len(pageIds[p][g])
                           /\ pageIds'[p][g][i] = pageIds[p][g][i]
                        \/ /\ g = h /\ i - old \in 1 .. count
                           /\ pageIds'[p][g][i] = acquired[i - old]
      OBVIOUS
    <2>1. CASE g # h
      BY <1>4, <2>1
    <2>2. CASE g = h
      <3>1. pageIds'[p][g] = more /\ i \in 1 .. n
        BY <1>3, <1>4, <2>2
      <3> HIDE DEF more
      <3>2. CASE i <= old
        BY ONLY <1>1, <1>3, <2>2, <3>1, <3>2 DEF ids, old
      <3>3. CASE i > old
        <4>1. i - old \in 1 .. count
          BY ONLY <1>1, <3>1, <3>3, n \in Nat DEF count
        <4>2. more[i] = acquired[i - old]
          BY ONLY <1>1, <1>3, <3>1, <3>3
        <4> QED BY ONLY <2>2, <3>1, <4>1, <4>2
      <3> QED BY <1>1, <3>1, <3>2, <3>3
    <2> QED BY <2>1, <2>2
  <1>6. PagesOf(acquired) = {acquired[i] : i \in 1 .. count}
    BY <1>1, <1>2 DEF PagesOf, PagesFrom
  <1>7. \A i, j \in 1 .. count : acquired[i] = acquired[j] => i = j
    <2> SUFFICES ASSUME NEW i \in 1 .. count, NEW j \in 1 .. count,
                        acquired[i] = acquired[j], i # j
                 PROVE  FALSE
      OBVIOUS
    <2>1. acquired[i] \in Nat /\ acquired[j] \in Nat
      BY <1>1
    <2>2. CASE i < j
      BY <2>1, <2>2
    <2>3. CASE j < i
      BY <2>1, <2>3
    <2> QED BY <1>1, <2>2, <2>3
  <1>8. PoolNotAliased(p)'
    <2>1. \A g \in Handles : \A i \in 1 .. Len(pageIds[p][g]) :
             pageIds[p][g][i] \in Page(p) \ free[p]
      BY DEF PoolInv, PoolNotAliased
    <2>2. \A i \in 1 .. count : acquired[i] \in Page(p) /\ acquired[i] \in free[p]
                                /\ acquired[i] \notin free'[p]
      BY <1>6 DEF PoolInv, PoolNotAliased
    <2>3. free'[p] \subseteq Page(p) /\ free'[p] \subseteq free[p]
      BY DEF PoolInv, PoolNotAliased
    <2>4. \A g \in Handles : \A i \in 1 .. Len(pageIds'[p][g]) :
             pageIds'[p][g][i] \in Page(p) \ free'[p]
      <3> SUFFICES ASSUME NEW g \in Handles, NEW i \in 1 .. Len(pageIds'[p][g])
                   PROVE  pageIds'[p][g][i] \in Page(p) \ free'[p]
        OBVIOUS
      <3>1. CASE /\ i \in 1 .. Len(pageIds[p][g])
                 /\ pageIds'[p][g][i] = pageIds[p][g][i]
        BY ONLY <2>1, <2>3, <3>1, g \in Handles
      <3>2. CASE /\ i - old \in 1 .. count
                 /\ pageIds'[p][g][i] = acquired[i - old]
        BY ONLY <2>2, <3>2
      <3> QED BY ONLY <1>5, <3>1, <3>2, g \in Handles, i \in 1 .. Len(pageIds'[p][g])
    <2>5. ASSUME NEW f \in Handles, NEW g \in Handles,
                 NEW i \in 1 .. Len(pageIds'[p][f]), NEW j \in 1 .. Len(pageIds'[p][g]),
                 pageIds'[p][f][i] = pageIds'[p][g][j]
          PROVE  f = g /\ i = j
      <3>1. i \in Int /\ j \in Int
        OBVIOUS
      <3>2. CASE /\ i \in 1 .. Len(pageIds[p][f]) /\ pageIds'[p][f][i] = pageIds[p][f][i]
                 /\ j \in 1 .. Len(pageIds[p][g]) /\ pageIds'[p][g][j] = pageIds[p][g][j]
        BY <2>5, <3>2 DEF PoolInv, PoolNotAliased
      <3>3. CASE /\ f = h /\ i - old \in 1 .. count /\ pageIds'[p][f][i] = acquired[i - old]
                 /\ g = h /\ j - old \in 1 .. count /\ pageIds'[p][g][j] = acquired[j - old]
        <4>1. i - old = j - old
          BY <2>5, <3>3, <1>7
        <4> QED BY <1>1, <3>1, <3>3, <4>1
      <3>4. CASE /\ i \in 1 .. Len(pageIds[p][f]) /\ pageIds'[p][f][i] = pageIds[p][f][i]
                 /\ g = h /\ j - old \in 1 .. count /\ pageIds'[p][g][j] = acquired[j - old]
        BY <2>1, <2>2, <2>5, <3>4
      <3>5. CASE /\ f = h /\ i - old \in 1 .. count /\ pageIds'[p][f][i] = acquired[i - old]
                 /\ j \in 1 .. Len(pageIds[p][g]) /\ pageIds'[p][g][j] = pageIds[p][g][j]
        BY <2>1, <2>2, <2>5, <3>5
      <3> QED BY ONLY <1>5, <2>5, <3>2, <3>3, <3>4, <3>5
    <2> QED BY <2>3, <2>4, <2>5 DEF PoolNotAliased, Page
  <1>9. Cardinality(free'[p]) = Cardinality(free[p]) - count
    <2>1. IsFiniteSet(free[p]) /\ Cardinality(free[p]) \in Nat
      BY FreeFinite DEF PoolInv
    <2>2. PagesOf(acquired) \subseteq free[p]
      BY <1>6
    <2>3. Cardinality(PagesOf(acquired)) = Len(acquired) - 0
      <3>1. \A i, j \in 1 .. Len(acquired) : acquired[i] = acquired[j] => i = j
        BY <1>2, <1>7
      <3>2. acquired \in Seq(free[p]) /\ 0 \in 0 .. Len(acquired)
        BY <1>1, <1>2
      <3> QED BY ONLY <3>1, <3>2, PagesFromCount DEF PagesOf
    <2>4. free[p] \cap PagesOf(acquired) = PagesOf(acquired)
      BY <2>2
    <2>5. Cardinality(free[p] \ PagesOf(acquired))
            = Cardinality(free[p]) - Cardinality(free[p] \cap PagesOf(acquired))
      BY <2>1, FS_Difference
    <2>6. Cardinality(free[p] \ PagesOf(acquired)) = Cardinality(free[p]) - (Len(acquired) - 0)
      BY ONLY <2>3, <2>4, <2>5
    <2>7. Cardinality(free'[p]) = Cardinality(free[p] \ PagesOf(acquired))
      OBVIOUS
    <2> HIDE DEF count
    <2> QED BY ONLY <1>1, <1>2, <2>1, <2>6, <2>7
  <1>p. ASSUME boundRow[p][h] # NoRow
        PROVE  LET row == table[p][boundRow[p][h]] IN
               /\ boundRow[p][h] \in Row /\ Len(row) = LogicalPageCapacity[p]
               /\ Len(table'[p][boundRow[p][h]]) = Len(row)
               /\ \A i \in 1 .. Len(row) : table'[p][boundRow[p][h]][i] =
                     IF i > old /\ i <= old + count THEN more[i] ELSE row[i]
    <2> DEFINE row == table[p][boundRow[p][h]]
    <2>1. boundRow[p][h] \in Row /\ table[p] \in [Row -> Seq(Nat)]
      BY <1>p DEF TypeOK
    <2>2. row \in Seq(Nat) /\ Len(row) = LogicalPageCapacity[p]
      BY <2>1 DEF PoolInv, PoolShape
    <2>3. table'[p][boundRow[p][h]] = PublishRange(row, more, old, count)
      BY <1>p, <2>1
    <2>4. /\ more \in Seq(Nat) /\ old \in Nat /\ count \in Nat
          /\ old + count <= Len(more)
      BY <1>1, <1>3
    <2> HIDE DEF row, more, old, count
    <2>5. /\ Len(PublishRange(row, more, old, count)) = Len(row)
          /\ \A i \in 1 .. Len(row) : PublishRange(row, more, old, count)[i] =
                IF i > old /\ i <= old + count THEN more[i] ELSE row[i]
      BY ONLY <2>2, <2>4, PublishRangeRow
    <2> QED BY ONLY <2>1, <2>2, <2>3, <2>5 DEF row
  <1>10. PoolShape(p)'
    <2>1. \A r \in Row : Len(table'[p][r]) = LogicalPageCapacity[p]
      <3>1. \A r \in Row : table[p][r] \in Seq(Nat)
                           /\ Len(table[p][r]) = LogicalPageCapacity[p]
        BY DEF TypeOK, PoolInv, PoolShape
      <3>2. table[p] \in [Row -> Seq(Nat)] /\ boundRow[p][h] \in Row \cup {NoRow}
        BY DEF TypeOK
      <3>3. CASE boundRow[p][h] = NoRow
        BY <3>1, <3>3
      <3>4. CASE boundRow[p][h] # NoRow
        <4>1. Len(table'[p][boundRow[p][h]]) = LogicalPageCapacity[p]
          BY <1>p, <3>4
        <4>2. \A r \in Row : r # boundRow[p][h] => table'[p][r] = table[p][r]
          BY <3>2, <3>4
        <4> QED BY ONLY <3>1, <4>1, <4>2
      <3> QED BY <3>3, <3>4
    <2>2. \A g \in Handles : Len(pageIds'[p][g]) <= entitlement[p][g]
      BY <1>3, <1>4 DEF PoolInv, PoolShape
    <2> QED BY <1>4, <2>1, <2>2 DEF PoolInv, PoolShape
  <1>11. PoolCountersExact(p)'
    <2>1. /\ n \in 0 .. LogicalPageCapacity[p]
          /\ entitlement[p][h] \in 0 .. LogicalPageCapacity[p]
          /\ entitled[p] \in Int /\ PageGroupCount[p] \in Int
      BY PoolAssumption DEF PoolInv, PoolShape, TypeOK
    <2>2. /\ \A g \in Handles :
                /\ entitlement'[p][g] = IF g = h THEN entitlement[p][h] ELSE entitlement[p][g]
                /\ Len(pageIds'[p][g]) = IF g = h THEN n ELSE Len(pageIds[p][g])
          /\ entitlement'[p] \in [Handles -> Nat]
      BY <1>3, <1>4 DEF TypeOK
    <2>3. /\ entitled'[p] = entitled[p] - entitlement[p][h] + entitlement[p][h]
          /\ entitlement[p][h] <= PageGroupCount[p] - (entitled[p] - entitlement[p][h])
      BY <2>1 DEF PoolInv, PoolCountersExact
    <2>4. CountersFollow(p, h, entitlement[p][h], n)
      BY <1>9, <2>2, <2>3 DEF CountersFollow
    <2> QED BY ONLY <2>1, <2>4, TypeOK, PoolInv(p), p \in Pools, h \in Handles, CountersAt
  <1>12. PoolPublished(p)'
    <2> SUFFICES ASSUME NEW g \in Handles, boundRow[p][g] # NoRow,
                        NEW i \in 1 .. Len(pageIds'[p][g])
                 PROVE  table'[p][boundRow[p][g]][i] = pageIds'[p][g][i]
      BY DEF PoolPublished
    <2>1. /\ table[p] \in [Row -> Seq(Nat)]
          /\ boundRow[p][g] \in Row /\ boundRow[p][h] \in Row \cup {NoRow}
      BY DEF TypeOK
    <2>2. CASE g = h
      <3>1. Len(table[p][boundRow[p][h]]) = LogicalPageCapacity[p]
        BY <1>p, <2>2
      <3>2. i \in 1 .. n /\ n <= LogicalPageCapacity[p]
        <4>1. pageIds'[p][g] = more /\ Len(more) = n
          BY <1>3, <1>4, <2>2
        <4>2. entitlement[p][h] <= LogicalPageCapacity[p] /\ entitlement[p][h] \in Nat
          BY DEF PoolInv, PoolShape, TypeOK
        <4>3. LogicalPageCapacity[p] \in Nat /\ n <= entitlement[p][h] /\ n \in Nat
          BY PoolAssumption
        <4>4. i \in 1 .. n
          BY ONLY <4>1, i \in 1 .. Len(pageIds'[p][g])
        <4> QED BY ONLY <4>2, <4>3, <4>4
      <3>3. i \in 1 .. Len(table[p][boundRow[p][h]])
        BY <3>1, <3>2, PoolAssumption
      <3>5. table'[p][boundRow[p][h]][i]
              = IF i > old /\ i <= old + count THEN more[i] ELSE table[p][boundRow[p][h]][i]
        BY <1>p, <2>2, <3>3
      <3>6. CASE i > old
        BY <1>1, <1>4, <2>2, <3>2, <3>5, <3>6
      <3>7. CASE i <= old
        <4>1. i \in 1 .. old /\ more[i] = ids[i]
          BY <1>1, <1>3, <3>2, <3>7
        <4>2. table[p][boundRow[p][h]][i] = ids[i]
          BY ONLY PoolInv(p), <2>2, <4>1, h \in Handles, boundRow[p][g] # NoRow
          DEF PoolInv, PoolPublished, ids, old
        <4> QED BY <1>1, <1>4, <2>2, <3>5, <3>7, <4>1, <4>2
      <3> QED BY <1>1, <3>2, <3>6, <3>7
    <2>3. CASE g # h
      <3>1. pageIds'[p][g] = pageIds[p][g]
        BY <1>4, <2>3
      <3>2. boundRow[p][g] # boundRow[p][h]
        BY <2>3 DEF PoolInv, PoolRowsExclusive
      <3>3. table'[p][boundRow[p][g]] = table[p][boundRow[p][g]]
        BY <2>1, <3>2
      <3>4. i \in 1 .. Len(pageIds[p][g])
        BY <3>1
      <3>5. table[p][boundRow[p][g]][i] = pageIds[p][g][i]
        BY ONLY PoolInv(p), <3>4, g \in Handles, boundRow[p][g] # NoRow
        DEF PoolInv, PoolPublished
      <3> QED BY ONLY <3>1, <3>3, <3>5
    <2> QED BY <2>2, <2>3
  <1>13. PoolRowsExclusive(p)'
    BY DEF PoolInv, PoolRowsExclusive
  <1> QED BY <1>8, <1>10, <1>11, <1>12, <1>13 DEF PoolInv

\* Binding a free row publishes the whole mapping in it.
LEMMA BindAt ==
    ASSUME NEW p \in Pools, NEW h \in Handles, NEW r \in Row, TypeOK, PoolInv(p),
           h \in live[p], boundRow[p][h] = NoRow, ~rowInUse[p][r],
           rowInUse'[p] = [rowInUse[p] EXCEPT ![r] = TRUE],
           boundRow'[p] = [boundRow[p] EXCEPT ![h] = r],
           table'[p] = [table[p] EXCEPT ![r] =
                PublishRange(table[p][r], pageIds[p][h], 0, Len(pageIds[p][h]))],
           UNCHANGED <<free[p], mapped[p], entitled[p], live[p], entitlement[p],
                       pageIds[p]>>
    PROVE  PoolInv(p)'
  <1> DEFINE ids == pageIds[p][h]
             row == table[p][r]
             q == PublishRange(row, ids, 0, Len(ids))
  <1>1. /\ ids \in Seq(Nat) /\ row \in Seq(Nat) /\ Len(ids) \in Nat
        /\ table[p] \in [Row -> Seq(Nat)] /\ boundRow[p] \in [Handles -> Row \cup {NoRow}]
        /\ rowInUse[p] \in [Row -> BOOLEAN]
    BY DEF TypeOK
  <1>2. /\ Len(row) = LogicalPageCapacity[p] /\ Len(ids) <= Len(row)
        /\ LogicalPageCapacity[p] \in Nat
    <2>1. entitlement[p][h] \in Nat /\ LogicalPageCapacity[p] \in Nat
      BY PoolAssumption DEF TypeOK
    <2> QED BY <1>1, <2>1 DEF PoolInv, PoolShape
  <1>3. 0 \in Nat /\ 0 + Len(ids) <= Len(ids)
    BY <1>1
  <1>4. NoRow \notin Row
    BY DEF NoRow, Row
  <1> HIDE DEF ids, row
  <1>5. /\ Len(q) = Len(row)
        /\ \A i \in 1 .. Len(row) : q[i] =
              IF i > 0 /\ i <= 0 + Len(ids) THEN ids[i] ELSE row[i]
    BY ONLY <1>1, <1>3, PublishRangeRow DEF q
  <1>6. \A i \in 1 .. Len(ids) : q[i] = ids[i]
    BY ONLY <1>1, <1>2, <1>5
  <1>7. /\ table'[p][r] = q
        /\ \A t \in Row : t # r => table'[p][t] = table[p][t]
    BY <1>1 DEF ids, row
  <1>8. /\ boundRow'[p][h] = r
        /\ \A g \in Handles : g # h => boundRow'[p][g] = boundRow[p][g]
        /\ rowInUse'[p][r] = TRUE
        /\ \A t \in Row : t # r => rowInUse'[p][t] = rowInUse[p][t]
    BY <1>1
  <1>9. \A g \in Handles : g # h => boundRow[p][g] # r
    BY <1>4 DEF PoolInv, PoolRowsExclusive
  <1> HIDE DEF q
  <1>10. PoolShape(p)'
    <2>1. \A t \in Row : Len(table'[p][t]) = LogicalPageCapacity[p]
      BY <1>2, <1>5, <1>7 DEF PoolInv, PoolShape
    <2>2. \A g \in Handles : g \notin live[p] => boundRow'[p][g] = NoRow
      BY <1>8 DEF PoolInv, PoolShape
    <2> QED BY <2>1, <2>2 DEF PoolInv, PoolShape
  <1>11. PoolNotAliased(p)' /\ PoolCountersExact(p)'
    BY DEF PoolInv, PoolNotAliased, PoolCountersExact, MappedCount
  <1>12. PoolPublished(p)'
    <2> SUFFICES ASSUME NEW g \in Handles, boundRow'[p][g] # NoRow,
                        NEW i \in 1 .. Len(pageIds[p][g])
                 PROVE  table'[p][boundRow'[p][g]][i] = pageIds[p][g][i]
      BY DEF PoolPublished
    <2>1. CASE g = h
      BY <1>6, <1>7, <1>8, <2>1 DEF ids
    <2>2. CASE g # h
      <3>1. boundRow'[p][g] = boundRow[p][g] /\ boundRow[p][g] \in Row
        BY <1>1, <1>8, <2>2
      <3>2. table'[p][boundRow[p][g]] = table[p][boundRow[p][g]]
        BY <1>7, <1>9, <2>2, <3>1
      <3>3. table[p][boundRow[p][g]][i] = pageIds[p][g][i]
        BY <3>1 DEF PoolInv, PoolPublished
      <3> QED BY ONLY <3>1, <3>2, <3>3
    <2> QED BY <2>1, <2>2
  <1>13. PoolRowsExclusive(p)'
    <2>1. \A t \in Row : rowInUse'[p][t] => \E g \in Handles : boundRow'[p][g] = t
      <3> SUFFICES ASSUME NEW t \in Row, rowInUse'[p][t]
                   PROVE  \E g \in Handles : boundRow'[p][g] = t
        OBVIOUS
      <3>1. CASE t = r
        BY <1>8, <3>1
      <3>2. CASE t # r
        <4>1. PICK g \in Handles : boundRow[p][g] = t
          BY <1>8, <3>2 DEF PoolInv, PoolRowsExclusive
        <4>2. g # h
          BY <1>4, <4>1
        <4> QED BY <1>8, <4>1, <4>2
      <3> QED BY <3>1, <3>2
    <2>2. \A g \in Handles : boundRow'[p][g] # NoRow => rowInUse'[p][boundRow'[p][g]]
      BY <1>1, <1>8, <1>9 DEF PoolInv, PoolRowsExclusive
    <2>3. \A f, g \in Handles :
             boundRow'[p][f] = boundRow'[p][g] /\ boundRow'[p][f] # NoRow => f = g
      BY <1>8, <1>9 DEF PoolInv, PoolRowsExclusive
    <2> QED BY <2>1, <2>2, <2>3 DEF PoolRowsExclusive
  <1> QED BY <1>10, <1>11, <1>12, <1>13 DEF PoolInv

\* Unbinding leaves the other rows as they are.
LEMMA UnbindAt ==
    ASSUME NEW p \in Pools, NEW h \in Handles, TypeOK, PoolInv(p),
           h \in live[p], boundRow[p][h] # NoRow,
           rowInUse'[p] = [rowInUse[p] EXCEPT ![boundRow[p][h]] = FALSE],
           boundRow'[p] = [boundRow[p] EXCEPT ![h] = NoRow],
           UNCHANGED <<free[p], mapped[p], entitled[p], table[p], live[p],
                       entitlement[p], pageIds[p]>>
    PROVE  PoolInv(p)'
  <1>1. /\ boundRow[p] \in [Handles -> Row \cup {NoRow}]
        /\ rowInUse[p] \in [Row -> BOOLEAN] /\ boundRow[p][h] \in Row
    BY DEF TypeOK
  <1>2. /\ boundRow'[p][h] = NoRow
        /\ \A g \in Handles : g # h => boundRow'[p][g] = boundRow[p][g]
        /\ ~ rowInUse'[p][boundRow[p][h]]
        /\ \A t \in Row : t # boundRow[p][h] => rowInUse'[p][t] = rowInUse[p][t]
    BY <1>1
  <1>3. PoolShape(p)'
    BY <1>2 DEF PoolInv, PoolShape
  <1>4. PoolNotAliased(p)' /\ PoolCountersExact(p)'
    BY DEF PoolInv, PoolNotAliased, PoolCountersExact, MappedCount
  <1>5. PoolPublished(p)'
    BY <1>2 DEF PoolInv, PoolPublished
  <1>6. PoolRowsExclusive(p)'
    <2>1. \A t \in Row : rowInUse'[p][t] => \E g \in Handles : boundRow'[p][g] = t
      <3> SUFFICES ASSUME NEW t \in Row, rowInUse'[p][t]
                   PROVE  \E g \in Handles : boundRow'[p][g] = t
        OBVIOUS
      <3>1. t # boundRow[p][h] /\ rowInUse[p][t]
        BY <1>2
      <3>2. PICK g \in Handles : boundRow[p][g] = t
        BY <3>1 DEF PoolInv, PoolRowsExclusive
      <3> QED BY <1>2, <3>1, <3>2
    <2>2. \A g \in Handles : boundRow'[p][g] # NoRow => rowInUse'[p][boundRow'[p][g]]
      BY <1>1, <1>2 DEF PoolInv, PoolRowsExclusive
    <2>3. \A f, g \in Handles :
             boundRow'[p][f] = boundRow'[p][g] /\ boundRow'[p][f] # NoRow => f = g
      BY <1>2 DEF PoolInv, PoolRowsExclusive
    <2> QED BY <2>1, <2>2, <2>3 DEF PoolRowsExclusive
  <1> QED BY <1>3, <1>4, <1>5, <1>6 DEF PoolInv

\* Handing one handle's share to another that gives up its own.
LEMMA TotalMove ==
    ASSUME NEW p \in Pools, NEW a \in Handles, NEW b \in Handles, a # b,
           NEW f \in [Handles -> 0 .. LogicalPageCapacity[p]],
           NEW g \in [Handles -> 0 .. LogicalPageCapacity[p]],
           \A k \in Handles : g[k] = IF k = a THEN 0 ELSE IF k = b THEN f[a] ELSE f[k]
    PROVE  Total(p, g) = Total(p, f) - f[b]
  <1> DEFINE m == [f EXCEPT ![b] = f[a]]
  <1>1. /\ m \in [Handles -> 0 .. LogicalPageCapacity[p]]
        /\ \A k \in Handles : k # b => m[k] = f[k]
        /\ m[b] = f[a] /\ m[a] = f[a] /\ g[a] = 0
        /\ \A k \in Handles : k # a => g[k] = m[k]
    OBVIOUS
  <1> HIDE DEF m
  <1>2. Total(p, m) = Total(p, f) - f[b] + m[b]
    BY ONLY <1>1, p \in Pools, b \in Handles, TotalUpdate,
            f \in [Handles -> 0 .. LogicalPageCapacity[p]]
  <1>3. Total(p, g) = Total(p, m) - m[a] + g[a]
    BY ONLY <1>1, p \in Pools, a \in Handles, TotalUpdate,
            g \in [Handles -> 0 .. LogicalPageCapacity[p]]
  <1>4. Total(p, f) \in Nat /\ f[a] \in Nat /\ f[b] \in Nat
    BY UnitsFinite, PoolAssumption
  <1> QED BY ONLY <1>1, <1>2, <1>3, <1>4

\* A step that returns the pages and the row of handle h and lets the handles of
\* K carry on with the allocations of the handles s names: release (s is the
\* identity) and the move assignment (s names the source for the target).
Renamed(p, h, K, s) ==
    /\ K \subseteq Handles
    /\ s \in [Handles -> Handles]
    /\ \A g \in K : s[g] # h
    /\ \A f, g \in K : s[f] = s[g] => f = g
    /\ \A g \in Handles : g # h => \E f \in K : s[f] = g
    /\ \A g \in K : /\ pageIds'[p][g] = pageIds[p][s[g]]
                    /\ entitlement'[p][g] = entitlement[p][s[g]]
                    /\ boundRow'[p][g] = boundRow[p][s[g]]
                    /\ g \in live'[p] <=> s[g] \in live[p]
    /\ \A g \in Handles \ K : /\ pageIds'[p][g] = <<>>
                              /\ entitlement'[p][g] = 0
                              /\ boundRow'[p][g] = NoRow
    /\ free'[p] = free[p] \cup PagesOf(pageIds[p][h])
    /\ \A r \in Row : rowInUse'[p][r] <=> rowInUse[p][r] /\ r # boundRow[p][h]
    /\ table'[p] = table[p]

\* The counters such a step leaves, when they fall by what handle h held.
Returned(p, h) ==
    /\ entitled'[p] = entitled[p] - entitlement[p][h]
    /\ mapped'[p] = mapped[p] - Len(pageIds[p][h])
    /\ Total(p, entitlement'[p]) = Total(p, entitlement[p]) - entitlement[p][h]
    /\ Total(p, [g \in Handles |-> Len(pageIds'[p][g])])
         = Total(p, MappedCount(p)) - Len(pageIds[p][h])

\* Such a step keeps the invariant.
LEMMA ReturnAt ==
    ASSUME NEW p \in Pools, NEW h \in Handles, TypeOK, PoolInv(p),
           NEW K, NEW s, Renamed(p, h, K, s), Returned(p, h)
    PROVE  PoolInv(p)'
  <1>1. /\ pageIds[p] \in [Handles -> Seq(Nat)]
        /\ boundRow[p] \in [Handles -> Row \cup {NoRow}]
        /\ \A g \in Handles : Len(pageIds[p][g]) \in Nat
        /\ LogicalPageCapacity[p] \in Nat
    BY PoolAssumption DEF TypeOK
  <1>2. /\ \A g \in Handles : g \in K => s[g] \in Handles /\ s[g] # h
        /\ \A g \in Handles : g \notin K =>
              /\ pageIds'[p][g] = <<>> /\ entitlement'[p][g] = 0
              /\ boundRow'[p][g] = NoRow
        /\ \A g \in Handles : g \in K =>
              /\ pageIds'[p][g] = pageIds[p][s[g]]
              /\ entitlement'[p][g] = entitlement[p][s[g]]
              /\ boundRow'[p][g] = boundRow[p][s[g]]
              /\ g \in live'[p] <=> s[g] \in live[p]
    BY DEF Renamed
  <1>3. \A g \in Handles : \A i \in 1 .. Len(pageIds'[p][g]) : g \in K
    BY <1>2
  <1>4. PoolShape(p)'
    <2>1. table'[p] = table[p]
      BY DEF Renamed
    <2>2. ASSUME NEW g \in Handles
          PROVE  /\ entitlement'[p][g] <= LogicalPageCapacity[p]
                 /\ Len(pageIds'[p][g]) <= entitlement'[p][g]
      <3>1. CASE g \in K
        <4>1. s[g] \in Handles /\ pageIds'[p][g] = pageIds[p][s[g]]
              /\ entitlement'[p][g] = entitlement[p][s[g]]
          BY <1>2, <3>1
        <4>2. /\ entitlement[p][s[g]] <= LogicalPageCapacity[p]
              /\ Len(pageIds[p][s[g]]) <= entitlement[p][s[g]]
          BY <4>1 DEF PoolInv, PoolShape
        <4> QED BY ONLY <4>1, <4>2
      <3>2. CASE g \notin K
        BY <1>1, <1>2, <3>2
      <3> QED BY <3>1, <3>2
    <2>3. \A g \in Handles : g \notin live'[p] =>
            /\ entitlement'[p][g] = 0 /\ pageIds'[p][g] = <<>> /\ boundRow'[p][g] = NoRow
      BY <1>2 DEF PoolInv, PoolShape
    <2> QED BY <2>1, <2>2, <2>3 DEF PoolInv, PoolShape
  <1>5. PoolNotAliased(p)'
    <2>0. free'[p] = free[p] \cup PagesFrom(pageIds[p][h], 0)
      BY DEF Renamed, PagesOf
    <2>1. free'[p] \subseteq Page(p)
      <3>1. 0 \in 0 .. Len(pageIds[p][h])
        BY <1>1
      <3>2. PagesFrom(pageIds[p][h], 0) \subseteq Page(p)
        BY ONLY <3>1, TypeOK, PoolInv(p), p \in Pools, h \in Handles, ReturnCount
      <3> QED BY <2>0, <3>2 DEF PoolInv, PoolNotAliased
    <2>2. ASSUME NEW g \in Handles, NEW i \in 1 .. Len(pageIds'[p][g])
          PROVE  pageIds'[p][g][i] \in Page(p) \ free'[p]
      <3>1. /\ s[g] \in Handles /\ s[g] # h /\ i \in 1 .. Len(pageIds[p][s[g]])
            /\ pageIds'[p][g][i] = pageIds[p][s[g]][i]
        BY <1>2, <1>3
      <3>2. pageIds[p][s[g]][i] \in Page(p) \ free[p]
        BY <3>1 DEF PoolInv, PoolNotAliased
      <3>3. ASSUME pageIds[p][s[g]][i] \in PagesFrom(pageIds[p][h], 0) PROVE FALSE
        <4>1. PICK j \in 1 .. Len(pageIds[p][h]) : pageIds[p][s[g]][i] = pageIds[p][h][j]
          <5>1. 0 + 1 .. Len(pageIds[p][h]) = 1 .. Len(pageIds[p][h])
            OBVIOUS
          <5> QED BY ONLY <3>3, <5>1 DEF PagesFrom
        <4>2. s[g] = h
          BY ONLY PoolInv(p), <3>1, <4>1, h \in Handles DEF PoolInv, PoolNotAliased
        <4> QED BY ONLY <3>1, <4>2
      <3> QED BY <2>0, <3>1, <3>2, <3>3
    <2>3. ASSUME NEW f \in Handles, NEW g \in Handles,
                 NEW i \in 1 .. Len(pageIds'[p][f]), NEW j \in 1 .. Len(pageIds'[p][g]),
                 pageIds'[p][f][i] = pageIds'[p][g][j]
          PROVE  f = g /\ i = j
      <3>1. /\ f \in K /\ s[f] \in Handles /\ i \in 1 .. Len(pageIds[p][s[f]])
            /\ g \in K /\ s[g] \in Handles /\ j \in 1 .. Len(pageIds[p][s[g]])
            /\ pageIds[p][s[f]][i] = pageIds[p][s[g]][j]
        BY <1>2, <1>3, <2>3
      <3>2. s[f] = s[g] /\ i = j
        BY <3>1 DEF PoolInv, PoolNotAliased
      <3> QED BY <3>1, <3>2 DEF Renamed
    <2> QED BY <2>1, <2>2, <2>3 DEF PoolNotAliased, Page
  <1>6. PoolCountersExact(p)'
    <2>1. 0 \in 0 .. Len(pageIds[p][h])
      BY <1>1
    <2>2. Cardinality(free[p] \cup PagesFrom(pageIds[p][h], 0))
            = Cardinality(free[p]) + (Len(pageIds[p][h]) - 0)
      BY ONLY <2>1, TypeOK, PoolInv(p), p \in Pools, h \in Handles, ReturnCount
    <2>3. Cardinality(free'[p]) = Cardinality(free[p]) + (Len(pageIds[p][h]) - 0)
      BY <2>2 DEF Renamed, PagesOf
    <2>4. /\ entitled[p] \in Int /\ mapped[p] \in Int /\ Cardinality(free[p]) \in Nat
          /\ entitlement[p][h] \in Nat /\ PageGroupCount[p] \in Nat
      BY FreeFinite, PoolAssumption DEF TypeOK, PoolInv
    <2>5. /\ entitled'[p] = Total(p, entitlement'[p])
          /\ entitled'[p] <= PageGroupCount[p]
      BY <2>4 DEF Returned, PoolInv, PoolCountersExact
    <2>6. mapped'[p] = Total(p, [g \in Handles |-> Len(pageIds'[p][g])])
      BY DEF Returned, PoolInv, PoolCountersExact
    <2>7. Cardinality(free'[p]) + mapped'[p] = PageGroupCount[p]
      <3>1. mapped'[p] = mapped[p] - Len(pageIds[p][h])
        BY DEF Returned
      <3>2. Cardinality(free[p]) + mapped[p] = PageGroupCount[p]
        BY DEF PoolInv, PoolCountersExact
      <3>3. Len(pageIds[p][h]) \in Nat
        BY <1>1
      <3> QED BY ONLY <2>3, <2>4, <3>1, <3>2, <3>3
    <2> QED BY <2>5, <2>6, <2>7 DEF PoolCountersExact, MappedCount
  <1>7. PoolPublished(p)'
    <2> SUFFICES ASSUME NEW g \in Handles, boundRow'[p][g] # NoRow,
                        NEW i \in 1 .. Len(pageIds'[p][g])
                 PROVE  table'[p][boundRow'[p][g]][i] = pageIds'[p][g][i]
      BY DEF PoolPublished
    <2>1. /\ s[g] \in Handles /\ i \in 1 .. Len(pageIds[p][s[g]])
          /\ pageIds'[p][g] = pageIds[p][s[g]] /\ boundRow'[p][g] = boundRow[p][s[g]]
      BY <1>2, <1>3
    <2>2. table[p][boundRow[p][s[g]]][i] = pageIds[p][s[g]][i]
      BY <2>1 DEF PoolInv, PoolPublished
    <2> QED BY <2>1, <2>2 DEF Renamed
  <1>8. PoolRowsExclusive(p)'
    <2>1. \A r \in Row : rowInUse'[p][r] <=> rowInUse[p][r] /\ r # boundRow[p][h]
      BY DEF Renamed
    <2>2. ASSUME NEW r \in Row, rowInUse'[p][r]
          PROVE  \E g \in Handles : boundRow'[p][g] = r
      <3>1. PICK g \in Handles : boundRow[p][g] = r
        BY <2>1, <2>2 DEF PoolInv, PoolRowsExclusive
      <3>2. g # h
        BY <2>1, <2>2, <3>1
      <3>3. PICK f \in K : s[f] = g
        BY <3>2 DEF Renamed
      <3>4. f \in Handles
        BY DEF Renamed
      <3> QED BY <1>2, <3>1, <3>3, <3>4
    <2>3. ASSUME NEW g \in Handles, boundRow'[p][g] # NoRow
          PROVE  rowInUse'[p][boundRow'[p][g]]
      <3>1. /\ s[g] \in Handles /\ s[g] # h /\ boundRow'[p][g] = boundRow[p][s[g]]
        BY <1>2, <2>3
      <3>2. boundRow[p][s[g]] \in Row
        BY <1>1, <2>3, <3>1
      <3>3. rowInUse[p][boundRow[p][s[g]]]
        BY <2>3, <3>1 DEF PoolInv, PoolRowsExclusive
      <3>4. boundRow[p][s[g]] # boundRow[p][h]
        BY <2>3, <3>1 DEF PoolInv, PoolRowsExclusive
      <3> QED BY <2>1, <3>1, <3>2, <3>3, <3>4
    <2>4. ASSUME NEW f \in Handles, NEW g \in Handles,
                 boundRow'[p][f] = boundRow'[p][g], boundRow'[p][f] # NoRow
          PROVE  f = g
      <3>1. /\ f \in K /\ s[f] \in Handles /\ boundRow'[p][f] = boundRow[p][s[f]]
            /\ g \in K /\ s[g] \in Handles /\ boundRow'[p][g] = boundRow[p][s[g]]
        BY <1>2, <2>4
      <3>2. boundRow[p][s[f]] = boundRow[p][s[g]] /\ boundRow[p][s[f]] # NoRow
        BY ONLY <2>4, <3>1
      <3>3. s[f] = s[g]
        BY ONLY PoolInv(p), <3>1, <3>2 DEF PoolInv, PoolRowsExclusive
      <3> QED BY <3>1, <3>3 DEF Renamed
    <2> QED BY <2>2, <2>3, <2>4 DEF PoolRowsExclusive
  <1> QED BY <1>4, <1>5, <1>6, <1>7, <1>8 DEF PoolInv

\* An allocation's entitlement is part of the pool's, so it can be replaced by
\* itself or by anything smaller.
LEMMA EntitlementRoom ==
    ASSUME NEW p \in Pools, NEW h \in Handles, TypeOK, PoolInv(p)
    PROVE  /\ Len(pageIds[p][h]) <= entitlement[p][h]
           /\ \A n \in Nat : n <= entitlement[p][h] =>
                 CanReplaceEntitlement(p, entitlement[p][h], n)
  <1>1. /\ entitlement[p][h] \in Nat /\ entitled[p] \in Int
        /\ LogicalPageCapacity[p] \in Nat /\ PageGroupCount[p] \in Nat
    BY PoolAssumption DEF TypeOK
  <1>2. /\ entitled[p] = Total(p, entitlement[p]) /\ entitled[p] <= PageGroupCount[p]
        /\ entitlement[p][h] <= LogicalPageCapacity[p]
        /\ Len(pageIds[p][h]) <= entitlement[p][h]
    BY DEF PoolInv, PoolCountersExact, PoolShape
  <1>3. entitlement[p] \in [Handles -> 0 .. LogicalPageCapacity[p]]
    BY CountTypes DEF PoolInv
  <1>4. entitlement[p][h] <= Total(p, entitlement[p])
    BY ONLY <1>3, p \in Pools, h \in Handles, TotalUpdate
  <1> QED BY <1>1, <1>2, <1>4 DEF CanReplaceEntitlement

-----------------------------------------------------------------------------
(***************************************************************************)
(* Every step keeps the inductive invariant: one lemma per action.         *)
(***************************************************************************)

\* What a bundle asks of a pool is a number of pages.
LEMMA CountsNat ==
    ASSUME NEW S \in SUBSET Pools, NEW c \in Counts(S)
    PROVE  DOMAIN c = S /\ \A p \in S : c[p] \in Nat
  <1>1. \A p \in Pools : 0 .. LogicalPageCapacity[p] \subseteq Nat
    BY PoolAssumption
  <1> QED BY <1>1 DEF Counts

\* reserve_paged_kv_bundle.
LEMMA ReserveStep ==
    ASSUME IInv, NEW h \in Handles, NEW S \in SUBSET Pools, NEW req \in Counts(S),
           ReserveBundle(h, req)
    PROVE  IInv'
  <1>1. DOMAIN req = S /\ \A p \in S : req[p] \in Nat
    BY CountsNat
  <1>2. TypeOK'
    BY <1>1 DEF IInv, TypeOK, ReserveBundle
  <1>3. EntitlementHonoured'
    BY DEF IInv, EntitlementHonoured, ReserveBundle
  <1>4. ASSUME NEW p \in Pools PROVE PoolInv(p)'
    <2>1. CASE p \in S
      <3>1. /\ h \notin live[p] /\ CanReserve(p, req[p])
            /\ entitled'[p] = entitled[p] + req[p]
            /\ live'[p] = live[p] \cup {h}
            /\ entitlement'[p] = [entitlement[p] EXCEPT ![h] = req[p]]
            /\ UNCHANGED <<free[p], mapped[p], rowInUse[p], table[p], pageIds[p],
                           boundRow[p]>>
        BY <1>1, <2>1 DEF ReserveBundle, BundleFits
      <3>2. req[p] \in Nat /\ TypeOK /\ PoolInv(p)
        BY <1>1, <2>1 DEF IInv
      <3> QED BY ONLY <3>1, <3>2, p \in Pools, h \in Handles, ReserveAt
    <2>2. CASE p \notin S
      <3>1. UNCHANGED PoolVars(p)
        BY <1>1, <2>2 DEF ReserveBundle, PoolVars
      <3>2. PoolInv(p)
        BY DEF IInv
      <3> QED BY ONLY <3>1, <3>2, p \in Pools, PoolFrame
    <2> QED BY <2>1, <2>2
  <1> QED BY <1>2, <1>3, <1>4 DEF IInv

\* resize_paged_kv_bundle.
LEMMA ResizeStep ==
    ASSUME IInv, NEW h \in Handles, NEW S \in SUBSET Pools,
           NEW keep \in Counts(S), NEW ent \in Counts(S), ResizeBundle(h, keep, ent)
    PROVE  IInv'
  <1>1. /\ DOMAIN keep = S /\ \A p \in S : keep[p] \in Nat
        /\ \A p \in S : ent[p] \in Nat
    BY CountsNat
  <1>2. \A p \in S : /\ h \in live[p] /\ keep[p] <= ent[p]
                     /\ keep[p] <= Len(pageIds[p][h])
                     /\ CanReplaceEntitlement(p, entitlement[p][h], ent[p])
    BY <1>1 DEF ResizeBundle
  <1>3. \A p \in S : keep[p] \in 0 .. Len(pageIds[p][h])
    BY <1>1, <1>2 DEF IInv, TypeOK
  <1>4. \A p \in Pools : free'[p] \subseteq Nat /\ pageIds'[p] \in [Handles -> Seq(Nat)]
    <2> SUFFICES ASSUME NEW p \in Pools
                 PROVE  free'[p] \subseteq Nat /\ pageIds'[p] \in [Handles -> Seq(Nat)]
      OBVIOUS
    <2>1. free[p] \subseteq Nat /\ pageIds[p] \in [Handles -> Seq(Nat)]
      BY DEF IInv, TypeOK
    <2>2. CASE p \in S
      <3>1. /\ free'[p] = free[p] \cup PagesFrom(pageIds[p][h], keep[p])
            /\ pageIds'[p] = [pageIds[p] EXCEPT ![h] = SubSeq(pageIds[p][h], 1, keep[p])]
        BY <1>1, <2>2 DEF ResizeBundle
      <3>2. PagesFrom(pageIds[p][h], keep[p]) \subseteq Nat
        BY <1>1, <2>1, <2>2 DEF PagesFrom
      <3>3. SubSeq(pageIds[p][h], 1, keep[p]) \in Seq(Nat)
        BY <1>3, <2>1, <2>2
      <3> QED BY <2>1, <3>1, <3>2, <3>3
    <2>3. CASE p \notin S
      BY <1>1, <2>1, <2>3 DEF ResizeBundle
    <2> QED BY <2>2, <2>3
  <1>5. TypeOK'
    <2>1. free' \in [Pools -> SUBSET Nat] /\ pageIds' \in [Pools -> [Handles -> Seq(Nat)]]
      BY <1>4 DEF ResizeBundle
    <2>2. mapped' \in [Pools -> Int]
      BY <1>1 DEF ResizeBundle, IInv, TypeOK
    <2>3. entitled' \in [Pools -> Int] /\ entitlement' \in [Pools -> [Handles -> Nat]]
      BY <1>1 DEF ResizeBundle, IInv, TypeOK
    <2> QED BY <2>1, <2>2, <2>3 DEF ResizeBundle, IInv, TypeOK
  <1>6. EntitlementHonoured'
    BY DEF IInv, EntitlementHonoured, ResizeBundle
  <1>7. ASSUME NEW p \in Pools PROVE PoolInv(p)'
    <2>1. CASE p \in S
      <3>1. /\ free'[p] = free[p] \cup PagesFrom(pageIds[p][h], keep[p])
            /\ mapped'[p] = mapped[p] - (Len(pageIds[p][h]) - keep[p])
            /\ pageIds'[p] = [pageIds[p] EXCEPT ![h] = SubSeq(pageIds[p][h], 1, keep[p])]
            /\ entitled'[p] = entitled[p] - entitlement[p][h] + ent[p]
            /\ entitlement'[p] = [entitlement[p] EXCEPT ![h] = ent[p]]
            /\ UNCHANGED <<rowInUse[p], table[p], live[p], boundRow[p]>>
        BY <1>1, <2>1 DEF ResizeBundle
      <3>2. /\ h \in live[p] /\ keep[p] <= ent[p]
            /\ CanReplaceEntitlement(p, entitlement[p][h], ent[p])
            /\ keep[p] \in 0 .. Len(pageIds[p][h]) /\ ent[p] \in Nat
        BY <1>1, <1>2, <1>3, <2>1
      <3>3. TypeOK /\ PoolInv(p)
        BY DEF IInv
      <3> QED BY ONLY <3>1, <3>2, <3>3, p \in Pools, h \in Handles, ResizeAt
    <2>2. CASE p \notin S
      <3>1. UNCHANGED PoolVars(p)
        BY <1>1, <2>2 DEF ResizeBundle, PoolVars
      <3>2. PoolInv(p)
        BY DEF IInv
      <3> QED BY ONLY <3>1, <3>2, p \in Pools, PoolFrame
    <2> QED BY <2>1, <2>2
  <1> QED BY <1>5, <1>6, <1>7 DEF IInv

\* trim_pages.
LEMMA TrimStep ==
    ASSUME IInv, NEW p \in Pools, NEW h \in Handles, NEW n \in Nat, TrimPages(p, h, n)
    PROVE  IInv'
  <1>1. /\ free[p] \subseteq Nat /\ pageIds[p] \in [Handles -> Seq(Nat)]
        /\ pageIds[p][h] \in Seq(Nat) /\ Len(pageIds[p][h]) \in Nat
        /\ entitlement[p] \in [Handles -> Nat] /\ entitlement[p][h] \in Nat
        /\ entitled[p] \in Int /\ mapped[p] \in Int
        /\ free \in [Pools -> SUBSET Nat] /\ mapped \in [Pools -> Int]
        /\ pageIds \in [Pools -> [Handles -> Seq(Nat)]]
    BY DEF IInv, TypeOK
  <1>2. n \in 0 .. Len(pageIds[p][h]) /\ h \in live[p]
    BY <1>1 DEF TrimPages
  <1>3. /\ PagesFrom(pageIds[p][h], n) \subseteq Nat
        /\ SubSeq(pageIds[p][h], 1, n) \in Seq(Nat)
    BY <1>1, <1>2 DEF PagesFrom
  <1>4. TypeOK'
    <2>1. free' \in [Pools -> SUBSET Nat]
      BY <1>1, <1>3 DEF TrimPages
    <2>2. pageIds' \in [Pools -> [Handles -> Seq(Nat)]]
      BY <1>1, <1>3 DEF TrimPages
    <2>3. mapped' \in [Pools -> Int]
      BY <1>1 DEF TrimPages
    <2> QED BY <2>1, <2>2, <2>3 DEF TrimPages, IInv, TypeOK
  <1>5. EntitlementHonoured'
    BY DEF IInv, EntitlementHonoured, TrimPages
  <1>6. TypeOK /\ PoolInv(p)
    BY DEF IInv
  <1>7. /\ free'[p] = free[p] \cup PagesFrom(pageIds[p][h], n)
        /\ mapped'[p] = mapped[p] - (Len(pageIds[p][h]) - n)
        /\ pageIds'[p] = [pageIds[p] EXCEPT ![h] = SubSeq(pageIds[p][h], 1, n)]
        /\ UNCHANGED <<rowInUse[p], table[p], live[p], boundRow[p]>>
    BY <1>1 DEF TrimPages
  <1>8. /\ entitled'[p] = entitled[p] - entitlement[p][h] + entitlement[p][h]
        /\ entitlement'[p] = [entitlement[p] EXCEPT ![h] = entitlement[p][h]]
    <2>1. entitlement' = entitlement /\ entitled' = entitled
      BY DEF TrimPages
    <2>2. entitlement[p] = [entitlement[p] EXCEPT ![h] = entitlement[p][h]]
      BY ONLY <1>1
    <2> QED BY ONLY <1>1, <2>1, <2>2
  <1>9. n <= entitlement[p][h] /\ CanReplaceEntitlement(p, entitlement[p][h], entitlement[p][h])
    <2>1. /\ Len(pageIds[p][h]) <= entitlement[p][h]
          /\ \A m \in Nat : m <= entitlement[p][h] =>
                CanReplaceEntitlement(p, entitlement[p][h], m)
      BY ONLY <1>6, p \in Pools, h \in Handles, EntitlementRoom
    <2> QED BY ONLY <1>1, <1>2, <2>1
  <1>10. PoolInv(p)'
    BY ONLY <1>1, <1>2, <1>6, <1>7, <1>8, <1>9, p \in Pools, h \in Handles, ResizeAt
  <1>11. \A q \in Pools : q # p => UNCHANGED PoolVars(q)
    BY <1>1 DEF TrimPages, PoolVars
  <1> QED BY ONLY IInv, <1>4, <1>5, <1>10, <1>11, PoolFrame DEF IInv

\* set_page_entitlement and cancel_unmapped_entitlement: a new entitlement that
\* covers the mapping.
LEMMA EntitleStep ==
    ASSUME IInv, NEW p \in Pools, NEW h \in Handles, NEW n \in Nat, h \in live[p],
           n >= Len(pageIds[p][h]), CanReplaceEntitlement(p, entitlement[p][h], n),
           entitled' = [entitled EXCEPT ![p] = @ - entitlement[p][h] + n],
           entitlement' = [entitlement EXCEPT ![p][h] = n],
           UNCHANGED <<free, mapped, rowInUse, table, live, pageIds, boundRow, fault>>
    PROVE  IInv'
  <1> DEFINE k == Len(pageIds[p][h])
  <1>1. /\ pageIds[p] \in [Handles -> Seq(Nat)] /\ pageIds[p][h] \in Seq(Nat)
        /\ k \in Nat /\ mapped[p] \in Int /\ entitlement[p][h] \in Nat
        /\ entitled \in [Pools -> Int] /\ entitlement \in [Pools -> [Handles -> Nat]]
        /\ TypeOK /\ PoolInv(p)
    BY DEF IInv, TypeOK
  <1>2. TypeOK'
    BY <1>1 DEF TypeOK
  <1>3. EntitlementHonoured'
    BY DEF IInv, EntitlementHonoured
  <1>4. /\ PagesFrom(pageIds[p][h], k) = {} /\ SubSeq(pageIds[p][h], 1, k) = pageIds[p][h]
    BY <1>1 DEF PagesFrom
  <1>5. /\ free'[p] = free[p] \cup PagesFrom(pageIds[p][h], k)
        /\ mapped'[p] = mapped[p] - (Len(pageIds[p][h]) - k)
        /\ pageIds'[p] = [pageIds[p] EXCEPT ![h] = SubSeq(pageIds[p][h], 1, k)]
    <2>1. pageIds[p] = [pageIds[p] EXCEPT ![h] = pageIds[p][h]]
      BY ONLY <1>1
    <2>2. mapped[p] = mapped[p] - (k - k)
      BY ONLY <1>1
    <2>3. pageIds' = pageIds /\ mapped' = mapped /\ free' = free
      OBVIOUS
    <2> QED BY ONLY <1>4, <2>1, <2>2, <2>3
  <1>6. /\ entitled'[p] = entitled[p] - entitlement[p][h] + n
        /\ entitlement'[p] = [entitlement[p] EXCEPT ![h] = n]
        /\ UNCHANGED <<rowInUse[p], table[p], live[p], boundRow[p]>>
        /\ k \in 0 .. Len(pageIds[p][h]) /\ k <= n
    BY <1>1
  <1>7. PoolInv(p)'
    <2> HIDE DEF k
    <2> QED BY ONLY <1>1, <1>5, <1>6, p \in Pools, h \in Handles, n \in Nat,
                    h \in live[p], CanReplaceEntitlement(p, entitlement[p][h], n), ResizeAt
  <1>8. \A q \in Pools : q # p => UNCHANGED PoolVars(q)
    BY <1>1 DEF PoolVars
  <1> QED BY ONLY IInv, <1>2, <1>3, <1>7, <1>8, PoolFrame DEF IInv

\* materialize_pages: the branch that throws is never taken.
LEMMA MaterializeStep ==
    ASSUME IInv, NEW p \in Pools, NEW h \in Handles, NEW n \in Nat,
           MaterializePages(p, h, n)
    PROVE  IInv'
  <1> DEFINE ids == pageIds[p][h]
             old == Len(ids)
             count == n - old
             row == boundRow[p][h]
  <1>1. /\ pageIds \in [Pools -> [Handles -> Seq(Nat)]] /\ ids \in Seq(Nat) /\ old \in Nat
        /\ mapped \in [Pools -> Int] /\ free \in [Pools -> SUBSET Nat]
        /\ table \in [Pools -> [Row -> Seq(Nat)]] /\ entitlement[p][h] \in Nat
        /\ row \in Row \cup {NoRow} /\ free[p] \subseteq Nat
        /\ TypeOK /\ PoolInv(p)
    BY DEF IInv, TypeOK
  <1>2. n > old /\ n <= entitlement[p][h] /\ h \in live[p] /\ count \in Nat
    BY <1>1 DEF MaterializePages, MayMaterialize
  <1>3. ~ (count > Cardinality(free[p]))
    <2>1. entitlement[p][h] - Len(pageIds[p][h]) <= Cardinality(free[p])
      BY ONLY <1>1, p \in Pools, h \in Handles, RoomIsFree
    <2>2. Cardinality(free[p]) \in Nat
      BY <1>1, FreeFinite DEF PoolInv
    <2> QED BY <1>1, <1>2, <2>1, <2>2
  <1>4. PICK acquired \in TakePages(free[p], count,
                            IF old = 0 THEN -1 ELSE ids[old] + 1) :
            /\ free' = [free EXCEPT ![p] = @ \ PagesOf(acquired)]
            /\ mapped' = [mapped EXCEPT ![p] = @ + count]
            /\ pageIds' = [pageIds EXCEPT ![p][h] = @ \o acquired]
            /\ IF row = NoRow
                 THEN UNCHANGED table
                 ELSE table' = [table EXCEPT ![p][row] =
                          PublishRange(@, ids \o acquired, old, count)]
            /\ UNCHANGED fault
    BY <1>3 DEF MaterializePages
  <1>5. /\ acquired \in [1 .. count -> free[p]]
        /\ \A i, j \in 1 .. count : i < j => acquired[i] < acquired[j]
    BY DEF TakePages
  <1>6. acquired \in Seq(Nat) /\ Len(acquired) = count
    <2>1. acquired \in [1 .. count -> Nat]
      BY <1>1, <1>5
    <2> HIDE DEF count
    <2> QED BY ONLY <1>2, <2>1, TupleIsSeq
  <1>7. /\ ids \o acquired \in Seq(Nat) /\ Len(ids \o acquired) = n
        /\ old + count <= Len(ids \o acquired)
    <2>1. ids \o acquired \in Seq(Nat) /\ Len(ids \o acquired) = old + Len(acquired)
      <3>1. ids \in Seq(Nat) /\ acquired \in Seq(Nat)
        BY <1>1, <1>6
      <3> HIDE DEF ids
      <3> QED BY ONLY <3>1, JoinPages DEF old
    <2>2. old + count = n
      BY ONLY <1>1, <1>2, n \in Nat DEF count
    <2> HIDE DEF count, old
    <2> QED BY ONLY <1>1, <1>2, <1>6, <2>1, <2>2, n \in Nat
  <1>8. ASSUME row # NoRow
        PROVE  /\ row \in Row
               /\ PublishRange(table[p][row], ids \o acquired, old, count) \in Seq(Nat)
    <2>1. row \in Row /\ table[p][row] \in Seq(Nat)
      BY <1>1, <1>8
    <2> DEFINE t == table[p][row]
               m == ids \o acquired
    <2>2. t \in Seq(Nat) /\ m \in Seq(Nat) /\ old + count <= Len(m)
      BY <1>7, <2>1
    <2> HIDE DEF t, m, old, count
    <2>3. PublishRange(t, m, old, count) \in Seq(Nat)
      BY ONLY <1>1, <1>2, <2>2, PublishRangeRow
    <2> QED BY <2>1, <2>3 DEF t, m
  <1>9. TypeOK'
    <2>1. table' \in [Pools -> [Row -> Seq(Nat)]]
      <3>1. CASE row = NoRow
        BY <1>1, <1>4, <3>1
      <3>2. CASE row # NoRow
        <4> DEFINE q == PublishRange(table[p][row], ids \o acquired, old, count)
        <4>1. q \in Seq(Nat) /\ row \in Row /\ table' = [table EXCEPT ![p][row] = q]
          BY <1>4, <1>8, <3>2
        <4> HIDE DEF q, row
        <4> QED BY ONLY <1>1, <4>1
      <3> QED BY <3>1, <3>2
    <2>2. free' \in [Pools -> SUBSET Nat]
      BY <1>1, <1>4
    <2>3. mapped' \in [Pools -> Int]
      BY <1>1, <1>2, <1>4
    <2>4. pageIds' \in [Pools -> [Handles -> Seq(Nat)]]
      BY <1>1, <1>4, <1>7
    <2> QED BY <1>4, <2>1, <2>2, <2>3, <2>4 DEF MaterializePages, IInv, TypeOK
  <1>10. EntitlementHonoured'
    BY <1>4 DEF IInv, EntitlementHonoured
  <1>11. /\ free'[p] = free[p] \ PagesOf(acquired)
         /\ mapped'[p] = mapped[p] + (n - Len(pageIds[p][h]))
         /\ pageIds'[p] = [pageIds[p] EXCEPT ![h] = pageIds[p][h] \o acquired]
         /\ table'[p] = IF boundRow[p][h] = NoRow THEN table[p]
                        ELSE [table[p] EXCEPT ![boundRow[p][h]] =
                               PublishRange(table[p][boundRow[p][h]],
                                            pageIds[p][h] \o acquired,
                                            Len(pageIds[p][h]),
                                            n - Len(pageIds[p][h]))]
         /\ UNCHANGED <<entitled[p], rowInUse[p], live[p], entitlement[p], boundRow[p]>>
    <2>1. /\ free'[p] = free[p] \ PagesOf(acquired)
          /\ mapped'[p] = mapped[p] + count
          /\ pageIds'[p] = [pageIds[p] EXCEPT ![h] = ids \o acquired]
      BY <1>1, <1>4
    <2>2. table'[p] = IF row = NoRow THEN table[p]
                      ELSE [table[p] EXCEPT ![row] =
                              PublishRange(table[p][row], ids \o acquired, old, count)]
      BY <1>1, <1>4
    <2>3. UNCHANGED <<entitled[p], rowInUse[p], live[p], entitlement[p], boundRow[p]>>
      BY DEF MaterializePages
    <2> QED BY <2>1, <2>2, <2>3
  <1>12. PoolInv(p)'
    BY ONLY <1>1, <1>2, <1>5, <1>11, p \in Pools, h \in Handles, n \in Nat, MaterializeAt
  <1>13. \A q \in Pools : q # p => UNCHANGED PoolVars(q)
    BY <1>1, <1>4 DEF MaterializePages, PoolVars
  <1> QED BY ONLY IInv, <1>9, <1>10, <1>12, <1>13, PoolFrame DEF IInv

\* bind_row.
LEMMA BindStep ==
    ASSUME IInv, NEW p \in Pools, NEW h \in Handles, NEW r \in Row, BindRow(p, h, r)
    PROVE  IInv'
  <1> DEFINE ids == pageIds[p][h]
             t == table[p][r]
             q == PublishRange(t, ids, 0, Len(ids))
  <1>1. /\ ids \in Seq(Nat) /\ t \in Seq(Nat) /\ Len(ids) \in Nat
        /\ table \in [Pools -> [Row -> Seq(Nat)]]
        /\ boundRow \in [Pools -> [Handles -> Row \cup {NoRow}]]
        /\ rowInUse \in [Pools -> [Row -> BOOLEAN]]
        /\ TypeOK /\ PoolInv(p)
    BY DEF IInv, TypeOK
  <1>2. q \in Seq(Nat)
    <2>1. 0 \in Nat /\ 0 + Len(ids) <= Len(ids)
      BY <1>1
    <2> HIDE DEF t, ids
    <2> QED BY ONLY <1>1, <2>1, PublishRangeRow
  <1>3. TypeOK'
    <2>1. table' = [table EXCEPT ![p][r] = q]
      BY DEF BindRow
    <2> HIDE DEF q
    <2>2. table' \in [Pools -> [Row -> Seq(Nat)]]
      BY ONLY <1>1, <1>2, <2>1
    <2>3. boundRow' \in [Pools -> [Handles -> Row \cup {NoRow}]]
      BY <1>1 DEF BindRow
    <2>4. rowInUse' \in [Pools -> [Row -> BOOLEAN]]
      BY <1>1 DEF BindRow
    <2> QED BY <2>2, <2>3, <2>4 DEF BindRow, IInv, TypeOK
  <1>4. EntitlementHonoured'
    BY DEF IInv, EntitlementHonoured, BindRow
  <1>5. /\ h \in live[p] /\ boundRow[p][h] = NoRow /\ ~rowInUse[p][r]
        /\ rowInUse'[p] = [rowInUse[p] EXCEPT ![r] = TRUE]
        /\ boundRow'[p] = [boundRow[p] EXCEPT ![h] = r]
        /\ table'[p] = [table[p] EXCEPT ![r] =
                PublishRange(table[p][r], pageIds[p][h], 0, Len(pageIds[p][h]))]
        /\ UNCHANGED <<free[p], mapped[p], entitled[p], live[p], entitlement[p],
                       pageIds[p]>>
    BY <1>1 DEF BindRow
  <1>6. PoolInv(p)'
    BY ONLY <1>1, <1>5, p \in Pools, h \in Handles, r \in Row, BindAt
  <1>7. \A o \in Pools : o # p => UNCHANGED PoolVars(o)
    BY <1>1 DEF BindRow, PoolVars
  <1> QED BY ONLY IInv, <1>3, <1>4, <1>6, <1>7, PoolFrame DEF IInv

\* unbind_row.
LEMMA UnbindStep ==
    ASSUME IInv, NEW p \in Pools, NEW h \in Handles, UnbindRow(p, h)
    PROVE  IInv'
  <1>1. /\ boundRow \in [Pools -> [Handles -> Row \cup {NoRow}]]
        /\ rowInUse \in [Pools -> [Row -> BOOLEAN]]
        /\ TypeOK /\ PoolInv(p)
    BY DEF IInv, TypeOK
  <1>2. TypeOK'
    <2>1. rowInUse' \in [Pools -> [Row -> BOOLEAN]]
      BY <1>1 DEF UnbindRow
    <2>2. boundRow' \in [Pools -> [Handles -> Row \cup {NoRow}]]
      BY <1>1 DEF UnbindRow
    <2> QED BY <2>1, <2>2 DEF UnbindRow, IInv, TypeOK
  <1>3. EntitlementHonoured'
    BY DEF IInv, EntitlementHonoured, UnbindRow
  <1>4. /\ h \in live[p] /\ boundRow[p][h] # NoRow
        /\ rowInUse'[p] = [rowInUse[p] EXCEPT ![boundRow[p][h]] = FALSE]
        /\ boundRow'[p] = [boundRow[p] EXCEPT ![h] = NoRow]
        /\ UNCHANGED <<free[p], mapped[p], entitled[p], table[p], live[p],
                       entitlement[p], pageIds[p]>>
    BY <1>1 DEF UnbindRow
  <1>5. PoolInv(p)'
    BY ONLY <1>1, <1>4, p \in Pools, h \in Handles, UnbindAt
  <1>6. \A q \in Pools : q # p => UNCHANGED PoolVars(q)
    BY <1>1 DEF UnbindRow, PoolVars
  <1> QED BY ONLY IInv, <1>2, <1>3, <1>5, <1>6, PoolFrame DEF IInv

\* release.
LEMMA ReleaseStep ==
    ASSUME IInv, NEW p \in Pools, NEW h \in Handles, Release(p, h)
    PROVE  IInv'
  <1> DEFINE K == Handles \ {h}
             s == [g \in Handles |-> g]
             M == [g \in Handles |-> Len(pageIds[p][g])]
             N == [g \in Handles |-> Len(pageIds'[p][g])]
  <1>1. /\ pageIds \in [Pools -> [Handles -> Seq(Nat)]] /\ pageIds[p][h] \in Seq(Nat)
        /\ Len(pageIds[p][h]) \in Nat
        /\ mapped \in [Pools -> Int] /\ entitled \in [Pools -> Int]
        /\ free \in [Pools -> SUBSET Nat] /\ live \in [Pools -> SUBSET Handles]
        /\ entitlement \in [Pools -> [Handles -> Nat]]
        /\ boundRow \in [Pools -> [Handles -> Row \cup {NoRow}]]
        /\ rowInUse \in [Pools -> [Row -> BOOLEAN]]
        /\ TypeOK /\ PoolInv(p)
    BY DEF IInv, TypeOK
  <1>2. PagesOf(pageIds[p][h]) \subseteq Nat
    BY <1>1 DEF PagesOf, PagesFrom
  <1>3. TypeOK'
    <2>1. free' \in [Pools -> SUBSET Nat] /\ live' \in [Pools -> SUBSET Handles]
      BY <1>1, <1>2 DEF Release
    <2>2. mapped' \in [Pools -> Int] /\ entitled' \in [Pools -> Int]
      BY <1>1 DEF Release
    <2>3. pageIds' \in [Pools -> [Handles -> Seq(Nat)]]
      <3>1. <<>> \in Seq(Nat) /\ pageIds' = [pageIds EXCEPT ![p][h] = <<>>]
        BY DEF Release
      <3> QED BY ONLY <1>1, <3>1
    <2>4. entitlement' \in [Pools -> [Handles -> Nat]]
      BY <1>1 DEF Release
    <2>5. boundRow' \in [Pools -> [Handles -> Row \cup {NoRow}]]
      BY <1>1 DEF Release
    <2>6. rowInUse' \in [Pools -> [Row -> BOOLEAN]]
      BY <1>1 DEF Release
    <2> QED BY <2>1, <2>2, <2>3, <2>4, <2>5, <2>6 DEF Release, IInv, TypeOK
  <1>4. EntitlementHonoured'
    BY DEF IInv, EntitlementHonoured, Release
  <1>5. \A g \in Handles :
          /\ pageIds'[p][g] = IF g = h THEN <<>> ELSE pageIds[p][g]
          /\ entitlement'[p][g] = IF g = h THEN 0 ELSE entitlement[p][g]
          /\ boundRow'[p][g] = IF g = h THEN NoRow ELSE boundRow[p][g]
          /\ g # h => (g \in live'[p] <=> g \in live[p])
    BY <1>1 DEF Release
  <1>6. /\ free'[p] = free[p] \cup PagesOf(pageIds[p][h])
        /\ \A r \in Row : rowInUse'[p][r] <=> rowInUse[p][r] /\ r # boundRow[p][h]
        /\ table'[p] = table[p]
    <2>1. NoRow \notin Row
      BY DEF NoRow, Row
    <2> QED BY <1>1, <2>1 DEF Release
  <1>7. Renamed(p, h, K, s)
    BY <1>5, <1>6 DEF Renamed
  <1>8. Returned(p, h)
    <2>1. /\ entitlement[p] \in [Handles -> 0 .. LogicalPageCapacity[p]]
          /\ M \in [Handles -> 0 .. LogicalPageCapacity[p]] /\ MappedCount(p) = M
          /\ M[h] = Len(pageIds[p][h]) /\ LogicalPageCapacity[p] \in Nat
      BY <1>1, CountTypes DEF PoolInv, MappedCount
    <2>2. /\ entitlement'[p] \in [Handles -> 0 .. LogicalPageCapacity[p]]
          /\ entitlement'[p][h] = 0
          /\ \A g \in Handles : g # h => entitlement'[p][g] = entitlement[p][g]
      <3>1. entitlement'[p] \in [Handles -> Nat]
        BY <1>3 DEF TypeOK
      <3> QED BY <1>5, <2>1, <3>1
    <2>3. /\ N \in [Handles -> 0 .. LogicalPageCapacity[p]]
          /\ N[h] = 0
          /\ \A g \in Handles : g # h => N[g] = M[g]
      BY <1>5, <2>1
    <2>4. /\ entitled'[p] = entitled[p] - entitlement[p][h]
          /\ mapped'[p] = mapped[p] - Len(pageIds[p][h])
      BY <1>1 DEF Release
    <2>5. /\ Total(p, entitlement[p]) \in Nat /\ Total(p, M) \in Nat
          /\ entitlement[p][h] \in Nat /\ Len(pageIds[p][h]) \in Nat
      BY <1>1, UnitsFinite
    <2> HIDE DEF M, N
    <2>6. Total(p, entitlement'[p])
            = Total(p, entitlement[p]) - entitlement[p][h] + entitlement'[p][h]
      BY ONLY <2>1, <2>2, p \in Pools, h \in Handles, TotalUpdate
    <2>7. Total(p, N) = Total(p, M) - M[h] + N[h]
      BY ONLY <2>1, <2>3, p \in Pools, h \in Handles, TotalUpdate
    <2>8. /\ Total(p, entitlement'[p]) = Total(p, entitlement[p]) - entitlement[p][h]
          /\ Total(p, N) = Total(p, M) - Len(pageIds[p][h])
      BY ONLY <2>1, <2>2, <2>3, <2>5, <2>6, <2>7
    <2> QED BY <2>1, <2>4, <2>8 DEF Returned, N
  <1>9. PoolInv(p)'
    <2> HIDE DEF K, s
    <2> QED BY ONLY <1>1, <1>7, <1>8, p \in Pools, h \in Handles, ReturnAt
  <1>10. \A q \in Pools : q # p => UNCHANGED PoolVars(q)
    BY <1>1 DEF Release, PoolVars
  <1> QED BY ONLY IInv, <1>3, <1>4, <1>9, <1>10, PoolFrame DEF IInv

\* operator=(&&).
LEMMA MoveStep ==
    ASSUME IInv, NEW p \in Pools, NEW from \in Handles, NEW to \in Handles,
           MoveAssign(p, from, to)
    PROVE  IInv'
  <1> DEFINE K == Handles \ {from}
             s == [g \in Handles |-> IF g = to THEN from ELSE g]
             M == [g \in Handles |-> Len(pageIds[p][g])]
             N == [g \in Handles |-> Len(pageIds'[p][g])]
  <1>1. /\ pageIds \in [Pools -> [Handles -> Seq(Nat)]] /\ pageIds[p][to] \in Seq(Nat)
        /\ Len(pageIds[p][to]) \in Nat
        /\ mapped \in [Pools -> Int] /\ entitled \in [Pools -> Int]
        /\ free \in [Pools -> SUBSET Nat] /\ live \in [Pools -> SUBSET Handles]
        /\ entitlement \in [Pools -> [Handles -> Nat]]
        /\ boundRow \in [Pools -> [Handles -> Row \cup {NoRow}]]
        /\ rowInUse \in [Pools -> [Row -> BOOLEAN]]
        /\ from # to /\ from \in live[p]
        /\ TypeOK /\ PoolInv(p)
    BY DEF IInv, TypeOK, MoveAssign
  <1>2. PagesOf(pageIds[p][to]) \subseteq Nat
    BY <1>1 DEF PagesOf, PagesFrom
  <1>3. TypeOK'
    <2>1. free' \in [Pools -> SUBSET Nat] /\ live' \in [Pools -> SUBSET Handles]
      BY <1>1, <1>2 DEF MoveAssign
    <2>2. mapped' \in [Pools -> Int] /\ entitled' \in [Pools -> Int]
      BY <1>1 DEF MoveAssign
    <2>3. pageIds' \in [Pools -> [Handles -> Seq(Nat)]]
      <3>1. <<>> \in Seq(Nat) /\ pageIds[p][from] \in Seq(Nat)
        BY <1>1
      <3>2. pageIds' = [pageIds EXCEPT ![p] =
                [@ EXCEPT ![to] = pageIds[p][from], ![from] = <<>>]]
        BY DEF MoveAssign
      <3> QED BY ONLY <1>1, <3>1, <3>2
    <2>4. entitlement' \in [Pools -> [Handles -> Nat]]
      BY <1>1 DEF MoveAssign
    <2>5. boundRow' \in [Pools -> [Handles -> Row \cup {NoRow}]]
      BY <1>1 DEF MoveAssign
    <2>6. rowInUse' \in [Pools -> [Row -> BOOLEAN]]
      BY <1>1 DEF MoveAssign
    <2> QED BY <2>1, <2>2, <2>3, <2>4, <2>5, <2>6 DEF MoveAssign, IInv, TypeOK
  <1>4. EntitlementHonoured'
    BY DEF IInv, EntitlementHonoured, MoveAssign
  <1>5. \A g \in Handles :
          /\ pageIds'[p][g] = IF g = from THEN <<>>
                              ELSE IF g = to THEN pageIds[p][from] ELSE pageIds[p][g]
          /\ entitlement'[p][g] = IF g = from THEN 0
                              ELSE IF g = to THEN entitlement[p][from] ELSE entitlement[p][g]
          /\ boundRow'[p][g] = IF g = from THEN NoRow
                              ELSE IF g = to THEN boundRow[p][from] ELSE boundRow[p][g]
          /\ g # from => (g \in live'[p] <=> (g = to \/ g \in live[p]))
    BY <1>1 DEF MoveAssign
  <1>6. /\ free'[p] = free[p] \cup PagesOf(pageIds[p][to])
        /\ \A r \in Row : rowInUse'[p][r] <=> rowInUse[p][r] /\ r # boundRow[p][to]
        /\ table'[p] = table[p]
    <2>1. NoRow \notin Row
      BY DEF NoRow, Row
    <2> QED BY <1>1, <2>1 DEF MoveAssign
  <1>7. Renamed(p, to, K, s)
    <2>1. /\ K \subseteq Handles /\ s \in [Handles -> Handles]
          /\ \A g \in K : s[g] # to
          /\ \A f, g \in K : s[f] = s[g] => f = g
      BY <1>1
    <2>2. \A g \in Handles : g # to => \E f \in K : s[f] = g
      <3> SUFFICES ASSUME NEW g \in Handles, g # to PROVE \E f \in K : s[f] = g
        OBVIOUS
      <3>1. CASE g = from
        BY <1>1, <3>1
      <3>2. CASE g # from
        BY <3>2
      <3> QED BY <3>1, <3>2
    <2>3. \A g \in K : /\ pageIds'[p][g] = pageIds[p][s[g]]
                       /\ entitlement'[p][g] = entitlement[p][s[g]]
                       /\ boundRow'[p][g] = boundRow[p][s[g]]
                       /\ g \in live'[p] <=> s[g] \in live[p]
      BY <1>1, <1>5
    <2>4. \A g \in Handles \ K : /\ pageIds'[p][g] = <<>>
                                 /\ entitlement'[p][g] = 0
                                 /\ boundRow'[p][g] = NoRow
      BY <1>5
    <2> HIDE DEF K, s
    <2> QED BY ONLY <1>6, <2>1, <2>2, <2>3, <2>4 DEF Renamed
  <1>8. Returned(p, to)
    <2>1. /\ entitlement[p] \in [Handles -> 0 .. LogicalPageCapacity[p]]
          /\ M \in [Handles -> 0 .. LogicalPageCapacity[p]] /\ MappedCount(p) = M
          /\ M[to] = Len(pageIds[p][to]) /\ LogicalPageCapacity[p] \in Nat
      BY <1>1, CountTypes DEF PoolInv, MappedCount
    <2>2. /\ entitlement'[p] \in [Handles -> 0 .. LogicalPageCapacity[p]]
          /\ \A k \in Handles : entitlement'[p][k] =
                IF k = from THEN 0 ELSE IF k = to THEN entitlement[p][from]
                                                  ELSE entitlement[p][k]
      <3>1. entitlement'[p] \in [Handles -> Nat]
        BY <1>3 DEF TypeOK
      <3>2. \A k \in Handles : entitlement'[p][k] =
                IF k = from THEN 0 ELSE IF k = to THEN entitlement[p][from]
                                                  ELSE entitlement[p][k]
        BY <1>5
      <3>3. \A k \in Handles : entitlement[p][k] \in 0 .. LogicalPageCapacity[p]
        BY <2>1
      <3>4. 0 \in 0 .. LogicalPageCapacity[p]
        BY <2>1
      <3>5. \A k \in Handles : entitlement'[p][k] \in 0 .. LogicalPageCapacity[p]
        BY ONLY <3>2, <3>3, <3>4, from \in Handles
      <3> QED BY ONLY <3>1, <3>2, <3>5
    <2>3. /\ N \in [Handles -> 0 .. LogicalPageCapacity[p]]
          /\ \A k \in Handles : N[k] =
                IF k = from THEN 0 ELSE IF k = to THEN M[from] ELSE M[k]
      BY <1>5, <2>1
    <2>4. /\ entitled'[p] = entitled[p] - entitlement[p][to]
          /\ mapped'[p] = mapped[p] - Len(pageIds[p][to])
      BY <1>1 DEF MoveAssign
    <2> HIDE DEF M, N
    <2>5. Total(p, entitlement'[p]) = Total(p, entitlement[p]) - entitlement[p][to]
      BY ONLY <1>1, <2>1, <2>2, p \in Pools, from \in Handles, to \in Handles, TotalMove
    <2>6. Total(p, N) = Total(p, M) - M[to]
      BY ONLY <1>1, <2>1, <2>3, p \in Pools, from \in Handles, to \in Handles, TotalMove
    <2> QED BY <2>1, <2>4, <2>5, <2>6 DEF Returned, N
  <1>9. PoolInv(p)'
    <2> HIDE DEF K, s
    <2> QED BY ONLY <1>1, <1>7, <1>8, p \in Pools, to \in Handles, ReturnAt
  <1>10. \A q \in Pools : q # p => UNCHANGED PoolVars(q)
    BY <1>1 DEF MoveAssign, PoolVars
  <1> QED BY ONLY IInv, <1>3, <1>4, <1>9, <1>10, PoolFrame DEF IInv

-----------------------------------------------------------------------------

\* The constructed pools satisfy the inductive invariant.
LEMMA InitIInv == Init => IInv
  <1> SUFFICES ASSUME Init PROVE IInv
    OBVIOUS
  <1>1. <<>> \in Seq(Nat) /\ Len(<<>>) = 0 /\ NoRow \notin Row
    BY DEF NoRow, Row
  <1>2. \A p \in Pools : /\ Page(p) \subseteq Nat
                         /\ LogicalPageCapacity[p] \in Nat /\ PageGroupCount[p] \in Nat
                         /\ [i \in Logical(p) |-> 0] \in Seq(Nat)
                         /\ Len([i \in Logical(p) |-> 0]) = LogicalPageCapacity[p]
    <2> SUFFICES ASSUME NEW p \in Pools
                 PROVE  /\ Page(p) \subseteq Nat
                        /\ LogicalPageCapacity[p] \in Nat /\ PageGroupCount[p] \in Nat
                        /\ [i \in Logical(p) |-> 0] \in Seq(Nat)
                        /\ Len([i \in Logical(p) |-> 0]) = LogicalPageCapacity[p]
      OBVIOUS
    <2> DEFINE z == [i \in 1 .. LogicalPageCapacity[p] |-> 0]
    <2>1. LogicalPageCapacity[p] \in Nat /\ PageGroupCount[p] \in Nat
      BY PoolAssumption
    <2>2. z \in [1 .. LogicalPageCapacity[p] -> Nat]
      OBVIOUS
    <2> HIDE DEF z
    <2>3. z \in Seq(Nat) /\ Len(z) = LogicalPageCapacity[p]
      BY ONLY <2>1, <2>2, TupleIsSeq
    <2> QED BY <2>1, <2>3 DEF Page, Logical, z
  <1>3. TypeOK
    <2>1. table \in [Pools -> [Row -> Seq(Nat)]]
      BY <1>2 DEF Init
    <2>2. free \in [Pools -> SUBSET Nat] /\ live \in [Pools -> SUBSET Handles]
      BY <1>2 DEF Init
    <2>3. pageIds \in [Pools -> [Handles -> Seq(Nat)]]
      BY <1>1 DEF Init
    <2>4. mapped \in [Pools -> Int] /\ entitled \in [Pools -> Int]
      BY DEF Init
    <2>5. rowInUse \in [Pools -> [Row -> BOOLEAN]] /\ fault \in BOOLEAN
      BY DEF Init
    <2>6. entitlement \in [Pools -> [Handles -> Nat]]
      BY DEF Init
    <2>7. boundRow \in [Pools -> [Handles -> Row \cup {NoRow}]]
      BY DEF Init
    <2> QED BY <2>1, <2>2, <2>3, <2>4, <2>5, <2>6, <2>7 DEF TypeOK
  <1>4. EntitlementHonoured
    BY DEF Init, EntitlementHonoured
  <1>5. ASSUME NEW p \in Pools PROVE PoolInv(p)
    <2>1. /\ free[p] = Page(p) /\ mapped[p] = 0 /\ entitled[p] = 0
          /\ rowInUse[p] = [r \in Row |-> FALSE]
          /\ table[p] = [r \in Row |-> [i \in Logical(p) |-> 0]]
          /\ entitlement[p] = [h \in Handles |-> 0]
          /\ pageIds[p] = [h \in Handles |-> <<>>]
          /\ boundRow[p] = [h \in Handles |-> NoRow]
      BY DEF Init
    <2>2. PoolShape(p)
      <3>1. \A r \in Row : Len(table[p][r]) = LogicalPageCapacity[p]
        <4>1. \A r \in Row : table[p][r] = [i \in Logical(p) |-> 0]
          BY <2>1
        <4>2. Len([i \in Logical(p) |-> 0]) = LogicalPageCapacity[p]
          BY <1>2
        <4> QED BY ONLY <4>1, <4>2
      <3>2. \A h \in Handles : /\ entitlement[p][h] = 0 /\ pageIds[p][h] = <<>>
                               /\ boundRow[p][h] = NoRow
        BY <2>1
      <3>3. LogicalPageCapacity[p] \in Nat
        BY <1>2
      <3> QED BY ONLY <1>1, <3>1, <3>2, <3>3 DEF PoolShape
    <2>3. PoolNotAliased(p)
      BY <1>1, <2>1 DEF PoolNotAliased
    <2>4. PoolCountersExact(p)
      <3>1. MappedCount(p) = [h \in Handles |-> 0]
        BY <1>1, <2>1 DEF MappedCount
      <3>2. Total(p, [h \in Handles |-> 0]) = 0
        BY TotalZero
      <3>3. Cardinality(Page(p)) = PageGroupCount[p]
        <4>1. PageGroupCount[p] \in Nat /\ PageGroupCount[p] > 0
          BY PoolAssumption
        <4>2. 0 \in Int /\ PageGroupCount[p] - 1 \in Int
          BY <4>1
        <4>3. Cardinality(0 .. PageGroupCount[p] - 1) =
                IF 0 > PageGroupCount[p] - 1 THEN 0 ELSE (PageGroupCount[p] - 1) - 0 + 1
          BY ONLY <4>2, FS_Interval
        <4> QED BY ONLY <4>1, <4>3 DEF Page
      <3>4. /\ entitled[p] = 0 /\ mapped[p] = 0 /\ free[p] = Page(p)
            /\ entitlement[p] = [h \in Handles |-> 0] /\ PageGroupCount[p] \in Nat
        BY <1>2, <2>1
      <3> QED BY ONLY <3>1, <3>2, <3>3, <3>4 DEF PoolCountersExact
    <2>5. PoolPublished(p) /\ PoolRowsExclusive(p)
      BY <2>1 DEF PoolPublished, PoolRowsExclusive
    <2> QED BY <2>2, <2>3, <2>4, <2>5 DEF PoolInv
  <1> QED BY <1>3, <1>4, <1>5 DEF IInv

\* Every operation on a pool preserves the inductive invariant.
LEMMA NextIInv == IInv /\ [Next]_vars => IInv'
  <1> SUFFICES ASSUME IInv, [Next]_vars PROVE IInv'
    OBVIOUS
  <1>1. ASSUME NEW h \in Handles, NEW S \in SUBSET Pools \ {{}}, NEW req \in Counts(S),
               ReserveBundle(h, req)
        PROVE  IInv'
    BY <1>1, ReserveStep
  <1>2. ASSUME NEW h \in Handles, NEW S \in SUBSET Pools \ {{}},
               NEW keep \in Counts(S), NEW ent \in Counts(S), ResizeBundle(h, keep, ent)
        PROVE  IInv'
    BY <1>2, ResizeStep
  <1>0. \A p \in Pools : Logical(p) \subseteq Nat /\ 0 .. LogicalPageCapacity[p] \subseteq Nat
    BY PoolAssumption DEF Logical
  <1>3. ASSUME NEW p \in Pools, NEW h \in Handles, NEW n \in Logical(p),
               MaterializePages(p, h, n)
        PROVE  IInv'
    BY <1>0, <1>3, MaterializeStep
  <1>4. ASSUME NEW p \in Pools, NEW h \in Handles, NEW n \in 0 .. LogicalPageCapacity[p],
               TrimPages(p, h, n)
        PROVE  IInv'
    BY <1>0, <1>4, TrimStep
  <1>5. ASSUME NEW p \in Pools, NEW h \in Handles, NEW n \in 0 .. LogicalPageCapacity[p],
               SetPageEntitlement(p, h, n)
        PROVE  IInv'
    <2>1. n \in Nat
      BY <1>0
    <2> QED BY <1>5, <2>1, EntitleStep DEF SetPageEntitlement
  <1>6. ASSUME NEW p \in Pools, NEW h \in Handles, CancelUnmappedEntitlement(p, h)
        PROVE  IInv'
    <2> DEFINE k == Len(pageIds[p][h])
    <2>1. TypeOK /\ PoolInv(p)
      BY DEF IInv
    <2>2. k \in Nat /\ k >= k
      BY <2>1 DEF TypeOK
    <2>3. /\ k <= entitlement[p][h]
          /\ \A n \in Nat : n <= entitlement[p][h] =>
                CanReplaceEntitlement(p, entitlement[p][h], n)
      BY ONLY <2>1, p \in Pools, h \in Handles, EntitlementRoom
    <2>4. CanReplaceEntitlement(p, entitlement[p][h], k)
      BY ONLY <2>2, <2>3
    <2> QED BY <1>6, <2>2, <2>4, EntitleStep DEF CancelUnmappedEntitlement
  <1>7. ASSUME NEW p \in Pools, NEW h \in Handles, NEW r \in Row, BindRow(p, h, r)
        PROVE  IInv'
    BY <1>7, BindStep
  <1>8. ASSUME NEW p \in Pools, NEW h \in Handles, UnbindRow(p, h)
        PROVE  IInv'
    BY <1>8, UnbindStep
  <1>9. ASSUME NEW p \in Pools, NEW h \in Handles, Release(p, h)
        PROVE  IInv'
    BY <1>9, ReleaseStep
  <1>10. ASSUME NEW p \in Pools, NEW h \in Handles, NEW to \in Handles,
                MoveAssign(p, h, to)
         PROVE  IInv'
    BY <1>10, MoveStep
  <1>11. CASE UNCHANGED vars
    <2>1. TypeOK' /\ EntitlementHonoured'
      BY <1>11 DEF vars, IInv, TypeOK, EntitlementHonoured
    <2>2. \A p \in Pools : UNCHANGED PoolVars(p)
      BY <1>11 DEF vars, PoolVars
    <2> QED BY ONLY IInv, <2>1, <2>2, PoolFrame DEF IInv
  <1> QED BY <1>1, <1>2, <1>3, <1>4, <1>5, <1>6, <1>7, <1>8, <1>9, <1>10, <1>11
          DEF Next

\* The inductive invariant holds in every reachable state.
THEOREM PoolInvariant == Spec => []IInv
  BY InitIInv, NextIInv, PTL DEF Spec

\* The pools keep their types.
THEOREM TypeCorrect == Spec => []TypeOK
  <1>1. IInv => TypeOK
    BY DEF IInv
  <1> QED BY <1>1, PoolInvariant, PTL

\* The throw "paged KV entitlement could not be materialized" is unreachable, so
\* an admitted request never runs out of pages in the middle of a decode round.
THEOREM EntitlementsHonoured == Spec => []EntitlementHonoured
  <1>1. IInv => EntitlementHonoured
    BY DEF IInv
  <1> QED BY <1>1, PoolInvariant, PTL

\* No page is ever mapped twice or mapped and free.
THEOREM PagesNotAliased == Spec => []NoPageAliased
  <1>1. IInv => NoPageAliased
    BY DEF IInv, PoolInv, NoPageAliased
  <1> QED BY <1>1, PoolInvariant, PTL

\* The counters the admission checks read never drift from the allocations.
THEOREM CountersAreExact == Spec => []CountersExact
  <1>1. IInv => CountersExact
    BY DEF IInv, PoolInv, CountersExact
  <1> QED BY <1>1, PoolInvariant, PTL

\* A bound block-table row always shows the allocation's mapping.
THEOREM RowsPublished == Spec => []TablePublished
  <1>1. IInv => TablePublished
    BY DEF IInv, PoolInv, TablePublished
  <1> QED BY <1>1, PoolInvariant, PTL

\* A block-table row in use is bound to exactly one live allocation, so no two
\* sequences decode through the same row.
THEOREM RowsAreExclusive == Spec => []RowsExclusive
  <1>1. IInv => RowsExclusive
    BY DEF IInv, PoolInv, RowsExclusive
  <1> QED BY <1>1, PoolInvariant, PTL
=============================================================================
