---------------------------- MODULE PagedKVPool ----------------------------
(***************************************************************************)
(* The paged KV-cache pools of the engine (src/core/paged_kv_cache.cpp).   *)
(*                                                                         *)
(* A pool owns a fixed inventory of physical pages and a device block      *)
(* table.  An allocation (PagedKVAllocation) first RESERVES an entitlement *)
(* (a number of pages it may map later) and then MATERIALIZES pages up to  *)
(* that entitlement.  Reserving is the only operation that may run out of  *)
(* pages: an engine that admitted a request relies on every later          *)
(* materialization to succeed, because a failure in the middle of a decode *)
(* round fails every request of the engine.                                *)
(*                                                                         *)
(* The pools are "main" and "backend" KV pools of one engine.  A sequence  *)
(* takes its pages from all of them in one all-or-nothing bundle.          *)
(*                                                                         *)
(* free_page_ids_ is a sorted vector without duplicates; it is the set     *)
(* free[p] here, and a page returned twice shows as a wrong count.  Page   *)
(* contents and the asynchronous copies' payload are left out; the block   *)
(* table's entries are kept.                                               *)
(***************************************************************************)
EXTENDS Integers, Sequences, FiniteSets

CONSTANTS
    Pools,                \* the pools of the engine
    Handles,              \* the PagedKVAllocation objects
    PageGroupCount,       \* physical pages of each pool
    LogicalPageCapacity,  \* longest mapping a block-table row can hold
    TableRows             \* rows of each pool's block table

ASSUME PoolAssumption ==
    /\ PageGroupCount \in [Pools -> Nat \ {0}]
    /\ LogicalPageCapacity \in [Pools -> Nat \ {0}]
    /\ TableRows \in Nat \ {0}
    /\ IsFiniteSet(Handles)

VARIABLES
    free,         \* free[p]: free_page_ids_
    mapped,       \* mapped[p]: mapped_pages_
    entitled,     \* entitled[p]: entitled_pages_
    rowInUse,     \* rowInUse[p][r]: row_in_use_
    table,        \* table[p][r][i]: the device block table
    live,         \* live[p]: the handles whose pool_ is p
    entitlement,  \* entitlement[p][h]: page_entitlement_
    pageIds,      \* pageIds[p][h]: page_ids_
    boundRow,     \* boundRow[p][h]: bound_row_
    fault         \* take_pages threw "entitlement could not be materialized"

vars == <<free, mapped, entitled, rowInUse, table, live, entitlement, pageIds,
          boundRow, fault>>

Page(p) == 0 .. PageGroupCount[p] - 1
Row == 0 .. TableRows - 1
NoRow == -1
Logical(p) == 1 .. LogicalPageCapacity[p]

(***************************************************************************)
(* Pure helpers.                                                           *)
(***************************************************************************)

\* Mutant: the range starts one entry late.
PagesFromLate(ids, n) == {ids[i] : i \in n + 2 .. Len(ids)}

\* The pages a mapping names after its first n entries; all of them for n = 0.
PagesFrom(ids, n) == {ids[i] : i \in n + 1 .. Len(ids)}
PagesOf(ids) == PagesFrom(ids, 0)

\* can_reserve: entitlement admission.
CanReserve(p, n) ==
    /\ n # 0
    /\ n <= LogicalPageCapacity[p]
    /\ n <= PageGroupCount[p] - entitled[p]

\* can_replace_entitlement: exchange an allocation's entitlement.
CanReplaceEntitlement(p, old, new) ==
    /\ old <= entitled[p]
    /\ new <= LogicalPageCapacity[p]
    /\ new <= PageGroupCount[p] - (entitled[p] - old)

\* Mutant: the first pool that fits lets the whole bundle through.
BundleFitsSomewhere(req) == \E p \in DOMAIN req : CanReserve(p, req[p])

\* The check reserve_paged_kv_bundle makes of all its pools before the first change.
BundleFits(req) == \A p \in DOMAIN req : CanReserve(p, req[p])

\* Mutant: the mapping is checked against the row's length only.
MayMaterializeAnything(p, h, n) == n <= LogicalPageCapacity[p]

\* The check of materialize_pages: an allocation maps up to its entitlement.
MayMaterialize(p, h, n) == n <= entitlement[p][h]

\* run_at: count consecutive free pages starting at page b.
RunAt(F, b, count) == \A k \in 0 .. count - 1 : b + k \in F

\* take_pages: the pages handed out for `count`, in ascending order.  A run
\* that continues the mapping (preferred) wins, then the lowest run, then the
\* lowest free pages.
TakePages(F, count, preferred) ==
    {s \in [1 .. count -> F] :
        /\ \A i, j \in 1 .. count : i < j => s[i] < s[j]
        /\ IF RunAt(F, preferred, count)
             THEN s[1] = preferred /\ RunAt({s[i] : i \in 1 .. count}, preferred, count)
             ELSE IF \E b \in F : RunAt(F, b, count)
               THEN /\ RunAt({s[i] : i \in 1 .. count}, s[1], count)
                    /\ \A b \in F : RunAt(F, b, count) => s[1] <= b
               ELSE \A i \in 1 .. count : \A f \in F :
                        f < s[i] => \E j \in 1 .. count : s[j] = f}

\* Mutant: the first entry of the range is not copied.
PublishRangeLate(row, ids, first, count) ==
    [i \in DOMAIN row |-> IF i > first + 1 /\ i <= first + count THEN ids[i] ELSE row[i]]

\* publish_range: copy the mapping entries first+1 .. first+count into the row.
PublishRange(row, ids, first, count) ==
    [i \in DOMAIN row |-> IF i > first /\ i <= first + count THEN ids[i] ELSE row[i]]

-----------------------------------------------------------------------------

\* The constructors of PagedKVPool: everything free, nothing bound; the device
\* block table holds whatever the arena held (page 0 stands for it).
Init ==
    /\ free = [p \in Pools |-> Page(p)]
    /\ mapped = [p \in Pools |-> 0]
    /\ entitled = [p \in Pools |-> 0]
    /\ rowInUse = [p \in Pools |-> [r \in Row |-> FALSE]]
    /\ table = [p \in Pools |-> [r \in Row |-> [i \in Logical(p) |-> 0]]]
    /\ live = [p \in Pools |-> {}]
    /\ entitlement = [p \in Pools |-> [h \in Handles |-> 0]]
    /\ pageIds = [p \in Pools |-> [h \in Handles |-> <<>>]]
    /\ boundRow = [p \in Pools |-> [h \in Handles |-> NoRow]]
    /\ fault = FALSE

\* reserve_paged_kv_bundle: one reservation in each pool of `req`, all checked
\* before the first is made.  A bundle of one pool is PagedKVPool::reserve.
ReserveBundle(h, req) ==
    /\ \A p \in Pools : h \notin live[p]
    /\ BundleFits(req)
    /\ entitled' = [p \in Pools |->
            IF p \in DOMAIN req THEN entitled[p] + req[p] ELSE entitled[p]]
    /\ live' = [p \in Pools |->
            IF p \in DOMAIN req THEN live[p] \cup {h} ELSE live[p]]
    /\ entitlement' = [p \in Pools |->
            IF p \in DOMAIN req THEN [entitlement[p] EXCEPT ![h] = req[p]]
                                ELSE entitlement[p]]
    /\ UNCHANGED <<free, mapped, rowInUse, table, pageIds, boundRow, fault>>

\* materialize_pages: map the allocation's first n pages.
MaterializePages(p, h, n) ==
    /\ h \in live[p]
    /\ n > Len(pageIds[p][h])
    /\ MayMaterialize(p, h, n)
    /\ LET old == Len(pageIds[p][h])
           count == n - old
           preferred == IF old = 0 THEN -1 ELSE pageIds[p][h][old] + 1
           row == boundRow[p][h]
       IN  IF count > Cardinality(free[p])
             THEN /\ fault' = TRUE
                  /\ UNCHANGED <<free, mapped, pageIds, table>>
             ELSE \E acquired \in TakePages(free[p], count, preferred) :
                  /\ free' = [free EXCEPT ![p] = @ \ PagesOf(acquired)]
                  /\ mapped' = [mapped EXCEPT ![p] = @ + count]
                  /\ pageIds' = [pageIds EXCEPT ![p][h] = @ \o acquired]
                  /\ IF row = NoRow
                       THEN UNCHANGED table
                       ELSE table' = [table EXCEPT ![p][row] =
                                PublishRange(@, pageIds[p][h] \o acquired, old, count)]
                  /\ UNCHANGED fault
    /\ UNCHANGED <<entitled, rowInUse, live, entitlement, boundRow>>

\* trim_pages: give back every page after the first n; the entitlement stays.
TrimPages(p, h, n) ==
    /\ h \in live[p]
    /\ n < Len(pageIds[p][h])
    /\ free' = [free EXCEPT ![p] = @ \cup PagesFrom(pageIds[p][h], n)]
    /\ mapped' = [mapped EXCEPT ![p] = @ - (Len(pageIds[p][h]) - n)]
    /\ pageIds' = [pageIds EXCEPT ![p][h] = SubSeq(@, 1, n)]
    /\ UNCHANGED <<entitled, rowInUse, table, live, entitlement, boundRow, fault>>

\* set_page_entitlement: grow or shrink, never below what is mapped.
SetPageEntitlement(p, h, n) ==
    /\ h \in live[p]
    /\ n >= Len(pageIds[p][h])
    /\ CanReplaceEntitlement(p, entitlement[p][h], n)
    /\ entitled' = [entitled EXCEPT ![p] = @ - entitlement[p][h] + n]
    /\ entitlement' = [entitlement EXCEPT ![p][h] = n]
    /\ UNCHANGED <<free, mapped, rowInUse, table, live, pageIds, boundRow, fault>>

\* Mutant: the entitlement becomes the difference, with its operands swapped.
CancelUnmappedSwapped(p, h) ==
    /\ h \in live[p]
    /\ entitled' = [entitled EXCEPT ![p] = @ - entitlement[p][h] + Len(pageIds[p][h])]
    /\ entitlement' = [entitlement EXCEPT ![p][h] = Len(pageIds[p][h]) - @]
    /\ UNCHANGED <<free, mapped, rowInUse, table, live, pageIds, boundRow, fault>>

\* cancel_unmapped_entitlement: a retained sequence keeps only what it mapped.
CancelUnmappedEntitlement(p, h) ==
    /\ h \in live[p]
    /\ entitled' = [entitled EXCEPT ![p] = @ - entitlement[p][h] + Len(pageIds[p][h])]
    /\ entitlement' = [entitlement EXCEPT ![p][h] = Len(pageIds[p][h])]
    /\ UNCHANGED <<free, mapped, rowInUse, table, live, pageIds, boundRow, fault>>

\* resize_paged_kv_bundle: trim and re-entitle several pools' allocations of one
\* owner; every check comes before the first change.
ResizeBundle(h, keep, ent) ==
    /\ \A p \in DOMAIN keep :
        /\ h \in live[p]
        /\ keep[p] <= Len(pageIds[p][h])
        /\ keep[p] <= ent[p]
        /\ CanReplaceEntitlement(p, entitlement[p][h], ent[p])
    /\ free' = [p \in Pools |->
            IF p \in DOMAIN keep THEN free[p] \cup PagesFrom(pageIds[p][h], keep[p])
                                 ELSE free[p]]
    /\ mapped' = [p \in Pools |->
            IF p \in DOMAIN keep THEN mapped[p] - (Len(pageIds[p][h]) - keep[p])
                                 ELSE mapped[p]]
    /\ pageIds' = [p \in Pools |->
            IF p \in DOMAIN keep
              THEN [pageIds[p] EXCEPT ![h] = SubSeq(@, 1, keep[p])]
              ELSE pageIds[p]]
    /\ entitled' = [p \in Pools |->
            IF p \in DOMAIN keep THEN entitled[p] - entitlement[p][h] + ent[p]
                                 ELSE entitled[p]]
    /\ entitlement' = [p \in Pools |->
            IF p \in DOMAIN keep THEN [entitlement[p] EXCEPT ![h] = ent[p]]
                                 ELSE entitlement[p]]
    /\ UNCHANGED <<rowInUse, table, live, boundRow, fault>>

\* bind_row: take a block-table row and publish the whole mapping in it.
BindRow(p, h, r) ==
    /\ h \in live[p]
    /\ boundRow[p][h] = NoRow
    /\ ~rowInUse[p][r]
    /\ rowInUse' = [rowInUse EXCEPT ![p][r] = TRUE]
    /\ boundRow' = [boundRow EXCEPT ![p][h] = r]
    /\ table' = [table EXCEPT ![p][r] =
                    PublishRange(@, pageIds[p][h], 0, Len(pageIds[p][h]))]
    /\ UNCHANGED <<free, mapped, entitled, live, entitlement, pageIds, fault>>

\* Mutant: the row stays marked in use.
UnbindRowKept(p, h) ==
    /\ h \in live[p]
    /\ boundRow[p][h] # NoRow
    /\ boundRow' = [boundRow EXCEPT ![p][h] = NoRow]
    /\ UNCHANGED <<free, mapped, entitled, rowInUse, table, live, entitlement, pageIds,
                   fault>>

\* unbind_row: the row's contents stay behind.
UnbindRow(p, h) ==
    /\ h \in live[p]
    /\ boundRow[p][h] # NoRow
    /\ rowInUse' = [rowInUse EXCEPT ![p][boundRow[p][h]] = FALSE]
    /\ boundRow' = [boundRow EXCEPT ![p][h] = NoRow]
    /\ UNCHANGED <<free, mapped, entitled, table, live, entitlement, pageIds, fault>>

\* release: unbind, return the pages, drop the entitlement (destructor).
Release(p, h) ==
    /\ h \in live[p]
    /\ rowInUse' = IF boundRow[p][h] = NoRow THEN rowInUse
                   ELSE [rowInUse EXCEPT ![p][boundRow[p][h]] = FALSE]
    /\ free' = [free EXCEPT ![p] = @ \cup PagesOf(pageIds[p][h])]
    /\ mapped' = [mapped EXCEPT ![p] = @ - Len(pageIds[p][h])]
    /\ entitled' = [entitled EXCEPT ![p] = @ - entitlement[p][h]]
    /\ live' = [live EXCEPT ![p] = @ \ {h}]
    /\ entitlement' = [entitlement EXCEPT ![p][h] = 0]
    /\ pageIds' = [pageIds EXCEPT ![p][h] = <<>>]
    /\ boundRow' = [boundRow EXCEPT ![p][h] = NoRow]
    /\ UNCHANGED <<table, fault>>

\* operator=(&&): release the target, then take over the source's pages, row and
\* entitlement; the source becomes an empty handle.
MoveAssign(p, from, to) ==
    /\ from # to
    /\ from \in live[p]
    /\ rowInUse' = IF boundRow[p][to] = NoRow THEN rowInUse
                   ELSE [rowInUse EXCEPT ![p][boundRow[p][to]] = FALSE]
    /\ free' = [free EXCEPT ![p] = @ \cup PagesOf(pageIds[p][to])]
    /\ mapped' = [mapped EXCEPT ![p] = @ - Len(pageIds[p][to])]
    /\ entitled' = [entitled EXCEPT ![p] = @ - entitlement[p][to]]
    /\ live' = [live EXCEPT ![p] = (@ \ {from}) \cup {to}]
    /\ entitlement' = [entitlement EXCEPT ![p] =
                [@ EXCEPT ![to] = entitlement[p][from], ![from] = 0]]
    /\ pageIds' = [pageIds EXCEPT ![p] =
                [@ EXCEPT ![to] = pageIds[p][from], ![from] = <<>>]]
    /\ boundRow' = [boundRow EXCEPT ![p] =
                [@ EXCEPT ![to] = boundRow[p][from], ![from] = NoRow]]
    /\ UNCHANGED <<table, fault>>

\* The argument of a bundle call: page counts for some of the pools.
Counts(S) == [S -> UNION {0 .. LogicalPageCapacity[p] : p \in Pools}]

Next ==
    \/ \E h \in Handles, S \in SUBSET Pools \ {{}} :
        \/ \E req \in Counts(S) : ReserveBundle(h, req)
        \/ \E keep, ent \in Counts(S) : ResizeBundle(h, keep, ent)
    \/ \E p \in Pools, h \in Handles :
        \/ \E n \in Logical(p) : MaterializePages(p, h, n)
        \/ \E n \in 0 .. LogicalPageCapacity[p] : TrimPages(p, h, n)
        \/ \E n \in 0 .. LogicalPageCapacity[p] : SetPageEntitlement(p, h, n)
        \/ CancelUnmappedEntitlement(p, h)
        \/ \E r \in Row : BindRow(p, h, r)
        \/ UnbindRow(p, h)
        \/ Release(p, h)
        \/ \E to \in Handles : MoveAssign(p, h, to)

Spec == Init /\ [][Next]_vars

-----------------------------------------------------------------------------
(***************************************************************************)
(* Properties.                                                             *)
(***************************************************************************)

\* Type invariant of the pools and the allocations.
TypeOK ==
    /\ free \in [Pools -> SUBSET Nat]
    /\ mapped \in [Pools -> Int]
    /\ entitled \in [Pools -> Int]
    /\ rowInUse \in [Pools -> [Row -> BOOLEAN]]
    /\ table \in [Pools -> [Row -> Seq(Nat)]]
    /\ live \in [Pools -> SUBSET Handles]
    /\ entitlement \in [Pools -> [Handles -> Nat]]
    /\ pageIds \in [Pools -> [Handles -> Seq(Nat)]]
    /\ boundRow \in [Pools -> [Handles -> Row \cup {NoRow}]]
    /\ fault \in BOOLEAN

\* An entitlement is always honoured: materializing pages within it never finds
\* the free list short (the throw in take_pages is unreachable).
EntitlementHonoured == ~fault

PoolNotAliased(p) ==
    /\ free[p] \subseteq Page(p)
    /\ \A h \in Handles : \A i \in 1 .. Len(pageIds[p][h]) :
          pageIds[p][h][i] \in Page(p) \ free[p]
    /\ \A g, h \in Handles :
          \A i \in 1 .. Len(pageIds[p][g]), j \in 1 .. Len(pageIds[p][h]) :
              pageIds[p][g][i] = pageIds[p][h][j] => g = h /\ i = j

\* No physical page is mapped twice, by one allocation or by two, and no mapped
\* page is on the free list.
NoPageAliased == \A p \in Pools : PoolNotAliased(p)

\* The sum of f over all handles, as the size of the set of counted units.
Total(p, f) == Cardinality({u \in Handles \X Logical(p) : u[2] <= f[u[1]]})

MappedCount(p) == [h \in Handles |-> Len(pageIds[p][h])]

PoolCountersExact(p) ==
    /\ entitled[p] = Total(p, entitlement[p])
    /\ entitled[p] <= PageGroupCount[p]
    /\ mapped[p] = Total(p, MappedCount(p))
    /\ Cardinality(free[p]) + mapped[p] = PageGroupCount[p]

\* The counters the admission checks read are exact: entitled_pages_ is the sum
\* of the live entitlements and never exceeds the inventory, mapped_pages_ is the
\* sum of the mappings, and free and mapped pages make up the inventory.
CountersExact == \A p \in Pools : PoolCountersExact(p)

PoolPublished(p) ==
    \A h \in Handles : boundRow[p][h] # NoRow =>
        \A i \in 1 .. Len(pageIds[p][h]) :
            table[p][boundRow[p][h]][i] = pageIds[p][h][i]

\* What the kernels read through a bound row is the allocation's mapping, for
\* every page that is mapped, whatever was trimmed, grown, rebound or moved.
TablePublished == \A p \in Pools : PoolPublished(p)

PoolRowsExclusive(p) ==
    /\ \A r \in Row : rowInUse[p][r] => \E h \in Handles : boundRow[p][h] = r
    /\ \A h \in Handles : boundRow[p][h] # NoRow => rowInUse[p][boundRow[p][h]]
    /\ \A g, h \in Handles :
          boundRow[p][g] = boundRow[p][h] /\ boundRow[p][g] # NoRow => g = h

\* A block-table row belongs to at most one allocation, and is marked in use
\* exactly while it is bound, so a freed row can always be bound again.
RowsExclusive == \A p \in Pools : PoolRowsExclusive(p)
=============================================================================
