---------------------------- MODULE ServingProofs ----------------------------
(***************************************************************************)
(* For every number of requests, sizes and limits: the HTTP handlers keep  *)
(* the request capacity exact, the store keeps its limits, evicts in order *)
(* and stores whole conversations, and what a client is told agrees with   *)
(* the store and the log.                                                  *)
(***************************************************************************)
EXTENDS Serving, DataTheorems

-----------------------------------------------------------------------------
(***************************************************************************)
(* Sequences without repetition, as the LRU list is one.                   *)
(***************************************************************************)
Distinct(s) == \A i, j \in DOMAIN s : s[i] = s[j] => i = j

\* x comes before y in s.
Before(s, x, y) == \E i, j \in DOMAIN s : i < j /\ s[i] = x /\ s[j] = y

\* A new element at the front; the first k elements.
Push(x, s) == <<x>> \o s
FirstOf(s, k) == SubSeq(s, 1, k)

LEMMA Pushed ==
    ASSUME NEW R, NEW s \in Seq(R), NEW x \in R
    PROVE  LET t == Push(x, s) IN
           /\ t \in Seq(R) /\ Len(t) = Len(s) + 1 /\ DOMAIN t = 1 .. Len(s) + 1
           /\ t[1] = x /\ \A i \in 1 .. Len(s) : t[i + 1] = s[i]
           /\ Distinct(s) /\ x \notin Range(s) => Distinct(t)
           /\ \A y, z : Before(t, y, z) <=> (y = x /\ z \in Range(s)) \/ Before(s, y, z)
  <1> DEFINE t == Push(x, s)
  <1>1. Len(s) \in Nat /\ DOMAIN s = 1 .. Len(s)
    BY LenProperties
  <1>2. t \in Seq(R) /\ Len(t) = Len(s) + 1 /\ DOMAIN t = 1 .. Len(s) + 1
    BY <1>1 DEF Push
  <1>3. t[1] = x /\ \A i \in 1 .. Len(s) : t[i + 1] = s[i]
    BY <1>1 DEF Push
  <1>4. \A j \in DOMAIN t : j = 1 \/ (j - 1 \in DOMAIN s /\ t[j] = s[j - 1])
    BY <1>1, <1>2, <1>3
  <1>5. 1 \in DOMAIN t /\ \A i \in DOMAIN s : i + 1 \in DOMAIN t /\ t[i + 1] = s[i]
    BY <1>1, <1>2, <1>3
  <1>7. ASSUME Distinct(s), x \notin Range(s) PROVE Distinct(t)
    <2> SUFFICES ASSUME NEW i \in DOMAIN t, NEW j \in DOMAIN t, t[i] = t[j] PROVE i = j
      BY DEF Distinct
    <2>1. i \in Int /\ j \in Int
      BY <1>1, <1>2
    <2>2. CASE i = 1 \/ j = 1
      BY <1>3, <1>4, <1>7, <2>1, <2>2 DEF Range
    <2>3. CASE i # 1 /\ j # 1
      <3>1. i - 1 = j - 1
        BY <1>4, <1>7, <2>3 DEF Distinct
      <3> QED BY <2>1, <3>1
    <2> QED BY <2>2, <2>3
  <1>8. ASSUME NEW y, NEW z
        PROVE  Before(t, y, z) <=> (y = x /\ z \in Range(s)) \/ Before(s, y, z)
    <2>1. ASSUME Before(t, y, z) PROVE (y = x /\ z \in Range(s)) \/ Before(s, y, z)
      <3>1. PICK i \in DOMAIN t, j \in DOMAIN t : i < j /\ t[i] = y /\ t[j] = z
        BY <2>1 DEF Before
      <3>2. i \in Int /\ j \in Int /\ j # 1
        BY <1>1, <1>2, <3>1
      <3>3. j - 1 \in DOMAIN s /\ z = s[j - 1]
        BY <1>4, <3>1, <3>2
      <3>4. CASE i = 1
        BY <1>3, <3>1, <3>3, <3>4 DEF Range
      <3>5. CASE i # 1
        <4>1. i - 1 \in DOMAIN s /\ y = s[i - 1] /\ i - 1 < j - 1
          BY <1>4, <3>1, <3>2, <3>5
        <4> QED BY <3>3, <4>1 DEF Before
      <3> QED BY <3>4, <3>5
    <2>2. ASSUME y = x, z \in Range(s) PROVE Before(t, y, z)
      <3>1. PICK j \in DOMAIN s : s[j] = z
        BY <2>2 DEF Range
      <3>2. 1 < j + 1 /\ t[1] = y /\ t[j + 1] = z /\ j + 1 \in DOMAIN t
        BY <1>1, <1>3, <1>5, <2>2, <3>1
      <3> QED BY <1>5, <3>2 DEF Before
    <2>3. ASSUME Before(s, y, z) PROVE Before(t, y, z)
      <3>1. PICK i \in DOMAIN s, j \in DOMAIN s : i < j /\ s[i] = y /\ s[j] = z
        BY <2>3 DEF Before
      <3>2. i + 1 \in DOMAIN t /\ j + 1 \in DOMAIN t /\ i + 1 < j + 1
        BY <1>1, <1>5, <3>1
      <3>3. t[i + 1] = y /\ t[j + 1] = z
        BY <1>5, <3>1
      <3> QED BY <3>2, <3>3 DEF Before
    <2> QED BY <2>1, <2>2, <2>3
  <1> QED BY <1>2, <1>3, <1>7, <1>8

LEMMA PushedRange ==
    ASSUME NEW R, NEW s \in Seq(R), NEW x \in R
    PROVE  Range(Push(x, s)) = Range(s) \cup {x}
  <1> DEFINE t == Push(x, s)
  <1>1. Len(s) \in Nat /\ DOMAIN s = 1 .. Len(s) /\ DOMAIN t = 1 .. Len(s) + 1
    BY LenProperties DEF Push
  <1>3. t[1] = x /\ \A i \in 1 .. Len(s) : t[i + 1] = s[i]
    BY Pushed
  <1>4. \A j \in DOMAIN t : j = 1 \/ (j - 1 \in DOMAIN s /\ t[j] = s[j - 1])
    BY <1>1, <1>3
  <1>5. 1 \in DOMAIN t /\ \A i \in DOMAIN s : i + 1 \in DOMAIN t /\ t[i + 1] = s[i]
    BY <1>1, <1>3
  <1> HIDE DEF t
  <1>6. Range(t) = Range(s) \cup {x}
    <2>1. ASSUME NEW y \in Range(t) PROVE y \in Range(s) \cup {x}
      <3>1. PICK j \in DOMAIN t : t[j] = y
        BY <2>1 DEF Range
      <3> QED BY <1>3, <1>4, <3>1 DEF Range
    <2>2. ASSUME NEW y \in Range(s) PROVE y \in Range(t)
      <3>1. PICK j \in DOMAIN s : s[j] = y
        BY <2>2 DEF Range
      <3> QED BY <1>5, <3>1 DEF Range
    <2>3. x \in Range(t)
      BY <1>3, <1>5 DEF Range
    <2> QED BY <2>1, <2>2, <2>3
  <1> QED BY <1>6 DEF t

\* An element taken out, wherever it is.
LEMMA Erased ==
    ASSUME NEW R, NEW s \in Seq(R), Distinct(s), NEW x \in Range(s), NEW t, t = Without(s, x)
    PROVE  /\ t \in Seq(R) /\ Len(t) = Len(s) - 1
           /\ Range(t) = Range(s) \ {x}
           /\ Distinct(t)
           /\ \A y, z : Before(t, y, z) <=> y # x /\ z # x /\ Before(s, y, z)
  <1>1. Len(s) \in Nat /\ DOMAIN s = 1 .. Len(s)
    BY LenProperties
  <1> DEFINE k == CHOOSE i \in DOMAIN s : s[i] = x
             n == Len(s)
             to(i) == IF i < k THEN i ELSE i + 1
  <1>2. k \in 1 .. n /\ s[k] = x
    BY <1>1 DEF Range
  <1>3. t = [i \in 1 .. n - 1 |-> IF i < k THEN s[i] ELSE s[i + 1]]
    BY DEF Without
  <1> HIDE DEF k
  <1>4. n - 1 \in Nat /\ n \in Nat
    BY <1>1, <1>2
  <1>5. \A i \in 1 .. n - 1 : to(i) \in DOMAIN s /\ t[i] = s[to(i)] /\ to(i) # k
    BY <1>1, <1>2, <1>3, <1>4
  <1>6. t \in Seq(R) /\ Len(t) = n - 1 /\ DOMAIN t = 1 .. n - 1
    <2>1. \A i \in 1 .. n - 1 : t[i] \in R
      <3>1. \A i \in DOMAIN s : s[i] \in R
        BY <1>1
      <3> QED BY <1>5, <3>1
    <2>2. t \in [1 .. n - 1 -> R]
      BY <1>3, <2>1
    <2> QED BY <1>4, <2>2
  <1>7. \A i, j \in 1 .. n - 1 : (i < j <=> to(i) < to(j)) /\ (to(i) = to(j) => i = j)
    BY <1>2, <1>4
  <1>8. \A i \in DOMAIN s : i # k => \E j \in 1 .. n - 1 : to(j) = i
    <2> SUFFICES ASSUME NEW i \in DOMAIN s, i # k PROVE \E j \in 1 .. n - 1 : to(j) = i
      OBVIOUS
    <2>1. i \in 1 .. n /\ k \in 1 .. n
      BY <1>1, <1>2
    <2>2. CASE i < k
      BY <1>4, <2>1, <2>2
    <2>3. CASE ~(i < k)
      <3>1. i - 1 \in 1 .. n - 1 /\ to(i - 1) = i
        BY <1>4, <2>1, <2>3
      <3> QED BY <3>1
    <2> QED BY <2>2, <2>3
  <1>9. \A i \in DOMAIN s : s[i] = x => i = k
    BY <1>1, <1>2 DEF Distinct
  <1> HIDE DEF to
  <1>10. Range(t) = Range(s) \ {x}
    <2>1. ASSUME NEW y \in Range(t) PROVE y \in Range(s) \ {x}
      BY <1>5, <1>6, <1>9, <2>1 DEF Range
    <2>2. ASSUME NEW y \in Range(s) \ {x} PROVE y \in Range(t)
      <3>1. PICK i \in DOMAIN s : s[i] = y
        BY <2>2 DEF Range
      <3>2. i # k
        BY <1>2, <2>2, <3>1
      <3>3. PICK j \in 1 .. n - 1 : to(j) = i
        BY <1>8, <3>2
      <3> QED BY <1>5, <1>6, <3>1, <3>3 DEF Range
    <2> QED BY <2>1, <2>2
  <1>11. Distinct(t)
    BY <1>5, <1>6, <1>7 DEF Distinct
  <1>12. ASSUME NEW y, NEW z
         PROVE  Before(t, y, z) <=> y # x /\ z # x /\ Before(s, y, z)
    <2>1. ASSUME Before(t, y, z) PROVE y # x /\ z # x /\ Before(s, y, z)
      <3>1. PICK i \in DOMAIN t, j \in DOMAIN t : i < j /\ t[i] = y /\ t[j] = z
        BY <2>1 DEF Before
      <3>2. to(i) < to(j) /\ to(i) \in DOMAIN s /\ to(j) \in DOMAIN s
        BY <1>5, <1>6, <1>7, <3>1
      <3>3. s[to(i)] = y /\ s[to(j)] = z /\ y # x /\ z # x
        BY <1>5, <1>6, <1>9, <3>1
      <3> QED BY <3>2, <3>3 DEF Before
    <2>2. ASSUME y # x, z # x, Before(s, y, z) PROVE Before(t, y, z)
      <3>1. PICK i \in DOMAIN s, j \in DOMAIN s : i < j /\ s[i] = y /\ s[j] = z
        BY <2>2 DEF Before
      <3>2. i # k /\ j # k
        BY <1>2, <2>2, <3>1
      <3>3. PICK a \in 1 .. n - 1 : to(a) = i
        BY <1>8, <3>2
      <3>4. PICK b \in 1 .. n - 1 : to(b) = j
        BY <1>8, <3>2
      <3>5. a < b /\ t[a] = y /\ t[b] = z
        BY <1>5, <1>7, <3>1, <3>3, <3>4
      <3> QED BY <1>6, <3>5 DEF Before
    <2> QED BY <2>1, <2>2
  <1> QED BY <1>6, <1>10, <1>11, <1>12

LEMMA Shortened ==
    ASSUME NEW R, NEW s \in Seq(R), NEW k \in 0 .. Len(s)
    PROVE  LET t == FirstOf(s, k) IN
           /\ t \in Seq(R) /\ Len(t) = k /\ DOMAIN t = 1 .. k
           /\ \A i \in 1 .. k : t[i] = s[i] /\ i \in DOMAIN s
           /\ Range(t) \subseteq Range(s)
           /\ Distinct(s) => Distinct(t)
           /\ \A y, z : Before(t, y, z) => Before(s, y, z)
  <1> DEFINE t == FirstOf(s, k)
  <1>1. Len(s) \in Nat /\ DOMAIN s = 1 .. Len(s)
    BY LenProperties
  <1>2. t \in Seq(R) /\ Len(t) = k /\ DOMAIN t = 1 .. k
    BY <1>1 DEF FirstOf
  <1>3. \A i \in 1 .. k : t[i] = s[i] /\ i \in DOMAIN s
    BY <1>1 DEF FirstOf
  <1>4. Range(t) \subseteq Range(s)
    BY <1>2, <1>3 DEF Range
  <1>5. Distinct(s) => Distinct(t)
    BY <1>2, <1>3 DEF Distinct
  <1>6. \A y, z : Before(t, y, z) => Before(s, y, z)
    BY <1>2, <1>3 DEF Before
  <1> QED BY <1>2, <1>3, <1>4, <1>5, <1>6

\* What a sequence lists is finite, and as large as the sequence is long when nothing
\* is listed twice.
LEMMA RangeFinite ==
    ASSUME NEW R, NEW s \in Seq(R)
    PROVE  /\ IsFiniteSet(Range(s)) /\ Range(s) \subseteq R
           /\ Distinct(s) => Cardinality(Range(s)) = Len(s)
  <1>1. Len(s) \in Nat /\ DOMAIN s = 1 .. Len(s) /\ s \in [1 .. Len(s) -> R]
    BY LenProperties
  <1>2. IsFiniteSet(1 .. Len(s)) /\ Cardinality(1 .. Len(s)) = Len(s)
    <2>1. 1 \in Int /\ Len(s) \in Int
      BY <1>1
    <2>2. /\ IsFiniteSet(1 .. Len(s))
          /\ Cardinality(1 .. Len(s)) = IF 1 > Len(s) THEN 0 ELSE Len(s) - 1 + 1
      BY <2>1, FS_Interval, Zenon
    <2> QED BY <1>1, <2>2
  <1>3. s \in [1 .. Len(s) -> Range(s)] /\ Range(s) \subseteq R
    BY <1>1 DEF Range
  <1>4. s \in Surjection(1 .. Len(s), Range(s))
    BY <1>1, <1>3 DEF Surjection, Range
  <1>5. IsFiniteSet(Range(s)) /\ (Cardinality(Range(s)) = Len(s) <=> s \in Injection(1 .. Len(s), Range(s)))
    BY <1>2, <1>4, FS_Surjection
  <1>6. Distinct(s) => s \in Injection(1 .. Len(s), Range(s))
    BY <1>1, <1>3 DEF Distinct, Injection, IsInjective
  <1> QED BY <1>3, <1>5, <1>6

LEMMA Appended ==
    ASSUME NEW R, NEW s \in Seq(R), NEW e \in R, NEW t, t = Append(s, e)
    PROVE  /\ t \in Seq(R) /\ Len(t) = Len(s) + 1
           /\ t[Len(t)] = e /\ t # <<>> /\ Len(t) \in Nat
           /\ DOMAIN t = 1 .. Len(s) + 1
           /\ \A i \in DOMAIN s : t[i] = s[i] /\ i \in DOMAIN t /\ i < Len(t)
           /\ \A i \in DOMAIN t : i \in DOMAIN s \/ i = Len(t)
           /\ s # <<>> => t[1] = s[1]
           /\ s = <<>> => t[1] = e
  <1>1. Len(s) \in Nat /\ DOMAIN s = 1 .. Len(s)
    BY LenProperties
  <1>2. t \in Seq(R) /\ Len(t) = Len(s) + 1 /\ DOMAIN t = 1 .. Len(s) + 1
    BY <1>1
  <1>3. t[Len(t)] = e /\ t # <<>> /\ Len(t) \in Nat
    BY <1>1, <1>2
  <1>4. /\ \A i \in DOMAIN s : t[i] = s[i] /\ i \in DOMAIN t /\ i < Len(t)
        /\ \A i \in DOMAIN t : i \in DOMAIN s \/ i = Len(t)
    BY <1>1, <1>2
  <1>6. s # <<>> => t[1] = s[1]
    BY <1>1, <1>4
  <1>7. s = <<>> => t[1] = e
    BY <1>1, <1>2, <1>3
  <1> QED BY <1>2, <1>3, <1>4, <1>6, <1>7

LEMMA AppendedRange ==
    ASSUME NEW R, NEW s \in Seq(R), NEW e \in R
    PROVE  Range(Append(s, e)) = Range(s) \cup {e}
  <1>1. ASSUME NEW t, t = Append(s, e) PROVE Range(t) = Range(s) \cup {e}
    <2>1. \A i \in DOMAIN s : t[i] = s[i] /\ i \in DOMAIN t
      BY <1>1, Appended
    <2>2. \A i \in DOMAIN t : i \in DOMAIN s \/ t[i] = e
      BY <1>1, Appended
    <2>3. Len(t) \in DOMAIN t /\ t[Len(t)] = e
      BY <1>1, LenProperties
    <2>4. ASSUME NEW y \in Range(t) PROVE y \in Range(s) \cup {e}
      <3>1. PICK j \in DOMAIN t : t[j] = y
        BY <2>4 DEF Range
      <3> QED BY <2>1, <2>2, <3>1 DEF Range
    <2>5. ASSUME NEW y \in Range(s) PROVE y \in Range(t)
      <3>1. PICK j \in DOMAIN s : s[j] = y
        BY <2>5 DEF Range
      <3> QED BY <2>1, <3>1 DEF Range
    <2>6. e \in Range(t)
      BY <2>3 DEF Range
    <2> QED BY <2>4, <2>5, <2>6
  <1> QED BY <1>1, Zenon

-----------------------------------------------------------------------------
(***************************************************************************)
(* The response store.                                                     *)
(***************************************************************************)

\* The bytes of a store, as sums over its records and over their nodes.
Nodes(recs) == UNION {Range(recs[id]) : id \in DOMAIN recs}

LEMMA Accounting ==
    ASSUME NEW recs
    PROVE  RecomputeBytes(recs) = SumOver(EnvelopeBytes, DOMAIN recs)
                                  + SumOver(NodeBytes, Nodes(recs))
  BY DEF RecomputeBytes, NodesBytes, SumOver, Nodes

LEMMA NodesFinite ==
    ASSUME NEW recs, DOMAIN recs \subseteq Ids, IsFiniteSet(DOMAIN recs),
           \A id \in DOMAIN recs : recs[id] \in Seq(Ids)
    PROVE  IsFiniteSet(Nodes(recs)) /\ Nodes(recs) \subseteq Ids
  <1> DEFINE parts == {Range(recs[id]) : id \in DOMAIN recs}
             part == [id \in DOMAIN recs |-> Range(recs[id])]
  <1>1. \A id \in DOMAIN recs : IsFiniteSet(Range(recs[id])) /\ Range(recs[id]) \subseteq Ids
    BY RangeFinite
  <1>2. part \in Surjection(DOMAIN recs, parts)
    BY DEF Surjection
  <1>3. IsFiniteSet(parts)
    BY <1>2, FS_Surjection
  <1>4. \A P \in parts : IsFiniteSet(P)
    BY <1>1
  <1> QED BY <1>1, <1>3, <1>4, FS_UNION DEF Nodes

\* Fewer records need no more bytes.
LEMMA FewerBytes ==
    ASSUME NEW recs, DOMAIN recs \subseteq Ids, IsFiniteSet(DOMAIN recs),
           \A id \in DOMAIN recs : recs[id] \in Seq(Ids),
           NEW S \in SUBSET DOMAIN recs
    PROVE  /\ RecomputeBytes(recs) \in Nat
           /\ RecomputeBytes(Restrict(recs, S)) <= RecomputeBytes(recs)
  <1> DEFINE some == Restrict(recs, S)
  <1>1. DOMAIN some = S /\ \A id \in S : some[id] = recs[id]
    BY DEF Restrict
  <1>2. IsFiniteSet(Nodes(recs)) /\ Nodes(recs) \subseteq Ids
    BY NodesFinite
  <1>3. Nodes(some) \in SUBSET Nodes(recs)
    BY <1>1 DEF Nodes
  <1>4. /\ \A id \in DOMAIN recs : EnvelopeBytes[id] \in Nat
        /\ \A id \in Nodes(recs) : NodeBytes[id] \in Nat
    BY <1>2, StoreAssumption
  <1> HIDE DEF some
  <1>5. /\ SumOver(EnvelopeBytes, DOMAIN recs) \in Nat
        /\ SumOver(NodeBytes, Nodes(recs)) \in Nat
    BY <1>2, <1>4, SumNat
  <1>6. /\ SumOver(EnvelopeBytes, DOMAIN some) <= SumOver(EnvelopeBytes, DOMAIN recs)
        /\ SumOver(NodeBytes, Nodes(some)) <= SumOver(NodeBytes, Nodes(recs))
    BY <1>1, <1>2, <1>3, <1>4, SumSubset
  <1>7. SumOver(EnvelopeBytes, DOMAIN some) \in Nat /\ SumOver(NodeBytes, Nodes(some)) \in Nat
    <2>1. IsFiniteSet(DOMAIN some) /\ IsFiniteSet(Nodes(some))
      BY <1>1, <1>2, <1>3, FS_Subset
    <2>2. /\ \A id \in DOMAIN some : EnvelopeBytes[id] \in Nat
          /\ \A id \in Nodes(some) : NodeBytes[id] \in Nat
      BY <1>1, <1>3, <1>4
    <2> QED BY <2>1, <2>2, SumNat
  <1>8. RecomputeBytes(some) <= RecomputeBytes(recs) /\ RecomputeBytes(recs) \in Nat
    BY <1>5, <1>6, <1>7, Accounting
  <1> QED BY <1>8 DEF some

\* The order lists the records, once each; both limits hold and the bytes are exact.
StoreInv ==
    /\ DOMAIN records \subseteq Ids
    /\ \A id \in DOMAIN records : records[id] \in Seq(Ids)
    /\ lru \in Seq(Ids) /\ Distinct(lru) /\ Range(lru) = DOMAIN records
    /\ Len(lru) <= MaxRecords
    /\ bytes = RecomputeBytes(records) /\ bytes <= MaxBytes

LEMMA StoreFinite ==
    ASSUME StoreInv
    PROVE  IsFiniteSet(DOMAIN records) /\ Cardinality(DOMAIN records) = Len(lru)
  BY RangeFinite DEF StoreInv

LEMMA TouchStore ==
    ASSUME StoreInv, NEW id, Touch(id)
    PROVE  /\ StoreInv' /\ records' = records
           /\ ~Found(id) => lru' = lru
           /\ Found(id) =>
                \A y, z : Before(lru', y, z) <=> \/ y = id /\ z \in DOMAIN records \ {id}
                                                 \/ y # id /\ z # id /\ Before(lru, y, z)
  <1>1. records' = records /\ bytes' = bytes
    BY DEF Touch
  <1>2. CASE ~Found(id)
    <2>1. lru' = lru
      BY <1>2 DEF Touch
    <2> QED BY <1>1, <1>2, <2>1 DEF StoreInv
  <1>3. CASE Found(id)
    <2> DEFINE rest == Without(lru, id)
    <2>1. lru' = Push(id, rest)
      BY <1>3 DEF Touch, Push
    <2>2. /\ lru \in Seq(Ids) /\ Distinct(lru) /\ id \in Range(lru) /\ id \in Ids
          /\ Range(lru) = DOMAIN records
      BY <1>3 DEF StoreInv, Found
    <2>3. /\ rest \in Seq(Ids) /\ Len(rest) = Len(lru) - 1 /\ Distinct(rest)
          /\ Range(rest) = Range(lru) \ {id}
          /\ \A y, z : Before(rest, y, z) <=> y # id /\ z # id /\ Before(lru, y, z)
      BY <2>2, Erased
    <2> HIDE DEF rest
    <2>4. id \notin Range(rest) /\ id \in Ids /\ rest \in Seq(Ids) /\ Distinct(rest)
      BY <2>2, <2>3
    <2>4a. /\ lru' \in Seq(Ids) /\ Len(lru') = Len(rest) + 1
          /\ Range(lru') = Range(rest) \cup {id} /\ Distinct(lru')
          /\ \A y, z : Before(lru', y, z) <=> (y = id /\ z \in Range(rest)) \/ Before(rest, y, z)
      BY <2>1, <2>4, Pushed, PushedRange
    <2>5. Len(lru') = Len(lru) /\ Range(lru') = DOMAIN records
      <3>1. Len(lru) \in Nat
        BY <2>2, LenProperties
      <3>2. Len(lru') = Len(rest) + 1 /\ Len(rest) = Len(lru) - 1
        BY <2>3, <2>4a
      <3>3. Range(lru') = Range(rest) \cup {id} /\ Range(rest) = Range(lru) \ {id}
        BY <2>3, <2>4a
      <3>4. Range(lru') = DOMAIN records
        BY <2>2, <3>3
      <3> QED BY <3>1, <3>2, <3>4
    <2>6. StoreInv'
      BY <1>1, <2>5, <2>4a DEF StoreInv
    <2>7. \A y, z : Before(lru', y, z) <=> \/ y = id /\ z \in DOMAIN records \ {id}
                                           \/ y # id /\ z # id /\ Before(lru, y, z)
      BY <2>2, <2>3, <2>4a
    <2> QED BY <1>1, <1>3, <2>6, <2>7
  <1> QED BY <1>2, <1>3

LEMMA EraseStore ==
    ASSUME StoreInv, NEW id, Erase(id)
    PROVE  /\ StoreInv' /\ id \in DOMAIN records /\ DOMAIN records' = DOMAIN records \ {id}
           /\ \A q \in DOMAIN records' : records'[q] = records[q]
           /\ \A y, z : Before(lru', y, z) => Before(lru, y, z)
  <1>1. /\ id \in DOMAIN records /\ records' = Restrict(records, DOMAIN records \ {id})
        /\ lru' = Without(lru, id) /\ bytes' = RecomputeBytes(records')
    BY DEF Erase, Found
  <1>2. /\ lru \in Seq(Ids) /\ Distinct(lru) /\ id \in Range(lru) /\ Range(lru) = DOMAIN records
    BY <1>1 DEF StoreInv
  <1>3. /\ lru' \in Seq(Ids) /\ Len(lru') = Len(lru) - 1 /\ Distinct(lru')
        /\ Range(lru') = Range(lru) \ {id}
        /\ \A y, z : Before(lru', y, z) <=> y # id /\ z # id /\ Before(lru, y, z)
    BY <1>1, <1>2, Erased
  <1>4. DOMAIN records' = DOMAIN records \ {id} /\ \A q \in DOMAIN records' : records'[q] = records[q]
    BY <1>1 DEF Restrict
  <1>5. bytes' <= MaxBytes
    <2>0. /\ IsFiniteSet(DOMAIN records) /\ DOMAIN records \subseteq Ids
          /\ \A q \in DOMAIN records : records[q] \in Seq(Ids)
          /\ DOMAIN records \ {id} \in SUBSET DOMAIN records
      BY StoreFinite DEF StoreInv
    <2>1. /\ RecomputeBytes(records) \in Nat
          /\ RecomputeBytes(Restrict(records, DOMAIN records \ {id})) <= RecomputeBytes(records)
      BY <2>0, FewerBytes
    <2>2. RecomputeBytes(records') \in Nat
      <3>1. IsFiniteSet(DOMAIN records \ {id})
        BY <2>0, FS_Subset
      <3>2. /\ IsFiniteSet(DOMAIN records') /\ DOMAIN records' \subseteq Ids
            /\ \A q \in DOMAIN records' : records'[q] \in Seq(Ids)
        BY <1>4, <3>1 DEF StoreInv
      <3>3. {} \in SUBSET DOMAIN records'
        OBVIOUS
      <3> QED BY <3>2, <3>3, FewerBytes
    <2>3. bytes' <= bytes /\ bytes \in Nat /\ bytes <= MaxBytes /\ bytes' \in Nat
      BY <1>1, <2>1, <2>2 DEF StoreInv
    <2> QED BY <2>3, StoreAssumption
  <1>6. Len(lru') <= MaxRecords
    <2>1. Len(lru) \in Nat /\ Len(lru) <= MaxRecords /\ MaxRecords \in Nat
      BY <1>2, LenProperties, StoreAssumption DEF StoreInv
    <2> QED BY <1>3, <2>1
  <1>7. StoreInv'
    <2>1. DOMAIN records' \subseteq Ids /\ \A q \in DOMAIN records' : records'[q] \in Seq(Ids)
      BY <1>4 DEF StoreInv
    <2>2. Range(lru') = DOMAIN records'
      BY <1>2, <1>3, <1>4
    <2> QED BY <1>1, <1>3, <1>5, <1>6, <2>1, <2>2 DEF StoreInv
  <1> QED BY <1>1, <1>3, <1>4, <1>7

\* The order and the records of a put, before it evicts.
NewOrder(id) == Push(id, lru)
Grown(id, context_) == [r \in DOMAIN records \cup {id} |-> IF r = id THEN context_ ELSE records[r]]
Fitting(order, recs, k) ==
    /\ k <= MaxRecords
    /\ RecomputeBytes(Restrict(recs, Range(FirstOf(order, k)))) <= MaxBytes

\* What a put leaves: the longest beginning of the new order that fits, which the new
\* record is always part of.
LEMMA InsertKeeps ==
    ASSUME StoreInv, NEW id \in Ids, NEW ctx \in Seq(Ids), Insert(id, ctx), FitsAlone(id, ctx)
    PROVE  LET order == NewOrder(id)
               grown == Grown(id, ctx)
           IN  /\ id \notin DOMAIN records
               /\ order \in Seq(Ids) /\ Distinct(order) /\ Len(order) = Len(lru) + 1
               /\ Range(order) = DOMAIN grown /\ DOMAIN grown \subseteq Ids
               /\ \A q \in DOMAIN grown : grown[q] \in Seq(Ids)
               /\ \E k \in 1 .. Len(order) :
                     /\ lru' = FirstOf(order, k)
                     /\ records' = Restrict(grown, Range(lru'))
                     /\ bytes' = RecomputeBytes(records')
                     /\ Fitting(order, grown, k)
                     /\ \A m \in 1 .. Len(order) : Fitting(order, grown, m) => m <= k
  <1> DEFINE order == NewOrder(id)
             grown == Grown(id, ctx)
             T == {0} \cup {k \in 1 .. Len(order) : Fitting(order, grown, k)}
  <1>1. /\ id \notin DOMAIN records
        /\ lru' = FirstOf(order, Max(T))
        /\ records' = Restrict(grown, Range(lru'))
        /\ bytes' = RecomputeBytes(records')
    BY DEF Insert, KeptPrefix, NewOrder, Grown, Fitting, Found, Push, FirstOf
  <1>2. lru \in Seq(Ids) /\ Distinct(lru) /\ Range(lru) = DOMAIN records /\ DOMAIN records \subseteq Ids
    BY DEF StoreInv
  <1>3. /\ order \in Seq(Ids) /\ Distinct(order) /\ Len(order) = Len(lru) + 1
        /\ Range(order) = Range(lru) \cup {id} /\ order[1] = id
    <2>1. id \notin Range(lru)
      BY <1>1, <1>2
    <2>2. order = Push(id, lru)
      BY DEF NewOrder
    <2> HIDE DEF order
    <2>3. order \in Seq(Ids) /\ Distinct(order) /\ Len(order) = Len(lru) + 1 /\ order[1] = id
      <3>1. lru \in Seq(Ids) /\ Distinct(lru)
        BY <1>2
      <3>2. order \in Seq(Ids) /\ Len(order) = Len(lru) + 1
        BY <2>2, <3>1, Pushed
      <3>3. Distinct(order)
        BY <2>1, <2>2, <3>1, Pushed
      <3>4. order[1] = id
        BY <2>2, <3>1, Pushed
      <3> QED BY <3>2, <3>3, <3>4
    <2>4. Range(order) = Range(lru) \cup {id}
      BY <1>2, <2>2, PushedRange
    <2> QED BY <2>3, <2>4
  <1>4. /\ DOMAIN grown = DOMAIN records \cup {id}
        /\ \A q \in DOMAIN grown : grown[q] = IF q = id THEN ctx ELSE records[q]
    BY DEF Grown
  <1>5. DOMAIN grown \subseteq Ids /\ \A q \in DOMAIN grown : grown[q] \in Seq(Ids)
    BY <1>2, <1>4 DEF StoreInv
  <1> HIDE DEF order, grown
  <1>6. Len(order) \in Nat /\ 1 \in 1 .. Len(order)
    <2>1. Len(lru) \in Nat
      BY <1>2, LenProperties
    <2> QED BY <1>3, <2>1
  <1>7. Fitting(order, grown, 1)
    <2> DEFINE first == FirstOf(order, 1)
               one == Restrict(grown, Range(first))
    <2>1. Range(first) = {id}
      <3>1. 1 \in 0 .. Len(order)
        BY <1>6
      <3>2. DOMAIN first = 1 .. 1 /\ \A i \in 1 .. 1 : first[i] = order[i]
        <4>1. DOMAIN first = 1 .. 1
          <5>1. \A s \in Seq(Ids) : \A j \in 0 .. Len(s) : DOMAIN FirstOf(s, j) = 1 .. j
            BY Shortened
          <5>2. order \in Seq(Ids)
            BY <1>3
          <5> QED BY <3>1, <5>1, <5>2
        <4>2. \A i \in 1 .. 1 : first[i] = order[i]
          BY <1>3, <3>1, Shortened
        <4> QED BY <4>1, <4>2
      <3> QED BY <1>3, <3>2 DEF Range
    <2>2. DOMAIN one = {id} /\ one[id] = ctx
      BY <1>4, <2>1 DEF Restrict
    <2> HIDE DEF one, first
    <2>3. Nodes(one) = Range(ctx)
      BY <2>2 DEF Nodes
    <2>4. SumOver(EnvelopeBytes, {id}) = EnvelopeBytes[id]
      <3>1. IsFiniteSet({id}) /\ {id} # {} /\ IsFiniteSet({})
        BY FS_Singleton, FS_EmptySet
      <3>2. Pick({id}) = id
        BY PickIn
      <3>6. {id} \ {Pick({id})} = {}
        BY <3>2
      <3>7. SumOver(EnvelopeBytes, {id})
              = EnvelopeBytes[Pick({id})] + SumOver(EnvelopeBytes, {id} \ {Pick({id})})
        BY <3>1, SumStep
      <3>3. SumOver(EnvelopeBytes, {id}) = EnvelopeBytes[id] + SumOver(EnvelopeBytes, {})
        BY <3>2, <3>6, <3>7
      <3>4. SumOver(EnvelopeBytes, {}) = 0
        BY <3>1, SumStep
      <3>5. EnvelopeBytes[id] \in Nat
        BY StoreAssumption
      <3> QED BY <3>3, <3>4, <3>5
    <2>5. RecomputeBytes(one) = StandaloneBytes(id, ctx)
      <3>1. RecomputeBytes(one) = SumOver(EnvelopeBytes, {id}) + SumOver(NodeBytes, Range(ctx))
        BY <2>2, <2>3, Accounting
      <3>2. StandaloneBytes(id, ctx) = EnvelopeBytes[id] + SumOver(NodeBytes, Range(ctx))
        BY DEF StandaloneBytes, NodesBytes, SumOver
      <3> QED BY <2>4, <3>1, <3>2
    <2> QED BY <2>5, StoreAssumption DEF Fitting, FitsAlone, one, first
  <1>8. 1 \in T /\ T \in SUBSET (0 .. Len(order)) /\ T # {}
    BY <1>6, <1>7
  <1>9. Max(T) \in T /\ \A y \in T : y <= Max(T)
    <2> HIDE DEF T
    <2> QED BY <1>6, <1>8, LargestNumber
  <1>10. Max(T) \in 1 .. Len(order) /\ Fitting(order, grown, Max(T))
    <2>1. 1 <= Max(T)
      BY <1>8, <1>9
    <2>2. Max(T) # 0
      <3> HIDE DEF T
      <3> QED BY <2>1
    <2> QED BY <1>9, <2>2
  <1>11. \A m \in 1 .. Len(order) : Fitting(order, grown, m) => m <= Max(T)
    BY <1>9
  <1>12. Range(order) = DOMAIN grown
    BY <1>2, <1>3, <1>4
  <1> HIDE DEF T
  <1> QED BY <1>1, <1>3, <1>5, <1>10, <1>11, <1>12 DEF order, grown

LEMMA InsertStore ==
    ASSUME StoreInv, NEW id \in Ids, NEW ctx \in Seq(Ids), Insert(id, ctx), FitsAlone(id, ctx)
    PROVE  /\ StoreInv' /\ id \in DOMAIN records' /\ id \notin DOMAIN records
           /\ DOMAIN records' \subseteq DOMAIN records \cup {id}
           /\ \A q \in DOMAIN records' : records'[q] = IF q = id THEN ctx ELSE records[q]
           /\ \A y, z : Before(lru', y, z) => (y = id /\ z \in DOMAIN records) \/ Before(lru, y, z)
  <1> DEFINE order == NewOrder(id)
             grown == Grown(id, ctx)
  <1>1. /\ id \notin DOMAIN records
        /\ order \in Seq(Ids) /\ Distinct(order) /\ Len(order) = Len(lru) + 1
        /\ Range(order) = DOMAIN grown /\ DOMAIN grown \subseteq Ids
        /\ \A q \in DOMAIN grown : grown[q] \in Seq(Ids)
    BY InsertKeeps
  <1>2. PICK k \in 1 .. Len(order) :
            /\ lru' = FirstOf(order, k)
            /\ records' = Restrict(grown, Range(lru'))
            /\ bytes' = RecomputeBytes(records')
            /\ Fitting(order, grown, k)
            /\ \A m \in 1 .. Len(order) : Fitting(order, grown, m) => m <= k
    BY InsertKeeps
  <1>3. Len(order) \in Nat /\ k \in 0 .. Len(order) /\ k \in Nat /\ 1 \in 1 .. k
    <2>1. Len(order) \in Nat
      BY <1>1, LenProperties
    <2> QED BY <1>2, <2>1
  <1>4. DOMAIN grown = DOMAIN records \cup {id} /\ \A q \in DOMAIN grown : grown[q] = IF q = id THEN ctx ELSE records[q]
    BY DEF Grown
  <1>5. /\ order[1] = id
        /\ \A y, z : Before(order, y, z) <=> (y = id /\ z \in Range(lru)) \/ Before(lru, y, z)
    <2>1. lru \in Seq(Ids)
      BY DEF StoreInv
    <2>2. order = Push(id, lru)
      BY DEF NewOrder
    <2> HIDE DEF order
    <2> QED BY <2>1, <2>2, Pushed
  <1> HIDE DEF order, grown
  <1>6. /\ lru' \in Seq(Ids) /\ Len(lru') = k /\ DOMAIN lru' = 1 .. k
        /\ \A i \in 1 .. k : lru'[i] = order[i]
        /\ Range(lru') \subseteq Range(order) /\ Distinct(lru')
        /\ \A y, z : Before(lru', y, z) => Before(order, y, z)
    <2> DEFINE t == FirstOf(order, k)
    <2>1. t \in Seq(Ids) /\ Len(t) = k /\ DOMAIN t = 1 .. k
      <3>1. \A s \in Seq(Ids) : \A j \in 0 .. Len(s) :
                /\ FirstOf(s, j) \in Seq(Ids) /\ Len(FirstOf(s, j)) = j
                /\ DOMAIN FirstOf(s, j) = 1 .. j
        BY Shortened
      <3>2. order \in Seq(Ids)
        BY <1>1
      <3> QED BY <1>3, <3>1, <3>2
    <2>2. \A i \in 1 .. k : t[i] = order[i]
      BY <1>1, <1>3, Shortened
    <2>3. Range(t) \subseteq Range(order) /\ Distinct(t)
      BY <1>1, <1>3, Shortened
    <2>4. \A y, z : Before(t, y, z) => Before(order, y, z)
      BY <1>1, <1>3, Shortened
    <2>5. lru' = t
      BY <1>2
    <2> HIDE DEF t
    <2> QED BY <2>1, <2>2, <2>3, <2>4, <2>5
  <1>7. DOMAIN records' = Range(lru') /\ \A q \in Range(lru') : records'[q] = grown[q]
    BY <1>2 DEF Restrict
  <1>8. id \in Range(lru')
    BY <1>3, <1>5, <1>6 DEF Range
  <1>9. bytes' <= MaxBytes /\ Len(lru') <= MaxRecords
    BY <1>2, <1>6 DEF Fitting
  <1>10. StoreInv'
    <2>1. DOMAIN records' \subseteq Ids /\ \A q \in DOMAIN records' : records'[q] \in Seq(Ids)
      BY <1>1, <1>6, <1>7
    <2> QED BY <1>2, <1>6, <1>7, <1>9, <2>1 DEF StoreInv
  <1>11. \A q \in DOMAIN records' : records'[q] = IF q = id THEN ctx ELSE records[q]
    BY <1>1, <1>4, <1>6, <1>7
  <1>12. Range(lru) = DOMAIN records
    BY DEF StoreInv
  <1>13. DOMAIN records' \subseteq DOMAIN records \cup {id}
    BY <1>1, <1>4, <1>6, <1>7
  <1>14. \A y, z : Before(lru', y, z) => (y = id /\ z \in DOMAIN records) \/ Before(lru, y, z)
    BY <1>5, <1>6, <1>12
  <1> QED BY <1>1, <1>7, <1>8, <1>10, <1>11, <1>13, <1>14

-----------------------------------------------------------------------------
(***************************************************************************)
(* The handlers.                                                           *)
(***************************************************************************)
Steps == {"idle", "parse", "acquire", "prepare", "start", "run", "put", "events",
          "terminal", "body", "fail", "release", "end"}
Outcomes == {"completed", "cancelled"}
Entries == {"rejected", "start", "done", "error"}
Events == {"created", "delta"} \cup Terminals

Types ==
    /\ pc \in [Ids -> Steps]
    /\ DOMAIN req = Ids
    /\ connected \in [Ids -> BOOLEAN]
    /\ context \in [Ids -> Seq(Ids)]
    /\ outcome \in [Ids -> Outcomes \cup {None}]
    /\ log \in [Ids -> Seq(Entries)]
    /\ seen \in [Ids -> Seq(Events)]

\* The capacity, with the requests between acquire and prepare added to CapacityExact.
Holding(p, held) ==
    /\ p \in {"prepare", "start", "run", "put", "events", "terminal", "body"} => held = "held"
    /\ p \in {"idle", "parse", "acquire", "end"} => held = "free"
Held(r) == IF r \in holds THEN "held" ELSE "free"

Capacity ==
    /\ holds \in SUBSET Ids /\ IsFiniteSet(holds)
    /\ active = Cardinality(holds) /\ active <= MaxActive
    /\ \A r \in Ids : Holding(pc[r], Held(r))

\* What the log of a request holds at each step, as far as the client is told of it.
Logged(p, l, rq) ==
    /\ p \in {"idle", "parse", "acquire", "prepare"} => l = <<>>
    /\ p \in {"start", "run", "put", "fail"} => "done" \notin Range(l)
    /\ p = "put" => rq.api = "responses"
    /\ p = "fail" => "error" \in Range(l)
    /\ p = "events" /\ rq.api # "responses" => "done" \in Range(l)
    /\ p \in {"terminal", "body"} => "done" \in Range(l)

\* What the client has seen at each step.
Told(p, s, rq, c, o) ==
    /\ p \in {"idle", "parse", "acquire", "prepare", "start"} => s = <<>>
    /\ p \notin {"release", "end"} => \A i \in DOMAIN s : s[i] \notin Terminals
    /\ \A i \in DOMAIN s : s[i] \in Terminals => i = Len(s)
    /\ rq.stream /\ s # <<>> => s[1] = "created"
    /\ rq.stream /\ c /\ p \in {"run", "put", "events", "terminal", "fail"} => s # <<>>
    /\ p = "body" => ~rq.stream
    /\ p \in {"put", "events", "terminal", "body"} => o \in Outcomes

Last(s, events) == s # <<>> /\ s[Len(s)] \in events

\* What was ever stored, and how it goes with what the client was told.
Known == DOMAIN records \cup removed
Fate(r) == IF r \in Known THEN "stored" ELSE "never"

Kept(p, l, s, rq, fate) ==
    /\ fate = "stored" => p \in {"events", "terminal", "body", "release", "end"}
    /\ rq.api = "responses" /\ rq.store
          /\ (p \in {"events", "terminal", "body"} \/ Last(s, Outcomes)) => fate = "stored"
    /\ Last(s, Outcomes) => "done" \in Range(l)
    /\ Last(s, {"failed"}) => fate # "stored" /\ "done" \notin Range(l)

HandlerOf(r) ==
    /\ Logged(pc[r], log[r], req[r])
    /\ Told(pc[r], seen[r], req[r], connected[r], outcome[r])
    /\ Kept(pc[r], log[r], seen[r], req[r], Fate(r))

Handlers == \A r \in Ids : HandlerOf(r)

\* The log of a request at each step, record by record: whether its client left, its
\* stream was cut off before it began, its provider was called.
Left(r) == IF connected[r] THEN "here" ELSE "left"
Cut(r) == IF stopping \/ ~connected[r] THEN "cut" ELSE "whole"
Call(r) == IF r \in started THEN "called" ELSE "never"

Closed(l, rq, left, cut, call) ==
    \/ l = <<>> /\ rq.previous # None
    \/ l = <<"rejected">> \/ l = <<"start", "done">> \/ l = <<"start", "error">>
    \/ l = <<"start", "done", "error">> /\ rq.stream /\ left = "left"
    \/ l = <<"start">> /\ rq.stream /\ call = "never" /\ cut = "cut"

Journal(p, l, rq, left, cut, call) ==
    /\ p \in {"idle", "parse", "acquire", "prepare"} => l = <<>> /\ call = "never"
    /\ p = "start" => l = <<"start">> /\ rq.stream /\ call = "never"
    /\ p \in {"run", "put"} => l = <<"start">>
    /\ p = "put" => rq.api = "responses"
    /\ p = "fail" => l = <<"start", "error">>
    /\ p = "events" => l = IF rq.api = "responses" THEN <<"start">> ELSE <<"start", "done">>
    /\ p \in {"terminal", "body"} => l = <<"start", "done">>
    /\ p = "terminal" => rq.stream
    /\ p \in {"release", "end"} => Closed(l, rq, left, cut, call)

Journals == \A r \in Ids : Journal(pc[r], log[r], req[r], Left(r), Cut(r), Call(r))

\* The history of use: what the LRU list orders, it orders the same way.
History ==
    /\ used \in Seq(Ids) /\ Distinct(used)
    /\ DOMAIN records \subseteq Range(used) /\ Range(used) \subseteq Known
    /\ \A y, z : Before(lru, y, z) => Before(used, y, z)

\* The recursion of Conversation over the requests rq.
Solution(rq, f) ==
    f = [r \in Ids |-> IF rq[r].previous = None THEN <<r>> ELSE Append(f[rq[r].previous], r)]
Talk(rq) == CHOOSE f : Solution(rq, f)
Grounded(rq) == \E f : Solution(rq, f) /\ \A g : Solution(rq, g) => g = f

\* A request continues one that arrived before it, so the recursion has one solution;
\* a handler holds the whole conversation before its own turn until it has put it.
Past(rq, r) == IF rq[r].previous = None THEN <<>> ELSE Talk(rq)[rq[r].previous]

Talks ==
    /\ \A r \in Ids : req[r].previous # None => /\ req[r].previous \in Ids
                                                /\ pc[req[r].previous] # "idle"
    /\ \A r \in Ids : pc[r] = "idle" => req[r].previous = None
    /\ Grounded(req)
    /\ \A r \in Ids : pc[r] \in {"idle", "parse"} => context[r] = <<>>
    /\ \A r \in Ids : pc[r] \in {"acquire", "prepare", "start", "run", "put"}
                         => context[r] = Past(req, r)
    /\ \A r \in DOMAIN records : records[r] = Talk(req)[r]

SInv == Types /\ StoreInv /\ Capacity /\ Handlers /\ Journals /\ History /\ Talks

-----------------------------------------------------------------------------
\* Goto, Record and Deliver change the request they name and no other.
LEMMA GotoFacts ==
    ASSUME Types, NEW r \in Ids, NEW p \in Steps, Goto(r, p)
    PROVE  /\ pc' \in [Ids -> Steps] /\ pc'[r] = p
           /\ \A q \in Ids : q # r => pc'[q] = pc[q]
  BY DEF Types, Goto

LEMMA RecordFacts ==
    ASSUME Types, NEW r \in Ids, NEW e \in Entries, Record(r, e)
    PROVE  /\ log' \in [Ids -> Seq(Entries)] /\ log'[r] = Append(log[r], e)
           /\ \A q \in Ids : q # r => log'[q] = log[q]
           /\ Range(log'[r]) = Range(log[r]) \cup {e}
  <1>1. log \in [Ids -> Seq(Entries)] /\ log' = [log EXCEPT ![r] = Append(log[r], e)]
    BY DEF Types, Record
  <1>2. log[r] \in Seq(Entries)
    BY <1>1
  <1>3. Append(log[r], e) \in Seq(Entries) /\ Range(Append(log[r], e)) = Range(log[r]) \cup {e}
    BY <1>2, AppendedRange
  <1> QED BY <1>1, <1>3

\* A record and a step.
LEMMA MovedFacts ==
    ASSUME Types, NEW r \in Ids, NEW p \in Steps, NEW e \in Entries, Goto(r, p), Record(r, e)
    PROVE  /\ pc' \in [Ids -> Steps] /\ log' \in [Ids -> Seq(Entries)]
           /\ \A q \in Ids : q # r => pc'[q] = pc[q] /\ log'[q] = log[q]
  <1>1. pc' \in [Ids -> Steps] /\ \A q \in Ids : q # r => pc'[q] = pc[q]
    BY GotoFacts
  <1>2. log' \in [Ids -> Seq(Entries)] /\ \A q \in Ids : q # r => log'[q] = log[q]
    BY RecordFacts
  <1> QED BY <1>1, <1>2

LEMMA DeliverFacts ==
    ASSUME Types, NEW r \in Ids, NEW e \in Events, Deliver(r, e)
    PROVE  /\ seen' \in [Ids -> Seq(Events)] /\ seen'[r] = Append(seen[r], e)
           /\ \A q \in Ids : q # r => seen'[q] = seen[q]
  <1>1. seen \in [Ids -> Seq(Events)] /\ seen' = [seen EXCEPT ![r] = Append(seen[r], e)]
    BY DEF Types, Deliver
  <1>2. seen[r] \in Seq(Events)
    BY <1>1
  <1>3. Append(seen[r], e) \in Seq(Events)
    BY <1>2
  <1> QED BY <1>1, <1>3

LEMMA SameFacts ==
    ASSUME Types
    PROVE  /\ UNCHANGED log => log' \in [Ids -> Seq(Entries)] /\ \A q \in Ids : log'[q] = log[q]
           /\ UNCHANGED seen => seen' \in [Ids -> Seq(Events)] /\ \A q \in Ids : seen'[q] = seen[q]
  BY DEF Types

LEMMA Words ==
    /\ \A e \in {"rejected", "start", "done", "error"} : e \in Entries
    /\ \A p \in {"idle", "parse", "acquire", "prepare", "start", "run", "put", "events",
                 "terminal", "body", "fail", "release", "end"} : p \in Steps
    /\ \A e \in {"created", "delta", "failed"} : e \in Events
    /\ \A e \in Outcomes : e \in Events /\ e \in Terminals
    /\ "failed" \in Terminals /\ "created" \notin Terminals /\ "delta" \notin Terminals
  BY DEF Entries, Steps, Events, Terminals, Outcomes

\* A write is received, or the client has left: lost, or noticed and logged.
LEMMA WriteFacts ==
    ASSUME Types, NEW r \in Ids, NEW e \in Events, NEW p \in Steps, Write(r, e, p)
    PROVE  /\ pc' \in [Ids -> Steps] /\ log' \in [Ids -> Seq(Entries)]
           /\ seen' \in [Ids -> Seq(Events)]
           /\ \A q \in Ids : q # r => pc'[q] = pc[q] /\ log'[q] = log[q] /\ seen'[q] = seen[q]
           /\ \/ /\ connected[r] /\ seen'[r] = Append(seen[r], e) /\ pc'[r] = p
                 /\ log'[r] = log[r]
              \/ ~connected[r] /\ pc'[r] = p /\ log'[r] = log[r] /\ seen'[r] = seen[r]
              \/ /\ ~connected[r] /\ pc'[r] = "release" /\ seen'[r] = seen[r]
                 /\ Range(log'[r]) = Range(log[r]) \cup {"error"}
                 /\ log'[r] = Append(log[r], "error")
  <1>1. CASE connected[r] /\ Deliver(r, e) /\ Goto(r, p) /\ UNCHANGED log
    BY <1>1, GotoFacts, DeliverFacts, SameFacts
  <1>2. CASE ~connected[r] /\ Goto(r, p) /\ UNCHANGED <<log, seen>>
    BY <1>2, GotoFacts, SameFacts
  <1>3. CASE ~connected[r] /\ Record(r, "error") /\ Goto(r, "release") /\ UNCHANGED seen
    BY <1>3, GotoFacts, RecordFacts, SameFacts, Words
  <1> QED BY <1>1, <1>2, <1>3 DEF Write

\* A step of the handler of r leaves the other requests alone.
Alone(r) ==
    \A q \in Ids : q # r => /\ pc'[q] = pc[q] /\ req'[q] = req[q]
                            /\ connected'[q] = connected[q] /\ context'[q] = context[q]
                            /\ outcome'[q] = outcome[q] /\ log'[q] = log[q] /\ seen'[q] = seen[q]

LEMMA TypesStep ==
    ASSUME SInv, NEW r \in Ids, HandlerStep(r) \/ ClientStep(r)
    PROVE  Types' /\ Alone(r)
  <1>1. Types /\ StoreInv /\ Talks /\ Handlers
    BY DEF SInv
  <1> USE DEF Alone
  <1>2. CASE ReadPrevious(r)
    <2>1. CASE Goto(r, "acquire") /\ UNCHANGED context
      BY <1>1, <1>2, <2>1, GotoFacts, Words DEF Types, ReadPrevious
    <2>2. CASE Goto(r, "end") /\ UNCHANGED context
      BY <1>1, <1>2, <2>2, GotoFacts, Words DEF Types, ReadPrevious
    <2>3. CASE /\ Goto(r, "acquire") /\ Found(req[r].previous)
               /\ context' = [context EXCEPT ![r] = records[req[r].previous]]
      <3>1. records[req[r].previous] \in Seq(Ids)
        BY <1>1, <2>3 DEF StoreInv, Found
      <3>2. context' \in [Ids -> Seq(Ids)] /\ \A q \in Ids : q # r => context'[q] = context[q]
        BY <1>1, <2>3, <3>1 DEF Types
      <3> QED BY <1>1, <1>2, <2>3, <3>2, GotoFacts, Words DEF Types, ReadPrevious
    <2> QED BY <1>2, <2>1, <2>2, <2>3 DEF ReadPrevious
  <1>3. CASE Acquire(r)
    <2>1. CASE Record(r, "rejected") /\ Goto(r, "end")
      <3>1. /\ pc' \in [Ids -> Steps] /\ log' \in [Ids -> Seq(Entries)]
            /\ \A q \in Ids : q # r => pc'[q] = pc[q] /\ log'[q] = log[q]
        BY <1>1, <1>3, <2>1, MovedFacts, Words DEF Acquire
      <3> QED BY <1>1, <1>3, <2>1, <3>1 DEF Types, Acquire
    <2>2. CASE Goto(r, "prepare") /\ UNCHANGED log
      BY <1>1, <1>3, <2>2, GotoFacts, Words DEF Types, Acquire
    <2> QED BY <1>3, <2>1, <2>2 DEF Acquire
  <1>4. CASE PrepareFails(r)
    <2>1. /\ pc' \in [Ids -> Steps] /\ log' \in [Ids -> Seq(Entries)]
          /\ \A q \in Ids : q # r => pc'[q] = pc[q] /\ log'[q] = log[q]
      BY <1>1, <1>4, MovedFacts, Words DEF PrepareFails
    <2> QED BY <1>1, <1>4, <2>1 DEF Types, PrepareFails
  <1>5. CASE PrepareSucceeds(r)
    <2>1. /\ pc' \in [Ids -> Steps] /\ log' \in [Ids -> Seq(Entries)]
          /\ \A q \in Ids : q # r => pc'[q] = pc[q] /\ log'[q] = log[q]
      BY <1>1, <1>5, MovedFacts, Words DEF PrepareSucceeds
    <2> QED BY <1>1, <1>5, <2>1 DEF Types, PrepareSucceeds
  <1>6. CASE WriteStart(r)
    BY <1>1, <1>6, WriteFacts, Words DEF Types, WriteStart
  <1>7. CASE WriteDelta(r)
    BY <1>1, <1>7, WriteFacts, Words DEF Types, WriteDelta
  <1>8. CASE RunReturns(r)
    <2>1. outcome' \in [Ids -> Outcomes \cup {None}] /\ \A q \in Ids : q # r => outcome'[q] = outcome[q]
      BY <1>1, <1>8 DEF Types, RunReturns, Returned, Outcomes
    <2>2. /\ pc' \in [Ids -> Steps] /\ log' \in [Ids -> Seq(Entries)]
          /\ \A q \in Ids : q # r => pc'[q] = pc[q] /\ log'[q] = log[q]
      <3>1. CASE req[r].api = "responses"
        BY <1>1, <1>8, <3>1, GotoFacts, SameFacts, Words DEF RunReturns, AfterRun
      <3>2. CASE req[r].api # "responses"
        BY <1>1, <1>8, <3>2, GotoFacts, RecordFacts, Words DEF RunReturns, AfterRun
      <3> QED BY <3>1, <3>2
    <2> QED BY <1>1, <1>8, <2>1, <2>2 DEF Types, RunReturns
  <1>9. CASE RunThrows(r)
    <2>1. /\ pc' \in [Ids -> Steps] /\ log' \in [Ids -> Seq(Entries)]
          /\ \A q \in Ids : q # r => pc'[q] = pc[q] /\ log'[q] = log[q]
      BY <1>1, <1>9, MovedFacts, Words DEF RunThrows
    <2> QED BY <1>1, <1>9, <2>1 DEF Types, RunThrows
  <1>10. CASE Put(r)
    <2>1. CASE Stored(r)
      BY <1>1, <1>10, <2>1, GotoFacts, Words DEF Types, Put, Stored
    <2>2. CASE TooLarge(r)
      <3>1. /\ pc' \in [Ids -> Steps] /\ log' \in [Ids -> Seq(Entries)]
            /\ \A q \in Ids : q # r => pc'[q] = pc[q] /\ log'[q] = log[q]
        BY <1>1, <1>10, <2>2, MovedFacts, Words DEF Put, TooLarge
      <3> QED BY <1>1, <1>10, <2>2, <3>1 DEF Types, Put, TooLarge
    <2> QED BY <1>10, <2>1, <2>2 DEF Put
  <1>11. CASE FinishEvents(r)
    <2>1. CASE Goto(r, "terminal") /\ UNCHANGED log
      BY <1>1, <1>11, <2>1, GotoFacts, Words DEF Types, FinishEvents
    <2>2. CASE Goto(r, "terminal") /\ Record(r, "done")
      <3>1. /\ pc' \in [Ids -> Steps] /\ log' \in [Ids -> Seq(Entries)]
            /\ \A q \in Ids : q # r => pc'[q] = pc[q] /\ log'[q] = log[q]
        BY <1>1, <1>11, <2>2, MovedFacts, Words DEF FinishEvents
      <3> QED BY <1>1, <1>11, <2>2, <3>1 DEF Types, FinishEvents
    <2>3. CASE Goto(r, "release") /\ Record(r, "error")
      <3>1. /\ pc' \in [Ids -> Steps] /\ log' \in [Ids -> Seq(Entries)]
            /\ \A q \in Ids : q # r => pc'[q] = pc[q] /\ log'[q] = log[q]
        BY <1>1, <1>11, <2>3, MovedFacts, Words DEF FinishEvents
      <3> QED BY <1>1, <1>11, <2>3, <3>1 DEF Types, FinishEvents
    <2> QED BY <1>11, <2>1, <2>2, <2>3 DEF FinishEvents
  <1>12. CASE WriteTerminal(r)
    <2>1. outcome[r] \in Outcomes
      BY <1>1, <1>12 DEF Handlers, HandlerOf, Told, WriteTerminal
    <2> QED BY <1>1, <1>12, <2>1, WriteFacts, Words DEF Types, WriteTerminal
  <1>13. CASE MakeBody(r)
    <2>1. CASE Goto(r, "body") /\ UNCHANGED log
      BY <1>1, <1>13, <2>1, GotoFacts, Words DEF Types, MakeBody
    <2>2. CASE Goto(r, "body") /\ Record(r, "done")
      <3>1. /\ pc' \in [Ids -> Steps] /\ log' \in [Ids -> Seq(Entries)]
            /\ \A q \in Ids : q # r => pc'[q] = pc[q] /\ log'[q] = log[q]
        BY <1>1, <1>13, <2>2, MovedFacts, Words DEF MakeBody
      <3> QED BY <1>1, <1>13, <2>2, <3>1 DEF Types, MakeBody
    <2> QED BY <1>13, <2>1, <2>2 DEF MakeBody
  <1>14. CASE SendBody(r)
    <2>1. outcome[r] \in Outcomes
      BY <1>1, <1>14 DEF Handlers, HandlerOf, Told, SendBody
    <2>2. CASE Deliver(r, outcome[r])
      BY <1>1, <1>14, <2>1, <2>2, GotoFacts, DeliverFacts, Words DEF Types, SendBody
    <2>3. CASE UNCHANGED seen
      BY <1>1, <1>14, <2>3, GotoFacts, Words DEF Types, SendBody
    <2> QED BY <1>14, <2>2, <2>3 DEF SendBody
  <1>15. CASE SendFailure(r)
    <2>2. CASE connected[r]
      <3>1. pc' \in [Ids -> Steps] /\ \A q \in Ids : q # r => pc'[q] = pc[q]
        BY <1>1, <1>15, GotoFacts, Words DEF SendFailure
      <3>2. seen' \in [Ids -> Seq(Events)] /\ \A q \in Ids : q # r => seen'[q] = seen[q]
        BY <1>1, <1>15, <2>2, DeliverFacts, Words DEF SendFailure
      <3> QED BY <1>1, <1>15, <3>1, <3>2 DEF Types, SendFailure
    <2>3. CASE ~connected[r]
      BY <1>1, <1>15, <2>3, GotoFacts, Words DEF Types, SendFailure
    <2> QED BY <2>2, <2>3
  <1>16. CASE Release(r)
    BY <1>1, <1>16, GotoFacts, Words DEF Types, Release
  <1>17. CASE Arrive(r)
    BY <1>1, <1>17, GotoFacts, Words DEF Types, Arrive
  <1>18. CASE Disconnect(r)
    BY <1>1, <1>18 DEF Types, Disconnect
  <1>19. CASE GetResponse(r) \/ DeleteResponse(r)
    BY <1>1, <1>19 DEF Types, GetResponse, DeleteResponse, handlerVars
  <1>20. CASE SkipProvider(r)
    BY <1>1, <1>20, GotoFacts, Words DEF Types, SkipProvider
  <1> QED BY <1>2, <1>3, <1>4, <1>5, <1>6, <1>7, <1>8, <1>9, <1>10, <1>11, <1>12, <1>13,
             <1>14, <1>15, <1>16, <1>17, <1>18, <1>19, <1>20 DEF HandlerStep, ClientStep

-----------------------------------------------------------------------------
(* The capacity.                                                           *)

\* The units are counted exactly after a step.
Counted == /\ holds \in SUBSET Ids /\ IsFiniteSet(holds)
           /\ active = Cardinality(holds) /\ active <= MaxActive

LEMMA DropFacts ==
    ASSUME Capacity, NEW r \in Ids, DropLifetime(r)
    PROVE  /\ Counted' /\ Held(r)' = "free"
           /\ \A q \in Ids : q # r => Held(q)' = Held(q)
  <1>1. holds' = holds \ {r} /\ active' = IF r \in holds THEN active - 1 ELSE active
    BY DEF DropLifetime
  <1>2. /\ holds \in SUBSET Ids /\ IsFiniteSet(holds)
        /\ active = Cardinality(holds) /\ active <= MaxActive
    BY DEF Capacity
  <1>3. IsFiniteSet(holds') /\ holds' \in SUBSET Ids
    BY <1>1, <1>2, FS_RemoveElement
  <1>4. active' = Cardinality(holds')
    <2>1. CASE r \in holds
      BY <1>1, <1>2, <2>1, FS_RemoveElement
    <2>2. CASE r \notin holds
      <3>1. holds \ {r} = holds
        BY <2>2
      <3> QED BY <1>1, <1>2, <2>2, <3>1
    <2> QED BY <2>1, <2>2
  <1>5. active' <= MaxActive
    <2>1. active \in Nat /\ MaxActive \in Nat
      BY <1>2, FS_CardinalityType, ServingAssumption
    <2> QED BY <1>1, <1>2, <2>1
  <1>6. Held(r)' = "free" /\ \A q \in Ids : q # r => Held(q)' = Held(q)
    BY <1>1 DEF Held
  <1> QED BY <1>3, <1>4, <1>5, <1>6 DEF Counted

LEMMA KeepFacts ==
    ASSUME Capacity, UNCHANGED <<holds, active>>
    PROVE  Counted' /\ \A q \in Ids : Held(q)' = Held(q)
  BY DEF Capacity, Counted, Held

LEMMA TakeFacts ==
    ASSUME Capacity, NEW r \in Ids, r \notin holds, active < MaxActive,
           holds' = holds \cup {r}, active' = active + 1
    PROVE  /\ Counted' /\ Held(r)' = "held"
           /\ \A q \in Ids : q # r => Held(q)' = Held(q)
  <1>1. /\ holds \in SUBSET Ids /\ IsFiniteSet(holds) /\ active = Cardinality(holds)
    BY DEF Capacity
  <1>2. IsFiniteSet(holds') /\ Cardinality(holds') = Cardinality(holds) + 1
    BY <1>1, FS_AddElement
  <1>3. active \in Nat /\ MaxActive \in Nat
    BY <1>1, FS_CardinalityType, ServingAssumption
  <1>4. Counted'
    BY <1>1, <1>2, <1>3 DEF Counted
  <1> QED BY <1>4 DEF Held

LEMMA CapacityFrom ==
    ASSUME Capacity, NEW r \in Ids, Alone(r), Counted', Holding(pc'[r], Held(r)'),
           \A q \in Ids : q # r => Held(q)' = Held(q)
    PROVE  Capacity'
  <1>1. \A q \in Ids : Holding(pc[q], Held(q))
    BY DEF Capacity
  <1>2. ASSUME NEW q \in Ids PROVE Holding(pc'[q], Held(q)')
    <2>1. CASE q = r
      BY <2>1
    <2>2. CASE q # r
      <3>1. pc'[q] = pc[q] /\ Held(q)' = Held(q)
        BY <2>2 DEF Alone
      <3> QED BY <1>1, <3>1
    <2> QED BY <2>1, <2>2
  <1> QED BY <1>2 DEF Capacity, Counted

LEMMA CapacityStep ==
    ASSUME SInv, NEW r \in Ids, HandlerStep(r) \/ ClientStep(r)
    PROVE  Capacity'
  <1>1. Types /\ Capacity
    BY DEF SInv
  <1>2. Alone(r)
    BY TypesStep
  <1>3. Holding(pc[r], Held(r)) /\ Held(r) \in {"held", "free"}
    BY <1>1 DEF Capacity, Held
  <1>4. SUFFICES /\ Counted' /\ Holding(pc'[r], Held(r)')
                 /\ \A q \in Ids : q # r => Held(q)' = Held(q)
    BY <1>1, <1>2, CapacityFrom
  \* The steps that keep the lifetime as it is.
  <1>5. ASSUME UNCHANGED <<holds, active>>, Holding(pc'[r], Held(r))
        PROVE  /\ Counted' /\ Holding(pc'[r], Held(r)')
               /\ \A q \in Ids : q # r => Held(q)' = Held(q)
    BY <1>1, <1>5, KeepFacts
  <1>6. ASSUME DropLifetime(r), pc'[r] \in {"end", "fail"}
        PROVE  /\ Counted' /\ Holding(pc'[r], Held(r)')
               /\ \A q \in Ids : q # r => Held(q)' = Held(q)
    BY <1>1, <1>6, DropFacts DEF Holding
  <1>7. CASE ReadPrevious(r)
    <2>1. pc'[r] \in {"acquire", "end"}
      BY <1>1, <1>7, GotoFacts, Words DEF ReadPrevious
    <2> QED BY <1>3, <1>5, <1>7, <2>1 DEF ReadPrevious, Holding
  <1>8. CASE Acquire(r)
    <2>1. CASE Goto(r, "end") /\ UNCHANGED <<holds, active>>
      <3>1. pc'[r] = "end"
        BY <1>1, <2>1, GotoFacts, Words
      <3> QED BY <1>3, <1>5, <1>8, <2>1, <3>1 DEF Acquire, Holding
    <2>2. CASE /\ ~Full /\ holds' = holds \cup {r} /\ active' = active + 1
               /\ Goto(r, "prepare")
      <3>1. pc'[r] = "prepare" /\ holds' = holds \cup {r} /\ active' = active + 1
        BY <1>1, <2>2, GotoFacts, Words
      <3>2. r \notin holds
        BY <1>3, <1>8 DEF Holding, Held, Acquire
      <3>3. active < MaxActive
        <4>1. active \in Nat /\ MaxActive \in Nat
          BY <1>1, FS_CardinalityType, ServingAssumption DEF Capacity
        <4> QED BY <2>2, <4>1 DEF Full
      <3> QED BY <1>1, <3>1, <3>2, <3>3, TakeFacts DEF Holding
    <2> QED BY <1>8, <2>1, <2>2 DEF Acquire
  <1>9. CASE PrepareFails(r)
    BY <1>1, <1>6, <1>9, GotoFacts, Words DEF PrepareFails
  <1>10. CASE PrepareSucceeds(r)
    <2>1. pc'[r] \in {"start", "run"}
      BY <1>1, <1>10, GotoFacts, Words DEF PrepareSucceeds
    <2> QED BY <1>3, <1>5, <1>10, <2>1 DEF PrepareSucceeds, Holding
  <1>11. CASE WriteStart(r) \/ WriteDelta(r)
    <2>1. pc'[r] \in {"run", "release"}
      BY <1>1, <1>11, WriteFacts, Words DEF WriteStart, WriteDelta
    <2> QED BY <1>3, <1>5, <1>11, <2>1 DEF WriteStart, WriteDelta, Holding
  <1>12. CASE RunReturns(r)
    <2>1. pc'[r] \in {"put", "events"}
      BY <1>1, <1>12, GotoFacts, Words DEF RunReturns, AfterRun
    <2> QED BY <1>3, <1>5, <1>12, <2>1 DEF RunReturns, Holding
  <1>13. CASE RunThrows(r)
    <2>1. pc'[r] = "fail"
      BY <1>1, <1>13, GotoFacts, Words DEF RunThrows
    <2>2. CASE UNCHANGED <<holds, active>>
      BY <1>5, <2>1, <2>2 DEF Holding
    <2>3. CASE DropLifetime(r)
      BY <1>6, <2>1, <2>3
    <2> QED BY <1>13, <2>2, <2>3 DEF RunThrows, KeepLifetime
  <1>14. CASE Put(r)
    <2>1. CASE Stored(r)
      <3>1. pc'[r] = "events"
        BY <1>1, <2>1, GotoFacts, Words DEF Stored
      <3> QED BY <1>3, <1>5, <1>14, <2>1, <3>1 DEF Put, Stored, Holding
    <2>2. CASE TooLarge(r)
      <3>1. pc'[r] = "fail"
        BY <1>1, <2>2, GotoFacts, Words DEF TooLarge
      <3>2. CASE UNCHANGED <<holds, active>>
        BY <1>5, <3>1, <3>2 DEF Holding
      <3>3. CASE DropLifetime(r)
        BY <1>6, <3>1, <3>3
      <3> QED BY <2>2, <3>2, <3>3 DEF TooLarge, KeepLifetime
    <2> QED BY <1>14, <2>1, <2>2 DEF Put
  <1>15. CASE FinishEvents(r) \/ MakeBody(r)
    <2>1. pc'[r] \in {"terminal", "body", "release"}
      BY <1>1, <1>15, GotoFacts, Words DEF FinishEvents, MakeBody
    <2> QED BY <1>3, <1>5, <1>15, <2>1 DEF FinishEvents, MakeBody, Holding
  <1>16. CASE WriteTerminal(r)
    <2>1. outcome[r] \in Events
      BY <1>16, Words DEF SInv, Handlers, HandlerOf, Told, WriteTerminal
    <2>2. pc'[r] = "release"
      BY <1>1, <1>16, <2>1, WriteFacts, Words DEF WriteTerminal
    <2> QED BY <1>3, <1>5, <1>16, <2>2 DEF WriteTerminal, Holding
  <1>17. CASE SendBody(r) \/ SendFailure(r)
    <2>1. pc'[r] = "release"
      BY <1>1, <1>17, GotoFacts, Words DEF SendBody, SendFailure
    <2> QED BY <1>3, <1>5, <1>17, <2>1 DEF SendBody, SendFailure, Holding
  <1>18. CASE Release(r)
    BY <1>1, <1>6, <1>18, GotoFacts, Words DEF Release
  <1>19. CASE Arrive(r)
    <2>1. pc'[r] = "parse"
      BY <1>1, <1>19, GotoFacts, Words DEF Arrive
    <2> QED BY <1>3, <1>5, <1>19, <2>1 DEF Arrive, Holding
  <1>20. CASE Disconnect(r) \/ GetResponse(r) \/ DeleteResponse(r)
    BY <1>3, <1>5, <1>20 DEF Disconnect, GetResponse, DeleteResponse, handlerVars
  <1>21. CASE SkipProvider(r)
    <2>1. pc'[r] = "release"
      BY <1>1, <1>21, GotoFacts, Words DEF SkipProvider
    <2> QED BY <1>3, <1>5, <1>21, <2>1 DEF SkipProvider, Holding
  <1> QED BY <1>7, <1>8, <1>9, <1>10, <1>11, <1>12, <1>13, <1>14, <1>15, <1>16, <1>17, <1>18,
             <1>19, <1>20, <1>21 DEF HandlerStep, ClientStep

-----------------------------------------------------------------------------
(* The store and the history of its use.                                   *)

LEMMA StoreSame ==
    ASSUME StoreInv, History, UNCHANGED <<storeVars, history>>
    PROVE  StoreInv' /\ History' /\ \A q : Fate(q)' = Fate(q)
  <1>1. records' = records /\ lru' = lru /\ bytes' = bytes /\ used' = used /\ removed' = removed
    BY DEF storeVars, history
  <1> QED BY <1>1 DEF StoreInv, History, Fate, Known

\* A lookup moves what it finds to the front of both orders.
LEMMA StoreRead ==
    ASSUME StoreInv, History, NEW id, Touch(id), removed' = removed,
           Found(id) => used' = Push(id, Without(used, id)),
           ~Found(id) => used' = used
    PROVE  StoreInv' /\ History' /\ records' = records /\ \A q : Fate(q)' = Fate(q)
  <1>1. StoreInv' /\ records' = records
    BY TouchStore
  <1>2. \A q : Fate(q)' = Fate(q)
    BY <1>1 DEF Fate, Known
  <1>3. CASE ~Found(id)
    <2>1. lru' = lru /\ used' = used
      BY <1>3, TouchStore
    <2> QED BY <1>1, <1>2, <2>1 DEF History, Known
  <1>4. CASE Found(id)
    <2> DEFINE rest == Without(used, id)
    <2>1. /\ used \in Seq(Ids) /\ Distinct(used) /\ id \in Range(used) /\ id \in Ids
          /\ DOMAIN records \subseteq Range(used)
      BY <1>4 DEF History, Found, StoreInv
    <2>2. /\ rest \in Seq(Ids) /\ Distinct(rest) /\ Range(rest) = Range(used) \ {id}
          /\ \A y, z : Before(rest, y, z) <=> y # id /\ z # id /\ Before(used, y, z)
      BY <2>1, Erased
    <2>3. used' = Push(id, rest)
      BY <1>4
    <2> HIDE DEF rest
    <2>4. id \notin Range(rest)
      BY <2>2
    <2>5. used' \in Seq(Ids) /\ Distinct(used')
      BY <2>1, <2>2, <2>3, <2>4, Pushed
    <2>6. \A y, z : Before(used', y, z) <=> (y = id /\ z \in Range(rest)) \/ Before(rest, y, z)
      BY <2>1, <2>2, <2>3, Pushed
    <2>7. Range(used') = Range(rest) \cup {id}
      BY <2>1, <2>2, <2>3, PushedRange
    <2>8. Range(used') = Range(used)
      <3>1. Range(rest) = Range(used) \ {id}
        BY <2>2
      <3> QED BY <2>1, <2>7, <3>1
    <2>9. \A y, z : Before(lru', y, z) <=> \/ y = id /\ z \in DOMAIN records \ {id}
                                           \/ y # id /\ z # id /\ Before(lru, y, z)
      BY <1>4, TouchStore
    <2>10. ASSUME NEW y, NEW z, Before(lru', y, z) PROVE Before(used', y, z)
      <3>1. CASE y = id /\ z \in DOMAIN records \ {id}
        <4>1. z \in Range(rest)
          BY <2>1, <2>2, <3>1
        <4> QED BY <2>6, <3>1, <4>1
      <3>2. CASE y # id /\ z # id /\ Before(lru, y, z)
        <4>1. Before(used, y, z)
          BY <3>2 DEF History
        <4>2. Before(rest, y, z)
          BY <2>2, <3>2, <4>1
        <4> QED BY <2>6, <4>2
      <3> QED BY <2>9, <2>10, <3>1, <3>2
    <2>11. DOMAIN records' \subseteq Range(used') /\ Range(used') \subseteq Known'
      BY <1>1, <2>8 DEF History, Known
    <2> QED BY <1>1, <1>2, <2>5, <2>10, <2>11 DEF History
  <1> QED BY <1>3, <1>4

LEMMA StoreDelete ==
    ASSUME StoreInv, History, NEW id, Erase(id), removed' = removed \cup {id}, used' = used
    PROVE  /\ StoreInv' /\ History' /\ \A q : Fate(q)' = Fate(q)
           /\ DOMAIN records' \subseteq DOMAIN records
           /\ \A q \in DOMAIN records' : records'[q] = records[q]
  <1>1. /\ StoreInv' /\ id \in DOMAIN records /\ DOMAIN records' = DOMAIN records \ {id}
        /\ \A q \in DOMAIN records' : records'[q] = records[q]
        /\ \A y, z : Before(lru', y, z) => Before(lru, y, z)
    BY EraseStore
  <1>2. Known' = Known
    BY <1>1 DEF Known
  <1>3. \A q : Fate(q)' = Fate(q)
    BY <1>2 DEF Fate
  <1>4. History'
    <2>1. /\ used \in Seq(Ids) /\ Distinct(used) /\ DOMAIN records \subseteq Range(used)
          /\ Range(used) \subseteq Known
          /\ \A y, z : Before(lru, y, z) => Before(used, y, z)
      BY DEF History
    <2>2. DOMAIN records' \subseteq Range(used') /\ Range(used') \subseteq Known'
      BY <1>1, <1>2, <2>1
    <2> QED BY <1>1, <2>1, <2>2 DEF History
  <1> QED BY <1>1, <1>3, <1>4

LEMMA StorePut ==
    ASSUME StoreInv, History, NEW r \in Ids, context[r] \in Seq(Ids), r \notin Known, Stored(r)
    PROVE  /\ StoreInv' /\ History' /\ Fate(r)' = "stored"
           /\ \A q : q # r => Fate(q)' = Fate(q)
           /\ DOMAIN records' \subseteq DOMAIN records \cup {r}
           /\ \A q \in DOMAIN records' : records'[q] = IF q = r THEN PutContext(r) ELSE records[q]
  <1> DEFINE ctx == PutContext(r)
  <1>1. ctx \in Seq(Ids)
    BY DEF PutContext, AppendResponseContext
  <1>2. Insert(r, ctx) /\ FitsAlone(r, ctx)
    BY DEF Stored
  <1>3. used' = Push(r, used) /\ removed' = removed \cup (DOMAIN records \ DOMAIN records')
    BY DEF Stored, Push
  <1> HIDE DEF ctx
  <1>4. /\ StoreInv' /\ r \in DOMAIN records'
        /\ DOMAIN records' \subseteq DOMAIN records \cup {r}
        /\ \A q \in DOMAIN records' : records'[q] = IF q = r THEN ctx ELSE records[q]
        /\ \A y, z : Before(lru', y, z) => (y = r /\ z \in DOMAIN records) \/ Before(lru, y, z)
    BY <1>1, <1>2, InsertStore
  <1>5. Known' = Known \cup {r}
    BY <1>3, <1>4 DEF Known
  <1>6. Fate(r)' = "stored" /\ \A q : q # r => Fate(q)' = Fate(q)
    BY <1>5 DEF Fate
  <1>7. /\ used \in Seq(Ids) /\ Distinct(used) /\ r \notin Range(used)
        /\ DOMAIN records \subseteq Range(used) /\ Range(used) \subseteq Known
    BY DEF History
  <1>8. used' \in Seq(Ids) /\ Distinct(used')
    BY <1>3, <1>7, Pushed
  <1>9. Range(used') = Range(used) \cup {r}
    BY <1>3, <1>7, PushedRange
  <1>10. \A y, z : Before(used', y, z) <=> (y = r /\ z \in Range(used)) \/ Before(used, y, z)
    BY <1>3, <1>7, Pushed
  <1>11. \A y, z : Before(lru, y, z) => Before(used, y, z)
    BY DEF History
  <1>12. \A y, z : Before(lru', y, z) => Before(used', y, z)
    BY <1>4, <1>7, <1>10, <1>11
  <1>13. DOMAIN records' \subseteq Range(used') /\ Range(used') \subseteq Known'
    BY <1>4, <1>5, <1>7, <1>9
  <1>14. History'
    BY <1>8, <1>12, <1>13 DEF History
  <1> QED BY <1>4, <1>6, <1>14 DEF ctx

\* What a step does to the store: nothing, or it forgets or adds a record.
Stays(r) == /\ Fate(r)' = Fate(r)
            /\ \A q \in DOMAIN records' : q \in DOMAIN records /\ records'[q] = records[q]
Adds(r) == /\ pc[r] = "put" /\ Stored(r) /\ Fate(r)' = "stored"
           /\ \A q \in DOMAIN records' : IF q = r THEN records'[q] = PutContext(r)
                                         ELSE q \in DOMAIN records /\ records'[q] = records[q]

LEMMA StoreStep ==
    ASSUME SInv, NEW r \in Ids, HandlerStep(r) \/ ClientStep(r)
    PROVE  /\ StoreInv' /\ History'
           /\ \A q \in Ids : q # r => Fate(q)' = Fate(q)
           /\ Stays(r) \/ Adds(r)
  <1>1. Types /\ StoreInv /\ History /\ Handlers
    BY DEF SInv
  <1>2. ASSUME UNCHANGED <<storeVars, history>>
        PROVE  /\ StoreInv' /\ History' /\ Stays(r)
               /\ \A q \in Ids : q # r => Fate(q)' = Fate(q)
    BY <1>1, <1>2, StoreSame DEF Stays, storeVars
  <1>3. CASE ReadPrevious(r)
    <2>1. CASE req[r].previous = None
      BY <1>2, <1>3, <2>1 DEF ReadPrevious
    <2>2. CASE req[r].previous # None
      <3> DEFINE id == req[r].previous
      <3>1. Touch(id) /\ removed' = removed
        BY <1>3, <2>2 DEF ReadPrevious
      <3>2. Found(id) => used' = Push(id, Without(used, id))
        BY <1>3, <2>2 DEF ReadPrevious, Push
      <3>3. ~Found(id) => used' = used
        BY <1>3, <2>2 DEF ReadPrevious
      <3> HIDE DEF id
      <3>4. StoreInv' /\ History' /\ records' = records /\ \A q : Fate(q)' = Fate(q)
        BY <1>1, <3>1, <3>2, <3>3, StoreRead
      <3> QED BY <3>4 DEF Stays
    <2> QED BY <2>1, <2>2
  <1>4. CASE Put(r)
    <2>1. CASE Stored(r)
      <3>1. context[r] \in Seq(Ids)
        BY <1>1 DEF Types
      <3>2. pc[r] = "put"
        BY <1>4 DEF Put
      <3>3. r \notin Known
        BY <1>1, <3>2 DEF Handlers, HandlerOf, Kept, Fate
      <3>4. /\ StoreInv' /\ History' /\ Fate(r)' = "stored"
            /\ \A q : q # r => Fate(q)' = Fate(q)
            /\ DOMAIN records' \subseteq DOMAIN records \cup {r}
            /\ \A q \in DOMAIN records' : records'[q] = IF q = r THEN PutContext(r) ELSE records[q]
        BY <1>1, <2>1, <3>1, <3>3, StorePut
      <3>5. Adds(r)
        BY <2>1, <3>2, <3>4 DEF Adds
      <3> QED BY <3>4, <3>5
    <2>2. CASE TooLarge(r)
      BY <1>2, <2>2 DEF TooLarge
    <2> QED BY <1>4, <2>1, <2>2 DEF Put
  <1>5. CASE GetResponse(r)
    <2>1. Touch(r) /\ removed' = removed
      BY <1>5 DEF GetResponse
    <2>2. Found(r) => used' = Push(r, Without(used, r))
      BY <1>5 DEF GetResponse, Push
    <2>3. ~Found(r) => used' = used
      BY <1>5 DEF GetResponse
    <2>4. StoreInv' /\ History' /\ records' = records /\ \A q : Fate(q)' = Fate(q)
      BY <1>1, <2>1, <2>2, <2>3, StoreRead
    <2> QED BY <2>4 DEF Stays
  <1>6. CASE DeleteResponse(r)
    <2>1. Erase(r) /\ removed' = removed \cup {r} /\ used' = used
      BY <1>6 DEF DeleteResponse
    <2>2. /\ StoreInv' /\ History' /\ \A q : Fate(q)' = Fate(q)
          /\ DOMAIN records' \subseteq DOMAIN records
          /\ \A q \in DOMAIN records' : records'[q] = records[q]
      BY <1>1, <2>1, StoreDelete
    <2> QED BY <2>2 DEF Stays
  <1>7. CASE \/ Acquire(r) \/ PrepareFails(r) \/ PrepareSucceeds(r) \/ WriteStart(r)
             \/ WriteDelta(r) \/ RunReturns(r) \/ RunThrows(r) \/ FinishEvents(r)
    BY <1>2, <1>7 DEF Acquire, PrepareFails, PrepareSucceeds, WriteStart, WriteDelta,
                      RunReturns, RunThrows, FinishEvents
  <1>8. CASE \/ WriteTerminal(r) \/ MakeBody(r) \/ SendBody(r) \/ SendFailure(r) \/ Release(r)
             \/ Arrive(r) \/ Disconnect(r) \/ SkipProvider(r)
    BY <1>2, <1>8 DEF WriteTerminal, MakeBody, SendBody, SendFailure, Release, Arrive, Disconnect,
                      SkipProvider
  <1> QED BY <1>3, <1>4, <1>5, <1>6, <1>7, <1>8 DEF HandlerStep, ClientStep

-----------------------------------------------------------------------------
(* What the client is told.                                                *)

LEMMA HandlersFrom ==
    ASSUME Handlers, NEW r \in Ids, Alone(r), \A q \in Ids : q # r => Fate(q)' = Fate(q),
           Logged(pc'[r], log'[r], req'[r]),
           Told(pc'[r], seen'[r], req'[r], connected'[r], outcome'[r]),
           Kept(pc'[r], log'[r], seen'[r], req'[r], Fate(r)')
    PROVE  Handlers'
  <1>1. ASSUME NEW q \in Ids PROVE HandlerOf(q)'
    <2>1. CASE q = r
      BY <2>1 DEF HandlerOf
    <2>2. CASE q # r
      <3>1. /\ pc'[q] = pc[q] /\ req'[q] = req[q] /\ connected'[q] = connected[q]
            /\ outcome'[q] = outcome[q] /\ log'[q] = log[q] /\ seen'[q] = seen[q]
            /\ Fate(q)' = Fate(q)
        BY <2>2 DEF Alone
      <3>2. HandlerOf(q)
        BY DEF Handlers
      <3> QED BY <3>1, <3>2 DEF HandlerOf
    <2> QED BY <2>1, <2>2
  <1> QED BY <1>1 DEF Handlers

LEMMA NothingLogged == Range(<<>>) = {}
  BY DEF Range

\* One more event.
LEMMA Extended ==
    ASSUME NEW s \in Seq(Events), \A i \in DOMAIN s : s[i] \notin Terminals, NEW e \in Events,
           NEW t, t = Append(s, e)
    PROVE  /\ \A i \in DOMAIN t : t[i] \in Terminals => i = Len(t)
           /\ e \notin Terminals => \A i \in DOMAIN t : t[i] \notin Terminals
           /\ t # <<>> /\ (s # <<>> => t[1] = s[1]) /\ (s = <<>> => t[1] = e)
           /\ Last(t, Outcomes) <=> e \in Outcomes
           /\ Last(t, {"failed"}) <=> e = "failed"
  <1>1. /\ t[Len(t)] = e /\ t # <<>>
        /\ \A i \in DOMAIN s : t[i] = s[i]
        /\ \A i \in DOMAIN t : i \in DOMAIN s \/ i = Len(t)
        /\ s # <<>> => t[1] = s[1]
        /\ s = <<>> => t[1] = e
    BY Appended
  <1> QED BY <1>1 DEF Last

\* Nothing terminal was sent, so the last event is not one.
LEMMA NotEnded ==
    ASSUME NEW s \in Seq(Events), \A i \in DOMAIN s : s[i] \notin Terminals
    PROVE  ~Last(s, Outcomes) /\ ~Last(s, {"failed"})
  <1>1. s # <<>> => Len(s) \in DOMAIN s
    BY LenProperties
  <1> QED BY <1>1, Words DEF Last

LEMMA HandlersStep ==
    ASSUME SInv, NEW r \in Ids, HandlerStep(r) \/ ClientStep(r)
    PROVE  Handlers'
  <1>1. Types /\ Handlers /\ Talks
    BY DEF SInv
  <1>2. Alone(r) /\ Types'
    BY TypesStep
  <1>3. (\A q \in Ids : q # r => Fate(q)' = Fate(q)) /\ (Stays(r) \/ Adds(r))
    BY StoreStep
  <1>4. /\ Logged(pc[r], log[r], req[r])
        /\ Told(pc[r], seen[r], req[r], connected[r], outcome[r])
        /\ Kept(pc[r], log[r], seen[r], req[r], Fate(r))
    BY <1>1 DEF Handlers, HandlerOf
  <1>5. seen[r] \in Seq(Events)
    BY <1>1 DEF Types
  <1>6. pc[r] \notin {"release", "end"} => /\ \A i \in DOMAIN seen[r] : seen[r][i] \notin Terminals
                                           /\ ~Last(seen[r], Outcomes) /\ ~Last(seen[r], {"failed"})
    BY <1>4, <1>5, NotEnded DEF Told
  <1>7. pc[r] # "put" => Fate(r)' = Fate(r)
    BY <1>3 DEF Stays, Adds
  <1> SUFFICES /\ Logged(pc'[r], log'[r], req'[r])
               /\ Told(pc'[r], seen'[r], req'[r], connected'[r], outcome'[r])
               /\ Kept(pc'[r], log'[r], seen'[r], req'[r], Fate(r)')
    BY <1>1, <1>2, <1>3, HandlersFrom
  <1>8. CASE ReadPrevious(r)
    <2>1. /\ pc[r] = "parse" /\ pc'[r] \in {"acquire", "end"} /\ log' = log /\ seen' = seen
          /\ req' = req /\ connected' = connected /\ outcome' = outcome
      BY <1>1, <1>8, GotoFacts, Words DEF ReadPrevious
    <2> QED BY <1>4, <1>6, <1>7, <2>1, NothingLogged DEF Logged, Told, Kept
  <1>9. CASE Acquire(r)
    <2>1. /\ pc[r] = "acquire" /\ seen' = seen /\ req' = req /\ connected' = connected
          /\ outcome' = outcome
      BY <1>9 DEF Acquire
    <2>2. CASE Record(r, "rejected") /\ Goto(r, "end")
      <3>1. pc'[r] = "end" /\ Range(log'[r]) = Range(log[r]) \cup {"rejected"}
        BY <1>1, <2>2, GotoFacts, RecordFacts, Words
      <3> QED BY <1>4, <1>6, <1>7, <2>1, <3>1 DEF Logged, Told, Kept
    <2>3. CASE Goto(r, "prepare") /\ UNCHANGED log
      <3>1. pc'[r] = "prepare" /\ log' = log
        BY <1>1, <2>3, GotoFacts, Words
      <3> QED BY <1>4, <1>6, <1>7, <2>1, <3>1 DEF Logged, Told, Kept
    <2> QED BY <1>9, <2>2, <2>3 DEF Acquire
  <1>10. CASE PrepareFails(r)
    <2>1. /\ pc[r] = "prepare" /\ seen' = seen /\ req' = req /\ connected' = connected
          /\ outcome' = outcome
      BY <1>10 DEF PrepareFails
    <2>2. pc'[r] = "end" /\ Range(log'[r]) = Range(log[r]) \cup {"rejected"}
      BY <1>1, <1>10, GotoFacts, RecordFacts, Words DEF PrepareFails
    <2> QED BY <1>4, <1>6, <1>7, <2>1, <2>2 DEF Logged, Told, Kept
  <1>11. CASE PrepareSucceeds(r)
    <2>1. /\ pc[r] = "prepare" /\ seen' = seen /\ req' = req /\ connected' = connected
          /\ outcome' = outcome
      BY <1>11 DEF PrepareSucceeds
    <2>2. /\ pc'[r] = (IF req[r].stream THEN "start" ELSE "run")
          /\ Range(log'[r]) = Range(log[r]) \cup {"start"}
      BY <1>1, <1>11, GotoFacts, RecordFacts, Words DEF PrepareSucceeds, Streams
    <2>3. "done" \notin Range(log'[r])
      BY <1>4, <2>1, <2>2, NothingLogged DEF Logged
    <2> QED BY <1>4, <1>6, <1>7, <2>1, <2>2, <2>3 DEF Logged, Told, Kept
  <1>12. CASE WriteStart(r)
    <2>1. /\ pc[r] = "start" /\ req' = req /\ connected' = connected /\ outcome' = outcome
      BY <1>12 DEF WriteStart
    <2>2. \/ /\ connected[r] /\ seen'[r] = Append(seen[r], "created") /\ pc'[r] = "run"
             /\ log'[r] = log[r]
          \/ ~connected[r] /\ pc'[r] = "run" /\ log'[r] = log[r] /\ seen'[r] = seen[r]
          \/ /\ ~connected[r] /\ pc'[r] = "release" /\ seen'[r] = seen[r]
             /\ Range(log'[r]) = Range(log[r]) \cup {"error"}
      BY <1>1, <1>12, WriteFacts, Words DEF WriteStart
    <2>3. CASE connected[r] /\ seen'[r] = Append(seen[r], "created") /\ pc'[r] = "run" /\ log'[r] = log[r]
      <3>1. /\ \A i \in DOMAIN seen'[r] : seen'[r][i] \notin Terminals
            /\ seen'[r] # <<>> /\ seen'[r][1] = "created"
            /\ ~Last(seen'[r], Outcomes) /\ ~Last(seen'[r], {"failed"})
        <4>1. seen[r] = <<>> /\ "created" \in Events /\ "created" \notin Terminals /\ "created" \notin Outcomes
          BY <1>4, <2>1, Words DEF Told, Outcomes
        <4>2. \A i \in DOMAIN seen[r] : seen[r][i] \notin Terminals
          BY <1>6, <2>1
        <4>3. \A i \in DOMAIN seen'[r] : seen'[r][i] \notin Terminals
          BY <1>5, <2>3, <4>1, <4>2, Extended
        <4>4. seen'[r] # <<>> /\ seen'[r][1] = "created"
          BY <1>5, <2>3, <4>1, <4>2, Extended
        <4>5. ~Last(seen'[r], Outcomes) /\ ~Last(seen'[r], {"failed"})
          BY <1>5, <2>3, <4>1, <4>2, Extended
        <4> QED BY <4>3, <4>4, <4>5
      <3> QED BY <1>4, <1>7, <2>1, <2>3, <3>1 DEF Logged, Told, Kept
    <2>4. CASE ~connected[r] /\ pc'[r] = "run" /\ log'[r] = log[r] /\ seen'[r] = seen[r]
      BY <1>4, <1>6, <1>7, <2>1, <2>4 DEF Logged, Told, Kept
    <2>5. CASE /\ ~connected[r] /\ pc'[r] = "release" /\ seen'[r] = seen[r]
               /\ Range(log'[r]) = Range(log[r]) \cup {"error"}
      BY <1>4, <1>6, <1>7, <2>1, <2>5 DEF Logged, Told, Kept
    <2> QED BY <2>2, <2>3, <2>4, <2>5
  <1>13. CASE WriteDelta(r)
    <2>1. /\ pc[r] = "run" /\ req' = req /\ connected' = connected /\ outcome' = outcome
          /\ req[r].stream
      BY <1>13 DEF WriteDelta, Streams
    <2>2. \/ /\ connected[r] /\ seen'[r] = Append(seen[r], "delta") /\ pc'[r] = "run"
             /\ log'[r] = log[r]
          \/ ~connected[r] /\ pc'[r] = "run" /\ log'[r] = log[r] /\ seen'[r] = seen[r]
          \/ /\ ~connected[r] /\ pc'[r] = "release" /\ seen'[r] = seen[r]
             /\ Range(log'[r]) = Range(log[r]) \cup {"error"}
      BY <1>1, <1>13, WriteFacts, Words DEF WriteDelta
    <2>3. CASE connected[r] /\ seen'[r] = Append(seen[r], "delta") /\ pc'[r] = "run" /\ log'[r] = log[r]
      <3>0. seen[r] # <<>> /\ seen[r][1] = "created"
        BY <1>4, <2>1, <2>3 DEF Told
      <3>1. /\ \A i \in DOMAIN seen'[r] : seen'[r][i] \notin Terminals
            /\ seen'[r] # <<>> /\ seen'[r][1] = "created"
            /\ ~Last(seen'[r], Outcomes) /\ ~Last(seen'[r], {"failed"})
        <4>1. "delta" \in Events /\ "delta" \notin Terminals /\ "delta" \notin Outcomes
          BY Words DEF Outcomes
        <4>2. \A i \in DOMAIN seen[r] : seen[r][i] \notin Terminals
          BY <1>6, <2>1
        <4>3. \A i \in DOMAIN seen'[r] : seen'[r][i] \notin Terminals
          BY <1>5, <2>3, <4>1, <4>2, Extended
        <4>4. seen'[r] # <<>> /\ seen'[r][1] = "created"
          BY <1>5, <2>3, <3>0, <4>1, <4>2, Extended
        <4>5. ~Last(seen'[r], Outcomes) /\ ~Last(seen'[r], {"failed"})
          BY <1>5, <2>3, <4>1, <4>2, Extended
        <4> QED BY <4>3, <4>4, <4>5
      <3> QED BY <1>4, <1>7, <2>1, <2>3, <3>1 DEF Logged, Told, Kept
    <2>4. CASE ~connected[r] /\ pc'[r] = "run" /\ log'[r] = log[r] /\ seen'[r] = seen[r]
      BY <1>4, <1>6, <1>7, <2>1, <2>4 DEF Logged, Told, Kept
    <2>5. CASE /\ ~connected[r] /\ pc'[r] = "release" /\ seen'[r] = seen[r]
               /\ Range(log'[r]) = Range(log[r]) \cup {"error"}
      BY <1>4, <1>6, <1>7, <2>1, <2>5 DEF Logged, Told, Kept
    <2> QED BY <2>2, <2>3, <2>4, <2>5
  <1>14. CASE RunReturns(r)
    <2>1. pc[r] = "run" /\ req' = req /\ connected' = connected /\ seen' = seen
      BY <1>14 DEF RunReturns
    <2>2. outcome'[r] \in Outcomes
      BY <1>1, <1>14 DEF RunReturns, Returned, Outcomes, Types
    <2>3. CASE req[r].api = "responses"
      <3>1. log' = log /\ pc'[r] = IF req[r].store THEN "put" ELSE "events"
        <4>1. AfterRun(r)
          BY <1>14 DEF RunReturns
        <4>2. Goto(r, IF req[r].store THEN "put" ELSE "events") /\ log' = log
          BY <2>3, <4>1 DEF AfterRun, Stores
        <4> QED BY <1>1, <4>2, GotoFacts, Words
      <3> QED BY <1>4, <1>6, <1>7, <2>1, <2>2, <2>3, <3>1 DEF Logged, Told, Kept
    <2>4. CASE req[r].api # "responses"
      <3>1. pc'[r] = "events" /\ Range(log'[r]) = Range(log[r]) \cup {"done"}
        BY <1>1, <1>14, <2>4, GotoFacts, RecordFacts, Words DEF RunReturns, AfterRun
      <3> QED BY <1>4, <1>6, <1>7, <2>1, <2>2, <2>4, <3>1 DEF Logged, Told, Kept
    <2> QED BY <2>3, <2>4
  <1>15. CASE RunThrows(r)
    <2>1. /\ pc[r] = "run" /\ req' = req /\ connected' = connected /\ seen' = seen
          /\ outcome' = outcome
      BY <1>15 DEF RunThrows
    <2>2. pc'[r] = "fail" /\ Range(log'[r]) = Range(log[r]) \cup {"error"}
      BY <1>1, <1>15, GotoFacts, RecordFacts, Words DEF RunThrows
    <2> QED BY <1>4, <1>6, <1>7, <2>1, <2>2 DEF Logged, Told, Kept
  <1>16. CASE Put(r)
    <2>1. /\ pc[r] = "put" /\ req' = req /\ connected' = connected /\ seen' = seen
          /\ outcome' = outcome
      BY <1>16 DEF Put
    <2>2. CASE Stored(r)
      <3>1. pc'[r] = "events" /\ log' = log
        BY <1>1, <2>2, GotoFacts, Words DEF Stored
      <3>2. Fate(r)' = "stored"
        <4>1. StoreInv /\ context[r] \in Seq(Ids) /\ r \notin Known /\ History
          BY <1>1, <1>4, <2>1 DEF SInv, Types, Kept, Fate
        <4> QED BY <2>2, <4>1, StorePut
      <3>3. Logged(pc'[r], log'[r], req'[r])
        BY <1>4, <2>1, <3>1 DEF Logged
      <3> QED BY <1>4, <1>6, <2>1, <3>1, <3>2, <3>3 DEF Told, Kept
    <2>3. CASE TooLarge(r)
      <3>1. pc'[r] = "fail" /\ Range(log'[r]) = Range(log[r]) \cup {"error"}
        BY <1>1, <2>3, GotoFacts, RecordFacts, Words DEF TooLarge
      <3>2. Fate(r)' = Fate(r)
        BY <2>3 DEF TooLarge, storeVars, history, Fate, Known
      <3> QED BY <1>4, <1>6, <2>1, <3>1, <3>2 DEF Logged, Told, Kept
    <2> QED BY <1>16, <2>2, <2>3 DEF Put
  <1>17. CASE FinishEvents(r)
    <2>1. /\ pc[r] = "events" /\ req' = req /\ connected' = connected /\ seen' = seen
          /\ outcome' = outcome
      BY <1>17 DEF FinishEvents
    <2>2. CASE /\ Goto(r, "terminal")
               /\ IF req[r].api = "responses" THEN Record(r, "done") ELSE UNCHANGED log
      <3>1. pc'[r] = "terminal" /\ "done" \in Range(log'[r])
        <4>1. CASE req[r].api = "responses"
          <5>1. pc'[r] = "terminal" /\ Range(log'[r]) = Range(log[r]) \cup {"done"}
            BY <1>1, <2>2, <4>1, GotoFacts, RecordFacts, Words
          <5> QED BY <5>1
        <4>2. CASE req[r].api # "responses"
          BY <1>1, <1>4, <2>1, <2>2, <4>2, GotoFacts, Words DEF Logged
        <4> QED BY <4>1, <4>2
      <3> QED BY <1>4, <1>6, <1>7, <2>1, <3>1 DEF Logged, Told, Kept
    <2>3. CASE Record(r, "error") /\ Goto(r, "release")
      <3>1. pc'[r] = "release" /\ Range(log'[r]) = Range(log[r]) \cup {"error"}
        BY <1>1, <2>3, GotoFacts, RecordFacts, Words
      <3> QED BY <1>4, <1>6, <1>7, <2>1, <3>1 DEF Logged, Told, Kept
    <2> QED BY <1>17, <2>2, <2>3 DEF FinishEvents
  <1>18. CASE WriteTerminal(r)
    <2>1. /\ pc[r] = "terminal" /\ req' = req /\ connected' = connected /\ outcome' = outcome
      BY <1>18 DEF WriteTerminal
    <2>0. outcome[r] \in Outcomes /\ outcome[r] \in Events /\ outcome[r] # "failed"
      BY <1>4, <2>1, Words DEF Told, Outcomes
    <2>2. \/ /\ connected[r] /\ seen'[r] = Append(seen[r], outcome[r]) /\ pc'[r] = "release"
             /\ log'[r] = log[r]
          \/ ~connected[r] /\ pc'[r] = "release" /\ log'[r] = log[r] /\ seen'[r] = seen[r]
          \/ /\ ~connected[r] /\ pc'[r] = "release" /\ seen'[r] = seen[r]
             /\ Range(log'[r]) = Range(log[r]) \cup {"error"}
      BY <1>1, <1>18, <2>0, WriteFacts, Words DEF WriteTerminal
    <2>3. CASE /\ connected[r] /\ seen'[r] = Append(seen[r], outcome[r]) /\ pc'[r] = "release"
               /\ log'[r] = log[r]
      <3>1. /\ \A i \in DOMAIN seen'[r] : seen'[r][i] \in Terminals => i = Len(seen'[r])
            /\ seen[r] # <<>> => seen'[r][1] = seen[r][1]
            /\ ~Last(seen'[r], {"failed"}) /\ seen'[r] # <<>>
        <4>2. \A i \in DOMAIN seen[r] : seen[r][i] \notin Terminals
          BY <1>6, <2>1
        <4>3. \A i \in DOMAIN seen'[r] : seen'[r][i] \in Terminals => i = Len(seen'[r])
          BY <1>5, <2>0, <2>3, <4>2, Extended
        <4>4. seen'[r] # <<>> /\ (seen[r] # <<>> => seen'[r][1] = seen[r][1])
          BY <1>5, <2>0, <2>3, <4>2, Extended
        <4>5. ~Last(seen'[r], {"failed"})
          BY <1>5, <2>0, <2>3, <4>2, Extended
        <4> QED BY <4>3, <4>4, <4>5
      <3> QED BY <1>4, <1>7, <2>1, <2>3, <3>1 DEF Logged, Told, Kept
    <2>4. CASE ~connected[r] /\ pc'[r] = "release" /\ log'[r] = log[r] /\ seen'[r] = seen[r]
      BY <1>4, <1>6, <1>7, <2>1, <2>4 DEF Logged, Told, Kept
    <2>5. CASE /\ ~connected[r] /\ pc'[r] = "release" /\ seen'[r] = seen[r]
               /\ Range(log'[r]) = Range(log[r]) \cup {"error"}
      BY <1>4, <1>6, <1>7, <2>1, <2>5 DEF Logged, Told, Kept
    <2> QED BY <2>2, <2>3, <2>4, <2>5
  <1>19. CASE MakeBody(r)
    <2>1. /\ pc[r] = "events" /\ req' = req /\ connected' = connected /\ seen' = seen
          /\ outcome' = outcome /\ ~req[r].stream
      BY <1>19 DEF MakeBody, Streams
    <2>2. pc'[r] = "body" /\ "done" \in Range(log'[r])
      <3>1. CASE req[r].api = "responses"
        <4>1. pc'[r] = "body" /\ Range(log'[r]) = Range(log[r]) \cup {"done"}
          BY <1>1, <1>19, <3>1, GotoFacts, RecordFacts, Words DEF MakeBody
        <4> QED BY <4>1
      <3>2. CASE req[r].api # "responses"
        BY <1>1, <1>4, <1>19, <2>1, <3>2, GotoFacts, Words DEF Logged, MakeBody
      <3> QED BY <3>1, <3>2
    <2> QED BY <1>4, <1>6, <1>7, <2>1, <2>2 DEF Logged, Told, Kept
  <1>20. CASE SendBody(r)
    <2>1. /\ pc[r] = "body" /\ req' = req /\ connected' = connected /\ log' = log
          /\ outcome' = outcome /\ ~req[r].stream
      BY <1>4, <1>20 DEF SendBody, Told
    <2>0. outcome[r] \in Outcomes /\ outcome[r] \in Events /\ outcome[r] # "failed"
      BY <1>4, <2>1, Words DEF Told, Outcomes
    <2>2. CASE Deliver(r, outcome[r])
      <3>1. pc'[r] = "release" /\ seen'[r] = Append(seen[r], outcome[r])
        BY <1>1, <1>20, <2>0, <2>2, GotoFacts, DeliverFacts, Words DEF SendBody
      <3>2. /\ \A i \in DOMAIN seen'[r] : seen'[r][i] \in Terminals => i = Len(seen'[r])
            /\ ~Last(seen'[r], {"failed"})
        <4>2. \A i \in DOMAIN seen[r] : seen[r][i] \notin Terminals
          BY <1>6, <2>1
        <4> QED BY <1>5, <2>0, <3>1, <4>2, Extended
      <3> QED BY <1>4, <1>7, <2>1, <3>1, <3>2 DEF Logged, Told, Kept
    <2>3. CASE UNCHANGED seen
      <3>1. pc'[r] = "release" /\ seen' = seen
        BY <1>1, <1>20, <2>3, GotoFacts, Words DEF SendBody
      <3> QED BY <1>4, <1>6, <1>7, <2>1, <3>1 DEF Logged, Told, Kept
    <2> QED BY <1>20, <2>2, <2>3 DEF SendBody
  <1>21. CASE SendFailure(r)
    <2>1. /\ pc[r] = "fail" /\ req' = req /\ connected' = connected /\ log' = log
          /\ outcome' = outcome
      BY <1>21 DEF SendFailure
    <2>2. CASE connected[r]
      <3>1. pc'[r] = "release" /\ seen'[r] = Append(seen[r], "failed")
        BY <1>1, <1>21, <2>2, GotoFacts, DeliverFacts, Words DEF SendFailure
      <3>2. /\ \A i \in DOMAIN seen'[r] : seen'[r][i] \in Terminals => i = Len(seen'[r])
            /\ seen[r] # <<>> => seen'[r][1] = seen[r][1]
            /\ ~Last(seen'[r], Outcomes)
        <4>1. "failed" \in Events /\ "failed" \notin Outcomes
          BY Words DEF Outcomes
        <4>2. \A i \in DOMAIN seen[r] : seen[r][i] \notin Terminals
          BY <1>6, <2>1
        <4> QED BY <1>5, <3>1, <4>1, <4>2, Extended
      <3> QED BY <1>4, <1>7, <2>1, <2>2, <3>1, <3>2 DEF Logged, Told, Kept
    <2>3. CASE ~connected[r]
      <3>1. pc'[r] = "release" /\ seen' = seen
        BY <1>1, <1>21, <2>3, GotoFacts, Words DEF SendFailure
      <3> QED BY <1>4, <1>6, <1>7, <2>1, <3>1 DEF Logged, Told, Kept
    <2> QED BY <2>2, <2>3
  <1>22. CASE Release(r)
    <2>1. /\ pc[r] = "release" /\ req' = req /\ connected' = connected /\ log' = log
          /\ outcome' = outcome /\ seen' = seen /\ pc'[r] = "end"
      BY <1>1, <1>22, GotoFacts, Words DEF Release
    <2> QED BY <1>4, <1>7, <2>1 DEF Logged, Told, Kept
  <1>23. CASE Arrive(r)
    <2>1. /\ pc[r] = "idle" /\ connected' = connected /\ log' = log
          /\ outcome' = outcome /\ seen' = seen /\ pc'[r] = "parse"
      BY <1>1, <1>23, GotoFacts, Words DEF Arrive
    <2> QED BY <1>4, <1>6, <1>7, <2>1 DEF Logged, Told, Kept, Last
  <1>24. CASE Disconnect(r)
    <2>1. /\ pc' = pc /\ req' = req /\ log' = log /\ outcome' = outcome /\ seen' = seen
          /\ connected'[r] = FALSE
      BY <1>1, <1>24 DEF Disconnect, Types
    <2>2. Fate(r)' = Fate(r)
      BY <1>24 DEF Disconnect, storeVars, history, Fate, Known
    <2> QED BY <1>4, <2>1, <2>2 DEF Told
  <1>25. CASE GetResponse(r) \/ DeleteResponse(r)
    <2>1. /\ pc' = pc /\ req' = req /\ log' = log /\ outcome' = outcome /\ seen' = seen
          /\ connected' = connected
      BY <1>25 DEF GetResponse, DeleteResponse, handlerVars
    <2>2. Fate(r)' = Fate(r)
      <3>1. ~Adds(r)
        <4>1. Goto(r, "events") => pc'[r] = "events"
          BY <1>1, GotoFacts, Words
        <4> QED BY <2>1, <4>1 DEF Adds, Stored
      <3> QED BY <1>3, <3>1 DEF Stays
    <2> QED BY <1>4, <2>1, <2>2
  <1>26. CASE SkipProvider(r)
    <2>1. /\ pc[r] = "start" /\ req' = req /\ connected' = connected /\ log' = log
          /\ outcome' = outcome /\ seen' = seen /\ pc'[r] = "release"
      BY <1>1, <1>26, GotoFacts, Words DEF SkipProvider
    <2> QED BY <1>4, <1>6, <1>7, <2>1 DEF Logged, Told, Kept
  <1> QED BY <1>8, <1>9, <1>10, <1>11, <1>12, <1>13, <1>14, <1>15, <1>16, <1>17, <1>18, <1>19,
             <1>20, <1>21, <1>22, <1>23, <1>24, <1>25, <1>26 DEF HandlerStep, ClientStep

-----------------------------------------------------------------------------
(* The log, record by record.                                              *)

LEMMA Records ==
    /\ Append(<<>>, "rejected") = <<"rejected">> /\ Append(<<>>, "start") = <<"start">>
    /\ Append(<<"start">>, "done") = <<"start", "done">>
    /\ Append(<<"start">>, "error") = <<"start", "error">>
    /\ Append(<<"start", "done">>, "error") = <<"start", "done", "error">>
  <1>1. \A e : Append(<<>>, e) = <<e>>
    OBVIOUS
  <1>2. ASSUME NEW d, NEW e PROVE Append(<<d>>, e) = <<d, e>>
    <2> DEFINE s == Append(<<d>>, e)
               t == <<d, e>>
               S == {d, e}
    <2>1. s \in Seq(S) /\ Len(s) = 2 /\ s[1] = d /\ s[2] = e
      OBVIOUS
    <2>2. t \in Seq(S) /\ Len(t) = 2 /\ t[1] = d /\ t[2] = e
      OBVIOUS
    <2> HIDE DEF s, t
    <2>3. \A i \in 1 .. Len(s) : i = 1 \/ i = 2
      BY <2>1
    <2>4. s = t
      BY <2>1, <2>2, <2>3, SeqEqual
    <2> QED BY <2>4 DEF s, t
  <1>3. ASSUME NEW c, NEW d, NEW e PROVE Append(<<c, d>>, e) = <<c, d, e>>
    <2> DEFINE s == Append(<<c, d>>, e)
               t == <<c, d, e>>
               S == {c, d, e}
    <2>1. s \in Seq(S) /\ Len(s) = 3 /\ s[1] = c /\ s[2] = d /\ s[3] = e
      OBVIOUS
    <2>2. t \in Seq(S) /\ Len(t) = 3 /\ t[1] = c /\ t[2] = d /\ t[3] = e
      OBVIOUS
    <2> HIDE DEF s, t
    <2>3. \A i \in 1 .. Len(s) : i = 1 \/ i = 2 \/ i = 3
      BY <2>1
    <2>4. s = t
      BY <2>1, <2>2, <2>3, SeqEqual
    <2> QED BY <2>4 DEF s, t
  <1> QED BY <1>1, <1>2, <1>3, Zenon

\* No step of a handler or a client stops the server or calls another's provider.
LEMMA ServerStays ==
    ASSUME NEW r \in Ids, HandlerStep(r) \/ ClientStep(r)
    PROVE  stopping' = stopping /\ started' \in {started, started \cup {r}}
  <1>1. CASE \/ ReadPrevious(r) \/ Acquire(r) \/ PrepareFails(r) \/ PrepareSucceeds(r)
             \/ SkipProvider(r) \/ WriteStart(r) \/ WriteDelta(r) \/ RunReturns(r)
    BY <1>1 DEF ReadPrevious, Acquire, PrepareFails, PrepareSucceeds, SkipProvider, WriteStart,
                WriteDelta, RunReturns, serverVars
  <1>2. CASE \/ RunThrows(r) \/ Put(r) \/ FinishEvents(r) \/ WriteTerminal(r) \/ MakeBody(r)
             \/ SendBody(r) \/ SendFailure(r) \/ Release(r)
    BY <1>2 DEF RunThrows, Put, FinishEvents, WriteTerminal, MakeBody, SendBody, SendFailure,
                Release, serverVars
  <1>3. CASE ClientStep(r)
    BY <1>3 DEF ClientStep, Arrive, Disconnect, GetResponse, DeleteResponse, serverVars, handlerVars
  <1> QED BY <1>1, <1>2, <1>3 DEF HandlerStep

LEMMA JournalsFrom ==
    ASSUME Journals, NEW r \in Ids, HandlerStep(r) \/ ClientStep(r), Alone(r),
           Journal(pc'[r], log'[r], req'[r], Left(r)', Cut(r)', Call(r)')
    PROVE  Journals'
  <1>1. ASSUME NEW q \in Ids
        PROVE  Journal(pc'[q], log'[q], req'[q], Left(q)', Cut(q)', Call(q)')
    <2>1. CASE q = r
      BY <2>1
    <2>2. CASE q # r
      <3>1. /\ pc'[q] = pc[q] /\ req'[q] = req[q] /\ log'[q] = log[q]
            /\ connected'[q] = connected[q]
        BY <2>2 DEF Alone
      <3>2. Left(q)' = Left(q) /\ Cut(q)' = Cut(q) /\ Call(q)' = Call(q)
        BY <2>2, <3>1, ServerStays DEF Left, Cut, Call
      <3>3. Journal(pc[q], log[q], req[q], Left(q), Cut(q), Call(q))
        BY DEF Journals
      <3> QED BY <3>1, <3>2, <3>3
    <2> QED BY <2>1, <2>2
  <1> QED BY <1>1 DEF Journals

LEMMA JournalsStep ==
    ASSUME SInv, NEW r \in Ids, HandlerStep(r) \/ ClientStep(r)
    PROVE  Journals'
  <1>1. Types /\ Journals /\ Handlers
    BY DEF SInv
  <1>2. Alone(r)
    BY TypesStep
  <1>3. Journal(pc[r], log[r], req[r], Left(r), Cut(r), Call(r))
    BY <1>1 DEF Journals
  <1> SUFFICES Journal(pc'[r], log'[r], req'[r], Left(r)', Cut(r)', Call(r)')
    BY <1>1, <1>2, JournalsFrom
  <1>4. ASSUME connected' = connected
        PROVE  Left(r)' = Left(r) /\ Cut(r)' = Cut(r)
    BY <1>4, ServerStays DEF Left, Cut
  <1>5. ASSUME started' = started
        PROVE  Call(r)' = Call(r)
    BY <1>5 DEF Call
  <1>6. CASE ReadPrevious(r)
    <2>1. /\ pc[r] = "parse" /\ log' = log /\ req' = req /\ connected' = connected
          /\ started' = started
      BY <1>6 DEF ReadPrevious
    <2>2. pc'[r] = "acquire" \/ (pc'[r] = "end" /\ req[r].previous # None)
      BY <1>1, <1>6, GotoFacts, Words DEF ReadPrevious
    <2> QED BY <1>3, <1>4, <1>5, <2>1, <2>2 DEF Journal, Closed
  <1>7. CASE Acquire(r)
    <2>1. /\ pc[r] = "acquire" /\ req' = req /\ connected' = connected /\ started' = started
      BY <1>7 DEF Acquire
    <2>2. CASE Record(r, "rejected") /\ Goto(r, "end")
      <3>1. pc'[r] = "end" /\ log'[r] = Append(log[r], "rejected")
        BY <1>1, <2>2, GotoFacts, RecordFacts, Words
      <3> QED BY <1>3, <2>1, <3>1, Records DEF Journal, Closed
    <2>3. CASE Goto(r, "prepare") /\ UNCHANGED log
      <3>1. pc'[r] = "prepare" /\ log' = log
        BY <1>1, <2>3, GotoFacts, Words
      <3> QED BY <1>3, <1>5, <2>1, <3>1 DEF Journal
    <2> QED BY <1>7, <2>2, <2>3 DEF Acquire
  <1>8. CASE PrepareFails(r)
    <2>1. pc[r] = "prepare" /\ req' = req
      BY <1>8 DEF PrepareFails
    <2>2. pc'[r] = "end" /\ log'[r] = Append(log[r], "rejected")
      BY <1>1, <1>8, GotoFacts, RecordFacts, Words DEF PrepareFails
    <2> QED BY <1>3, <2>1, <2>2, Records DEF Journal, Closed
  <1>9. CASE PrepareSucceeds(r)
    <2>1. pc[r] = "prepare" /\ req' = req /\ started' = started
      BY <1>9 DEF PrepareSucceeds
    <2>2. /\ pc'[r] = (IF req[r].stream THEN "start" ELSE "run")
          /\ log'[r] = Append(log[r], "start")
      BY <1>1, <1>9, GotoFacts, RecordFacts, Words DEF PrepareSucceeds, Streams
    <2> QED BY <1>3, <1>5, <2>1, <2>2, Records DEF Journal
  \* The provider is not called, and the log stays as it is.
  <1>10. CASE SkipProvider(r)
    <2>1. /\ pc[r] = "start" /\ req' = req /\ connected' = connected /\ log' = log
          /\ started' = started /\ pc'[r] = "release" /\ Cut(r) = "cut"
      BY <1>1, <1>10, GotoFacts, Words DEF SkipProvider, Cut
    <2> QED BY <1>3, <1>4, <1>5, <2>1 DEF Journal, Closed
  <1>11. CASE WriteStart(r)
    <2>1. pc[r] = "start" /\ req' = req
      BY <1>11 DEF WriteStart
    <2>2. \/ pc'[r] = "run" /\ log'[r] = log[r]
          \/ pc'[r] = "release" /\ log'[r] = Append(log[r], "error")
      BY <1>1, <1>11, WriteFacts, Words DEF WriteStart
    <2> QED BY <1>3, <2>1, <2>2, Records DEF Journal, Closed
  <1>12. CASE WriteDelta(r)
    <2>1. pc[r] = "run" /\ req' = req
      BY <1>12 DEF WriteDelta
    <2>2. \/ pc'[r] = "run" /\ log'[r] = log[r]
          \/ pc'[r] = "release" /\ log'[r] = Append(log[r], "error")
      BY <1>1, <1>12, WriteFacts, Words DEF WriteDelta
    <2> QED BY <1>3, <2>1, <2>2, Records DEF Journal, Closed
  <1>13. CASE RunReturns(r)
    <2>1. pc[r] = "run" /\ req' = req /\ AfterRun(r)
      BY <1>13 DEF RunReturns
    <2>2. CASE req[r].api = "responses"
      <3>1. Goto(r, IF req[r].store THEN "put" ELSE "events") /\ log' = log
        BY <2>1, <2>2 DEF AfterRun, Stores
      <3>2. pc'[r] \in {"put", "events"} /\ log'[r] = log[r]
        BY <1>1, <3>1, GotoFacts, Words
      <3> QED BY <1>3, <2>1, <2>2, <3>2 DEF Journal
    <2>3. CASE req[r].api # "responses"
      <3>1. pc'[r] = "events" /\ log'[r] = Append(log[r], "done")
        BY <1>1, <2>1, <2>3, GotoFacts, RecordFacts, Words DEF AfterRun
      <3> QED BY <1>3, <2>1, <2>3, <3>1, Records DEF Journal
    <2> QED BY <2>2, <2>3
  <1>14. CASE RunThrows(r)
    <2>1. pc[r] = "run"
      BY <1>14 DEF RunThrows
    <2>2. pc'[r] = "fail" /\ log'[r] = Append(log[r], "error")
      BY <1>1, <1>14, GotoFacts, RecordFacts, Words DEF RunThrows
    <2> QED BY <1>3, <2>1, <2>2, Records DEF Journal
  <1>15. CASE Put(r)
    <2>1. pc[r] = "put" /\ req' = req
      BY <1>15 DEF Put
    <2>2. CASE Stored(r)
      <3>1. pc'[r] = "events" /\ log' = log
        BY <1>1, <2>2, GotoFacts, Words DEF Stored
      <3> QED BY <1>3, <2>1, <3>1 DEF Journal
    <2>3. CASE TooLarge(r)
      <3>1. pc'[r] = "fail" /\ log'[r] = Append(log[r], "error")
        BY <1>1, <2>3, GotoFacts, RecordFacts, Words DEF TooLarge
      <3> QED BY <1>3, <2>1, <3>1, Records DEF Journal
    <2> QED BY <1>15, <2>2, <2>3 DEF Put
  <1>16. CASE FinishEvents(r)
    <2>1. pc[r] = "events" /\ req' = req /\ req[r].stream /\ connected' = connected
      BY <1>16 DEF FinishEvents, Streams
    <2>2. CASE /\ Goto(r, "terminal")
               /\ IF req[r].api = "responses" THEN Record(r, "done") ELSE UNCHANGED log
      <3>1. /\ pc'[r] = "terminal"
            /\ log'[r] = IF req[r].api = "responses" THEN Append(log[r], "done") ELSE log[r]
        BY <1>1, <2>2, GotoFacts, RecordFacts, Words
      <3> QED BY <1>3, <2>1, <3>1, Records DEF Journal
    <2>3. CASE ~connected[r] /\ Record(r, "error") /\ Goto(r, "release")
      <3>1. pc'[r] = "release" /\ log'[r] = Append(log[r], "error")
        BY <1>1, <2>3, GotoFacts, RecordFacts, Words
      <3>2. Left(r)' = "left"
        BY <2>1, <2>3 DEF Left
      <3> QED BY <1>3, <2>1, <3>1, <3>2, Records DEF Journal, Closed
    <2> QED BY <1>16, <2>2, <2>3 DEF FinishEvents
  <1>17. CASE WriteTerminal(r)
    <2>1. pc[r] = "terminal" /\ req' = req /\ connected' = connected
      BY <1>17 DEF WriteTerminal
    <2>2. outcome[r] \in Events
      BY <1>1, <2>1, Words DEF Handlers, HandlerOf, Told
    <2>3. /\ pc'[r] = "release"
          /\ log'[r] = log[r] \/ (~connected[r] /\ log'[r] = Append(log[r], "error"))
      BY <1>1, <1>17, <2>2, WriteFacts, Words DEF WriteTerminal
    <2>4. ~connected[r] => Left(r)' = "left"
      BY <2>1 DEF Left
    <2> QED BY <1>3, <2>1, <2>3, <2>4, Records DEF Journal, Closed
  <1>18. CASE MakeBody(r)
    <2>1. pc[r] = "events" /\ req' = req
      BY <1>18 DEF MakeBody
    <2>2. /\ pc'[r] = "body"
          /\ log'[r] = IF req[r].api = "responses" THEN Append(log[r], "done") ELSE log[r]
      BY <1>1, <1>18, GotoFacts, RecordFacts, Words DEF MakeBody
    <2> QED BY <1>3, <2>1, <2>2, Records DEF Journal
  <1>19. CASE SendBody(r) \/ SendFailure(r)
    <2>1. pc[r] \in {"body", "fail"} /\ log' = log /\ pc'[r] = "release"
      BY <1>1, <1>19, GotoFacts, Words DEF SendBody, SendFailure
    <2> QED BY <1>3, <2>1 DEF Journal, Closed
  <1>20. CASE Release(r)
    <2>1. /\ pc[r] = "release" /\ req' = req /\ connected' = connected /\ log' = log
          /\ started' = started /\ pc'[r] = "end"
      BY <1>1, <1>20, GotoFacts, Words DEF Release
    <2> QED BY <1>3, <1>4, <1>5, <2>1 DEF Journal
  <1>21. CASE Arrive(r)
    <2>1. /\ pc[r] = "idle" /\ log' = log /\ started' = started /\ pc'[r] = "parse"
      BY <1>1, <1>21, GotoFacts, Words DEF Arrive
    <2> QED BY <1>3, <1>5, <2>1 DEF Journal
  \* The departure of the client excuses more than before.
  <1>22. CASE Disconnect(r)
    <2>1. /\ pc' = pc /\ req' = req /\ log' = log /\ started' = started
          /\ Left(r)' = "left" /\ Cut(r)' = "cut"
      BY <1>1, <1>22 DEF Disconnect, Types, Left, Cut
    <2> QED BY <1>3, <1>5, <2>1 DEF Journal, Closed
  <1>23. CASE GetResponse(r) \/ DeleteResponse(r)
    <2>1. /\ pc' = pc /\ req' = req /\ log' = log /\ started' = started
          /\ connected' = connected
      BY <1>23 DEF GetResponse, DeleteResponse, handlerVars
    <2> QED BY <1>3, <1>4, <1>5, <2>1
  <1> QED BY <1>6, <1>7, <1>8, <1>9, <1>10, <1>11, <1>12, <1>13, <1>14, <1>15, <1>16, <1>17,
             <1>18, <1>19, <1>20, <1>21, <1>22, <1>23 DEF HandlerStep, ClientStep

-----------------------------------------------------------------------------
(* The conversations.                                                      *)

LEMMA TalkSolves ==
    ASSUME NEW rq, Grounded(rq)
    PROVE  Solution(rq, Talk(rq)) /\ \A g : Solution(rq, g) => g = Talk(rq)
  <1>1. PICK f : Solution(rq, f) /\ \A g : Solution(rq, g) => g = f
    BY DEF Grounded
  <1>2. Solution(rq, Talk(rq))
    BY <1>1 DEF Talk
  <1> QED BY <1>1, <1>2

\* A conversation is what was said before, and the response itself.
LEMMA TalkAt ==
    ASSUME NEW rq, Grounded(rq), NEW r \in Ids
    PROVE  Talk(rq)[r] = Append(Past(rq, r), r)
  <1> DEFINE f == Talk(rq)
  <1>1. Solution(rq, f)
    BY TalkSolves
  <1>2. f = [q \in Ids |-> IF rq[q].previous = None THEN <<q>> ELSE Append(f[rq[q].previous], q)]
    BY <1>1 DEF Solution
  <1> HIDE DEF f
  <1>3. f[r] = IF rq[r].previous = None THEN <<r>> ELSE Append(f[rq[r].previous], r)
    BY <1>2
  <1>4. Append(<<>>, r) = <<r>>
    OBVIOUS
  <1>5. CASE rq[r].previous = None
    BY <1>3, <1>4, <1>5 DEF Past, f
  <1>6. CASE rq[r].previous # None
    BY <1>3, <1>6 DEF Past, f
  <1> QED BY <1>5, <1>6

\* A new request continues an older one and nobody continues it yet: the other
\* conversations stay as they are.
LEMMA TalkArrives ==
    ASSUME NEW rq, NEW new, NEW r \in Ids, Grounded(rq), rq[r].previous = None,
           \A q \in Ids : rq[q].previous # None => rq[q].previous \in Ids /\ rq[q].previous # r,
           \A q \in Ids : q # r => new[q] = rq[q],
           new[r].previous # None => new[r].previous \in Ids /\ new[r].previous # r
    PROVE  Grounded(new) /\ \A q \in Ids : q # r => Talk(new)[q] = Talk(rq)[q]
  <1> DEFINE f == Talk(rq)
             own(g) == IF new[r].previous = None THEN <<r>> ELSE Append(g[new[r].previous], r)
             h == [q \in Ids |-> IF q = r THEN own(f) ELSE f[q]]
             Body(rs, g) == [q \in Ids |-> IF rs[q].previous = None THEN <<q>>
                                           ELSE Append(g[rs[q].previous], q)]
  <1>1. f = Body(rq, f) /\ \A g : g = Body(rq, g) => g = f
    BY TalkSolves DEF Solution
  <1> HIDE DEF f
  <1>2. h = Body(new, h)
    <2>1. ASSUME NEW q \in Ids PROVE h[q] = Body(new, h)[q]
      <3>1. CASE q = r
        <4>1. new[r].previous # None => h[new[r].previous] = f[new[r].previous]
          OBVIOUS
        <4> QED BY <3>1, <4>1
      <3>2. CASE q # r
        <4>1. h[q] = f[q] /\ new[q] = rq[q]
          BY <3>2
        <4>2. f[q] = Body(rq, f)[q]
          BY <1>1
        <4>3. f[q] = IF rq[q].previous = None THEN <<q>> ELSE Append(f[rq[q].previous], q)
          BY <4>2
        <4>4. rq[q].previous # None => h[rq[q].previous] = f[rq[q].previous]
          OBVIOUS
        <4> QED BY <4>1, <4>3, <4>4
      <3> QED BY <3>1, <3>2
    <2> QED BY <2>1
  <1>3. ASSUME NEW g, g = Body(new, g) PROVE g = h
    <2> DEFINE b == [q \in Ids |-> IF q = r THEN <<r>> ELSE g[q]]
    <2>1. ASSUME NEW q \in Ids PROVE b[q] = Body(rq, b)[q]
      <3>1. CASE q = r
        BY <3>1
      <3>2. CASE q # r
        <4>1. g[q] = Body(new, g)[q]
          BY <1>3
        <4>2. g[q] = IF rq[q].previous = None THEN <<q>> ELSE Append(g[rq[q].previous], q)
          BY <3>2, <4>1
        <4>3. rq[q].previous # None => b[rq[q].previous] = g[rq[q].previous]
          OBVIOUS
        <4>4. b[q] = g[q]
          BY <3>2
        <4> QED BY <4>2, <4>3, <4>4
      <3> QED BY <3>1, <3>2
    <2>2. b = Body(rq, b)
      BY <2>1
    <2>3. b = f
      <3> HIDE DEF b, Body
      <3> QED BY <1>1, <2>2
    <2>4. \A q \in Ids : q # r => g[q] = f[q]
      <3>1. \A q \in Ids : q # r => b[q] = g[q]
        OBVIOUS
      <3> HIDE DEF b
      <3> QED BY <2>3, <3>1
    <2>5. g[r] = own(f)
      <3>1. g[r] = Body(new, g)[r]
        BY <1>3
      <3>2. g[r] = own(g)
        BY <3>1
      <3>3. new[r].previous # None => g[new[r].previous] = f[new[r].previous]
        BY <2>4
      <3> QED BY <3>2, <3>3
    <2>6. DOMAIN g = Ids /\ g = [q \in Ids |-> g[q]]
      BY <1>3
    <2> HIDE DEF own, b, Body
    <2>7. \A q \in Ids : g[q] = h[q]
      BY <2>4, <2>5
    <2> QED BY <2>6, <2>7
  <1>4. Solution(new, h) /\ \A g : Solution(new, g) => g = h
    BY <1>2, <1>3 DEF Solution
  <1>5. \A q \in Ids : q # r => h[q] = f[q]
    OBVIOUS
  <1> HIDE DEF h, own, Body
  <1>6. Grounded(new)
    BY <1>4 DEF Grounded
  <1>7. Talk(new) = h
    BY <1>4, <1>6, TalkSolves
  <1> QED BY <1>5, <1>6, <1>7 DEF f

Carrying == {"acquire", "prepare", "start", "run", "put"}

LEMMA TalksKeep ==
    ASSUME SInv, NEW r \in Ids, Alone(r), req' = req,
           pc'[r] = "idle" <=> pc[r] = "idle",
           pc'[r] \in {"idle", "parse"} => context'[r] = <<>>,
           pc'[r] \in Carrying => context'[r] = Past(req, r),
           Stays(r) \/ Adds(r)
    PROVE  Talks'
  <1>1. /\ \A q \in Ids : req[q].previous # None => /\ req[q].previous \in Ids
                                                    /\ pc[req[q].previous] # "idle"
        /\ \A q \in Ids : pc[q] = "idle" => req[q].previous = None
        /\ Grounded(req)
        /\ \A q \in Ids : pc[q] \in {"idle", "parse"} => context[q] = <<>>
        /\ \A q \in Ids : pc[q] \in Carrying => context[q] = Past(req, q)
        /\ \A q \in DOMAIN records : records[q] = Talk(req)[q]
    BY DEF SInv, Talks, Carrying
  <1>2. \A q \in Ids : (pc'[q] = "idle" <=> pc[q] = "idle")
    BY DEF Alone
  <1>3. \A q \in Ids : pc'[q] \in {"idle", "parse"} => context'[q] = <<>>
    BY <1>1 DEF Alone
  <1>4. \A q \in Ids : pc'[q] \in Carrying => context'[q] = Past(req, q)
    BY <1>1 DEF Alone
  <1>5. \A q \in DOMAIN records' : records'[q] = Talk(req)[q]
    <2>1. CASE Stays(r)
      BY <1>1, <2>1 DEF Stays
    <2>2. CASE Adds(r)
      <3>1. PutContext(r) = Append(Past(req, r), r)
        BY <1>1, <2>2 DEF Adds, PutContext, AppendResponseContext, Carrying
      <3>2. PutContext(r) = Talk(req)[r]
        BY <1>1, <3>1, TalkAt
      <3> QED BY <1>1, <2>2, <3>2 DEF Adds
    <2> QED BY <2>1, <2>2
  <1> QED BY <1>1, <1>2, <1>3, <1>4, <1>5 DEF Talks, Carrying

LEMMA TalksArrive ==
    ASSUME SInv, NEW r \in Ids, Arrive(r)
    PROVE  Talks'
  <1>1. /\ \A q \in Ids : req[q].previous # None => /\ req[q].previous \in Ids
                                                    /\ pc[req[q].previous] # "idle"
        /\ \A q \in Ids : pc[q] = "idle" => req[q].previous = None
        /\ Grounded(req)
        /\ \A q \in Ids : pc[q] \in {"idle", "parse"} => context[q] = <<>>
        /\ \A q \in Ids : pc[q] \in Carrying => context[q] = Past(req, q)
        /\ \A q \in DOMAIN records : records[q] = Talk(req)[q]
    BY DEF SInv, Talks, Carrying
  <1>2. Alone(r) /\ pc[r] = "idle" /\ pc'[r] = "parse" /\ context' = context /\ records' = records
    <2>1. Alone(r)
      BY TypesStep DEF ClientStep
    <2>2. pc'[r] = "parse"
      BY GotoFacts, Words DEF SInv, Arrive
    <2> QED BY <2>1, <2>2 DEF Arrive, storeVars
  <1>3. req'[r].previous # None => req'[r].previous \in Ids /\ pc[req'[r].previous] # "idle"
    <2>1. PICK shape \in Shapes : \E previous \in IF shape.continues THEN Issued ELSE {None} :
              req' = [req EXCEPT ![r] = [api |-> shape.api, stream |-> shape.stream,
                                         store |-> shape.store, previous |-> previous]]
      BY DEF Arrive
    <2>2. PICK previous \in IF shape.continues THEN Issued ELSE {None} :
              req' = [req EXCEPT ![r] = [api |-> shape.api, stream |-> shape.stream,
                                         store |-> shape.store, previous |-> previous]]
      BY <2>1
    <2>3. req'[r].previous = previous
      BY <2>2 DEF SInv, Types
    <2>4. previous # None => previous \in Issued
      BY <2>2
    <2>5. \A q \in Issued : q \in Ids /\ pc[q] # "idle"
      BY DEF Issued, SInv, Handlers, HandlerOf, Told
    <2> QED BY <2>3, <2>4, <2>5
  <1>4. \A q \in Ids : q # r => req'[q] = req[q] /\ pc'[q] = pc[q]
    BY <1>2 DEF Alone
  <1>5. /\ req[r].previous = None
        /\ \A q \in Ids : req[q].previous # None => req[q].previous \in Ids /\ req[q].previous # r
    BY <1>1, <1>2
  <1>6. Grounded(req') /\ \A q \in Ids : q # r => Talk(req')[q] = Talk(req)[q]
    <2> DEFINE new == req'
    <2>1. /\ \A q \in Ids : q # r => new[q] = req[q]
          /\ new[r].previous # None => new[r].previous \in Ids /\ new[r].previous # r
      BY <1>2, <1>3, <1>4
    <2> HIDE DEF new
    <2>2. Grounded(new) /\ \A q \in Ids : q # r => Talk(new)[q] = Talk(req)[q]
      BY <1>1, <1>5, <2>1, TalkArrives
    <2> QED BY <2>2 DEF new
  <1>7. \A q \in Ids : req'[q].previous # None => /\ req'[q].previous \in Ids
                                                  /\ pc'[req'[q].previous] # "idle"
    <2>1. ASSUME NEW q \in Ids, req'[q].previous # None
          PROVE  req'[q].previous \in Ids /\ pc[req'[q].previous] # "idle"
      BY <1>1, <1>3, <1>4, <2>1
    <2> QED BY <1>2, <1>4, <2>1
  <1>8. \A q \in Ids : pc'[q] = "idle" => req'[q].previous = None
    BY <1>1, <1>2, <1>4
  <1>9. \A q \in Ids : pc'[q] \in {"idle", "parse"} => context'[q] = <<>>
    BY <1>1, <1>2, <1>4
  <1>10. ASSUME NEW q \in Ids, pc'[q] \in Carrying PROVE context'[q] = Past(req', q)
    <2>1. q # r /\ pc[q] \in Carrying /\ req'[q] = req[q]
      BY <1>2, <1>4, <1>10 DEF Carrying
    <2>2. context'[q] = Past(req, q)
      BY <1>1, <1>2, <2>1
    <2>3. req[q].previous # None => Talk(req')[req[q].previous] = Talk(req)[req[q].previous]
      BY <1>5, <1>6
    <2> QED BY <2>1, <2>2, <2>3 DEF Past
  <1>11. ASSUME NEW q \in DOMAIN records' PROVE records'[q] = Talk(req')[q]
    <2>1. q \in DOMAIN records /\ q \in Ids
      BY <1>2 DEF SInv, StoreInv
    <2>2. q # r
      BY <1>2, <2>1 DEF SInv, Handlers, HandlerOf, Kept, Fate, Known
    <2> QED BY <1>1, <1>2, <1>6, <2>1, <2>2
  <1> QED BY <1>6, <1>7, <1>8, <1>9, <1>10, <1>11 DEF Talks, Carrying

LEMMA TalksStep ==
    ASSUME SInv, NEW r \in Ids, HandlerStep(r) \/ ClientStep(r)
    PROVE  Talks'
  <1>1. Types /\ StoreInv /\ Talks
    BY DEF SInv
  <1>2. Alone(r) /\ (Stays(r) \/ Adds(r))
    BY TypesStep, StoreStep
  <1>3. /\ pc[r] \in {"idle", "parse"} => context[r] = <<>>
        /\ pc[r] \in Carrying => context[r] = Past(req, r)
        /\ req[r].previous # None => req[r].previous \in Ids
        /\ \A q \in DOMAIN records : records[q] = Talk(req)[q]
    BY <1>1 DEF Talks, Carrying
  \* A step that goes on with the context the handler has.
  <1>4. ASSUME req' = req, context' = context, pc[r] \in Carrying \cup {"events", "terminal", "body", "fail", "release"},
               pc'[r] \in Steps \ {"idle", "parse"},
               pc'[r] \in Carrying => pc[r] \in Carrying
        PROVE  Talks'
    <2>1. pc'[r] = "idle" <=> pc[r] = "idle"
      BY <1>4 DEF Carrying
    <2> QED BY <1>2, <1>3, <1>4, <2>1, TalksKeep
  <1>5. ASSUME req' = req, context' = context, pc' = pc
        PROVE  Talks'
    BY <1>2, <1>3, <1>5, TalksKeep
  <1>6. CASE ReadPrevious(r)
    <2>1. pc[r] = "parse" /\ req' = req
      BY <1>6 DEF ReadPrevious
    <2>2. CASE Goto(r, "end")
      <3>1. pc'[r] = "end"
        BY <1>1, <2>2, GotoFacts, Words
      <3> QED BY <1>2, <2>1, <3>1, TalksKeep DEF Carrying
    <2>3. CASE Goto(r, "acquire") /\ req[r].previous = None
      <3>1. pc'[r] = "acquire"
        BY <1>1, <2>3, GotoFacts, Words
      <3>2. context'[r] = Past(req, r)
        BY <1>3, <1>6, <2>1, <2>3 DEF ReadPrevious, Past
      <3> QED BY <1>2, <2>1, <3>1, <3>2, TalksKeep
    <2>4. CASE /\ Goto(r, "acquire") /\ req[r].previous # None /\ Found(req[r].previous)
               /\ context' = [context EXCEPT ![r] = records[req[r].previous]]
      <3>1. pc'[r] = "acquire"
        BY <1>1, <2>4, GotoFacts, Words
      <3>2. context'[r] = records[req[r].previous]
        BY <1>1, <2>4 DEF Types
      <3>3. context'[r] = Past(req, r)
        BY <1>3, <2>4, <3>2 DEF Past, Found
      <3> QED BY <1>2, <2>1, <3>1, <3>3, TalksKeep
    <2> QED BY <1>6, <2>2, <2>3, <2>4 DEF ReadPrevious
  <1>7. CASE Acquire(r) \/ PrepareFails(r) \/ PrepareSucceeds(r)
    <2>1. pc'[r] \in {"end", "prepare", "start", "run"}
      BY <1>1, <1>7, GotoFacts, Words DEF Acquire, PrepareFails, PrepareSucceeds
    <2> QED BY <1>4, <1>7, <2>1, Words DEF Acquire, PrepareFails, PrepareSucceeds, Carrying
  <1>8. CASE WriteStart(r) \/ WriteDelta(r)
    <2>1. pc'[r] \in {"run", "release"}
      BY <1>1, <1>8, WriteFacts, Words DEF WriteStart, WriteDelta
    <2> QED BY <1>4, <1>8, <2>1, Words DEF WriteStart, WriteDelta, Carrying
  <1>9. CASE RunReturns(r) \/ RunThrows(r)
    <2>1. pc'[r] \in {"put", "events", "fail"}
      BY <1>1, <1>9, GotoFacts, Words DEF RunReturns, AfterRun, RunThrows
    <2> QED BY <1>4, <1>9, <2>1, Words DEF RunReturns, RunThrows, Carrying
  <1>10. CASE Put(r)
    <2>1. pc'[r] \in {"events", "fail"}
      BY <1>1, <1>10, GotoFacts, Words DEF Put, Stored, TooLarge
    <2> QED BY <1>4, <1>10, <2>1, Words DEF Put, Carrying
  <1>11. CASE FinishEvents(r) \/ MakeBody(r)
    <2>1. pc'[r] \in {"terminal", "body", "release"}
      BY <1>1, <1>11, GotoFacts, Words DEF FinishEvents, MakeBody
    <2> QED BY <1>4, <1>11, <2>1, Words DEF FinishEvents, MakeBody, Carrying
  <1>12. CASE WriteTerminal(r)
    <2>1. outcome[r] \in Events
      BY <1>12, Words DEF SInv, Handlers, HandlerOf, Told, WriteTerminal
    <2>2. pc'[r] = "release"
      BY <1>1, <1>12, <2>1, WriteFacts, Words DEF WriteTerminal
    <2> QED BY <1>4, <1>12, <2>2, Words DEF WriteTerminal, Carrying
  <1>13. CASE SendBody(r) \/ SendFailure(r) \/ Release(r) \/ SkipProvider(r)
    <2>1. pc'[r] \in {"release", "end"}
      BY <1>1, <1>13, GotoFacts, Words DEF SendBody, SendFailure, Release, SkipProvider
    <2> QED BY <1>4, <1>13, <2>1, Words DEF SendBody, SendFailure, Release, SkipProvider, Carrying
  <1>14. CASE Disconnect(r) \/ GetResponse(r) \/ DeleteResponse(r)
    BY <1>5, <1>14 DEF Disconnect, GetResponse, DeleteResponse, handlerVars
  <1> QED BY <1>6, <1>7, <1>8, <1>9, <1>10, <1>11, <1>12, <1>13, <1>14, TalksArrive
          DEF HandlerStep, ClientStep

-----------------------------------------------------------------------------
(***************************************************************************)
(* The invariant.                                                          *)
(***************************************************************************)
LEMMA InitSInv ==
    ASSUME Init
    PROVE  SInv
  <1> USE DEF Init
  <1>1. Types
    BY Words DEF Types
  <1>2. StoreInv
    <2>1. records = <<>> /\ lru = <<>> /\ bytes = 0 /\ DOMAIN records = {}
      BY DEF StoreInit
    <2>2. Nodes(records) = {}
      BY <2>1 DEF Nodes
    <2>3. SumOver(EnvelopeBytes, {}) = 0 /\ SumOver(NodeBytes, {}) = 0
      BY SumStep, FS_EmptySet
    <2>4. RecomputeBytes(records) = 0
      <3>1. RecomputeBytes(records)
              = SumOver(EnvelopeBytes, DOMAIN records) + SumOver(NodeBytes, Nodes(records))
        BY Accounting
      <3>2. SumOver(EnvelopeBytes, DOMAIN records) = 0 /\ SumOver(NodeBytes, Nodes(records)) = 0
        BY <2>1, <2>2, <2>3, Zenon
      <3> QED BY <3>1, <3>2
    <2>5. lru \in Seq(Ids) /\ Distinct(lru) /\ Len(lru) = 0 /\ Range(lru) = {}
      BY <2>1, NothingLogged DEF Distinct
    <2> QED BY <2>1, <2>4, <2>5, StoreAssumption DEF StoreInv
  <1>3. Capacity
    <2>1. IsFiniteSet({}) /\ Cardinality({}) = 0
      BY FS_EmptySet
    <2> QED BY <2>1, ServingAssumption DEF Capacity, Holding, Held
  <1>4. Handlers
    <2> SUFFICES ASSUME NEW r \in Ids PROVE HandlerOf(r)
      BY DEF Handlers
    <2>1. pc[r] = "idle" /\ log[r] = <<>> /\ seen[r] = <<>>
      OBVIOUS
    <2>2. Fate(r) = "never"
      BY DEF StoreInit, Fate, Known
    <2>3. DOMAIN seen[r] = {}
      BY <2>1
    <2> QED BY <2>1, <2>2, <2>3, NothingLogged DEF HandlerOf, Logged, Told, Kept, Last
  <1>5. History
    <2>1. used = <<>> /\ lru = <<>> /\ DOMAIN records = {} /\ Range(used) = {}
      BY NothingLogged DEF StoreInit
    <2>2. \A y, z : ~Before(lru, y, z)
      BY <2>1 DEF Before
    <2> QED BY <2>1, <2>2 DEF History, Distinct
  <1>6. Talks
    <2>1. \A r \in Ids : req[r].previous = None /\ pc[r] = "idle" /\ context[r] = <<>>
      BY DEF NoRequest
    <2>2. Grounded(req)
      <3> DEFINE f == [r \in Ids |-> <<r>>]
      <3>1. Solution(req, f)
        BY <2>1 DEF Solution
      <3>2. ASSUME NEW g, Solution(req, g) PROVE g = f
        BY <2>1, <3>2 DEF Solution
      <3> HIDE DEF f
      <3> QED BY <3>1, <3>2 DEF Grounded
    <2>3. DOMAIN records = {}
      BY DEF StoreInit
    <2> QED BY <2>1, <2>2, <2>3 DEF Talks
  <1>7. Journals
    <2> SUFFICES ASSUME NEW r \in Ids
                 PROVE  Journal(pc[r], log[r], req[r], Left(r), Cut(r), Call(r))
      BY DEF Journals
    <2>1. pc[r] = "idle" /\ log[r] = <<>> /\ Call(r) = "never"
      BY DEF Call
    <2> QED BY <2>1 DEF Journal
  <1> QED BY <1>1, <1>2, <1>3, <1>4, <1>5, <1>6, <1>7 DEF SInv

LEMMA NextSInv ==
    ASSUME SInv, [Next]_vars
    PROVE  SInv'
  <1>1. ASSUME NEW r \in Ids, HandlerStep(r) \/ ClientStep(r) PROVE SInv'
    BY <1>1, TypesStep, StoreStep, CapacityStep, HandlersStep, JournalsStep, TalksStep DEF SInv
  <1>2. ASSUME UNCHANGED <<storeVars, handlerVars, history>>, stopping => stopping'
        PROVE  SInv'
    <2>1. /\ pc' = pc /\ req' = req /\ connected' = connected /\ context' = context
          /\ outcome' = outcome /\ holds' = holds /\ active' = active /\ log' = log
          /\ seen' = seen /\ UNCHANGED <<storeVars, history>> /\ records' = records
          /\ started' = started
      BY <1>2 DEF handlerVars, storeVars
    <2>2. StoreInv' /\ History' /\ \A q : Fate(q)' = Fate(q)
      BY <2>1, StoreSame DEF SInv
    <2>3. Types' /\ Talks'
      BY <2>1 DEF SInv, Types, Talks
    <2>4. Capacity'
      BY <2>1 DEF SInv, Capacity, Held
    <2>5. Handlers'
      BY <2>1, <2>2 DEF SInv, Handlers, HandlerOf
    \* The stop of the server excuses more than before.
    <2>6. ASSUME NEW r \in Ids
          PROVE  Journal(pc'[r], log'[r], req'[r], Left(r)', Cut(r)', Call(r)')
      <3>1. Journal(pc[r], log[r], req[r], Left(r), Cut(r), Call(r))
        BY DEF SInv, Journals
      <3>2. Left(r)' = Left(r) /\ Call(r)' = Call(r) /\ Cut(r)' \in {Cut(r), "cut"}
        BY <1>2, <2>1 DEF Left, Call, Cut
      <3> QED BY <2>1, <3>1, <3>2 DEF Journal, Closed
    <2> QED BY <2>2, <2>3, <2>4, <2>5, <2>6 DEF SInv, Journals
  <1>3. CASE Stop
    BY <1>2, <1>3 DEF Stop
  <1>4. CASE UNCHANGED vars
    BY <1>2, <1>4 DEF vars, serverVars
  <1> QED BY <1>1, <1>3, <1>4 DEF Next, Finished

LEMMA Invariance == Spec => []SInv
  BY InitSInv, NextSInv, PTL DEF Spec

(***************************************************************************)
(* The capacity counts the requests between acquire_request_lifetime and   *)
(* the end of their response: no path leaks a unit or returns it twice.    *)
(***************************************************************************)
THEOREM CapacityCounted == Spec => []CapacityExact
  <1>1. SInv => CapacityExact
    BY DEF SInv, Capacity, CapacityExact, Holding, Held
  <1> QED BY <1>1, Invariance, PTL

(***************************************************************************)
(* The store keeps its limits and its byte count is exact, for every size  *)
(* of the records and every order of put, get, erase and eviction.         *)
(***************************************************************************)
THEOREM StoreIsBounded == Spec => []StoreBounded
  <1>1. SInv => StoreBounded
    <2> SUFFICES ASSUME SInv PROVE StoreBounded
      OBVIOUS
    <2>1. StoreInv
      BY DEF SInv
    <2>2. Cardinality(DOMAIN records) = Len(lru)
      BY <2>1, StoreFinite
    <2> QED BY <2>1, <2>2 DEF StoreInv, StoreBounded, RecomputeBytes, NodesBytes
  <1> QED BY <1>1, Invariance, PTL

(***************************************************************************)
(* What a client was told of a response agrees with the store and the log. *)
(***************************************************************************)
THEOREM ToldIsStored == Spec => []StoredBeforeTerminal
  <1>1. SInv => StoredBeforeTerminal
    <2> SUFFICES ASSUME SInv, NEW r \in Ids
                 PROVE  /\ Stores(r) /\ Succeeded(r) => r \in DOMAIN records \cup removed
                        /\ EndedWith(r, {"failed"}) => /\ r \notin DOMAIN records \cup removed
                                                       /\ "done" \notin Range(log[r])
      BY DEF StoredBeforeTerminal
    <2>1. Kept(pc[r], log[r], seen[r], req[r], Fate(r))
      BY DEF SInv, Handlers, HandlerOf
    <2>2. Terminals \ {"failed"} = Outcomes
      BY DEF Terminals, Outcomes
    <2>3. /\ Succeeded(r) <=> Last(seen[r], Outcomes)
          /\ EndedWith(r, {"failed"}) <=> Last(seen[r], {"failed"})
      BY <2>2 DEF Succeeded, EndedWith, Last
    <2> QED BY <2>1, <2>3 DEF Kept, Stores, Fate, Known
  <1> QED BY <1>1, Invariance, PTL

(***************************************************************************)
(* A stream begins with its created event and has at most one terminal     *)
(* event, the last.  A handler ends with the log of its request closed, by  *)
(* one record, or two after a write that was lost; it stays open only if    *)
(* the content provider was never called, the client gone or the server     *)
(* stopping.                                                                *)
(***************************************************************************)
THEOREM StreamsAreClosed == Spec => []OneTerminal
  <1>1. SInv => OneTerminal
    <2> SUFFICES ASSUME SInv, NEW r \in Ids
                 PROVE  /\ \A i \in DOMAIN seen[r] : seen[r][i] \in Terminals => i = Len(seen[r])
                        /\ Streams(r) /\ seen[r] # <<>> => seen[r][1] = "created"
                        /\ Succeeded(r) => "done" \in Range(log[r])
                        /\ pc[r] \in {"release", "end"} => LogClosed(r)
      BY DEF OneTerminal
    <2>1. /\ Told(pc[r], seen[r], req[r], connected[r], outcome[r])
          /\ Kept(pc[r], log[r], seen[r], req[r], Fate(r))
      BY DEF SInv, Handlers, HandlerOf
    <2>2. Terminals \ {"failed"} = Outcomes
      BY DEF Terminals, Outcomes
    <2>3. Succeeded(r) <=> Last(seen[r], Outcomes)
      BY <2>2 DEF Succeeded, EndedWith, Last
    <2>4. Succeeded(r) => "done" \in Range(log[r])
      BY <2>1, <2>3 DEF Kept
    <2>5. /\ \A i \in DOMAIN seen[r] : seen[r][i] \in Terminals => i = Len(seen[r])
          /\ Streams(r) /\ seen[r] # <<>> => seen[r][1] = "created"
      BY <2>1 DEF Told, Streams
    <2>6. pc[r] \in {"release", "end"} => LogClosed(r)
      <3>1. Journal(pc[r], log[r], req[r], Left(r), Cut(r), Call(r))
        BY DEF SInv, Journals
      <3> QED BY <3>1 DEF Journal, Closed, LogClosed, Left, Cut, Call, Streams
    <2> QED BY <2>4, <2>5, <2>6
  <1> QED BY <1>1, Invariance, PTL

(***************************************************************************)
(* Every stored conversation is whole, whatever was deleted or evicted     *)
(* between the handler's lookup and its put, or after.                     *)
(***************************************************************************)
THEOREM ConversationsAreWhole == Spec => []ContextWhole
  <1>1. Conversation = Talk(req)
    BY DEF Conversation, Talk, Solution
  <1>2. SInv => ContextWhole
    BY <1>1 DEF SInv, Talks, ContextWhole
  <1> QED BY <1>2, Invariance, PTL

-----------------------------------------------------------------------------
(* Eviction.                                                               *)

AgeIn(s, x) == CHOOSE i \in DOMAIN s : s[i] = x

LEMMA AgeBefore ==
    ASSUME NEW R, NEW s \in Seq(R), Distinct(s), NEW y, NEW z, Before(s, y, z)
    PROVE  AgeIn(s, y) < AgeIn(s, z)
  <1>1. PICK i \in DOMAIN s, j \in DOMAIN s : i < j /\ s[i] = y /\ s[j] = z
    BY DEF Before
  <1>2. AgeIn(s, y) \in DOMAIN s /\ s[AgeIn(s, y)] = y
    BY <1>1 DEF AgeIn
  <1>3. AgeIn(s, z) \in DOMAIN s /\ s[AgeIn(s, z)] = z
    BY <1>1 DEF AgeIn
  <1>4. AgeIn(s, y) = i /\ AgeIn(s, z) = j
    BY <1>1, <1>2, <1>3 DEF Distinct
  <1> QED BY <1>1, <1>4

LEMMA PutEvictsOldest ==
    ASSUME SInv, NEW r \in Ids, pc[r] = "put", Stored(r)
    PROVE  EvictsOldest
  <1> DEFINE ctx == PutContext(r)
             order == NewOrder(r)
             grown == Grown(r, ctx)
             evicted == DOMAIN records \ DOMAIN records'
             Age(id) == CHOOSE i \in DOMAIN used' : used'[i] = id
             youngest == CHOOSE v \in evicted : \A w \in evicted : Age(v) <= Age(w)
             spared == DOMAIN records' \cup {youngest}
             everything == [id \in DOMAIN records \cup DOMAIN records' |->
                               IF id \in DOMAIN records THEN records[id] ELSE records'[id]]
  <1>1. StoreInv /\ History /\ ctx \in Seq(Ids) /\ r \notin Known
    <2>1. StoreInv /\ History
      BY DEF SInv
    <2>2. context[r] \in Seq(Ids)
      BY DEF SInv, Types
    <2>3. ctx \in Seq(Ids)
      BY <2>2 DEF PutContext, AppendResponseContext
    <2>4. Kept(pc[r], log[r], seen[r], req[r], Fate(r))
      BY DEF SInv, Handlers, HandlerOf
    <2>5. r \notin Known
      BY <2>4 DEF Kept, Fate
    <2> QED BY <2>1, <2>3, <2>5
  <1>2. Insert(r, ctx) /\ FitsAlone(r, ctx) /\ used' = Push(r, used)
    BY DEF Stored, Push
  <1> SUFFICES ASSUME evicted # {}
               PROVE  /\ \A v \in evicted, w \in DOMAIN records' : Age(w) < Age(v)
                      /\ \/ Cardinality(spared) > MaxRecords
                         \/ RecomputeBytes(Restrict(everything, spared)) > MaxBytes
    BY DEF EvictsOldest
  <1> HIDE DEF ctx
  <1>3. /\ r \notin DOMAIN records
        /\ order \in Seq(Ids) /\ Distinct(order) /\ Len(order) = Len(lru) + 1
        /\ Range(order) = DOMAIN grown /\ DOMAIN grown \subseteq Ids
        /\ \A q \in DOMAIN grown : grown[q] \in Seq(Ids)
    BY <1>1, <1>2, InsertKeeps
  <1>4. PICK k \in 1 .. Len(order) :
            /\ lru' = FirstOf(order, k)
            /\ records' = Restrict(grown, Range(lru'))
            /\ \A m \in 1 .. Len(order) : Fitting(order, grown, m) => m <= k
    BY <1>1, <1>2, InsertKeeps
  <1>5. /\ DOMAIN grown = DOMAIN records \cup {r} /\ grown[r] = ctx
        /\ \A q \in DOMAIN records : q # r => grown[q] = records[q]
    BY DEF Grown
  \* Both orders begin with the new record.
  <1>6. /\ order[1] = r /\ used' \in Seq(Ids) /\ Distinct(used')
        /\ \A y, z : Before(order, y, z) => Before(used', y, z)
    <2>1. lru \in Seq(Ids) /\ used \in Seq(Ids) /\ Distinct(used) /\ r \notin Range(used)
      BY <1>1 DEF StoreInv, History
    <2>2. Range(lru) \subseteq Range(used) /\ \A y, z : Before(lru, y, z) => Before(used, y, z)
      BY <1>1 DEF StoreInv, History
    <2>3. order = Push(r, lru)
      BY DEF NewOrder
    <2> HIDE DEF order
    <2>4. order[1] = r
      <3>1. lru \in Seq(Ids)
        BY <2>1
      <3>2. Push(r, lru)[1] = r
        BY <3>1, Pushed
      <3> QED BY <2>3, <3>2
    <2>5. \A y, z : Before(order, y, z) <=> (y = r /\ z \in Range(lru)) \/ Before(lru, y, z)
      BY <2>1, <2>3, Pushed
    <2>6. used' \in Seq(Ids) /\ Distinct(used')
      BY <1>2, <2>1, Pushed
    <2>7. \A y, z : Before(used', y, z) <=> (y = r /\ z \in Range(used)) \/ Before(used, y, z)
      BY <1>2, <2>1, Pushed
    <2> QED BY <2>2, <2>4, <2>5, <2>6, <2>7
  <1> HIDE DEF order, grown
  <1>7. \A y, z : Before(order, y, z) => Age(y) < Age(z)
    <2>1. \A y, z : Before(used', y, z) => AgeIn(used', y) < AgeIn(used', z)
      BY <1>6, AgeBefore
    <2>2. \A y : Age(y) = AgeIn(used', y)
      BY DEF AgeIn
    <2> HIDE DEF Age
    <2> QED BY <1>6, <2>1, <2>2
  <1> HIDE DEF Age
  <1>8. Len(order) \in Nat /\ k \in Nat /\ k >= 1 /\ k <= Len(order) /\ DOMAIN order = 1 .. Len(order)
    <2>1. Len(order) \in Nat /\ DOMAIN order = 1 .. Len(order)
      BY <1>3, LenProperties
    <2> QED BY <1>4, <2>1
  \* The first k of the order stay.
  <1>9. DOMAIN records' = Range(FirstOf(order, k)) /\ \A q \in DOMAIN records' : records'[q] = grown[q]
    BY <1>4 DEF Restrict
  <1>10. \A j \in 1 .. Len(order) : \A q \in Range(FirstOf(order, j)) :
            \E i \in 1 .. j : order[i] = q
    <2>1. ASSUME NEW j \in 1 .. Len(order), NEW q \in Range(FirstOf(order, j))
          PROVE  \E i \in 1 .. j : order[i] = q
      <3>1. j \in 0 .. Len(order)
        BY <1>8
      <3>2. DOMAIN FirstOf(order, j) = 1 .. j
        BY <1>3, <3>1, Shortened
      <3>3. \A i \in 1 .. j : FirstOf(order, j)[i] = order[i]
        BY <1>3, <3>1, Shortened
      <3>4. PICK i \in DOMAIN FirstOf(order, j) : FirstOf(order, j)[i] = q
        BY <2>1 DEF Range
      <3> QED BY <3>2, <3>3, <3>4
    <2> QED BY <2>1
  <1>11. \A j \in 1 .. Len(order) : \A i \in 1 .. j : order[i] \in Range(FirstOf(order, j))
    <2>1. ASSUME NEW j \in 1 .. Len(order), NEW i \in 1 .. j
          PROVE  order[i] \in Range(FirstOf(order, j))
      <3>1. j \in 0 .. Len(order)
        BY <1>8
      <3>2. DOMAIN FirstOf(order, j) = 1 .. j
        BY <1>3, <3>1, Shortened
      <3>3. FirstOf(order, j)[i] = order[i]
        BY <1>3, <3>1, Shortened
      <3> QED BY <3>2, <3>3 DEF Range
    <2> QED BY <2>1
  \* The victims are behind them.
  <1>12. ASSUME NEW v \in evicted PROVE \E i \in k + 1 .. Len(order) : order[i] = v
    <2>1. v \in Range(order)
      BY <1>3, <1>5
    <2>2. PICK i \in 1 .. Len(order) : order[i] = v
      BY <1>8, <2>1 DEF Range
    <2>3. ~(i <= k)
      <3>1. SUFFICES ASSUME i <= k PROVE FALSE
        OBVIOUS
      <3>2. i \in 1 .. k
        BY <1>8, <2>2, <3>1
      <3> QED BY <1>4, <1>9, <1>11, <2>2, <3>2
    <2> QED BY <1>8, <2>2, <2>3
  <1>13. \A i, j \in 1 .. Len(order) : i < j => Age(order[i]) < Age(order[j])
    BY <1>7, <1>8 DEF Before
  <1>14. ASSUME NEW v \in evicted, NEW w \in DOMAIN records' PROVE Age(w) < Age(v)
    <2>1. PICK i \in k + 1 .. Len(order) : order[i] = v
      BY <1>12
    <2>2. PICK j \in 1 .. k : order[j] = w
      BY <1>4, <1>9, <1>10
    <2>3. i \in 1 .. Len(order) /\ j \in 1 .. Len(order) /\ j < i
      BY <1>8, <2>1, <2>2
    <2> QED BY <1>13, <2>1, <2>2, <2>3
  \* The youngest victim is the next in the order.
  <1> DEFINE c == order[k + 1]
  <1>15. k + 1 \in 1 .. Len(order) /\ c \in evicted
    <2>1. PICK v \in evicted : TRUE
      OBVIOUS
    <2>2. k + 1 \in 1 .. Len(order)
      BY <1>8, <1>12, <2>1
    <2>3. c \in Range(order)
      BY <1>8, <2>2 DEF Range
    <2>4. c # r
      <3>1. 1 \in DOMAIN order /\ k + 1 \in DOMAIN order /\ k + 1 # 1
        BY <1>8, <2>2
      <3> QED BY <1>3, <1>6, <3>1 DEF Distinct
    <2>5. c \notin DOMAIN records'
      <3>1. SUFFICES ASSUME c \in DOMAIN records' PROVE FALSE
        OBVIOUS
      <3>2. PICK j \in 1 .. k : order[j] = c
        BY <1>4, <1>9, <1>10, <3>1
      <3>3. j \in DOMAIN order /\ k + 1 \in DOMAIN order /\ j # k + 1
        BY <1>8, <2>2, <3>2
      <3> QED BY <1>3, <3>2, <3>3 DEF Distinct
    <2> QED BY <1>3, <1>5, <2>2, <2>3, <2>4, <2>5
  <1>16. \A w \in evicted : w # c => Age(c) < Age(w)
    <2>1. ASSUME NEW w \in evicted, w # c PROVE Age(c) < Age(w)
      <3>1. PICK i \in k + 1 .. Len(order) : order[i] = w
        BY <1>12
      <3>2. i # k + 1
        BY <2>1, <3>1
      <3>3. k + 1 < i /\ i \in 1 .. Len(order)
        BY <1>8, <3>1, <3>2
      <3> QED BY <1>13, <1>15, <3>1, <3>3
    <2> QED BY <2>1
  <1>17. \A w \in evicted : Age(w) \in Int
    <2>1. \A w \in evicted : w \in Range(used')
      <3>1. DOMAIN records \subseteq Range(used) /\ used \in Seq(Ids)
        BY <1>1 DEF History
      <3>2. Range(used') = Range(used) \cup {r}
        BY <1>2, <3>1, PushedRange
      <3> QED BY <3>1, <3>2
    <2>2. DOMAIN used' = 1 .. Len(used') /\ Len(used') \in Nat
      BY <1>6, LenProperties
    <2>3. ASSUME NEW w \in evicted PROVE Age(w) \in DOMAIN used'
      BY <2>1 DEF Age, Range
    <2> QED BY <2>2, <2>3
  <1>18. youngest = c
    <2>1. \A w \in evicted : Age(c) <= Age(w)
      BY <1>15, <1>16, <1>17
    <2>2. youngest \in evicted /\ \A w \in evicted : Age(youngest) <= Age(w)
      BY <1>15, <2>1
    <2> HIDE DEF youngest, c
    <2>3. Age(youngest) <= Age(c) /\ Age(c) \in Int /\ Age(youngest) \in Int
      BY <1>15, <1>17, <2>2
    <2> QED BY <1>16, <2>2, <2>3
  <1>19. spared = Range(FirstOf(order, k + 1))
    <2>1. ASSUME NEW q \in Range(FirstOf(order, k + 1)) PROVE q \in spared
      <3>1. PICK i \in 1 .. k + 1 : order[i] = q
        BY <1>10, <1>15
      <3>2. CASE i = k + 1
        BY <1>18, <3>1, <3>2
      <3>3. CASE i # k + 1
        <4>1. i \in 1 .. k
          BY <1>8, <3>1, <3>3
        <4> QED BY <1>4, <1>9, <1>11, <3>1, <4>1
      <3> QED BY <3>2, <3>3
    <2>2. ASSUME NEW q \in DOMAIN records' PROVE q \in Range(FirstOf(order, k + 1))
      <3>1. PICK i \in 1 .. k : order[i] = q
        BY <1>4, <1>9, <1>10
      <3>2. i \in 1 .. k + 1
        BY <1>8, <3>1
      <3> QED BY <1>11, <1>15, <3>1, <3>2
    <2>3. c \in Range(FirstOf(order, k + 1))
      <3>1. k + 1 \in 1 .. k + 1
        BY <1>8
      <3> QED BY <1>11, <1>15, <3>1
    <2> QED BY <1>18, <2>1, <2>2, <2>3
  <1>20. Cardinality(spared) = k + 1
    <2>1. k + 1 \in 0 .. Len(order)
      BY <1>8, <1>15
    <2>2. /\ FirstOf(order, k + 1) \in Seq(Ids) /\ Len(FirstOf(order, k + 1)) = k + 1
          /\ Distinct(FirstOf(order, k + 1))
      BY <1>3, <2>1, Shortened
    <2>3. Cardinality(Range(FirstOf(order, k + 1))) = k + 1
      BY <2>2, RangeFinite
    <2> HIDE DEF spared
    <2> QED BY <1>19, <2>3
  <1>21. spared \subseteq DOMAIN grown
    <2>1. k + 1 \in 0 .. Len(order)
      BY <1>8, <1>15
    <2>2. Range(FirstOf(order, k + 1)) \subseteq Range(order)
      BY <1>3, <2>1, Shortened
    <2> HIDE DEF spared
    <2> QED BY <1>3, <1>19, <2>2
  <1>22. Restrict(everything, spared) = Restrict(grown, Range(FirstOf(order, k + 1)))
    <2>1. ASSUME NEW q \in spared PROVE everything[q] = grown[q]
      <3>1. q \in DOMAIN records \cup DOMAIN records'
        BY <1>15, <1>18
      <3>2. CASE q \in DOMAIN records
        BY <1>3, <1>5, <3>2
      <3>3. CASE q \notin DOMAIN records
        BY <1>9, <3>1, <3>3
      <3> QED BY <3>2, <3>3
    <2> HIDE DEF spared, everything
    <2> QED BY <1>19, <2>1 DEF Restrict
  <1>23. RecomputeBytes(Restrict(grown, spared)) \in Nat
    <2> DEFINE some == Restrict(grown, spared)
    <2>1. DOMAIN some = spared /\ \A q \in spared : some[q] = grown[q]
      BY DEF Restrict
    <2>2. IsFiniteSet(spared)
      <3>1. k + 1 \in 0 .. Len(order)
        BY <1>8, <1>15
      <3>2. FirstOf(order, k + 1) \in Seq(Ids)
        BY <1>3, <3>1, Shortened
      <3>3. IsFiniteSet(Range(FirstOf(order, k + 1)))
        BY <3>2, RangeFinite
      <3> HIDE DEF spared
      <3> QED BY <1>19, <3>3
    <2> HIDE DEF some, spared
    <2>3. /\ DOMAIN some \subseteq Ids /\ IsFiniteSet(DOMAIN some)
          /\ \A q \in DOMAIN some : some[q] \in Seq(Ids)
      BY <1>3, <1>21, <2>1, <2>2
    <2>4. {} \in SUBSET DOMAIN some
      OBVIOUS
    <2>5. RecomputeBytes(some) \in Nat
      BY <2>3, <2>4, FewerBytes
    <2> QED BY <2>5 DEF some
  <1> HIDE DEF spared, everything, evicted
  <1>24. ~Fitting(order, grown, k + 1)
    BY <1>4, <1>8, <1>15
  <1>25. \/ ~(k + 1 <= MaxRecords)
         \/ ~(RecomputeBytes(Restrict(everything, spared)) <= MaxBytes)
    BY <1>22, <1>24 DEF Fitting
  <1>26. RecomputeBytes(Restrict(everything, spared)) \in Nat
    BY <1>19, <1>22, <1>23
  <1>27. Cardinality(spared) > MaxRecords \/ RecomputeBytes(Restrict(everything, spared)) > MaxBytes
    <2> DEFINE b == RecomputeBytes(Restrict(everything, spared))
    <2> HIDE DEF b
    <2>1. b \in Nat /\ MaxBytes \in Nat /\ MaxRecords \in Nat /\ k + 1 \in Nat
      BY <1>8, <1>26, StoreAssumption DEF b
    <2>2. ~(k + 1 <= MaxRecords) \/ ~(b <= MaxBytes)
      BY <1>25 DEF b
    <2>3. k + 1 > MaxRecords \/ b > MaxBytes
      BY <2>1, <2>2
    <2> QED BY <1>20, <2>3 DEF b
  <1> QED BY <1>14, <1>27

(***************************************************************************)
(* A put evicts in the order of last use and no more than it has to.       *)
(***************************************************************************)
THEOREM EvictionIsInOrder == Spec => EvictionInOrder
  <1>1. ASSUME SInv, [Next]_vars PROVE [EvictsOldest]_vars
    <2>1. ASSUME NEW r \in Ids, HandlerStep(r) \/ ClientStep(r) PROVE EvictsOldest
      <3>1. Stays(r) \/ Adds(r)
        BY <1>1, <2>1, StoreStep
      <3>2. CASE Stays(r)
        <4>1. DOMAIN records' \ DOMAIN records = {}
          BY <3>2 DEF Stays
        <4> QED BY <4>1 DEF EvictsOldest
      <3>3. CASE Adds(r)
        BY <1>1, <3>3, PutEvictsOldest DEF Adds
      <3> QED BY <3>1, <3>2, <3>3
    <2>2. CASE UNCHANGED vars
      BY <2>2
    <2>3. CASE Stop
      BY <2>3 DEF Stop, storeVars, EvictsOldest
    <2> QED BY <1>1, <2>1, <2>2, <2>3 DEF Next, Finished
  <1> QED BY <1>1, Invariance, PTL DEF Spec, EvictionInOrder
=============================================================================
