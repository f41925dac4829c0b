--------------------------- MODULE ProgramProofs ----------------------------
(***************************************************************************)
(* The book-keeping of the Program, for every set of engines and prompts:  *)
(* frontiers, ledgers, entitlements and mapped pages agree wherever the    *)
(* code checks them, no kernel writes past the mapped pages, all           *)
(* entitlements fit the pools, and no request runs out of projected work.  *)
(* The invariant and the rounds of decoding are in ProgramLemmas; here are *)
(* the chunks of a prefill, the reuse of a retained sequence, the steps of *)
(* Next and the theorems.                                                  *)
(***************************************************************************)
EXTENDS ProgramLemmas

-----------------------------------------------------------------------------
(***************************************************************************)
(* The chunks of a prompt.                                                 *)
(***************************************************************************)

\* The media items of a prompt come one after the other.
LEMMA ItemFacts ==
    ASSUME engine \in Engines, NEW p \in Prompts, NEW k \in DOMAIN p.items
    PROVE  /\ k \in Nat /\ k >= 1 /\ p.items[k].last \in Nat
           /\ UseBegin(Backend, p.items[k]) \in Nat
           /\ UseBegin(Backend, p.items[k]) < p.items[k].last
           /\ k > 1 => /\ k - 1 \in DOMAIN p.items
                       /\ UseBegin(Backend, p.items[k]) >= p.items[k - 1].last
  <1>1. p.items \in Seq(Items) /\ Accepted(engine, p) /\ Backend = engine.backend
    BY PromptFacts, EngineFacts
  <1>2. k \in Nat /\ k >= 1 /\ p.items[k] \in Items /\ (k > 1 => k - 1 \in DOMAIN p.items)
    BY <1>1
  <1> DEFINE i == p.items[k]
             d == i.first - 1 - (IF Backend = "mtp" THEN 1 ELSE 0)
  <1>3. /\ i.first <= i.last
        /\ k > 1 => UseBegin(Backend, i) >= p.items[k - 1].last
    BY <1>1 DEF Accepted
  <1>4. i.first \in Nat /\ i.first >= 1 /\ i.last \in Nat
    BY <1>2 DEF Items
  <1>5. UseBegin(Backend, i) = Max({0, d})
    BY DEF UseBegin
  <1> HIDE DEF i
  <1>6. d \in Int /\ d < i.first /\ 0 \in Int
    BY <1>4
  <1> HIDE DEF d
  <1>7. Max({0, d}) = IF 0 <= d THEN d ELSE 0
    BY <1>6, TwoNumbers
  <1>8. UseBegin(Backend, i) \in Nat /\ UseBegin(Backend, i) < i.last
    BY <1>3, <1>4, <1>5, <1>6, <1>7
  <1> QED BY <1>2, <1>3, <1>4, <1>8 DEF i

LEMMA ItemsOrdered ==
    ASSUME engine \in Engines, NEW p \in Prompts, NEW j \in DOMAIN p.items,
           NEW k \in DOMAIN p.items, j < k
    PROVE  p.items[j].last <= UseBegin(Backend, p.items[k])
  <1> DEFINE begin(i) == UseBegin(Backend, p.items[i])
             last(i) == p.items[i].last
             Bad == {i \in DOMAIN p.items : j < i /\ ~(last(j) <= begin(i))}
  <1>1. \A i \in DOMAIN p.items :
            /\ i \in Nat /\ i >= 1 /\ last(i) \in Nat /\ begin(i) \in Nat /\ begin(i) < last(i)
            /\ i > 1 => i - 1 \in DOMAIN p.items /\ begin(i) >= last(i - 1)
    BY ItemFacts
  <1> SUFFICES ASSUME Bad # {} PROVE FALSE
    OBVIOUS
  <1> HIDE DEF begin, last
  <1>2. Bad \subseteq Nat
    BY <1>1
  <1>3. PICK i \in Bad : \A m \in Bad : i <= m
    BY <1>2, LeastNatural
  <1>4. i \in DOMAIN p.items /\ j < i /\ ~(last(j) <= begin(i))
    BY <1>3
  <1>5. i > 1 /\ i - 1 \in DOMAIN p.items /\ begin(i) >= last(i - 1) /\ i \in Nat /\ j \in Nat
    BY <1>1, <1>4
  <1>6. CASE i - 1 = j
    BY <1>1, <1>4, <1>5, <1>6
  <1>7. CASE i - 1 # j
    <2>1. j < i - 1 /\ i - 1 < i
      BY <1>4, <1>5, <1>7
    <2>2. i - 1 \notin Bad
      BY <1>2, <1>3, <1>5, <2>1
    <2>3. last(j) <= begin(i - 1)
      BY <1>5, <2>1, <2>2
    <2>4. begin(i - 1) < last(i - 1) /\ begin(i - 1) \in Nat /\ last(i - 1) \in Nat
          /\ last(j) \in Nat /\ begin(i) \in Nat
      BY <1>1, <1>4, <1>5
    <2> QED BY <1>4, <1>5, <2>3, <2>4
  <1> QED BY <1>6, <1>7
\* The numbers of a staged prompt.
LEMMA StagedNumbers ==
    ASSUME engine \in Engines, NEW st, StagedOK(engine, st)
    PROVE  /\ st.prompt \in Prompts /\ st \in StagedRecords
           /\ st.base \in Nat /\ st.cursor \in Nat /\ st.encoded \in Nat /\ st.extent \in Nat
           /\ Len(st.prompt.ids) \in Nat /\ Len(st.prompt.ids) >= 1
           /\ Len(st.prompt.ids) <= Capacity
           /\ st.base <= st.cursor /\ st.cursor <= Len(st.prompt.ids)
           /\ st.capture \in Checkpoints /\ st.capture.at \in Nat
           /\ st.capture.at <= Len(st.prompt.ids)
           /\ st.uses \subseteq DOMAIN st.prompt.items /\ DOMAIN st.prompt.items \subseteq Nat
           /\ IsFiniteSet(st.uses)
  <1>1. st.prompt \in Prompts /\ st \in StagedRecords
    BY DEF StagedOK, Prompts
  <1>2. /\ st.base \in Nat /\ st.cursor \in Nat /\ st.encoded \in Nat /\ st.extent \in Nat
        /\ st.capture \in Checkpoints
    BY <1>1 DEF StagedRecords
  <1>3. /\ Len(st.prompt.ids) \in Nat /\ Len(st.prompt.ids) >= 1
        /\ Len(st.prompt.ids) <= Capacity /\ st.prompt.items \in Seq(Items)
    BY <1>1, PromptFacts
  <1>4. /\ st.base <= st.cursor /\ st.cursor <= Len(st.prompt.ids)
        /\ st.capture.at <= Len(st.prompt.ids) /\ st.uses = VisionUses(st.prompt, st.base)
    BY DEF StagedOK
  <1>5. st.capture.at \in Nat
    BY <1>2 DEF Checkpoints, NoCkpt
  <1>6. st.uses \subseteq DOMAIN st.prompt.items
    BY <1>4 DEF VisionUses
  <1>7. DOMAIN st.prompt.items \subseteq Nat /\ DOMAIN st.prompt.items = 1 .. Len(st.prompt.items)
        /\ Len(st.prompt.items) \in Nat
    BY <1>3
  <1>8. IsFiniteSet(st.uses)
    <2> DEFINE m == Len(st.prompt.items)
    <2>1. 1 \in Int /\ m \in Int /\ st.uses \subseteq 1 .. m
      BY <1>6, <1>7
    <2> HIDE DEF m
    <2>2. IsFiniteSet(1 .. m)
      BY <2>1, FS_Interval, Zenon
    <2> QED BY <2>1, <2>2, FS_Subset
  <1> QED BY <1>1, <1>2, <1>3, <1>4, <1>5, <1>6, <1>7, <1>8

\* Where a chunk is cut for another reason than a media item.
LEMMA LimitFacts ==
    ASSUME engine \in Engines, NEW st, StagedOK(engine, st), st.cursor < Len(st.prompt.ids)
    PROVE  LET e == ChunkLimit(st)
           IN /\ e \in Nat /\ st.cursor < e /\ e <= Len(st.prompt.ids)
              /\ \/ e = st.cursor + Chunk
                 \/ e = st.capture.at
                 \/ e = Len(st.prompt.ids)
  <1> DEFINE n == Len(st.prompt.ids)
             c == st.cursor
             at == st.capture.at
             h == Chunk
             a == c + h
             nominal == Min({a, n})
             e == ChunkLimit(st)
  <1>1. n \in Nat /\ c \in Nat /\ at \in Nat /\ at <= n /\ c < n /\ h \in Nat /\ h >= 1
    BY StagedNumbers, EngineFacts
  <1>2. e = IF at \in c + 1 .. nominal THEN at ELSE nominal
    BY DEF ChunkLimit
  <1> HIDE DEF n, c, at, h, e
  <1>3. a \in Int /\ n \in Int /\ c < a /\ a \in Nat
    BY <1>1
  <1> HIDE DEF a
  <1>4. nominal = IF a <= n THEN a ELSE n
    BY <1>3, TwoNumbers
  <1> HIDE DEF nominal
  <1>5. nominal \in Nat /\ c < nominal /\ nominal <= n
    BY <1>1, <1>3, <1>4
  <1>6. e \in Nat /\ c < e /\ e <= n /\ (e = a \/ e = at \/ e = n)
    BY <1>1, <1>2, <1>4, <1>5
  <1> QED BY <1>6 DEF n, c, at, h, a, e

\* The item that a chunk encodes, and where the chunk is cut.
LEMMA CutFacts ==
    ASSUME engine \in Engines, NEW st, StagedOK(engine, st), st.cursor < Len(st.prompt.ids)
    PROVE  LET limit == ChunkLimit(st)
               item == ActiveItem(st, st.cursor, limit)
               e == ChunkEnd(st)
           IN /\ item \in Nat /\ InOrder(st, item)
              /\ \A i \in st.uses : st.prompt.items[i].last > st.cursor
                    => i >= IF item = 0 THEN st.encoded ELSE item
              /\ e \in Nat /\ st.cursor < e /\ e <= limit
              /\ \/ e = limit
                 \/ \E i \in st.uses : e = UseBegin(Backend, st.prompt.items[i])
  <1> DEFINE limit == ChunkLimit(st)
             cursor == st.cursor
             uses == UsesOf(st, cursor, limit)
             item == ActiveItem(st, cursor, limit)
             later == uses \ {item}
             e == ChunkEnd(st)
             begin(i) == UseBegin(Backend, st.prompt.items[i])
             last(i) == st.prompt.items[i].last
  <1>1. limit \in Nat /\ cursor < limit /\ cursor \in Nat
    BY LimitFacts, StagedNumbers
  <1>2. /\ st.prompt \in Prompts /\ st.encoded \in Nat
        /\ st.uses \subseteq DOMAIN st.prompt.items /\ DOMAIN st.prompt.items \subseteq Nat
    BY StagedNumbers
  <1>3. \A i \in st.uses : /\ i \in Nat /\ i >= 1 /\ begin(i) \in Nat /\ last(i) \in Nat
                           /\ begin(i) < last(i)
    BY <1>2, ItemFacts
  <1>4. \A i, j \in st.uses : i < j => last(i) <= begin(j)
    BY <1>2, ItemsOrdered
  <1>5. \A i \in st.uses : last(i) > cursor => i >= st.encoded
    BY DEF StagedOK
  <1>6. /\ uses = {i \in st.uses : last(i) > cursor /\ begin(i) < limit}
        /\ item = IF uses = {} THEN 0 ELSE Min(uses)
        /\ e = IF later = {} THEN limit ELSE Min({limit, begin(Min(later))})
        /\ InOrder(st, item) <=> (item = 0 \/ item >= st.encoded)
    BY DEF UsesOf, ActiveItem, CutAtNextUse, ChunkEnd, InOrder
  <1> HIDE DEF limit, cursor, uses, item, e, begin, last
  <1>7. uses \subseteq st.uses /\ uses \subseteq Nat
    BY <1>3, <1>6
  <1>8. uses # {} => item \in uses /\ \A i \in uses : item <= i
    BY <1>6, <1>7, LeastNumber
  <1>13. \A i \in uses : i \in st.uses /\ i \in Nat /\ i >= 1 /\ last(i) > cursor
    BY <1>3, <1>6
  <1>14. uses = {} => item = 0
    BY <1>6
  <1>9. item \in Nat /\ (item = 0 <=> uses = {})
    BY <1>8, <1>13, <1>14
  <1>10. InOrder(st, item)
    BY <1>5, <1>6, <1>8, <1>9
  <1>11. ASSUME NEW i \in st.uses, last(i) > cursor
         PROVE  i >= IF item = 0 THEN st.encoded ELSE item
    <2>1. CASE item = 0
      BY <1>5, <1>11, <2>1
    <2>2. CASE item # 0
      <3>1. item \in uses /\ \A j \in uses : item <= j
        BY <1>8, <1>9, <2>2
      <3>2. item \in st.uses /\ begin(item) < limit /\ item \in Nat /\ i \in Nat
        BY <1>3, <1>6, <3>1
      <3> SUFFICES ASSUME i < item PROVE FALSE
        BY <2>2, <3>2
      <3>3. last(i) <= begin(item)
        BY <1>4, <3>2
      <3>4. i \in uses
        <4>1. begin(i) < limit
          BY <1>1, <1>3, <3>2, <3>3
        <4> QED BY <1>6, <1>11, <4>1
      <3> QED BY <3>1, <3>2, <3>4
    <2> QED BY <2>1, <2>2
  <1>12. /\ e \in Nat /\ cursor < e /\ e <= limit
         /\ e = limit \/ \E i \in st.uses : e = begin(i)
    <2>1. CASE later = {}
      BY <1>1, <1>6, <2>1
    <2>2. CASE later # {}
      <3> DEFINE j == Min(later)
                 u == begin(j)
      <3>1. j \in later
        BY <1>7, <2>2, LeastNumber
      <3> HIDE DEF j
      <3>2. j \in uses /\ j # item /\ item \in uses /\ item <= j
        BY <1>8, <3>1
      <3>3. item \in st.uses /\ j \in st.uses /\ item < j /\ last(item) > cursor
        BY <1>13, <3>2
      <3>4. u \in Nat /\ cursor < u
        BY <1>1, <1>3, <1>4, <3>3
      <3>5. e = Min({limit, u})
        BY <1>6, <2>2 DEF j
      <3> HIDE DEF u
      <3>6. limit \in Int /\ u \in Int
        BY <1>1, <3>4
      <3>7. Min({limit, u}) = IF limit <= u THEN limit ELSE u
        BY <3>6, TwoNumbers
      <3>8. e \in Nat /\ cursor < e /\ e <= limit /\ (e = limit \/ e = u)
        BY <1>1, <3>4, <3>5, <3>7
      <3> QED BY <3>3, <3>8 DEF u
    <2> QED BY <2>1, <2>2
  <1> QED BY <1>9, <1>10, <1>11, <1>12 DEF limit, cursor, item, e, begin, last
\* What a staged prompt is after a chunk.
LEMMA NextPrefillFacts ==
    ASSUME engine \in Engines, NEW st, StagedOK(engine, st), st.cursor < Len(st.prompt.ids)
    PROVE  LET t == NextPrefill(st)
           IN /\ StagedOK(engine, t) /\ t.cursor = ChunkEnd(st) /\ t.bridge = "none"
              /\ t.base = st.base /\ t.prompt = st.prompt /\ t.uses = st.uses
              /\ t.capture = st.capture /\ t.extent = st.extent
  <1> DEFINE limit == ChunkLimit(st)
             item == ActiveItem(st, st.cursor, limit)
             e == ChunkEnd(st)
             encoded == IF item = 0 THEN st.encoded ELSE item
             t == NextPrefill(st)
  <1>1. /\ item \in Nat
        /\ \A i \in st.uses : st.prompt.items[i].last > st.cursor => i >= encoded
        /\ e \in Nat /\ st.cursor < e /\ e <= limit
    BY CutFacts
  <1>2. limit \in Nat /\ limit <= Len(st.prompt.ids)
    BY LimitFacts
  <1>3. /\ st.prompt \in Prompts /\ st \in StagedRecords /\ st.base \in Nat /\ st.cursor \in Nat
        /\ st.encoded \in Nat /\ Len(st.prompt.ids) \in Nat /\ st.base <= st.cursor
        /\ st.uses \subseteq DOMAIN st.prompt.items
    BY StagedNumbers
  <1>4. t = [st EXCEPT !.cursor = e, !.encoded = encoded, !.bridge = "none"]
    BY DEF NextPrefill
  <1>5. encoded \in Nat
    BY <1>1, <1>3
  <1> HIDE DEF e, encoded, t, limit
  <1>6. t \in StagedRecords
    BY <1>1, <1>3, <1>4, <1>5 DEF StagedRecords
  <1>7. /\ t.cursor = e /\ t.bridge = "none" /\ t.encoded = encoded
        /\ t.base = st.base /\ t.prompt = st.prompt /\ t.uses = st.uses
        /\ t.capture = st.capture /\ t.extent = st.extent
    BY <1>3, <1>4 DEF StagedRecords
  <1>8. st.base <= e /\ e <= Len(st.prompt.ids)
    BY <1>1, <1>2, <1>3
  <1>9. \A i \in st.uses : st.prompt.items[i].last > e => i >= encoded
    <2> SUFFICES ASSUME NEW i \in st.uses, st.prompt.items[i].last > e PROVE i >= encoded
      OBVIOUS
    <2>1. st.prompt.items[i].last \in Nat
      BY <1>3, ItemFacts
    <2>2. st.prompt.items[i].last > st.cursor
      BY <1>1, <1>3, <2>1
    <2> QED BY <1>1, <2>2
  <1>10. StagedOK(engine, t)
    BY <1>6, <1>7, <1>8, <1>9 DEF StagedOK
  <1> QED BY <1>7, <1>10 DEF e, t

\* Every step but the last leaves fewer steps.
LEMMA StepsDecrease ==
    ASSUME engine \in Engines, NEW st, StagedOK(engine, st), ChunkEnd(st) < Len(st.prompt.ids),
           st.cursor < Len(st.prompt.ids)
    PROVE  /\ StepsLeft(engine, st) \in Int /\ StepsLeft(engine, NextPrefill(st)) \in Int
           /\ StepsLeft(engine, NextPrefill(st)) + 1 <= StepsLeft(engine, st)
  <1> DEFINE n == Len(st.prompt.ids)
             cursor == st.cursor
             e == ChunkEnd(st)
             t == NextPrefill(st)
             at == st.capture.at
             h == engine.chunk
             begin(k) == UseBegin(engine.backend, st.prompt.items[k])
             opens(c) == {k \in st.uses : begin(k) > c}
             cut(c) == IF at \in c + 1 .. n - 1 THEN 1 ELSE 0
             full(c) == (n - c - 1) \div h
             A == opens(cursor)
             B == opens(e)
  <1>1. /\ t.cursor = e /\ t.prompt = st.prompt /\ t.uses = st.uses /\ t.capture = st.capture
    BY NextPrefillFacts
  <1>2. /\ StepsLeft(engine, st) = 1 + full(cursor) + Cardinality(A) + cut(cursor)
        /\ StepsLeft(engine, t) = 1 + full(e) + Cardinality(B) + cut(e)
    BY <1>1 DEF StepsLeft
  <1>3. /\ n \in Nat /\ cursor \in Nat /\ cursor < n /\ at \in Nat /\ IsFiniteSet(st.uses)
        /\ h \in Nat \ {0} /\ h = Chunk
    BY StagedNumbers, EngineFacts
  <1>4. /\ e \in Nat /\ cursor < e /\ e < n
        /\ \/ e = ChunkLimit(st)
           \/ \E k \in st.uses : e = UseBegin(Backend, st.prompt.items[k])
    BY CutFacts
  <1>5. e = ChunkLimit(st) => e = cursor + h \/ e = at
    BY <1>3, <1>4, LimitFacts
  <1>6. (\E k \in st.uses : e = begin(k)) \/ e = cursor + h \/ e = at
    BY <1>4, <1>5, EngineFacts
  <1>7. \A k \in st.uses : begin(k) \in Nat
    <2>1. st.prompt \in Prompts /\ st.uses \subseteq DOMAIN st.prompt.items
      BY StagedNumbers
    <2> QED BY <2>1, ItemFacts, EngineFacts
  <1> HIDE DEF n, cursor, e, t, at, h, begin
  <1>8. /\ B \subseteq A /\ IsFiniteSet(A) /\ IsFiniteSet(B)
        /\ Cardinality(A) \in Nat /\ Cardinality(B) \in Nat /\ Cardinality(B) <= Cardinality(A)
    <2>1. B \subseteq A
      BY <1>3, <1>4, <1>7
    <2>2. IsFiniteSet(A)
      BY <1>3, FS_Subset
    <2> HIDE DEF A, B
    <2> QED BY <2>1, <2>2, FS_Subset, FS_CardinalityType
  <1>9. (\E k \in st.uses : e = begin(k)) => Cardinality(B) + 1 <= Cardinality(A)
    <2> SUFFICES ASSUME NEW k \in st.uses, e = begin(k)
                 PROVE  Cardinality(B) + 1 <= Cardinality(A)
      OBVIOUS
    <2>1. k \in A /\ k \notin B
      BY <1>3, <1>4
    <2>2. B \subseteq A \ {k}
      BY <1>8, <2>1
    <2> HIDE DEF A, B
    <2>3. /\ IsFiniteSet(A \ {k}) /\ Cardinality(A \ {k}) \in Nat
          /\ Cardinality(A) = Cardinality(A \ {k}) + 1
      BY <1>8, <2>1, RestSmaller
    <2>4. Cardinality(B) <= Cardinality(A \ {k})
      BY <2>2, <2>3, FS_Subset
    <2> QED BY <1>8, <2>3, <2>4
  <1>10. /\ full(e) \in Nat /\ full(cursor) \in Nat /\ full(e) <= full(cursor)
         /\ e = cursor + h => 1 + full(e) <= full(cursor)
    <2> DEFINE x == n - e - 1
               y == n - cursor - 1
    <2>1. x \in Nat /\ y \in Nat /\ x <= y /\ (e = cursor + h => x + h <= y)
      BY <1>3, <1>4
    <2> HIDE DEF x, y
    <2>2. x \div h \in Nat /\ y \div h \in Nat
      BY <1>3, <2>1, Quotient
    <2>3. x \div h <= y \div h /\ (x + h <= y => 1 + x \div h <= y \div h)
      BY <1>3, <2>1, QuotientMonotone
    <2> QED BY <2>1, <2>2, <2>3 DEF x, y
  <1>11. /\ cut(e) \in Nat /\ cut(cursor) \in Nat /\ cut(e) <= cut(cursor)
         /\ e = at => 1 + cut(e) <= cut(cursor)
    BY <1>3, <1>4
  <1> DEFINE a == Cardinality(A)
             b == Cardinality(B)
             fc == full(cursor)
             fe == full(e)
             cc == cut(cursor)
             ce == cut(e)
  <1>12. /\ a \in Nat /\ b \in Nat /\ fc \in Nat /\ fe \in Nat /\ cc \in Nat /\ ce \in Nat
         /\ b <= a /\ fe <= fc /\ ce <= cc
         /\ b + 1 <= a \/ 1 + fe <= fc \/ 1 + ce <= cc
         /\ StepsLeft(engine, st) = 1 + fc + a + cc /\ StepsLeft(engine, t) = 1 + fe + b + ce
    BY <1>2, <1>6, <1>8, <1>9, <1>10, <1>11
  <1> HIDE DEF a, b, fc, fe, cc, ce
  <1> QED BY <1>12 DEF t
-----------------------------------------------------------------------------
(***************************************************************************)
(* A prefill step.                                                         *)
(***************************************************************************)

\* The columns of the prompt and of the first drafts have their pages.
LEMMA PromptMapped ==
    ASSUME engine \in Engines, NEW st, StagedOK(engine, st), NEW k \in Bundles,
           PromptPages(engine, st, k), NEW m \in Nat
    PROVE  /\ m <= Len(st.prompt.ids) => m <= Mapped(k.text)
           /\ m <= Len(st.prompt.ids) /\ Backend # "none" => m <= Mapped(k.backend)
           /\ st.extent # 0 => Len(st.prompt.ids) + st.extent - 1 <= Mapped(k.backend)
  <1> DEFINE n == Len(st.prompt.ids)
             x == st.extent
  <1>1. n \in Nat /\ n >= 1 /\ x \in Nat /\ Backend = engine.backend
    BY StagedNumbers, EngineFacts
  <1>2. /\ PagesForTokens(n) <= k.text.map
        /\ Backend # "none" => PagesForTokens(n) <= k.backend.map
        /\ x # 0 => PagesForTokens(n + x - 1) <= k.backend.map
    BY <1>1 DEF PromptPages
  <1>3. /\ k.text \in PageCounts /\ k.backend \in PageCounts
        /\ k.text.map \in Nat /\ k.backend.map \in Nat
    BY BundleFacts
  <1> HIDE DEF n, x
  <1>4. m <= n => m <= Mapped(k.text)
    <2>1. m <= n => PagesForTokens(m) <= k.text.map
      BY <1>1, <1>2, <1>3, PagesSuffice
    <2> QED BY <1>3, <2>1, MappedFacts
  <1>5. m <= n /\ Backend # "none" => m <= Mapped(k.backend)
    <2>1. m <= n /\ Backend # "none" => PagesForTokens(m) <= k.backend.map
      BY <1>1, <1>2, <1>3, PagesSuffice
    <2> QED BY <1>3, <2>1, MappedFacts
  <1>6. x # 0 => n + x - 1 <= Mapped(k.backend)
    <2> DEFINE z == n + x - 1
    <2>1. z \in Nat
      BY <1>1
    <2> HIDE DEF z
    <2>2. x # 0 => PagesForTokens(z) <= k.backend.map
      BY <1>2 DEF z
    <2>3. x # 0 => z <= Mapped(k.backend)
      BY <1>3, <2>1, <2>2, MappedFacts
    <2> QED BY <2>3 DEF z
  <1> QED BY <1>4, <1>5, <1>6 DEF n, x

LEMMA SameTransitive ==
    ASSUME NEW x, NEW y, NEW z, SameBooks(x, y), SameBooks(y, z)
    PROVE  SameBooks(x, z)
  BY DEF SameBooks

LEMMA CaptureFacts ==
    ASSUME NEW x, IsView(x), NEW st, NEW e
    PROVE  SameBooks(x, Capture(x, st, e))
  <1> DEFINE y == [x EXCEPT !.dev.ckHid = x.dev.lin, !.dev.ckLin = x.dev.lin]
  <1>1. IsView(y) /\ y.seq = x.seq /\ y.kv = x.kv /\ y.bad = x.bad
    BY DEF IsView, ViewFields
  <1>2. Capture(x, st, e) = x \/ Capture(x, st, e) = y
    BY DEF Capture
  <1> HIDE DEF y
  <1> QED BY <1>1, <1>2 DEF SameBooks

\* What a chunk leaves of the books.
LEMMA ComputedFacts ==
    ASSUME engine \in Engines, NEW st, StagedOK(engine, st), st.cursor < Len(st.prompt.ids),
           NEW x, IsView(x), x.kv \in Bundles, PromptPages(engine, st, x.kv), NEW token,
           x.seq \in SequenceRecords
    PROVE  LET e == ChunkEnd(st)
               y == ComputeChunk(x, st, e, token)
           IN /\ IsView(y) /\ y.bad = x.bad /\ y.kv = x.kv
              /\ y.seq \in SequenceRecords /\ y.seq.textValid = e
              /\ (Backend = "mtp" => y.seq.mtpValid = e)
              /\ (Backend = "dflash" => y.seq.dctx = e)
              /\ y.seq.ledger = x.seq.ledger /\ y.seq.pos = x.seq.pos
              /\ y.seq.drafts = x.seq.drafts /\ y.seq.ckpt = x.seq.ckpt
              /\ y.seq.retained = x.seq.retained
  <1> DEFINE p == st.prompt
             n == Len(p.ids)
             e == ChunkEnd(st)
             item == ActiveItem(st, st.cursor, ChunkLimit(st))
             columns == st.cursor + 1 .. e
             input(i) == Embedded(p, item, i)
             shifted(i) == IF i = n THEN token ELSE Embedded(p, item, i + 1)
             cells == [i \in columns |-> [in |-> input(i), pos |-> RopePosition(st, i)]]
             mtp == [i \in columns |-> MtpCell(Feature(i, input(i)), shifted(i))]
             checked == Require(x, e > st.cursor /\ InOrder(st, item))
             text == WriteText(checked, e, cells)
             aligned == WriteMtp(text, e, mtp)
             drafts == [i \in n + 1 .. n + st.extent - 1 |-> MtpCell(LostFeature, Rejected)]
             drafted == IF e = n /\ st.extent # 0
                        THEN WriteMtp(aligned, n + st.extent - 1, drafts) ELSE aligned
             base == IF Backend = "mtp" THEN drafted ELSE text
             new == [j \in 1 .. e - st.cursor |-> input(st.cursor + j)]
             valid == IF Backend = "mtp" THEN e ELSE base.seq.mtpValid
             dctx == IF Backend = "dflash" THEN e ELSE base.seq.dctx
             done == [base EXCEPT !.dev.lin = @ \o new, !.seq.textValid = e,
                                  !.seq.mtpValid = valid, !.seq.dctx = dctx]
             y == ComputeChunk(x, st, e, token)
  <1>1. y = Capture(done, st, e)
    BY DEF ComputeChunk, WriteDrafts
  <1>2. e \in Nat /\ st.cursor < e /\ e <= n /\ InOrder(st, item) /\ e > st.cursor
    <2>1. /\ e \in Nat /\ st.cursor < e /\ e <= ChunkLimit(st) /\ InOrder(st, item)
          /\ ChunkLimit(st) \in Nat /\ ChunkLimit(st) <= n /\ n \in Nat /\ st.cursor \in Nat
      BY CutFacts, LimitFacts, StagedNumbers
    <2> HIDE DEF e, item, n
    <2> QED BY <2>1
  <1>3. checked = x
    BY <1>2 DEF Require
  <1>4. /\ e <= Mapped(x.kv.text) /\ (Backend # "none" => e <= Mapped(x.kv.backend))
        /\ st.extent # 0 => n + st.extent - 1 <= Mapped(x.kv.backend)
    BY <1>2, PromptMapped
  <1> HIDE DEF e, item, input, cells, mtp, drafts, new, n, checked
  <1>5. SameBooks(x, text)
    BY <1>3, <1>4, WriteFacts
  <1> HIDE DEF text
  <1>6. Backend = "mtp" => SameBooks(x, aligned)
    <2> SUFFICES ASSUME Backend = "mtp" PROVE SameBooks(x, aligned)
      OBVIOUS
    <2>1. IsView(text) /\ text.kv = x.kv
      BY <1>5 DEF SameBooks
    <2>2. SameBooks(text, aligned)
      BY <1>4, <2>1, WriteFacts
    <2> QED BY <1>5, <2>2, SameTransitive
  <1> HIDE DEF aligned
  <1>7. Backend = "mtp" => SameBooks(x, drafted)
    <2> SUFFICES ASSUME Backend = "mtp", e = n /\ st.extent # 0 PROVE SameBooks(x, drafted)
      BY <1>6
    <2>1. IsView(aligned) /\ aligned.kv = x.kv
      BY <1>6 DEF SameBooks
    <2>2. SameBooks(aligned, drafted)
      BY <1>4, <2>1, WriteFacts
    <2> HIDE DEF drafted
    <2> QED BY <1>6, <2>2, SameTransitive
  <1>8. SameBooks(x, base)
    BY <1>5, <1>7
  <1> HIDE DEF drafted, base
  <1>11. /\ base.seq = x.seq /\ valid \in Nat /\ dctx \in Nat
         /\ (Backend = "mtp" => valid = e) /\ (Backend = "dflash" => dctx = e)
    <2>1. base.seq = x.seq /\ x.seq.mtpValid \in Nat /\ x.seq.dctx \in Nat
      BY <1>8 DEF SameBooks, SequenceRecords
    <2> QED BY <1>2, <2>1
  <1> HIDE DEF valid, dctx
  <1>9. /\ IsView(done) /\ done.bad = x.bad /\ done.kv = x.kv
        /\ done.seq = [x.seq EXCEPT !.textValid = e, !.mtpValid = valid, !.dctx = dctx]
    BY <1>8 DEF SameBooks, IsView, ViewFields
  <1> HIDE DEF done
  <1>12. /\ done.seq \in SequenceRecords /\ done.seq.textValid = e
         /\ done.seq.mtpValid = valid /\ done.seq.dctx = dctx
         /\ done.seq.ledger = x.seq.ledger /\ done.seq.pos = x.seq.pos
         /\ done.seq.drafts = x.seq.drafts /\ done.seq.ckpt = x.seq.ckpt
         /\ done.seq.retained = x.seq.retained
    BY <1>2, <1>9, <1>11 DEF SequenceRecords
  <1>10. SameBooks(done, y)
    BY <1>1, <1>9, CaptureFacts
  <1>13. /\ IsView(y) /\ y.bad = x.bad /\ y.kv = x.kv /\ y.seq = done.seq
    BY <1>9, <1>10 DEF SameBooks
  <1> HIDE DEF y
  <1>14. /\ y.seq \in SequenceRecords /\ y.seq.textValid = e
         /\ (Backend = "mtp" => y.seq.mtpValid = e)
         /\ (Backend = "dflash" => y.seq.dctx = e)
         /\ y.seq.ledger = x.seq.ledger /\ y.seq.pos = x.seq.pos
         /\ y.seq.drafts = x.seq.drafts /\ y.seq.ckpt = x.seq.ckpt
         /\ y.seq.retained = x.seq.retained
    BY <1>11, <1>12, <1>13
  <1> QED BY <1>13, <1>14 DEF e, y
\* The whole prompt is computed and the first token is sampled.
LEMMA FinishFacts ==
    ASSUME engine \in Engines, NEW st, StagedOK(engine, st), NEW token \in STRING,
           NEW x, IsView(x), x.seq \in SequenceRecords,
           Len(x.seq.ledger) = Len(st.prompt.ids), Len(x.seq.pos) = Len(st.prompt.ids),
           Backend = "mtp" => x.seq.mtpValid = Len(st.prompt.ids),
           Backend = "dflash" => x.seq.dctx = Len(st.prompt.ids),
           x.seq.textValid = Len(st.prompt.ids), x.seq.drafts <= Window,
           x.seq.ckpt.at <= Len(st.prompt.ids)
    PROVE  LET y == FinishPrefill(x, st, token)
               n == Len(st.prompt.ids)
           IN /\ IsView(y) /\ y.bad = x.bad /\ y.kv = x.kv
              /\ y.seq \in SequenceRecords
              /\ Len(y.seq.ledger) = n + 1 /\ Len(y.seq.pos) = n + 1 /\ y.seq.textValid = n
              /\ y.seq.mtpValid = x.seq.mtpValid /\ y.seq.dctx = x.seq.dctx
              /\ y.seq.drafts <= Window /\ y.seq.tailValid /\ y.seq.ckpt.at <= n
              /\ y.seq.retained = x.seq.retained
  <1> DEFINE n == Len(st.prompt.ids)
             s == x.seq
             ledger == Append(s.ledger, token)
             pos == Append(s.pos, n + s.delta)
             drafts == IF Backend = "mtp" THEN st.extent ELSE s.drafts
             ckpt == IF st.capture = NoCkpt THEN s.ckpt ELSE st.capture
             y == [x EXCEPT !.seq.ledger = ledger, !.seq.pos = pos, !.seq.textValid = n,
                            !.seq.drafts = drafts, !.seq.tailValid = TRUE, !.seq.ckpt = ckpt]
             z == [s EXCEPT !.ledger = ledger, !.pos = pos, !.textValid = n,
                            !.drafts = drafts, !.tailValid = TRUE, !.ckpt = ckpt]
  <1>1. /\ n \in Nat /\ st.extent \in Nat /\ st.extent <= Window
        /\ st.capture \in Checkpoints /\ st.capture.at \in Nat /\ st.capture.at <= n
    BY StagedNumbers, EngineFacts DEF StagedOK
  <1>2. /\ s.ledger \in Seq(STRING) /\ s.pos \in Seq(Int) /\ s.delta \in Int /\ s.drafts \in Nat
        /\ s.ckpt \in Checkpoints
    BY DEF SequenceRecords
  <1>3. FinishPrefill(x, st, token)
          = Require(y, /\ Len(s.ledger) = n /\ (Backend = "mtp" => s.mtpValid = n)
                       /\ (Backend = "dflash" => s.dctx = n) /\ s.textValid >= st.capture.at)
    BY DEF FinishPrefill
  <1>4. s.textValid >= st.capture.at
    BY <1>1
  <1>5. FinishPrefill(x, st, token) = y
    BY <1>3, <1>4 DEF Require
  <1>6. IsView(y) /\ y.bad = x.bad /\ y.kv = x.kv /\ y.seq = z
    <2> HIDE DEF ledger, pos, drafts, ckpt, n
    <2> QED BY DEF IsView, ViewFields
  <1>7. ledger \in Seq(STRING) /\ Len(ledger) = n + 1
    BY <1>2
  <1>8. pos \in Seq(Int) /\ Len(pos) = n + 1
    <2> DEFINE q == n + s.delta
    <2>1. q \in Int
      BY <1>1, <1>2
    <2> HIDE DEF q
    <2>2. Append(s.pos, q) \in Seq(Int) /\ Len(Append(s.pos, q)) = Len(s.pos) + 1
      BY <1>2, <2>1
    <2> QED BY <2>2 DEF q
  <1>9. drafts \in Nat /\ drafts <= Window /\ ckpt \in Checkpoints /\ ckpt.at <= n
    BY <1>1, <1>2
  <1>10. s \in SequenceRecords
    OBVIOUS
  <1> HIDE DEF ledger, pos, drafts, ckpt, n, y, s
  <1>11. z \in SequenceRecords
    BY <1>1, <1>7, <1>8, <1>9, <1>10 DEF SequenceRecords
  <1>12. /\ z.ledger = ledger /\ z.pos = pos /\ z.textValid = n /\ z.drafts = drafts
         /\ z.tailValid = TRUE /\ z.ckpt = ckpt /\ z.mtpValid = s.mtpValid /\ z.dctx = s.dctx
         /\ z.retained = s.retained
    BY <1>10 DEF SequenceRecords
  <1> HIDE DEF z
  <1>13. /\ y.seq \in SequenceRecords
         /\ Len(y.seq.ledger) = n + 1 /\ Len(y.seq.pos) = n + 1 /\ y.seq.textValid = n
         /\ y.seq.mtpValid = s.mtpValid /\ y.seq.dctx = s.dctx
         /\ y.seq.drafts <= Window /\ y.seq.tailValid /\ y.seq.ckpt.at <= n
         /\ y.seq.retained = s.retained
    BY <1>6, <1>7, <1>8, <1>9, <1>11, <1>12
  <1> QED BY <1>5, <1>6, <1>13 DEF n, s

\* Nothing of the prompt was left to compute.
LEMMA SampledFacts ==
    ASSUME engine \in Engines, NEW st, StagedOK(engine, st),
           NEW x, IsView(x), x.kv \in Bundles, PromptPages(engine, st, x.kv), NEW token,
           x.seq.tailValid, Backend = "mtp" => st.bridge = "after"
    PROVE  LET y == SampleFromTail(x, st, token)
           IN /\ IsView(y) /\ y.bad = x.bad /\ y.kv = x.kv
              /\ y.seq = IF Backend = "mtp"
                         THEN [x.seq EXCEPT !.mtpValid = Len(st.prompt.ids)] ELSE x.seq
  <1> DEFINE n == Len(st.prompt.ids)
             checked == Require(x, st.bridge = "after")
             cells == [i \in {n} |-> MtpCell(HiddenOf(x.dev.tail), token)]
             y == WriteMtp(checked, n, cells)
             drafts == [i \in n + 1 .. n + st.extent - 1 |-> MtpCell(LostFeature, Rejected)]
             z == IF st.extent = 0 THEN y ELSE WriteMtp(y, n + st.extent - 1, drafts)
             w == [z EXCEPT !.seq.mtpValid = n]
  <1>1. SampleFromTail(x, st, token)
          = Require(IF Backend = "mtp" THEN w ELSE x, x.seq.tailValid)
    BY DEF SampleFromTail, WriteDrafts
  <1>2. SampleFromTail(x, st, token) = IF Backend = "mtp" THEN w ELSE x
    BY <1>1 DEF Require
  <1>3. CASE Backend # "mtp"
    BY <1>2, <1>3
  <1>4. CASE Backend = "mtp"
    <2>1. checked = x
      BY <1>4 DEF Require
    <2>2. n \in Nat /\ n <= n
      BY StagedNumbers
    <2>3. /\ n <= Mapped(x.kv.backend)
          /\ st.extent # 0 => n + st.extent - 1 <= Mapped(x.kv.backend)
      BY <1>4, <2>2, PromptMapped
    <2> HIDE DEF n, checked, cells, drafts
    <2>4. SameBooks(x, y)
      BY <2>1, <2>3, WriteFacts
    <2> HIDE DEF y
    <2>5. SameBooks(x, z)
      <3>1. CASE st.extent = 0
        BY <2>4, <3>1
      <3>2. CASE st.extent # 0
        <4>1. IsView(y) /\ y.kv = x.kv
          BY <2>4 DEF SameBooks
        <4>2. SameBooks(y, z)
          BY <2>3, <3>2, <4>1, WriteFacts
        <4> HIDE DEF z
        <4> QED BY <2>4, <4>2, SameTransitive
      <3> QED BY <3>1, <3>2
    <2> HIDE DEF z
    <2>6. IsView(w) /\ w.bad = x.bad /\ w.kv = x.kv /\ w.seq = [x.seq EXCEPT !.mtpValid = n]
      BY <2>5 DEF SameBooks, IsView, ViewFields
    <2> HIDE DEF w
    <2> QED BY <1>2, <1>4, <2>6 DEF n
  <1> QED BY <1>3, <1>4

\* The bridge rewrites the last reused column of the MTP cache.
LEMMA BridgedFacts ==
    ASSUME engine \in Engines, NEW st, StagedOK(engine, st),
           NEW x, IsView(x), x.kv \in Bundles, PromptPages(engine, st, x.kv),
           x.seq \in SequenceRecords, st.bridge = "before" => Backend = "mtp"
    PROVE  LET y == AfterBridge(x, st)
           IN /\ IsView(y) /\ y.bad = x.bad /\ y.kv = x.kv /\ y.seq \in SequenceRecords
              /\ y.seq.ledger = x.seq.ledger /\ y.seq.pos = x.seq.pos
              /\ y.seq.drafts = x.seq.drafts /\ y.seq.ckpt = x.seq.ckpt
              /\ y.seq.retained = x.seq.retained
  <1> DEFINE hidden == IF IsRestore(st.reuse) THEN x.dev.ckHid ELSE x.dev.tail
             item == ActiveItem(st, st.base, st.base + 1)
             next == Embedded(st.prompt, item, st.base + 1)
             cells == [i \in {st.base} |-> MtpCell(HiddenOf(hidden), next)]
             w == WriteMtp(x, st.base, cells)
             b == st.base
             y == [w EXCEPT !.seq.mtpValid = b]
  <1>1. AfterBridge(x, st) = IF st.bridge = "before" THEN y ELSE x
    BY DEF AfterBridge, BridgeBeforeSuffix
  <1>2. CASE st.bridge # "before"
    BY <1>1, <1>2
  <1>3. CASE st.bridge = "before"
    <2>1. b \in Nat /\ b <= Len(st.prompt.ids)
      BY StagedNumbers
    <2>2. b <= Mapped(x.kv.backend)
      BY <1>3, <2>1, PromptMapped
    <2> HIDE DEF cells
    <2>3. SameBooks(x, w)
      BY <2>2, WriteFacts
    <2> HIDE DEF w, b
    <2>4. IsView(y) /\ y.bad = x.bad /\ y.kv = x.kv /\ y.seq = [x.seq EXCEPT !.mtpValid = b]
      BY <2>3 DEF SameBooks, IsView, ViewFields
    <2> HIDE DEF y
    <2>5. /\ y.seq \in SequenceRecords
          /\ y.seq.ledger = x.seq.ledger /\ y.seq.pos = x.seq.pos
          /\ y.seq.drafts = x.seq.drafts /\ y.seq.ckpt = x.seq.ckpt
          /\ y.seq.retained = x.seq.retained
      BY <2>1, <2>4 DEF SequenceRecords
    <2> QED BY <1>1, <1>3, <2>4, <2>5
  <1> QED BY <1>2, <1>3
\* A lane whose prefill goes on from st with the request r.
Advancing(x, r, st) ==
    LET n == Len(st.prompt.ids)
        s == x.seq
    IN /\ IsView(x) /\ x.bad = {} /\ s \in SequenceRecords /\ x.kv \in Bundles
       /\ StagedOK(engine, st) /\ r \in RequestRecords /\ r.budget >= 1
       /\ Holding(engine, s, x.kv, n + r.budget - 1) /\ PromptPages(engine, st, x.kv)
       /\ s.textValid = st.cursor /\ s.ledger = st.prompt.ids /\ Len(s.pos) = n
       /\ s.ckpt.at <= st.base /\ s.drafts <= Window
       /\ st.bridge = "before" => Backend = "mtp"
       /\ st.cursor < n => r.work >= StepsLeft(engine, st) + r.budget - 1
       /\ st.cursor = n => /\ s.tailValid /\ r.work >= r.budget
                           /\ Backend = "mtp" => st.bridge = "after"
                           /\ Backend = "dflash" => s.dctx = n

\* What a prefill step leaves: no other bundle, and a chunk more or the first token.
Stepped(x, y, r) ==
    /\ IsView(y) /\ y.bad = {} /\ y.kv = x.kv /\ LaneOK(engine, y.seq, r, y.kv)
    /\ \/ r.life = "Prefilling"
       \/ r.life = "Pending" /\ r.pending.kind = "begin"

\* The first token is pending.
LEMMA BegunLane ==
    ASSUME engine \in Engines, NEW x, NEW r, NEW st, Advancing(x, r, st), NEW token \in STRING,
           NEW y, IsView(y), y.bad = {}, y.kv = x.kv, y.seq \in SequenceRecords,
           Len(y.seq.ledger) = Len(st.prompt.ids) + 1, Len(y.seq.pos) = Len(st.prompt.ids) + 1,
           y.seq.textValid = Len(st.prompt.ids),
           Backend = "mtp" => y.seq.mtpValid = Len(st.prompt.ids),
           Backend = "dflash" => y.seq.dctx = Len(st.prompt.ids),
           y.seq.drafts <= Window, y.seq.tailValid, y.seq.ckpt.at <= Len(st.prompt.ids),
           y.seq.retained = x.seq.retained, r.work >= r.budget,
           NEW q, q = [r EXCEPT !.life = "Pending", !.prefill = NoPrefill, !.work = @ - 1,
                                !.pending = [NoPending EXCEPT !.kind = "begin",
                                                              !.baseE = Len(st.prompt.ids),
                                                              !.tokens = <<token>>]]
    PROVE  Stepped(x, y, q)
  <1> DEFINE n == Len(st.prompt.ids)
             pending == [NoPending EXCEPT !.kind = "begin", !.baseE = n, !.tokens = <<token>>]
             w == r.work - 1
  <1>1. /\ n \in Nat /\ n >= 1 /\ r \in RequestRecords /\ r.budget >= 1
        /\ x.kv \in Bundles /\ Holding(engine, x.seq, x.kv, n + r.budget - 1)
        /\ PromptPages(engine, st, x.kv)
    BY StagedNumbers DEF Advancing
  <1>2. r.budget \in Nat /\ r.work \in Int /\ w \in Int /\ w >= r.budget - 1
    BY <1>1 DEF RequestRecords
  <1>3. q = [r EXCEPT !.life = "Pending", !.prefill = NoPrefill, !.work = w, !.pending = pending]
    OBVIOUS
  <1>4. /\ pending \in PendingRecords /\ pending.kind = "begin" /\ pending.baseE = n
        /\ pending.tokens = <<token>>
    <2>1. <<token>> \in Seq(STRING)
      OBVIOUS
    <2> DEFINE t == <<token>>
    <2> HIDE DEF n, t
    <2>2. t \in Seq(STRING)
      BY <2>1 DEF t
    <2>3. LET g == [NoPending EXCEPT !.kind = "begin", !.baseE = n, !.tokens = t]
          IN g \in PendingRecords /\ g.kind = "begin" /\ g.baseE = n /\ g.tokens = t
      BY <1>1, <2>2, NoPendingTyped DEF PendingRecords
    <2> QED BY <2>3, Zenon DEF t
  <1> HIDE DEF n, pending, w
  <1>5. q \in RequestRecords
    BY <1>1, <1>2, <1>3, <1>4 DEF RequestRecords
  <1>6. q.life = "Pending" /\ q.pending = pending /\ q.work = w /\ q.budget = r.budget
    BY <1>1, <1>3 DEF RequestRecords
  <1>7. Len(q.pending.tokens) = 1 /\ q.pending.baseE = n
    <2>1. Len(<<token>>) = 1
      OBVIOUS
    <2> QED BY <1>4, <1>6, <2>1, Zenon
  <1>8. Holding(engine, y.seq, y.kv, n + q.budget - 1)
    BY <1>1, <1>6 DEF Holding
  <1>9. Caught(engine, y.seq, y.kv, n)
    <2>1. engine.backend # "none" => Behind(engine, y.seq) = n
      BY BehindFacts, EngineFacts DEF n
    <2>2. /\ PagesForTokens(n) <= y.kv.text.map
          /\ engine.backend # "none" => PagesForTokens(n) <= y.kv.backend.map
      BY <1>1 DEF PromptPages, n
    <2>3. engine.backend = "none" =>
              Behind(engine, y.seq) = 0 /\ PagesForTokens(0) = 0 /\ y.kv.backend.map \in Nat
      BY <1>1, BehindFacts, EngineFacts, PagesFacts, BundleFacts
    <2>4. PagesForTokens(Behind(engine, y.seq)) <= y.kv.backend.map
      BY <2>1, <2>2, <2>3
    <2> QED BY <2>1, <2>2, <2>4 DEF Caught, n
  <1>10. Begun(engine, y.seq, q, y.kv)
    <2>1. /\ Len(y.seq.ledger) = n + 1 /\ Len(y.seq.pos) = n + 1
          /\ y.seq.drafts <= engine.window /\ y.seq.tailValid /\ y.seq.ckpt.at <= n
      BY EngineFacts DEF n
    <2>2. q.work >= q.budget - 1 /\ q.budget >= 1
      BY <1>1, <1>2, <1>6
    <2> QED BY <1>1, <1>7, <1>8, <1>9, <2>1, <2>2 DEF Begun
  <1>11. LaneOK(engine, y.seq, q, y.kv)
    BY <1>1, <1>4, <1>5, <1>6, <1>10 DEF LaneOK
  <1> QED BY <1>4, <1>6, <1>11 DEF Stepped
\* What is left to compute takes at least one step.
LEMMA StepsPositive ==
    ASSUME engine \in Engines, NEW st, StagedOK(engine, st), st.cursor < Len(st.prompt.ids)
    PROVE  StepsLeft(engine, st) \in Int /\ StepsLeft(engine, st) >= 1
  <1> DEFINE n == Len(st.prompt.ids)
             open == {k \in st.uses : UseBegin(engine.backend, st.prompt.items[k]) > st.cursor}
             a == n - st.cursor - 1
             h == engine.chunk
             d == a \div h
             b == Cardinality(open)
             c == IF st.capture.at \in st.cursor + 1 .. n - 1 THEN 1 ELSE 0
  <1>1. StepsLeft(engine, st) = 1 + d + b + c
    BY DEF StepsLeft
  <1>2. /\ n \in Nat /\ st.cursor \in Nat /\ st.cursor < n /\ IsFiniteSet(st.uses)
        /\ h \in Nat \ {0}
    BY StagedNumbers, EngineFacts
  <1>3. a \in Nat /\ c \in Nat
    BY <1>2
  <1>4. b \in Nat
    BY <1>2, FS_Subset, FS_CardinalityType
  <1> HIDE DEF a, b, c, h
  <1>5. d \in Nat
    BY <1>2, <1>3, Quotient
  <1> HIDE DEF d
  <1> QED BY <1>1, <1>3, <1>4, <1>5

\* A chunk that is not the last.
LEMMA ChunkStep ==
    ASSUME engine \in Engines, NEW x, NEW r, NEW st, Advancing(x, r, st), NEW token \in STRING,
           st.cursor < Len(st.prompt.ids), ChunkEnd(st) < Len(st.prompt.ids)
    PROVE  Stepped(x, ComputeChunk(AfterBridge(x, st), st, ChunkEnd(st), token),
                   [r EXCEPT !.life = "Prefilling", !.prefill = NextPrefill(st), !.work = @ - 1])
  <1> DEFINE n == Len(st.prompt.ids)
             e == ChunkEnd(st)
             b == AfterBridge(x, st)
             y == ComputeChunk(b, st, e, token)
             t == NextPrefill(st)
             w == r.work - 1
             q == [r EXCEPT !.life = "Prefilling", !.prefill = t, !.work = w]
  <1>1. /\ IsView(x) /\ x.bad = {} /\ x.seq \in SequenceRecords /\ x.kv \in Bundles
        /\ StagedOK(engine, st) /\ r \in RequestRecords /\ r.budget >= 1
        /\ Holding(engine, x.seq, x.kv, n + r.budget - 1) /\ PromptPages(engine, st, x.kv)
        /\ x.seq.ledger = st.prompt.ids /\ Len(x.seq.pos) = n
        /\ x.seq.ckpt.at <= st.base /\ x.seq.drafts <= Window
        /\ st.bridge = "before" => Backend = "mtp"
        /\ r.work >= StepsLeft(engine, st) + r.budget - 1
    BY DEF Advancing
  <1>2. /\ IsView(b) /\ b.bad = {} /\ b.kv = x.kv /\ b.seq \in SequenceRecords
        /\ b.seq.ledger = x.seq.ledger /\ b.seq.pos = x.seq.pos
        /\ b.seq.drafts = x.seq.drafts /\ b.seq.ckpt = x.seq.ckpt
        /\ b.seq.retained = x.seq.retained
    BY <1>1, BridgedFacts
  <1>3. /\ StagedOK(engine, t) /\ t.cursor = e /\ t.bridge = "none" /\ t.base = st.base
        /\ t.prompt = st.prompt /\ t.extent = st.extent
    BY <1>1, NextPrefillFacts
  <1>4. StepsLeft(engine, t) \in Int /\ StepsLeft(engine, st) \in Int
        /\ StepsLeft(engine, t) + 1 <= StepsLeft(engine, st)
    BY <1>1, StepsDecrease
  <1> HIDE DEF b
  <1>5. /\ IsView(y) /\ y.bad = b.bad /\ y.kv = b.kv
        /\ y.seq \in SequenceRecords /\ y.seq.textValid = e
        /\ (Backend = "mtp" => y.seq.mtpValid = e)
        /\ (Backend = "dflash" => y.seq.dctx = e)
        /\ y.seq.ledger = b.seq.ledger /\ y.seq.pos = b.seq.pos
        /\ y.seq.drafts = b.seq.drafts /\ y.seq.ckpt = b.seq.ckpt
        /\ y.seq.retained = b.seq.retained
    <2>1. /\ IsView(b) /\ b.kv \in Bundles /\ PromptPages(engine, st, b.kv)
          /\ b.seq \in SequenceRecords
      BY <1>1, <1>2
    <2> QED BY <1>1, <2>1, ComputedFacts
  <1>7. e \in Nat
    BY <1>1, CutFacts
  <1>8. Backend = engine.backend /\ Window = engine.window
    BY EngineFacts
  <1> HIDE DEF y, e, t, n
  <1>10. Behind(engine, y.seq) = e \/ Backend = "none"
    BY <1>5, BehindFacts, EngineFacts
  <1>11. r.work \in Int /\ r.budget \in Nat /\ w \in Int /\ t \in StagedRecords
    BY <1>1, <1>3 DEF RequestRecords, StagedOK
  <1>12. w >= StepsLeft(engine, t) + r.budget - 1
    BY <1>1, <1>4, <1>11
  <1> HIDE DEF w
  <1>13. q \in RequestRecords
    BY <1>1, <1>11 DEF RequestRecords
  <1>14. q.life = "Prefilling" /\ q.prefill = t /\ q.work = w /\ q.budget = r.budget
    BY <1>1 DEF RequestRecords
  <1> HIDE DEF q
  <1>15. Holding(engine, y.seq, y.kv, n + q.budget - 1) /\ PromptPages(engine, t, y.kv)
    BY <1>1, <1>2, <1>3, <1>5, <1>14 DEF Holding, PromptPages
  <1>16. e < n
    BY DEF e, n
  <1>17. Prefills(engine, y.seq, q, y.kv)
    <2>1. Len(t.prompt.ids) = n
      BY <1>3 DEF n
    <2>2. /\ y.seq.ledger = t.prompt.ids /\ Len(y.seq.pos) = n /\ y.seq.ckpt.at <= t.base
          /\ y.seq.drafts <= engine.window /\ y.seq.textValid = t.cursor
          /\ engine.backend # "none" => Behind(engine, y.seq) = t.cursor
      BY <1>1, <1>2, <1>3, <1>5, <1>8, <1>10
    <2> QED BY <1>1, <1>3, <1>12, <1>14, <1>15, <1>16, <2>1, <2>2 DEF Prefills
  <1>18. LaneOK(engine, y.seq, q, y.kv)
    BY <1>1, <1>2, <1>5, <1>13, <1>14, <1>17 DEF LaneOK
  <1>19. Stepped(x, y, q)
    BY <1>2, <1>5, <1>14, <1>18 DEF Stepped
  <1> QED BY <1>19 DEF y, q, w, t, b, e

\* The last chunk.
LEMMA LastChunkStep ==
    ASSUME engine \in Engines, NEW x, NEW r, NEW st, Advancing(x, r, st), NEW token \in STRING,
           st.cursor < Len(st.prompt.ids), ChunkEnd(st) = Len(st.prompt.ids),
           NEW y, y = ComputeChunk(AfterBridge(x, st), st, ChunkEnd(st), token),
           NEW q, q = [r EXCEPT !.life = "Pending", !.prefill = NoPrefill, !.work = @ - 1,
                                !.pending = [NoPending EXCEPT !.kind = "begin",
                                                              !.baseE = Len(st.prompt.ids),
                                                              !.tokens = <<token>>]]
    PROVE  Stepped(x, FinishPrefill([y EXCEPT !.dev.tail = y.dev.lin], st, token), q)
  <1> DEFINE n == Len(st.prompt.ids)
             b == AfterBridge(x, st)
             t == [y EXCEPT !.dev.tail = y.dev.lin]
             z == FinishPrefill(t, st, token)
  <1>1. /\ IsView(x) /\ x.bad = {} /\ x.seq \in SequenceRecords /\ x.kv \in Bundles
        /\ StagedOK(engine, st) /\ r \in RequestRecords /\ r.budget >= 1
        /\ PromptPages(engine, st, x.kv)
        /\ x.seq.ledger = st.prompt.ids /\ Len(x.seq.pos) = n
        /\ x.seq.ckpt.at <= st.base /\ x.seq.drafts <= Window
        /\ st.bridge = "before" => Backend = "mtp"
        /\ r.work >= StepsLeft(engine, st) + r.budget - 1
    BY DEF Advancing
  <1>2. /\ IsView(b) /\ b.bad = {} /\ b.kv = x.kv /\ b.seq \in SequenceRecords
        /\ b.seq.ledger = x.seq.ledger /\ b.seq.pos = x.seq.pos
        /\ b.seq.drafts = x.seq.drafts /\ b.seq.ckpt = x.seq.ckpt
        /\ b.seq.retained = x.seq.retained
    BY <1>1, BridgedFacts
  <1> HIDE DEF b
  <1>3. /\ IsView(y) /\ y.bad = b.bad /\ y.kv = b.kv
        /\ y.seq \in SequenceRecords /\ y.seq.textValid = n
        /\ (Backend = "mtp" => y.seq.mtpValid = n)
        /\ (Backend = "dflash" => y.seq.dctx = n)
        /\ y.seq.ledger = b.seq.ledger /\ y.seq.pos = b.seq.pos
        /\ y.seq.drafts = b.seq.drafts /\ y.seq.ckpt = b.seq.ckpt
        /\ y.seq.retained = b.seq.retained
    <2>1. /\ IsView(b) /\ b.kv \in Bundles /\ PromptPages(engine, st, b.kv)
          /\ b.seq \in SequenceRecords
      BY <1>1, <1>2
    <2>2. y = ComputeChunk(b, st, ChunkEnd(st), token)
      BY DEF b
    <2> QED BY <1>1, <2>1, <2>2, ComputedFacts
  <1>4. IsView(t) /\ t.bad = y.bad /\ t.kv = y.kv /\ t.seq = y.seq
    BY <1>3 DEF IsView, ViewFields
  <1> HIDE DEF t
  <1>5. x.seq.ckpt.at <= n
    <2>1. x.seq.ckpt \in Checkpoints
      BY <1>1 DEF SequenceRecords
    <2>2. x.seq.ckpt.at \in Nat
      BY <2>1 DEF Checkpoints, NoCkpt
    <2>3. st.base \in Nat /\ st.cursor \in Nat /\ n \in Nat /\ st.base <= st.cursor /\ st.cursor <= n
      BY <1>1, StagedNumbers
    <2> QED BY <1>1, <2>2, <2>3
  <1>6. /\ IsView(z) /\ z.bad = t.bad /\ z.kv = t.kv
        /\ z.seq \in SequenceRecords
        /\ Len(z.seq.ledger) = n + 1 /\ Len(z.seq.pos) = n + 1 /\ z.seq.textValid = n
        /\ z.seq.mtpValid = t.seq.mtpValid /\ z.seq.dctx = t.seq.dctx
        /\ z.seq.drafts <= Window /\ z.seq.tailValid /\ z.seq.ckpt.at <= n
        /\ z.seq.retained = t.seq.retained
    <2>1. /\ t.seq \in SequenceRecords /\ Len(t.seq.ledger) = n /\ Len(t.seq.pos) = n
          /\ (Backend = "mtp" => t.seq.mtpValid = n)
          /\ (Backend = "dflash" => t.seq.dctx = n)
          /\ t.seq.textValid = n /\ t.seq.drafts <= Window /\ t.seq.ckpt.at <= n
      BY <1>1, <1>2, <1>3, <1>4, <1>5
    <2> QED BY <1>1, <1>4, <2>1, FinishFacts
  <1>7. r.work >= r.budget
    <2>1. StepsLeft(engine, st) \in Int /\ StepsLeft(engine, st) >= 1
      BY <1>1, StepsPositive
    <2>2. r.work \in Int /\ r.budget \in Nat
      BY <1>1 DEF RequestRecords
    <2> QED BY <1>1, <2>1, <2>2
  <1> HIDE DEF z
  <1>8. /\ z.bad = {} /\ z.kv = x.kv /\ z.seq.retained = x.seq.retained
        /\ (Backend = "mtp" => z.seq.mtpValid = n)
        /\ (Backend = "dflash" => z.seq.dctx = n)
    BY <1>2, <1>3, <1>4, <1>6
  <1>9. Stepped(x, z, q)
    BY <1>6, <1>7, <1>8, BegunLane
  <1> QED BY <1>9 DEF z, t

\* The prompt was found whole.
LEMMA TailStep ==
    ASSUME engine \in Engines, NEW x, NEW r, NEW st, Advancing(x, r, st), NEW token \in STRING,
           st.cursor = Len(st.prompt.ids),
           NEW q, q = [r EXCEPT !.life = "Pending", !.prefill = NoPrefill, !.work = @ - 1,
                                !.pending = [NoPending EXCEPT !.kind = "begin",
                                                              !.baseE = Len(st.prompt.ids),
                                                              !.tokens = <<token>>]]
    PROVE  Stepped(x, FinishPrefill(SampleFromTail(x, st, token), st, token), q)
  <1> DEFINE n == Len(st.prompt.ids)
             t == SampleFromTail(x, st, token)
             z == FinishPrefill(t, st, token)
  <1>1. /\ IsView(x) /\ x.bad = {} /\ x.seq \in SequenceRecords /\ x.kv \in Bundles
        /\ StagedOK(engine, st) /\ PromptPages(engine, st, x.kv)
        /\ x.seq.ledger = st.prompt.ids /\ Len(x.seq.pos) = n /\ x.seq.textValid = n
        /\ x.seq.ckpt.at <= st.base /\ x.seq.drafts <= Window
        /\ x.seq.tailValid /\ r.work >= r.budget
        /\ Backend = "mtp" => st.bridge = "after"
        /\ Backend = "dflash" => x.seq.dctx = n
    BY DEF Advancing
  <1>2. /\ IsView(t) /\ t.bad = x.bad /\ t.kv = x.kv
        /\ t.seq = IF Backend = "mtp" THEN [x.seq EXCEPT !.mtpValid = n] ELSE x.seq
    BY <1>1, SampledFacts
  <1>3. n \in Nat
    BY <1>1, StagedNumbers
  <1> HIDE DEF t, n
  <1>4. /\ t.seq \in SequenceRecords /\ t.seq.ledger = x.seq.ledger /\ t.seq.pos = x.seq.pos
        /\ (Backend = "mtp" => t.seq.mtpValid = n) /\ t.seq.dctx = x.seq.dctx
        /\ t.seq.textValid = x.seq.textValid /\ t.seq.drafts = x.seq.drafts
        /\ t.seq.ckpt = x.seq.ckpt /\ t.seq.retained = x.seq.retained
    BY <1>1, <1>2, <1>3, ZenonT(60) DEF SequenceRecords
  <1>5. x.seq.ckpt.at <= n
    <2>1. x.seq.ckpt \in Checkpoints
      BY <1>1 DEF SequenceRecords
    <2>2. x.seq.ckpt.at \in Nat
      BY <2>1 DEF Checkpoints, NoCkpt
    <2>3. st.base \in Nat /\ st.base <= n
      BY <1>1, StagedNumbers DEF n
    <2> QED BY <1>1, <1>3, <2>2, <2>3
  <1>6. /\ IsView(z) /\ z.bad = t.bad /\ z.kv = t.kv
        /\ z.seq \in SequenceRecords
        /\ Len(z.seq.ledger) = n + 1 /\ Len(z.seq.pos) = n + 1 /\ z.seq.textValid = n
        /\ z.seq.mtpValid = t.seq.mtpValid /\ z.seq.dctx = t.seq.dctx
        /\ z.seq.drafts <= Window /\ z.seq.tailValid /\ z.seq.ckpt.at <= n
        /\ z.seq.retained = t.seq.retained
    <2>1. /\ t.seq \in SequenceRecords /\ Len(t.seq.ledger) = n /\ Len(t.seq.pos) = n
          /\ (Backend = "mtp" => t.seq.mtpValid = n)
          /\ (Backend = "dflash" => t.seq.dctx = n)
          /\ t.seq.textValid = n /\ t.seq.drafts <= Window /\ t.seq.ckpt.at <= n
      BY <1>1, <1>4, <1>5 DEF n
    <2>2. IsView(t) /\ StagedOK(engine, st)
      BY <1>1, <1>2
    <2> QED BY <2>1, <2>2, FinishFacts DEF n
  <1> HIDE DEF z
  <1>8. /\ z.bad = {} /\ z.kv = x.kv /\ z.seq.retained = x.seq.retained
        /\ (Backend = "mtp" => z.seq.mtpValid = n)
        /\ (Backend = "dflash" => z.seq.dctx = n)
    BY <1>1, <1>2, <1>4, <1>6
  <1>9. Stepped(x, z, q)
    BY <1>1, <1>6, <1>8, BegunLane DEF n
  <1> QED BY <1>9 DEF z, t

\* A prefill step passes its checks and leaves a lane whose books are right.
LEMMA AdvanceSteps ==
    ASSUME engine \in Engines, NEW x, NEW r, NEW st, Advancing(x, r, st), NEW token \in STRING
    PROVE  Stepped(x, Advanced(x, st, token), AdvancedRequest(r, st, token))
  <1> DEFINE n == Len(st.prompt.ids)
             e == ChunkEnd(st)
             y == ComputeChunk(AfterBridge(x, st), st, e, token)
             q == [r EXCEPT !.life = "Pending", !.prefill = NoPrefill, !.work = @ - 1,
                            !.pending = [NoPending EXCEPT !.kind = "begin", !.baseE = n,
                                                          !.tokens = <<token>>]]
             g == [r EXCEPT !.life = "Prefilling", !.prefill = NextPrefill(st), !.work = @ - 1]
  <1>1. st.cursor \in Nat /\ n \in Nat /\ st.cursor <= n
    BY StagedNumbers DEF Advancing
  <1>2. Advanced(x, st, token)
          = CASE st.cursor = n -> FinishPrefill(SampleFromTail(x, st, token), st, token)
              [] st.cursor < n /\ e = n ->
                    FinishPrefill([y EXCEPT !.dev.tail = y.dev.lin], st, token)
              [] OTHER -> y
    BY DEF Advanced
  <1>3. AdvancedRequest(r, st, token) = IF st.cursor = n \/ e = n THEN q ELSE g
    BY DEF AdvancedRequest
  <1>4. CASE st.cursor = n
    <2>1. Stepped(x, FinishPrefill(SampleFromTail(x, st, token), st, token), q)
      BY <1>4, TailStep
    <2> HIDE DEF n, q
    <2>2. ~(st.cursor < n)
      BY <1>1, <1>4
    <2> QED BY <1>2, <1>3, <1>4, <2>1, <2>2
  <1>5. CASE st.cursor < n /\ e = n
    <2>1. Stepped(x, FinishPrefill([y EXCEPT !.dev.tail = y.dev.lin], st, token), q)
      BY <1>5, LastChunkStep
    <2> HIDE DEF n, q, y, e
    <2>2. st.cursor # n
      BY <1>1, <1>5
    <2> QED BY <1>2, <1>3, <1>5, <2>1, <2>2
  <1>6. CASE st.cursor < n /\ e # n
    <2>1. e \in Nat /\ e <= n
      <3>1. e \in Nat /\ e <= ChunkLimit(st) /\ ChunkLimit(st) \in Nat /\ ChunkLimit(st) <= n
        BY <1>6, CutFacts, LimitFacts DEF Advancing
      <3> HIDE DEF e, n
      <3> QED BY <1>1, <3>1
    <2>2. e < n
      BY <1>1, <1>6, <2>1
    <2>3. Stepped(x, y, g)
      BY <1>6, <2>2, ChunkStep
    <2> HIDE DEF n, g, y, e
    <2>4. st.cursor # n
      BY <1>1, <1>6
    <2> QED BY <1>2, <1>3, <1>6, <2>3, <2>4
  <1> QED BY <1>1, <1>4, <1>5, <1>6
-----------------------------------------------------------------------------
(***************************************************************************)
(* The start of a prefill.                                                 *)
(***************************************************************************)

\* The columns that the backend's share of a request covers.
LEMMA ShareFacts ==
    ASSUME engine \in Engines, NEW reserved \in Nat, reserved <= Capacity, NEW b \in Nat
    PROVE  /\ BackendShare(engine, reserved) \in Nat
           /\ Backend = "none" => BackendShare(engine, reserved) = 0
           /\ Backend = "dflash" /\ b <= reserved =>
                 PagesForTokens(b) <= BackendShare(engine, reserved)
           /\ Backend = "mtp" /\ b <= Capacity /\ b <= reserved + Window - 1 =>
                 PagesForTokens(b) <= BackendShare(engine, reserved)
  <1> DEFINE m == Min({Capacity, reserved + Window - 1})
             w == reserved + Window - 1
  <1>1. /\ Capacity \in Nat /\ Window \in Nat /\ (Backend = "mtp" => Window >= 1)
        /\ Backend \in {"none", "mtp", "dflash"}
    BY EngineFacts
  <1>2. /\ Backend = "none" => BackendShare(engine, reserved) = 0
        /\ Backend = "mtp" => BackendShare(engine, reserved) = PagesForTokens(m)
        /\ Backend = "dflash" => BackendShare(engine, reserved) = PagesForTokens(reserved)
    BY EngineFacts DEF BackendShare
  <1>3. w \in Int /\ Capacity \in Int /\ (Backend = "mtp" => w \in Nat)
    BY <1>1
  <1>4. m = Min({Capacity, w})
    OBVIOUS
  <1> HIDE DEF m, w
  <1>5. m = IF Capacity <= w THEN Capacity ELSE w
    BY <1>3, <1>4, TwoNumbers
  <1>6. Backend = "mtp" => m \in Nat /\ (b <= Capacity /\ b <= w => b <= m)
    BY <1>1, <1>3, <1>5
  <1>7. PagesForTokens(reserved) \in Nat /\ (b <= reserved => PagesForTokens(b) <= PagesForTokens(reserved))
    BY PagesFacts
  <1>8. Backend = "mtp" => /\ PagesForTokens(m) \in Nat
                           /\ b <= m => PagesForTokens(b) <= PagesForTokens(m)
    BY <1>6, PagesFacts
  <1> QED BY <1>1, <1>2, <1>6, <1>7, <1>8 DEF w

\* The first drafts of a request.
LEMMA InitialFacts ==
    ASSUME engine \in Engines, NEW p \in Prompts, NEW plan, plan.output \in Nat
    PROVE  LET x == InitialMtpExtent(p, plan)
           IN /\ x \in Nat /\ x <= Window
              /\ x # 0 => Backend = "mtp" /\ Len(p.ids) + x + 1 <= Capacity
  <1> DEFINE n == Len(p.ids)
             x == InitialMtpExtent(p, plan)
             u == plan.output - 2
             v == Capacity - n - 1
             a == Max({0, u})
             b == Max({0, v})
             w == Window
  <1>1. n \in Nat /\ Capacity \in Nat /\ w \in Nat
    BY PromptFacts, EngineFacts
  <1>2. x = IF Backend # "mtp" THEN 0 ELSE Min({w, a, b})
    BY DEF InitialMtpExtent
  <1>3. u \in Int /\ v \in Int /\ 0 \in Int
    BY <1>1
  <1> HIDE DEF x, u, v, n, w
  <1>4. a = (IF 0 <= u THEN u ELSE 0) /\ b = IF 0 <= v THEN v ELSE 0
    BY <1>3, TwoNumbers
  <1> HIDE DEF a, b
  <1>5. a \in Nat /\ b \in Nat /\ (b # 0 => b = v) /\ w \in Int /\ a \in Int /\ b \in Int
    BY <1>1, <1>3, <1>4
  <1>6. Min({w, a, b}) \in {w, a, b} /\ \A y \in {w, a, b} : Min({w, a, b}) <= y
    BY <1>5, LeastOfThree
  <1>7. x \in Nat /\ x <= w /\ (x # 0 => Backend = "mtp" /\ b # 0 /\ x <= b)
    <2> DEFINE m == Min({w, a, b})
    <2> HIDE DEF m
    <2>1. m \in {w, a, b} /\ \A y \in {w, a, b} : m <= y
      BY <1>6 DEF m
    <2>2. m \in Nat /\ m <= w /\ m <= b /\ (m # 0 => b # 0)
      BY <1>1, <1>5, <2>1
    <2>3. x = 0 \/ (Backend = "mtp" /\ x = m)
      BY <1>2 DEF m
    <2> QED BY <1>1, <2>2, <2>3
  <1>8. x # 0 => n + x + 1 <= Capacity
    BY <1>1, <1>5, <1>7 DEF v
  <1> QED BY <1>7, <1>8 DEF x, n, w

\* The columns of the backend that a start materializes.
StartColumns(p, plan) ==
    CASE Backend = "mtp" ->
            Min({Capacity, Len(p.ids) + Max({0, InitialMtpExtent(p, plan) - 1})})
      [] Backend = "dflash" -> Len(p.ids)
      [] OTHER -> 0

LEMMA StartColumnsFacts ==
    ASSUME engine \in Engines, NEW p \in Prompts, NEW plan, plan.output \in Nat,
           plan.output >= 1, Len(p.ids) + plan.output - 1 <= Capacity
    PROVE  LET b == StartColumns(p, plan)
               n == Len(p.ids)
               x == InitialMtpExtent(p, plan)
           IN /\ b \in Nat /\ b <= Capacity
              /\ PagesForTokens(b) <= BackendShare(engine, n + plan.output - 1)
              /\ Backend # "none" => n <= b
              /\ x # 0 => n + x - 1 <= b
  <1> DEFINE n == Len(p.ids)
             x == InitialMtpExtent(p, plan)
             b == StartColumns(p, plan)
             y == x - 1
             z == Max({0, y})
             o == plan.output
             r == n + o - 1
             C == Capacity
             w == Window
  <1>1. /\ n \in Nat /\ n >= 1 /\ C \in Nat /\ w \in Nat /\ n <= C
        /\ (Backend = "mtp" => w >= 1) /\ o \in Nat /\ o >= 1 /\ r <= C
        /\ Backend \in {"none", "mtp", "dflash"}
    BY PromptFacts, EngineFacts
  <1>2. x \in Nat /\ x <= w /\ (x # 0 => Backend = "mtp" /\ n + x + 1 <= C)
    BY InitialFacts
  <1>3. /\ Backend = "mtp" => b = Min({C, n + z})
        /\ Backend = "dflash" => b = n
        /\ Backend = "none" => b = 0
    BY DEF StartColumns
  <1>4. r \in Nat
    BY <1>1
  <1>5. \A d \in Nat : /\ Backend = "dflash" /\ d <= r => PagesForTokens(d) <= BackendShare(engine, r)
                       /\ Backend = "mtp" /\ d <= C /\ d <= r + w - 1 =>
                             PagesForTokens(d) <= BackendShare(engine, r)
    BY <1>1, <1>4, ShareFacts
  <1>6. Backend = "none" => BackendShare(engine, r) = 0 /\ PagesForTokens(0) = 0
    BY <1>1, <1>4, ShareFacts, PagesFacts
  <1> HIDE DEF n, x, b, o, C, w
  <1>7. y \in Int /\ 0 \in Int
    BY <1>2
  <1>8. z = IF 0 <= y THEN y ELSE 0
    <2> HIDE DEF y
    <2> QED BY <1>7, TwoNumbers
  <1> HIDE DEF z
  <1>9. z \in Nat /\ (x # 0 => z = x - 1) /\ (x = 0 => z = 0)
    BY <1>2, <1>8
  <1> DEFINE t == n + z
  <1>10. t \in Int /\ C \in Int /\ t \in Nat
    BY <1>1, <1>9
  <1>11. Min({C, t}) = IF C <= t THEN C ELSE t
    <2> HIDE DEF t
    <2> QED BY <1>10, TwoNumbers
  <1>12. t <= r + w - 1 \/ Backend # "mtp"
    BY <1>1, <1>2, <1>9
  <1>13. Backend = "mtp" => b = t
    <2>1. t <= C
      BY <1>1, <1>2, <1>9
    <2> HIDE DEF t
    <2> QED BY <1>3, <1>10, <1>11, <2>1 DEF t
  <1>14. n <= t /\ (x # 0 => n + x - 1 <= t) /\ t <= C
    BY <1>1, <1>2, <1>9
  <1> HIDE DEF t
  <1>15. b \in Nat /\ b <= C /\ (Backend # "none" => n <= b)
    BY <1>1, <1>3, <1>10, <1>13, <1>14
  <1>16. x # 0 => n + x - 1 <= b
    BY <1>2, <1>13, <1>14
  <1>17. PagesForTokens(b) <= BackendShare(engine, r)
    <2>1. CASE Backend = "mtp"
      <3>1. b \in Nat /\ b <= C /\ b <= r + w - 1
        BY <1>12, <1>13, <1>15, <2>1
      <3> QED BY <1>5, <2>1, <3>1
    <2>2. CASE Backend = "dflash"
      <3>1. b \in Nat /\ b <= r
        BY <1>1, <1>3, <2>2
      <3> QED BY <1>5, <2>2, <3>1
    <2>3. CASE Backend = "none"
      BY <1>3, <1>6, <2>3
    <2> QED BY <1>1, <2>1, <2>2, <2>3
  <1> QED BY <1>15, <1>16, <1>17 DEF n, x, b, o, C, w

-----------------------------------------------------------------------------
(***************************************************************************)
(* Reuse: the sequence a prefill starts from.                              *)
(***************************************************************************)

\* The columns of the backend's cache that a reuse up to base keeps.
ReusedColumns(base) == CASE Backend = "mtp" -> MtpBase(base)
                         [] Backend = "dflash" -> base
                         [] OTHER -> 0

LEMMA ReusedFacts ==
    ASSUME engine \in Engines, NEW base \in Nat
    PROVE  /\ ReusedColumns(base) \in Nat /\ ReusedColumns(base) <= base
           /\ base = 0 => ReusedColumns(base) = 0
           /\ Backend = "mtp" => MtpBase(base) \in Nat /\ ReusedColumns(base) = MtpBase(base)
           /\ Backend = "mtp" /\ base >= 1 => MtpBase(base) = base - 1
           /\ Backend = "dflash" => ReusedColumns(base) = base
           /\ Backend = "none" => ReusedColumns(base) = 0
  <1>1. Backend \in {"none", "mtp", "dflash"}
    BY EngineFacts
  <1>2. MtpBase(base) \in Nat /\ MtpBase(base) <= base /\ (base = 0 => MtpBase(base) = 0)
        /\ (base >= 1 => MtpBase(base) = base - 1)
    BY DEF MtpBase
  <1> QED BY <1>1, <1>2 DEF ReusedColumns

\* The numbers of a plan that fits lane l.
Admitted(l, p, plan) ==
    /\ p \in Prompts /\ CanAdmitWith(kv, l, plan)
    /\ plan.base \in Nat /\ plan.base <= Len(p.ids) /\ plan.reuse \in Paths
    /\ plan.reuse = "full" <=> plan.base = 0
    /\ plan.text \in Nat /\ plan.backend \in Nat
    /\ PagesForTokens(plan.base) <= plan.text
    /\ PagesForTokens(ReusedColumns(plan.base)) <= plan.backend

\* The lane is positioned at the frontier that the plan reuses.
Positions(z, plan) ==
    /\ IsView(z) /\ z.bad = {} /\ z.seq \in SequenceRecords
    /\ z.seq.textValid = plan.base /\ Behind(engine, z.seq) = ReusedColumns(plan.base)
    /\ z.seq.retained = FALSE
    /\ BundleIs(z.kv, TRUE, FALSE, plan.text, PagesForTokens(plan.base),
                plan.backend, PagesForTokens(ReusedColumns(plan.base)))

\* What the plan says is there is there.
Reusable(x, plan) ==
    /\ IsView(x) /\ x.bad = {} /\ x.seq \in SequenceRecords /\ x.kv \in Bundles
    /\ x.seq.retained = FALSE
    /\ plan.reuse # "full" =>
          /\ x.kv.held /\ ~x.kv.bound /\ x.seq.tailValid
          /\ x.seq.textValid >= plan.base
          /\ Backend = "mtp" => x.seq.mtpValid >= plan.base - 1
          /\ Backend = "dflash" => x.seq.dctx >= plan.base
          /\ plan.reuse = "append" /\ Backend = "dflash" => x.seq.dctx = plan.base
          /\ PagesForTokens(plan.base) <= x.kv.text.map
          /\ PagesForTokens(ReusedColumns(plan.base)) <= x.kv.backend.map

LEMMA FullPositions ==
    ASSUME engine \in Engines, NEW l, NEW p, NEW plan, Admitted(l, p, plan),
           plan.reuse = "full", NEW x, Reusable(x, plan)
    PROVE  Positions(FullReset(x, l, plan), plan)
  <1> DEFINE d == [WithPages(x.dev, NoBundle) EXCEPT !.lin = <<>>]
             y == [x EXCEPT !.kv = NoBundle, !.dev = d,
                            !.seq.textValid = 0, !.seq.mtpValid = 0, !.seq.dctx = 0]
             z == Entitled(y, l, plan)
  <1>1. FullReset(x, l, plan) = z
    BY DEF FullReset
  <1>2. IsView(x) /\ x.bad = {} /\ x.seq \in SequenceRecords /\ x.seq.retained = FALSE
    BY DEF Reusable
  <1>3. plan.base = 0 /\ plan.text \in Nat /\ plan.backend \in Nat /\ CanAdmitWith(kv, l, plan)
    BY DEF Admitted
  <1>4. ReusedColumns(0) = 0 /\ PagesForTokens(0) = 0
    BY ReusedFacts, PagesFacts
  <1>5. /\ NoBundle \in Bundles /\ NoBundle.bound = FALSE /\ NoBundle.text.map = 0
        /\ NoBundle.backend.map = 0
    BY DEF NoBundle, NoPages, Bundles, PageCounts
  <1> HIDE DEF d
  <1>6. IsView(y) /\ y.kv = NoBundle /\ y.bad = {}
        /\ y.seq = [x.seq EXCEPT !.textValid = 0, !.mtpValid = 0, !.dctx = 0]
    BY <1>2 DEF IsView, ViewFields
  <1> HIDE DEF y
  <1>7. /\ y.seq \in SequenceRecords
        /\ y.seq.textValid = 0 /\ y.seq.mtpValid = 0 /\ y.seq.dctx = 0 /\ y.seq.retained = FALSE
    <2> DEFINE o == 0
               s == x.seq
               t == [s EXCEPT !.textValid = o, !.mtpValid = o, !.dctx = o]
    <2>1. o \in Nat /\ s \in SequenceRecords /\ y.seq = t /\ s.retained = FALSE
      BY <1>2, <1>6
    <2> HIDE DEF o, s
    <2>2. t \in SequenceRecords
      BY <2>1 DEF SequenceRecords
    <2>3. t.textValid = o /\ t.mtpValid = o /\ t.dctx = o /\ t.retained = s.retained
      BY <2>1 DEF SequenceRecords
    <2> HIDE DEF t
    <2> QED BY <2>1, <2>2, <2>3, Zenon DEF o
  <1>9. Behind(engine, y.seq) = 0
    BY <1>7 DEF Behind
  <1>10. /\ IsView(z) /\ z.seq = y.seq /\ z.bad = y.bad
         /\ BundleIs(z.kv, TRUE, y.kv.bound, plan.text, y.kv.text.map,
                     plan.backend, y.kv.backend.map)
    <2>1. y.kv \in Bundles /\ y.kv.text.map <= plan.text /\ y.kv.backend.map <= plan.backend
      BY <1>3, <1>5, <1>6
    <2>2. IsView(y)
      BY <1>6
    <2>3. CanAdmitWith(kv, l, plan) /\ plan.text \in Nat /\ plan.backend \in Nat
      BY <1>3
    <2> QED BY <2>1, <2>2, <2>3, EntitledFacts, ZenonT(60)
  <1> HIDE DEF z
  <1>11. BundleIs(z.kv, TRUE, FALSE, plan.text, 0, plan.backend, 0)
    BY <1>5, <1>6, <1>10
  <1> QED BY <1>1, <1>3, <1>4, <1>6, <1>7, <1>9, <1>10, <1>11 DEF Positions

\* The frontier is there, the pages past it are given back and the growth is entitled.
LEMMA TrimPositions ==
    ASSUME engine \in Engines, NEW l, NEW p, NEW plan, Admitted(l, p, plan),
           NEW y, IsView(y), y.bad = {}, y.kv \in Bundles, y.kv.held, ~y.kv.bound,
           y.seq \in SequenceRecords, y.seq.textValid = plan.base,
           Behind(engine, y.seq) = ReusedColumns(plan.base), y.seq.retained = FALSE,
           PagesForTokens(plan.base) <= y.kv.text.map,
           PagesForTokens(ReusedColumns(plan.base)) <= y.kv.backend.map
    PROVE  /\ Positions(Entitled(TrimToValid(y), l, plan), plan)
           /\ Entitled(TrimToValid(y), l, plan).seq = y.seq
  <1> DEFINE b == ReusedColumns(plan.base)
             a == plan.base
             t == Trim(y, a, b)
             z == Entitled(t, l, plan)
  <1>1. /\ a \in Nat /\ a <= Len(p.ids) /\ p \in Prompts /\ CanAdmitWith(kv, l, plan)
        /\ plan.text \in Nat /\ plan.backend \in Nat
        /\ PagesForTokens(a) <= plan.text /\ PagesForTokens(b) <= plan.backend
    BY DEF Admitted
  <1>2. Len(p.ids) \in Nat /\ Len(p.ids) <= Capacity /\ Capacity \in Nat
    BY <1>1, PromptFacts, EngineFacts
  <1>3. b \in Nat /\ b <= a /\ a <= Capacity
    <2>1. b \in Nat /\ b <= a
      BY <1>1, ReusedFacts
    <2> QED BY <1>1, <1>2, <2>1
  <1>4. TrimToValid(y) = t
    <2>1. BackendValid(y.seq) = b
      BY BehindFacts
    <2> QED BY <2>1 DEF TrimToValid
  <1>5. y.kv.bound = FALSE
    BY BundleFacts
  <1> HIDE DEF a, b
  <1>6. PagesForTokens(a) <= y.kv.text.map /\ PagesForTokens(b) <= y.kv.backend.map
    BY DEF a, b
  <1>7. /\ IsView(t) /\ t.seq = y.seq /\ t.bad = y.bad
        /\ BundleIs(t.kv, TRUE, y.kv.bound, y.kv.text.ent, PagesForTokens(a),
                    y.kv.backend.ent, PagesForTokens(b))
    BY <1>1, <1>3, <1>6, TrimFacts
  <1> HIDE DEF t
  <1>8. /\ t.kv \in Bundles /\ t.kv.bound = FALSE /\ t.kv.text.map = PagesForTokens(a)
        /\ t.kv.backend.map = PagesForTokens(b)
    BY <1>5, <1>7 DEF BundleIs
  <1>9. /\ IsView(z) /\ z.seq = t.seq /\ z.bad = t.bad
        /\ BundleIs(z.kv, TRUE, t.kv.bound, plan.text, t.kv.text.map,
                    plan.backend, t.kv.backend.map)
    <2>1. t.kv.text.map <= plan.text /\ t.kv.backend.map <= plan.backend
      BY <1>1, <1>8
    <2>2. IsView(t) /\ t.kv \in Bundles
      BY <1>7, <1>8
    <2>3. CanAdmitWith(kv, l, plan) /\ plan.text \in Nat /\ plan.backend \in Nat
      BY <1>1
    <2> QED BY <2>1, <2>2, <2>3, EntitledFacts, ZenonT(60)
  <1> HIDE DEF z
  <1>10. BundleIs(z.kv, TRUE, FALSE, plan.text, PagesForTokens(a), plan.backend, PagesForTokens(b))
    BY <1>8, <1>9
  <1> QED BY <1>4, <1>7, <1>9, <1>10 DEF Positions, z, a, b

LEMMA AppendPositions ==
    ASSUME engine \in Engines, NEW l, NEW p, NEW plan, Admitted(l, p, plan),
           plan.reuse = "append", NEW x, Reusable(x, plan)
    PROVE  LET z == AppendAtFrontier(x, l, plan)
           IN Positions(z, plan) /\ z.seq.tailValid
  <1> DEFINE s == x.seq
             a == plan.base
             m == IF Backend = "mtp" THEN MtpBase(a) ELSE s.mtpValid
             y == [x EXCEPT !.seq.textValid = a, !.seq.mtpValid = m]
             ready == /\ s.textValid >= a
                      /\ Backend = "mtp" => s.mtpValid >= MtpBase(a)
                      /\ Backend = "dflash" => s.dctx = a
             z == Entitled(TrimToValid(y), l, plan)
  <1>1. AppendAtFrontier(x, l, plan) = Entitled(TrimToValid(Require(y, ready)), l, plan)
    BY DEF AppendAtFrontier
  <1>2. a \in Nat /\ a >= 1
    BY DEF Admitted, Paths
  <1>3. /\ IsView(x) /\ x.bad = {} /\ s \in SequenceRecords /\ x.kv \in Bundles
        /\ s.retained = FALSE /\ x.kv.held /\ ~x.kv.bound /\ s.tailValid
        /\ s.textValid >= a
        /\ Backend = "mtp" => s.mtpValid >= a - 1
        /\ Backend = "dflash" => s.dctx = a
        /\ PagesForTokens(a) <= x.kv.text.map
        /\ PagesForTokens(ReusedColumns(a)) <= x.kv.backend.map
    BY DEF Reusable
  <1>4. /\ Backend = "mtp" => MtpBase(a) \in Nat /\ ReusedColumns(a) = MtpBase(a) /\ MtpBase(a) = a - 1
        /\ Backend = "dflash" => ReusedColumns(a) = a
        /\ Backend = "none" => ReusedColumns(a) = 0
    BY <1>2, ReusedFacts
  <1>5. ready
    BY <1>3, <1>4
  <1> HIDE DEF ready
  <1>6. AppendAtFrontier(x, l, plan) = z
    BY <1>1, <1>5 DEF Require
  <1>7. m \in Nat /\ (Backend = "mtp" => m = ReusedColumns(a))
    BY <1>3, <1>4 DEF SequenceRecords
  <1> HIDE DEF m, a
  <1>8. IsView(y) /\ y.kv = x.kv /\ y.bad = {}
        /\ y.seq = [s EXCEPT !.textValid = a, !.mtpValid = m]
    BY <1>3 DEF IsView, ViewFields
  <1> HIDE DEF y
  <1>9. y.seq \in SequenceRecords
    <2> HIDE DEF s
    <2> QED BY <1>2, <1>3, <1>7, <1>8 DEF SequenceRecords
  <1>10. /\ y.seq.textValid = a /\ y.seq.mtpValid = m /\ y.seq.dctx = s.dctx
         /\ y.seq.retained = s.retained /\ y.seq.tailValid = s.tailValid
    <2> HIDE DEF s
    <2> QED BY <1>2, <1>3, <1>7, <1>8 DEF SequenceRecords
  <1>11. Behind(engine, y.seq) = ReusedColumns(a)
    <2>1. Backend \in {"none", "mtp", "dflash"}
      BY EngineFacts
    <2> QED BY <1>3, <1>4, <1>7, <1>9, <1>10, <2>1, BehindFacts
  <1> HIDE DEF s, z
  <1>12. Positions(z, plan) /\ z.seq = y.seq
    <2>1. /\ y.kv \in Bundles /\ y.kv.held /\ ~y.kv.bound /\ y.seq.retained = FALSE
          /\ PagesForTokens(a) <= y.kv.text.map
          /\ PagesForTokens(ReusedColumns(a)) <= y.kv.backend.map
          /\ IsView(y) /\ y.bad = {} /\ y.seq.textValid = a
      BY <1>3, <1>8, <1>10
    <2> QED BY <1>9, <1>11, <2>1, TrimPositions, ZenonT(60) DEF a, z
  <1> QED BY <1>3, <1>6, <1>10, <1>12

LEMMA RestorePositions ==
    ASSUME engine \in Engines, NEW l, NEW p, NEW plan, Admitted(l, p, plan),
           plan.reuse # "full", NEW x, Reusable(x, plan)
    PROVE  LET z == RestoreCheckpoint(x, l, plan)
           IN Positions(z, plan)
  <1> DEFINE s == x.seq
             a == plan.base
             m == IF Backend = "mtp" THEN MtpBase(a) ELSE s.mtpValid
             c == IF Backend = "dflash" THEN a ELSE s.dctx
             local == IF Backend = "dflash" THEN x.dev.ckLocal ELSE x.dev.local
             lin == x.dev.ckLin
             y == [x EXCEPT !.seq.textValid = a, !.seq.mtpValid = m, !.seq.dctx = c,
                            !.dev.local = local, !.dev.lin = lin]
             ready == /\ s.textValid >= a
                      /\ Backend = "mtp" => s.mtpValid >= MtpBase(a)
                      /\ Backend = "dflash" => s.dctx >= a
             z == Entitled(TrimToValid(y), l, plan)
  <1>1. RestoreCheckpoint(x, l, plan) = Entitled(TrimToValid(Require(y, ready)), l, plan)
    BY DEF RestoreCheckpoint
  <1>2. a \in Nat /\ a >= 1
    BY DEF Admitted, Paths
  <1>3. /\ IsView(x) /\ x.bad = {} /\ s \in SequenceRecords /\ x.kv \in Bundles
        /\ s.retained = FALSE /\ x.kv.held /\ ~x.kv.bound
        /\ s.textValid >= a
        /\ Backend = "mtp" => s.mtpValid >= a - 1
        /\ Backend = "dflash" => s.dctx >= a
        /\ PagesForTokens(a) <= x.kv.text.map
        /\ PagesForTokens(ReusedColumns(a)) <= x.kv.backend.map
    BY DEF Reusable
  <1>4. /\ Backend = "mtp" => MtpBase(a) \in Nat /\ ReusedColumns(a) = MtpBase(a) /\ MtpBase(a) = a - 1
        /\ Backend = "dflash" => ReusedColumns(a) = a
        /\ Backend = "none" => ReusedColumns(a) = 0
    BY <1>2, ReusedFacts
  <1>5. ready
    BY <1>3, <1>4
  <1> HIDE DEF ready
  <1>6. RestoreCheckpoint(x, l, plan) = z
    BY <1>1, <1>5 DEF Require
  <1>7. m \in Nat /\ (Backend = "mtp" => m = ReusedColumns(a))
        /\ c \in Nat /\ (Backend = "dflash" => c = ReusedColumns(a))
    BY <1>2, <1>3, <1>4 DEF SequenceRecords
  <1> HIDE DEF m, a, c, local, lin
  <1>8. IsView(y) /\ y.kv = x.kv /\ y.bad = {}
        /\ y.seq = [s EXCEPT !.textValid = a, !.mtpValid = m, !.dctx = c]
    BY <1>3 DEF IsView, ViewFields
  <1> HIDE DEF y
  <1>9. y.seq \in SequenceRecords
    <2> HIDE DEF s
    <2> QED BY <1>2, <1>3, <1>7, <1>8 DEF SequenceRecords
  <1>10. /\ y.seq.textValid = a /\ y.seq.mtpValid = m /\ y.seq.dctx = c
         /\ y.seq.retained = s.retained
    <2> HIDE DEF s
    <2> QED BY <1>2, <1>3, <1>7, <1>8 DEF SequenceRecords
  <1>11. Behind(engine, y.seq) = ReusedColumns(a)
    <2>1. Backend \in {"none", "mtp", "dflash"}
      BY EngineFacts
    <2> QED BY <1>4, <1>7, <1>9, <1>10, <2>1, BehindFacts
  <1> HIDE DEF s, z
  <1>12. Positions(z, plan)
    <2>1. /\ y.kv \in Bundles /\ y.kv.held /\ ~y.kv.bound /\ y.seq.retained = FALSE
          /\ PagesForTokens(a) <= y.kv.text.map
          /\ PagesForTokens(ReusedColumns(a)) <= y.kv.backend.map
          /\ IsView(y) /\ y.bad = {} /\ y.seq.textValid = a
      BY <1>3, <1>8, <1>10
    <2> QED BY <1>9, <1>11, <2>1, TrimPositions DEF a, z
  <1> QED BY <1>6, <1>12

\* The tail hidden vector is known exactly if nothing is left to compute.
LEMMA TailPositions ==
    ASSUME engine \in Engines, NEW plan, NEW y, Positions(y, plan), NEW v \in BOOLEAN, NEW z, NEW d,
           z = [y EXCEPT !.dev.tail = d, !.seq.tailValid = v] \/ z = [y EXCEPT !.seq.tailValid = v]
    PROVE  Positions(z, plan) /\ z.seq.tailValid = v
  <1>1. IsView(y) /\ y.seq \in SequenceRecords
    BY DEF Positions
  <1>2. IsView(z) /\ z.kv = y.kv /\ z.bad = y.bad /\ z.seq = [y.seq EXCEPT !.tailValid = v]
    BY <1>1 DEF IsView, ViewFields
  <1> DEFINE s == y.seq
             t == z.seq
  <1>3. s \in SequenceRecords /\ t = [s EXCEPT !.tailValid = v]
    BY <1>1, <1>2
  <1> HIDE DEF s, t
  <1>4. t \in SequenceRecords
    BY <1>3 DEF SequenceRecords
  <1>5. /\ t.tailValid = v /\ t.retained = s.retained /\ t.textValid = s.textValid
        /\ t.mtpValid = s.mtpValid /\ t.dctx = s.dctx
    BY <1>3 DEF SequenceRecords
  <1>6. Behind(engine, t) = Behind(engine, s)
    BY <1>5 DEF Behind
  <1> QED BY <1>2, <1>4, <1>5, <1>6 DEF Positions, s, t

LEMMA PositionedFacts ==
    ASSUME engine \in Engines, NEW l, NEW p, NEW plan, Admitted(l, p, plan),
           NEW x, Reusable(x, plan)
    PROVE  LET z == Positioned(x, l, p, plan)
           IN Positions(z, plan) /\ (plan.base = Len(p.ids) => z.seq.tailValid)
  <1> DEFINE y == CASE plan.reuse = "full" -> FullReset(x, l, plan)
                    [] plan.reuse = "append" -> AppendAtFrontier(x, l, plan)
                    [] OTHER -> RestoreCheckpoint(x, l, plan)
             exact == plan.base = Len(p.ids)
             z == Positioned(x, l, p, plan)
             d == x.dev.ckHid
             v == exact /\ y.seq.tailValid
  <1>1. z = IF exact /\ IsRestore(plan.reuse)
            THEN [y EXCEPT !.dev.tail = d, !.seq.tailValid = TRUE]
            ELSE [y EXCEPT !.seq.tailValid = v]
    BY DEF Positioned
  <1>2. /\ plan.reuse \in Paths /\ (plan.reuse = "full" <=> plan.base = 0)
        /\ Len(p.ids) \in Nat /\ Len(p.ids) >= 1
    BY PromptFacts DEF Admitted
  <1>3. Positions(y, plan) /\ (plan.reuse = "append" => y.seq.tailValid)
    <2>1. CASE plan.reuse = "full"
      <3>1. y = FullReset(x, l, plan)
        BY <2>1
      <3> HIDE DEF y
      <3>2. Positions(y, plan)
        BY <2>1, <3>1, FullPositions
      <3> QED BY <2>1, <3>2
    <2>2. CASE plan.reuse = "append"
      <3>1. y = AppendAtFrontier(x, l, plan)
        BY <2>2
      <3> HIDE DEF y
      <3> QED BY <2>2, <3>1, AppendPositions
    <2>3. CASE plan.reuse # "full" /\ plan.reuse # "append"
      <3>1. y = RestoreCheckpoint(x, l, plan)
        BY <2>3
      <3> HIDE DEF y
      <3>2. Positions(y, plan)
        BY <2>3, <3>1, RestorePositions
      <3> QED BY <2>3, <3>2
    <2> QED BY <2>1, <2>2, <2>3
  <1> HIDE DEF y, z, d
  <1>4. CASE exact /\ IsRestore(plan.reuse)
    <2>1. z = [y EXCEPT !.dev.tail = d, !.seq.tailValid = TRUE] /\ TRUE \in BOOLEAN
      BY <1>1, <1>4
    <2>2. Positions(z, plan) /\ z.seq.tailValid = TRUE
      BY <1>3, <2>1, TailPositions
    <2> QED BY <2>2 DEF z
  <1>5. CASE ~(exact /\ IsRestore(plan.reuse))
    <2>1. v \in BOOLEAN
      BY <1>3 DEF Positions, SequenceRecords
    <2>2. exact => plan.reuse = "append"
      BY <1>2, <1>5 DEF Paths, IsRestore
    <2>3. exact => v = TRUE
      BY <1>3, <2>1, <2>2
    <2> HIDE DEF v
    <2>4. z = [y EXCEPT !.seq.tailValid = v]
      BY <1>1, <1>5
    <2>5. Positions(z, plan) /\ z.seq.tailValid = v
      BY <1>3, <2>1, <2>4, TailPositions
    <2> QED BY <2>3, <2>5 DEF z
  <1> QED BY <1>4, <1>5

\* A lane that no request holds can be planned for.
LEMMA FreeLane ==
    ASSUME engine \in Engines, NEW l, LaneOK(engine, seq[l], req[l], kv[l]), Free(l)
    PROVE  /\ Restable(engine, seq[l]) /\ req[l] \in RequestRecords
           /\ seq[l].retained => Rested(engine, seq[l], req[l], kv[l])
  <1> DEFINE s == seq[l]
  <1>1. s \in SequenceRecords /\ req[l] \in RequestRecords /\ req[l].life \in {"Empty", "Complete"}
    BY DEF LaneOK, Free
  <1>2. CASE req[l].life = "Empty"
    <2>1. s = NoSequence
      BY <1>2 DEF LaneOK
    <2>2. s.retained = FALSE /\ s.ckpt = NoCkpt
      BY <2>1 DEF NoSequence
    <2> QED BY <1>1, <2>2 DEF Restable
  <1>3. CASE req[l].life = "Complete"
    <2>1. Rested(engine, s, req[l], kv[l])
      BY <1>3 DEF LaneOK
    <2>2. /\ s.retained /\ s.E >= 1 /\ s.E <= engine.capacity /\ s.textValid = s.E
          /\ (engine.backend # "none" => Behind(engine, s) = s.E)
          /\ s.tailValid /\ s.ckpt.at <= s.E
      BY <2>1 DEF Rested, Caught
    <2> HIDE DEF s
    <2> QED BY <1>1, <2>1, <2>2 DEF Restable, s
  <1> QED BY <1>1, <1>2, <1>3

LEMMA AdmittedFacts ==
    ASSUME engine \in Engines, NEW l, LaneOK(engine, seq[l], req[l], kv[l]), NEW p \in Prompts,
           NEW plan, PlanOK(p, seq[l], plan), CanAdmitLane(l, plan)
    PROVE  Admitted(l, p, plan)
  <1> DEFINE a == plan.base
             b == ReusedColumns(a)
             n == Len(p.ids)
             o == plan.output
             r == n + o - 1
  <1>1. /\ a \in Nat /\ a <= n /\ plan.reuse \in Paths /\ (plan.reuse = "full" <=> a = 0)
        /\ o \in Nat /\ o >= 1 /\ r <= Capacity
        /\ plan.text = PagesForTokens(r) /\ plan.backend = BackendShare(engine, r)
    BY DEF PlanOK
  <1>2. n \in Nat /\ n >= 1 /\ Capacity \in Nat /\ n <= Capacity
        /\ Backend \in {"none", "mtp", "dflash"} /\ Window \in Nat /\ (Backend # "none" => Window >= 1)
    BY PromptFacts, EngineFacts
  <1>3. b \in Nat /\ b <= a /\ (Backend = "none" => b = 0)
    BY <1>1, ReusedFacts
  <1> HIDE DEF a, b, n, o
  <1>4. r \in Nat /\ a <= r /\ b <= r /\ b <= Capacity /\ (Backend # "none" => b <= r + Window - 1)
    BY <1>1, <1>2, <1>3
  <1> HIDE DEF r
  <1>5. PagesForTokens(r) \in Nat /\ PagesForTokens(a) <= PagesForTokens(r) /\ PagesForTokens(0) = 0
    BY <1>1, <1>4, PagesFacts
  <1>6. BackendShare(engine, r) \in Nat /\ PagesForTokens(b) <= BackendShare(engine, r)
    <2>1. /\ BackendShare(engine, r) \in Nat
          /\ Backend = "none" => BackendShare(engine, r) = 0
          /\ Backend = "dflash" /\ b <= r => PagesForTokens(b) <= BackendShare(engine, r)
          /\ Backend = "mtp" /\ b <= Capacity /\ b <= r + Window - 1 =>
                 PagesForTokens(b) <= BackendShare(engine, r)
      BY <1>1, <1>3, <1>4, ShareFacts
    <2> QED BY <1>2, <1>3, <1>4, <1>5, <2>1
  <1>7. CanAdmitWith(kv, l, plan)
    BY DEF CanAdmitLane
  <1> QED BY <1>1, <1>5, <1>6, <1>7 DEF Admitted, a, b, n

LEMMA ReusableFacts ==
    ASSUME engine \in Engines, NEW l, LaneOK(engine, seq[l], req[l], kv[l]), NEW p \in Prompts,
           NEW plan, PlanOK(p, seq[l], plan), Free(l)
    PROVE  Reusable([View(l) EXCEPT !.seq.retained = FALSE], plan)
  <1> DEFINE s == seq[l]
             k == kv[l]
             x == [View(l) EXCEPT !.seq.retained = FALSE]
             a == plan.base
  <1> SUFFICES Reusable(x, plan)
    OBVIOUS
  <1>1. s \in SequenceRecords /\ k \in Bundles
    BY DEF LaneOK
  <1>2. IsView(x) /\ x.kv = k /\ x.bad = {} /\ x.seq = [s EXCEPT !.retained = FALSE]
    <2>1. IsView(View(l)) /\ View(l).seq = s /\ View(l).kv = k /\ View(l).bad = {}
      BY ViewFacts
    <2> HIDE DEF s, k
    <2> QED BY <2>1 DEF IsView, ViewFields
  <1> HIDE DEF x
  <1>3. x.seq \in SequenceRecords
    <2> HIDE DEF s
    <2> QED BY <1>1, <1>2 DEF SequenceRecords
  <1>4. /\ x.seq.retained = FALSE /\ x.seq.textValid = s.textValid /\ x.seq.mtpValid = s.mtpValid
        /\ x.seq.dctx = s.dctx /\ x.seq.tailValid = s.tailValid
    <2> HIDE DEF s
    <2> QED BY <1>1, <1>2 DEF SequenceRecords
  <1>5. CASE plan.reuse = "full"
    BY <1>1, <1>2, <1>3, <1>4, <1>5 DEF Reusable
  <1>6. CASE plan.reuse # "full"
    <2>1. /\ s.retained /\ s.textValid >= a /\ s.tailValid
          /\ Backend = "mtp" => s.mtpValid >= a - 1
          /\ Backend = "dflash" => s.dctx >= a
          /\ plan.reuse = "append" /\ Backend = "dflash" => s.dctx = a
          /\ a \in Nat
      BY <1>6 DEF PlanOK
    <2>2. Rested(engine, s, req[l], k)
      BY <2>1, FreeLane
    <2>3. /\ k.held /\ ~k.bound /\ s.textValid = s.E
          /\ k.text = [ent |-> PagesForTokens(s.E), map |-> PagesForTokens(s.E)]
          /\ k.backend = [ent |-> PagesForTokens(Behind(engine, s)),
                          map |-> PagesForTokens(Behind(engine, s))]
      BY <2>2 DEF Rested, Caught
    <2>4. k.text.map = PagesForTokens(s.E) /\ k.backend.map = PagesForTokens(Behind(engine, s))
      BY <2>3
    <2>5. /\ Behind(engine, s) \in Nat /\ s.E \in Nat
          /\ Backend = "mtp" => Behind(engine, s) = s.mtpValid
          /\ Backend = "dflash" => Behind(engine, s) = s.dctx
      <3>1. s.E \in Nat
        BY <1>1 DEF SequenceRecords
      <3> HIDE DEF s
      <3> QED BY <1>1, <3>1, BehindFacts
    <2>6. /\ ReusedColumns(a) \in Nat
          /\ Backend = "mtp" => ReusedColumns(a) <= a - 1 \/ ReusedColumns(a) = 0
          /\ Backend = "dflash" => ReusedColumns(a) = a
          /\ Backend = "none" => ReusedColumns(a) = 0
      BY <2>1, ReusedFacts
    <2>7. ReusedColumns(a) <= Behind(engine, s)
      <3>1. Backend \in {"none", "mtp", "dflash"}
        BY EngineFacts
      <3> DEFINE c == ReusedColumns(a)
                 h == Behind(engine, s)
      <3> HIDE DEF s, a, c, h
      <3>2. /\ c \in Nat /\ h \in Nat /\ a \in Nat
            /\ Backend = "mtp" => (c <= a - 1 \/ c = 0) /\ h = s.mtpValid /\ s.mtpValid >= a - 1
            /\ Backend = "dflash" => c = a /\ h = s.dctx /\ s.dctx >= a
            /\ Backend = "none" => c = 0
        BY <2>1, <2>5, <2>6 DEF c, h
      <3>3. c <= h
        BY <3>1, <3>2
      <3> QED BY <3>3 DEF c, h
    <2>8. PagesForTokens(a) <= k.text.map /\ PagesForTokens(ReusedColumns(a)) <= k.backend.map
      <3>1. a <= s.E
        BY <2>1, <2>3, <2>5
      <3>2. PagesForTokens(a) <= PagesForTokens(s.E)
        BY <2>1, <2>5, <3>1, PagesFacts
      <3>3. PagesForTokens(ReusedColumns(a)) <= PagesForTokens(Behind(engine, s))
        BY <2>5, <2>6, <2>7, PagesFacts
      <3> QED BY <2>4, <3>2, <3>3
    <2>9. /\ x.kv.held /\ ~x.kv.bound /\ x.seq.tailValid /\ x.seq.textValid >= a
          /\ Backend = "mtp" => x.seq.mtpValid >= a - 1
          /\ Backend = "dflash" => x.seq.dctx >= a
          /\ plan.reuse = "append" /\ Backend = "dflash" => x.seq.dctx = a
          /\ PagesForTokens(a) <= x.kv.text.map
          /\ PagesForTokens(ReusedColumns(a)) <= x.kv.backend.map
      <3> HIDE DEF s, k, a
      <3>1. x.kv = k
        BY <1>2
      <3> QED BY <1>4, <2>1, <2>3, <2>8, <3>1
    <2>10. IsView(x) /\ x.bad = {} /\ x.kv \in Bundles /\ x.seq.retained = FALSE
      BY <1>1, <1>2, <1>4
    <2> QED BY <1>3, <2>9, <2>10 DEF Reusable
  <1> QED BY <1>5, <1>6

\* The pages of the prompt are there, and those that the request may need are entitled.
LEMMA ReadiedFacts ==
    ASSUME engine \in Engines, NEW l, NEW p \in Prompts, NEW plan, NEW s, PlanOK(p, s, plan),
           Admitted(l, p, plan), NEW y, Positions(y, plan)
    PROVE  LET z == Materialize(Bind(TrimToValid(y)), Len(p.ids), StartColumns(p, plan))
           IN /\ IsView(z) /\ z.bad = {} /\ z.seq = y.seq
              /\ z.kv \in Bundles /\ z.kv.held /\ z.kv.bound
              /\ z.kv.text.ent = plan.text /\ z.kv.backend.ent = plan.backend
              /\ z.kv.text.map <= plan.text /\ z.kv.backend.map <= plan.backend
              /\ PagesForTokens(Len(p.ids)) <= z.kv.text.map
              /\ PagesForTokens(StartColumns(p, plan)) <= z.kv.backend.map
  <1> DEFINE a == plan.base
             b == ReusedColumns(a)
             n == Len(p.ids)
             m == StartColumns(p, plan)
             r == n + plan.output - 1
             t == Trim(y, a, b)
             u == Bind(t)
             z == Materialize(u, n, m)
  <1>1. /\ a \in Nat /\ a <= n /\ plan.text \in Nat /\ plan.backend \in Nat
        /\ PagesForTokens(a) <= plan.text /\ PagesForTokens(b) <= plan.backend
    BY DEF Admitted
  <1>2. /\ plan.output \in Nat /\ plan.output >= 1 /\ r <= Capacity
        /\ plan.text = PagesForTokens(r) /\ plan.backend = BackendShare(engine, r)
    BY DEF PlanOK
  <1>3. n \in Nat /\ n >= 1 /\ n <= Capacity /\ Capacity \in Nat
    BY PromptFacts, EngineFacts
  <1>4. m \in Nat /\ m <= Capacity /\ PagesForTokens(m) <= plan.backend
    BY <1>2, StartColumnsFacts
  <1>5. PagesForTokens(n) <= plan.text
    <2>1. r \in Nat /\ n <= r
      BY <1>2, <1>3
    <2> HIDE DEF r
    <2> QED BY <1>2, <1>3, <2>1, PagesFacts
  <1>6. b \in Nat /\ b <= a
    BY <1>1, ReusedFacts
  <1>7. a <= Capacity
    BY <1>1, <1>3
  <1>8. /\ IsView(y) /\ y.bad = {} /\ y.seq \in SequenceRecords
        /\ y.seq.textValid = a /\ Behind(engine, y.seq) = b
        /\ y.kv \in Bundles /\ y.kv.held /\ y.kv.bound = FALSE
        /\ y.kv.text.ent = plan.text /\ y.kv.backend.ent = plan.backend
        /\ y.kv.text.map = PagesForTokens(a) /\ y.kv.backend.map = PagesForTokens(b)
    BY DEF Positions, BundleIs
  <1>9. TrimToValid(y) = t
    <2>1. BackendValid(y.seq) = b
      BY <1>8, BehindFacts
    <2> QED BY <1>8, <2>1 DEF TrimToValid
  <1> HIDE DEF a, b, n, m, r
  <1>10. PagesForTokens(a) \in Nat /\ PagesForTokens(b) \in Nat
    BY <1>1, <1>6, PagesFacts
  <1>11. /\ IsView(t) /\ t.seq = y.seq /\ t.bad = y.bad
         /\ BundleIs(t.kv, TRUE, y.kv.bound, y.kv.text.ent, PagesForTokens(a),
                     y.kv.backend.ent, PagesForTokens(b))
    <2>1. PagesForTokens(a) <= y.kv.text.map /\ PagesForTokens(b) <= y.kv.backend.map
      BY <1>8, <1>10
    <2>2. a \in Nat /\ b \in Nat /\ a <= Capacity /\ b <= a
      BY <1>1, <1>6, <1>7
    <2>3. IsView(y) /\ y.kv \in Bundles /\ y.kv.held
      BY <1>8
    <2> QED BY <2>1, <2>2, <2>3, TrimFacts
  <1> HIDE DEF t
  <1>12. /\ t.kv \in Bundles /\ t.kv.held /\ ~t.kv.bound
         /\ t.kv.text.ent = plan.text /\ t.kv.backend.ent = plan.backend
         /\ t.kv.text.map = PagesForTokens(a) /\ t.kv.backend.map = PagesForTokens(b)
    BY <1>8, <1>11 DEF BundleIs
  <1>13. /\ IsView(u) /\ u.seq = t.seq /\ u.bad = t.bad
         /\ BundleIs(u.kv, TRUE, TRUE, t.kv.text.ent, t.kv.text.map,
                     t.kv.backend.ent, t.kv.backend.map)
    BY <1>11, <1>12, BindFacts
  <1> HIDE DEF u
  <1>14. /\ u.kv \in Bundles /\ u.kv.held /\ u.kv.bound
         /\ u.kv.text.ent = plan.text /\ u.kv.backend.ent = plan.backend
         /\ u.kv.text.map = PagesForTokens(a) /\ u.kv.backend.map = PagesForTokens(b)
    BY <1>12, <1>13 DEF BundleIs
  <1>15. /\ IsView(z) /\ z.seq = u.seq /\ z.bad = u.bad
         /\ z.kv \in Bundles /\ z.kv.held /\ z.kv.bound = u.kv.bound
         /\ z.kv.text.ent = u.kv.text.ent /\ z.kv.backend.ent = u.kv.backend.ent
         /\ z.kv.text.map <= u.kv.text.ent /\ z.kv.backend.map <= u.kv.backend.ent
         /\ PagesForTokens(n) <= z.kv.text.map /\ PagesForTokens(m) <= z.kv.backend.map
    <2>1. /\ PagesForTokens(n) <= u.kv.text.ent /\ PagesForTokens(m) <= u.kv.backend.ent
          /\ u.kv.text.map <= u.kv.text.ent /\ u.kv.backend.map <= u.kv.backend.ent
      BY <1>1, <1>4, <1>5, <1>14
    <2> QED BY <1>3, <1>4, <1>13, <1>14, <2>1, MaterializeFacts
  <1> HIDE DEF z
  <1>16. /\ IsView(z) /\ z.bad = {} /\ z.seq = y.seq
         /\ z.kv \in Bundles /\ z.kv.held /\ z.kv.bound
         /\ z.kv.text.ent = plan.text /\ z.kv.backend.ent = plan.backend
         /\ z.kv.text.map <= plan.text /\ z.kv.backend.map <= plan.backend
         /\ PagesForTokens(n) <= z.kv.text.map /\ PagesForTokens(m) <= z.kv.backend.map
    BY <1>8, <1>11, <1>13, <1>14, <1>15
  <1> QED BY <1>9, <1>16 DEF z, u, n, m

\* The plan as it is staged.
LEMMA StagedFacts ==
    ASSUME engine \in Engines, NEW p \in Prompts, NEW plan, NEW s, PlanOK(p, s, plan)
    PROVE  LET st == Staged(p, plan)
           IN /\ StagedOK(engine, st) /\ st.prompt = p /\ st.base = plan.base
              /\ st.cursor = plan.base /\ st.bridge = plan.bridge /\ st.uses = plan.uses
              /\ st.capture = plan.capture /\ st.extent = InitialMtpExtent(p, plan)
  <1> DEFINE st == Staged(p, plan)
             e == InitialMtpExtent(p, plan)
             n == Len(p.ids)
  <1>1. /\ st.prompt = p /\ st.base = plan.base /\ st.encoded = 0 /\ st.reuse = plan.reuse
        /\ st.cursor = plan.base /\ st.bridge = plan.bridge /\ st.uses = plan.uses
        /\ st.capture = plan.capture /\ st.extent = e
    BY DEF Staged
  <1>2. /\ plan.base \in Nat /\ plan.base <= n /\ plan.reuse \in Paths
        /\ plan.capture \in Checkpoints /\ plan.capture.at <= n
        /\ plan.bridge \in {"none", "before", "after"}
        /\ plan.uses = VisionUses(p, plan.base) /\ plan.output \in Nat
    BY DEF PlanOK
  <1>3. /\ e \in Nat /\ e <= Window
        /\ e # 0 => Backend = "mtp" /\ n + e + 1 <= Capacity
    BY <1>2, InitialFacts
  <1>4. p \in PromptRecords /\ p.items \in Seq(Items)
    BY PromptFacts
  <1>5. plan.uses \subseteq Nat
    BY <1>2, <1>4 DEF VisionUses
  <1>6. st \in StagedRecords
    <2> HIDE DEF e
    <2> QED BY <1>2, <1>3, <1>4, <1>5 DEF Staged, StagedRecords, Paths, e
  <1> HIDE DEF st, e, n
  <1>7. \A i \in st.uses : st.prompt.items[i].last > st.cursor => i >= st.encoded
    BY <1>1, <1>5
  <1>8. p \in engine.prompts /\ Backend = engine.backend /\ Capacity = engine.capacity
        /\ Window = engine.window
    BY EngineFacts DEF Prompts
  <1>9. StagedOK(engine, st)
    <2>1. st.base <= st.cursor
      BY <1>1, <1>2
    <2> QED BY <1>1, <1>2, <1>3, <1>6, <1>7, <1>8, <2>1 DEF StagedOK, n
  <1> QED BY <1>1, <1>9 DEF st, e

\* The projected work covers the steps of the prompt and the tokens.
LEMMA WorkFacts ==
    ASSUME engine \in Engines, NEW p \in Prompts, NEW plan, NEW s, PlanOK(p, s, plan)
    PROVE  LET st == Staged(p, plan)
           IN /\ plan.base < Len(p.ids) => plan.work >= StepsLeft(engine, st) + plan.output - 1
              /\ plan.base = Len(p.ids) => plan.work >= plan.output
              /\ plan.work \in Int
  <1> DEFINE st == Staged(p, plan)
             n == Len(p.ids)
             a == plan.base
             later == {k \in plan.uses : UseBegin(Backend, p.items[k]) > a}
             c == Cardinality(plan.uses)
             d == Cardinality(later)
             cut == IF plan.capture.at \in 1 .. n - 1 THEN 1 ELSE 0
             cutNow == IF plan.capture.at \in a + 1 .. n - 1 THEN 1 ELSE 0
             q == (n - a - 1) \div Chunk
             o == plan.output
  <1>1. /\ StagedOK(engine, st) /\ st.prompt = p /\ st.cursor = a /\ st.uses = plan.uses
        /\ st.capture = plan.capture
    BY StagedFacts
  <1>2. /\ a \in Nat /\ a <= n /\ o \in Nat /\ o >= 1 /\ o = EffectiveOutput(p)
        /\ plan.work = ProjectedServiceWork(p, a, c + cut)
        /\ plan.capture \in Checkpoints
    BY DEF PlanOK
  <1>3. n \in Nat /\ Backend = engine.backend /\ Chunk = engine.chunk /\ Chunk \in Nat \ {0}
    BY PromptFacts, EngineFacts
  <1>4. IsFiniteSet(plan.uses)
    BY <1>1, StagedNumbers
  <1>5. c \in Nat /\ d \in Nat /\ d <= c
    <2>1. later \subseteq plan.uses
      OBVIOUS
    <2>2. IsFiniteSet(later) /\ d <= c
      BY <1>4, <2>1, FS_Subset
    <2> QED BY <1>4, <2>2, FS_CardinalityType
  <1>6. plan.capture.at \in Nat
    BY <1>2 DEF Checkpoints, NoCkpt
  <1>7. cut \in {0, 1} /\ cutNow \in {0, 1} /\ cutNow <= cut
    BY <1>2, <1>3, <1>6
  <1>8. StepsLeft(engine, st) = 1 + q + d + cutNow
    BY <1>1, <1>3 DEF StepsLeft
  <1>9. plan.work = (IF n = a THEN 1 ELSE 1 + q + (c + cut)) + o - 1
    BY <1>2 DEF ProjectedServiceWork
  <1>10. a < n => q \in Nat
    <2> SUFFICES ASSUME a < n PROVE q \in Nat
      OBVIOUS
    <2>1. n - a - 1 \in Nat
      BY <1>2, <1>3
    <2> QED BY <1>3, <2>1, Quotient
  <1> HIDE DEF st, n, a, c, d, cut, cutNow, q, o
  <1>11. a < n => plan.work >= StepsLeft(engine, st) + o - 1
    BY <1>2, <1>3, <1>5, <1>7, <1>8, <1>9, <1>10
  <1>12. a = n => plan.work >= o
    BY <1>2, <1>3, <1>9
  <1>13. plan.work \in Int
    BY <1>2, <1>3, <1>5, <1>7, <1>9, <1>10
  <1> QED BY <1>11, <1>12, <1>13 DEF st, n, a, o

\* A lane that is prepared for a planned prompt goes on with its first chunk.
LEMMA PreparedAdvances ==
    ASSUME engine \in Engines, NEW l, LaneOK(engine, seq[l], req[l], kv[l]), NEW p \in Prompts,
           NEW plan, PlanOK(p, seq[l], plan), CanAdmitLane(l, plan),
           NEW r \in RequestRecords, r.budget = plan.output, r.work = plan.work
    PROVE  /\ Advancing(Prepared(l, p, plan), r, Staged(p, plan))
           /\ Prepared(l, p, plan).kv.text.ent = plan.text
           /\ Prepared(l, p, plan).kv.backend.ent = plan.backend
  <1> DEFINE x == [View(l) EXCEPT !.seq.retained = FALSE]
             y == Positioned(x, l, p, plan)
             n == Len(p.ids)
             m == StartColumns(p, plan)
             z == Materialize(Bind(TrimToValid(y)), n, m)
             ckpt == CheckpointAtStart(p, seq[l], plan.action)
             none == 0
             w == [z EXCEPT !.seq.ledger = p.ids, !.seq.pos = p.pos, !.seq.items = p.items,
                            !.seq.delta = p.delta, !.seq.drafts = none, !.seq.ckpt = ckpt]
             st == Staged(p, plan)
  <1>1. Prepared(l, p, plan) = w
    <2>1. x.seq.ckpt = seq[l].ckpt
      <3>1. seq[l] \in SequenceRecords
        BY DEF LaneOK
      <3>2. IsView(View(l)) /\ View(l).seq = seq[l]
        BY ViewFacts
      <3>3. x.seq = [seq[l] EXCEPT !.retained = FALSE]
        BY <3>2 DEF IsView, ViewFields
      <3> HIDE DEF x
      <3> QED BY <3>1, <3>3 DEF SequenceRecords
    <2>2. CheckpointAtStart(p, x.seq, plan.action) = ckpt
      BY <2>1 DEF CheckpointAtStart
    <2>3. Prepared(l, p, plan) =
             [z EXCEPT !.seq.ledger = p.ids, !.seq.pos = p.pos, !.seq.items = p.items,
                       !.seq.delta = p.delta, !.seq.drafts = 0,
                       !.seq.ckpt = CheckpointAtStart(p, x.seq, plan.action)]
      BY DEF Prepared, StartColumns
    <2> HIDE DEF x, ckpt, z
    <2> QED BY <2>2, <2>3
  <1>2. Free(l)
    BY DEF CanAdmitLane
  <1>3. Admitted(l, p, plan)
    BY AdmittedFacts
  <1>4. Reusable(x, plan)
    BY <1>2, ReusableFacts
  <1> HIDE DEF x
  <1>5. Positions(y, plan) /\ (plan.base = n => y.seq.tailValid)
    BY <1>3, <1>4, PositionedFacts
  <1> HIDE DEF y
  <1>6. /\ IsView(z) /\ z.bad = {} /\ z.seq = y.seq
        /\ z.kv \in Bundles /\ z.kv.held /\ z.kv.bound
        /\ z.kv.text.ent = plan.text /\ z.kv.backend.ent = plan.backend
        /\ z.kv.text.map <= plan.text /\ z.kv.backend.map <= plan.backend
        /\ PagesForTokens(n) <= z.kv.text.map /\ PagesForTokens(m) <= z.kv.backend.map
    BY <1>3, <1>5, ReadiedFacts
  <1>7. /\ y.seq \in SequenceRecords /\ y.seq.textValid = plan.base
        /\ Behind(engine, y.seq) = ReusedColumns(plan.base) /\ y.seq.retained = FALSE
    BY <1>5 DEF Positions
  <1>8. /\ p.ids \in Seq(STRING) /\ p.pos \in Seq(Int) /\ p.items \in Seq(Items) /\ p.delta \in Int
        /\ Len(p.pos) = n /\ n \in Nat /\ n >= 1 /\ n <= Capacity
    BY PromptFacts
  <1>9. /\ ckpt \in Checkpoints /\ ckpt.at <= plan.base /\ plan.base \in Nat /\ plan.base <= n
        /\ plan.bridge = "before" => Backend = "mtp"
        /\ Backend = "mtp" /\ plan.base = n => plan.bridge = "after"
        /\ plan.output \in Nat /\ plan.output >= 1 /\ n + plan.output - 1 <= Capacity
        /\ plan.text = PagesForTokens(n + plan.output - 1)
        /\ plan.backend = BackendShare(engine, n + plan.output - 1)
    BY DEF PlanOK
  <1>10. none \in Nat
    OBVIOUS
  <1> HIDE DEF z, ckpt, none
  <1>11. IsView(w) /\ w.bad = z.bad /\ w.kv = z.kv
         /\ w.seq = [z.seq EXCEPT !.ledger = p.ids, !.pos = p.pos, !.items = p.items,
                                  !.delta = p.delta, !.drafts = none, !.ckpt = ckpt]
    BY <1>6 DEF IsView, ViewFields
  <1> HIDE DEF w
  <1> DEFINE s == z.seq
             t == w.seq
  <1>12. s \in SequenceRecords /\ s = y.seq
         /\ t = [s EXCEPT !.ledger = p.ids, !.pos = p.pos, !.items = p.items,
                          !.delta = p.delta, !.drafts = none, !.ckpt = ckpt]
    BY <1>6, <1>7, <1>11
  <1> HIDE DEF s, t
  <1>13. t \in SequenceRecords
    BY <1>8, <1>9, <1>10, <1>12 DEF SequenceRecords
  <1>14. /\ t.ledger = p.ids /\ t.pos = p.pos /\ t.drafts = none /\ t.ckpt = ckpt
         /\ t.textValid = s.textValid /\ t.mtpValid = s.mtpValid /\ t.dctx = s.dctx
         /\ t.retained = s.retained /\ t.tailValid = s.tailValid
    BY <1>12 DEF SequenceRecords
  <1>15. /\ StagedOK(engine, st) /\ st.prompt = p /\ st.base = plan.base
         /\ st.cursor = plan.base /\ st.bridge = plan.bridge
         /\ st.extent = InitialMtpExtent(p, plan)
    BY StagedFacts
  <1>16. /\ plan.base < n => plan.work >= StepsLeft(engine, st) + plan.output - 1
         /\ plan.base = n => plan.work >= plan.output
    BY WorkFacts
  <1> HIDE DEF st
  <1>17. PromptPages(engine, st, w.kv)
    <2>1. /\ m \in Nat /\ (Backend # "none" => n <= m)
          /\ (st.extent # 0 => n + st.extent - 1 <= m)
      BY <1>9, <1>15, StartColumnsFacts
    <2>2. z.kv.backend.map \in Nat /\ Backend = engine.backend
      BY <1>6, BundleFacts, EngineFacts
    <2>3. st.extent \in Nat
      BY <1>15, StagedNumbers
    <2> HIDE DEF m, n
    <2>4. Backend # "none" => PagesForTokens(n) <= z.kv.backend.map
      BY <1>6, <1>8, <2>1, <2>2, PagesSuffice
    <2>5. st.extent # 0 => PagesForTokens(n + st.extent - 1) <= z.kv.backend.map
      <3> SUFFICES ASSUME st.extent # 0 PROVE PagesForTokens(n + st.extent - 1) <= z.kv.backend.map
        OBVIOUS
      <3> DEFINE c == n + st.extent - 1
      <3>1. c \in Nat /\ c <= m
        BY <1>8, <2>1, <2>3
      <3> HIDE DEF c
      <3>2. PagesForTokens(c) <= z.kv.backend.map
        BY <1>6, <2>1, <2>2, <3>1, PagesSuffice
      <3> QED BY <3>2 DEF c
    <2>6. w.kv = z.kv
      BY <1>11
    <2> QED BY <1>6, <1>15, <2>2, <2>4, <2>5, <2>6 DEF PromptPages, n
  <1>18. Holding(engine, t, w.kv, n + r.budget - 1)
    <2>1. w.kv = z.kv /\ t.retained = FALSE /\ Capacity = engine.capacity
      BY <1>7, <1>11, <1>12, <1>14, EngineFacts
    <2> HIDE DEF n
    <2> QED BY <1>6, <1>9, <2>1 DEF Holding
  <1>19. /\ IsView(w) /\ w.bad = {} /\ w.kv \in Bundles
         /\ t.textValid = plan.base /\ Behind(engine, t) = ReusedColumns(plan.base)
    <2>1. w.kv = z.kv /\ w.bad = z.bad /\ IsView(w)
      BY <1>11
    <2>2. Behind(engine, t) = Behind(engine, s)
      BY <1>14 DEF Behind
    <2> QED BY <1>6, <1>7, <1>12, <1>14, <2>1, <2>2
  <1>20. plan.base = n => t.tailValid /\ (Backend = "dflash" => t.dctx = n)
    <2>1. Backend = "dflash" => ReusedColumns(plan.base) = plan.base
      BY <1>9, ReusedFacts
    <2>2. Backend = "dflash" => Behind(engine, t) = t.dctx
      BY <1>13, BehindFacts
    <2>3. plan.base = n => s.tailValid
      BY <1>5, <1>12
    <2> QED BY <1>14, <1>19, <2>1, <2>2, <2>3
  <1>21. t.drafts <= Window /\ Len(t.pos) = n /\ t.ckpt.at <= plan.base
    BY <1>8, <1>9, <1>14, EngineFacts DEF none
  <1>22. Advancing(w, r, st)
    <2>1. r.budget >= 1
      BY <1>9
    <2> QED BY <1>9, <1>13, <1>14, <1>15, <1>16, <1>17, <1>18, <1>19, <1>20, <1>21, <2>1
            DEF Advancing, n, t
  <1>23. w.kv.text.ent = plan.text /\ w.kv.backend.ent = plan.backend
    BY <1>6, <1>11
  <1> QED BY <1>1, <1>22, <1>23 DEF st

-----------------------------------------------------------------------------
(***************************************************************************)
(* The steps of Next, and the theorems.                                    *)
(***************************************************************************)

\* A lane between two chunks.
LEMMA PrefillAdvances ==
    ASSUME engine \in Engines, NEW l, LaneOK(engine, seq[l], req[l], kv[l]),
           req[l].life = "Prefilling"
    PROVE  Advancing(View(l), req[l], req[l].prefill)
  <1> DEFINE s == seq[l]
             r == req[l]
             k == kv[l]
             st == r.prefill
             n == Len(st.prompt.ids)
  <1>1. s \in SequenceRecords /\ r \in RequestRecords /\ k \in Bundles /\ Prefills(engine, s, r, k)
    BY DEF LaneOK
  <1>2. /\ StagedOK(engine, st) /\ st.cursor < n /\ st.bridge = "none"
        /\ r.budget >= 1 /\ Holding(engine, s, k, n + r.budget - 1)
        /\ s.textValid = st.cursor
        /\ s.ledger = st.prompt.ids /\ Len(s.pos) = n
        /\ PromptPages(engine, st, k)
        /\ s.ckpt.at <= st.base /\ s.drafts <= engine.window
        /\ r.work >= StepsLeft(engine, st) + r.budget - 1
    BY <1>1 DEF Prefills
  <1>3. IsView(View(l)) /\ View(l).seq = s /\ View(l).kv = k /\ View(l).bad = {}
    BY ViewFacts
  <1>4. n \in Nat /\ st.cursor \in Nat /\ Window = engine.window
    BY <1>2, StagedNumbers, EngineFacts
  <1>5. st.cursor # n
    BY <1>2, <1>4
  <1> HIDE DEF s, r, k, st
  <1>6. Advancing(View(l), r, st)
    BY <1>1, <1>2, <1>3, <1>4, <1>5 DEF Advancing, n
  <1> QED BY <1>6 DEF r, st

\* A chunk of a prompt ends within it.
LEMMA ChunkWithin ==
    ASSUME engine \in Engines, NEW st, StagedOK(engine, st), ChunkEnd(st) > st.cursor
    PROVE  ChunkEnd(st) \in Nat /\ ChunkEnd(st) <= Len(st.prompt.ids)
  <1> DEFINE n == Len(st.prompt.ids)
             c == st.cursor
             limit == ChunkLimit(st)
             e == ChunkEnd(st)
  <1>1. /\ n \in Nat /\ c \in Nat /\ c <= n /\ st.prompt \in Prompts
        /\ st.uses \subseteq DOMAIN st.prompt.items /\ Chunk \in Nat \ {0}
    BY StagedNumbers, EngineFacts
  <1>2. CASE c < n
    <2>1. limit \in Nat /\ limit <= n
      BY <1>2, LimitFacts
    <2>2. e \in Nat /\ e <= limit
      BY <1>2, CutFacts
    <2> HIDE DEF e, limit, n
    <2>3. e \in Nat /\ e <= n
      BY <1>1, <2>1, <2>2
    <2> QED BY <2>3 DEF e, n
  <1>3. CASE c = n
    <2> DEFINE far == c + Chunk
    <2>1. far \in Int /\ n \in Int /\ n <= far
      BY <1>1, <1>3
    <2>2. Min({far, n}) = n
      <3> HIDE DEF far, n
      <3>1. Min({far, n}) = IF far <= n THEN far ELSE n
        BY <2>1, TwoNumbers
      <3> QED BY <2>1, <3>1
    <2>3. limit = n
      <3>1. ~(st.capture.at \in c + 1 .. n)
        BY <1>1, <1>3
      <3> QED BY <1>3, <2>2, <3>1 DEF ChunkLimit
    <2>4. UsesOf(st, c, limit) = {}
      <3> SUFFICES ASSUME NEW k \in UsesOf(st, c, limit) PROVE FALSE
        OBVIOUS
      <3>1. k \in DOMAIN st.prompt.items /\ st.prompt.items[k].last > c
        BY <1>1 DEF UsesOf
      <3>2. st.prompt.items[k].last <= n
        BY <1>1, <3>1, EngineFacts DEF Accepted
      <3>3. st.prompt.items[k].last \in Nat
        BY <1>1, <3>1, ItemFacts
      <3> QED BY <1>1, <1>3, <3>1, <3>2, <3>3
    <2>5. e = n
      BY <2>3, <2>4 DEF ChunkEnd, CutAtNextUse
    <2> QED BY <1>1, <2>5
  <1> QED BY <1>1, <1>2, <1>3

\* What the append to the context of the lane in the frame reports.
LEMMA ContextBad ==
    ASSUME NEW x, IsView(x), x.bad = {}, NEW last, NEW cells, NEW st, NEW e, NEW y,
           y = AppendContext(x, last, cells),
           NEW z, z = IF st.capture.at = e THEN [y EXCEPT !.dev.ckLocal = y.dev.local] ELSE y
    PROVE  /\ z.bad \subseteq {"unmapped"}
           /\ last <= Mapped(x.kv.backend) => z.bad = {}
  <1> DEFINE newest(c) == {i \in DOMAIN cells : LocalSlot(i) = c}
             full == Over(x.dev.full, cells)
             local == [c \in DOMAIN x.dev.local |-> IF newest(c) = {} THEN x.dev.local[c]
                                                    ELSE cells[Max(newest(c))]]
             w == [x EXCEPT !.dev.full = full, !.dev.local = local]
  <1>1. y = NeedMapped(w, "backend", last)
    BY DEF AppendContext
  <1> HIDE DEF full, local
  <1>2. IsView(w) /\ w.kv = x.kv /\ w.bad = {}
    BY DEF IsView, ViewFields
  <1> HIDE DEF w
  <1>3. IsView(y) /\ y.bad \subseteq {"unmapped"} /\ (last <= Mapped(x.kv.backend) => y.bad = {})
    <2>1. CASE last <= Mapped(w.kv["backend"])
      BY <1>1, <1>2, <2>1 DEF NeedMapped
    <2>2. CASE ~(last <= Mapped(w.kv["backend"]))
      <3>1. y = [w EXCEPT !.bad = @ \cup {"unmapped"}]
        BY <1>1, <2>2 DEF NeedMapped
      <3>2. IsView(y) /\ y.bad = {"unmapped"}
        BY <1>2, <3>1 DEF IsView, ViewFields
      <3>3. ~(last <= Mapped(x.kv.backend))
        BY <1>2, <2>2
      <3> QED BY <3>2, <3>3
    <2> QED BY <2>1, <2>2
  <1>4. z.bad = y.bad
    <2>1. CASE st.capture.at = e
      <3> DEFINE v == y.dev.local
      <3>1. z = [y EXCEPT !.dev.ckLocal = v]
        BY <2>1
      <3> HIDE DEF v
      <3> QED BY <1>3, <3>1 DEF IsView, ViewFields
    <2>2. CASE st.capture.at # e
      BY <2>2
    <2> QED BY <2>1, <2>2
  <1> QED BY <1>3, <1>4

\* What a prefill step does to the state. Only the append to the frame's lane may
\* write past the mapped pages, and only if that is another lane.
LEMMA ApplyFacts ==
    ASSUME engine \in Engines, NEW l, NEW g, NEW y, NEW q, NEW st, Advancing(y, q, st),
           NEW x, NEW r, Stepped(y, x, r), Apply(l, x, r, g, st)
    PROVE  /\ seq' = [seq EXCEPT ![l] = x.seq] /\ kv' = [kv EXCEPT ![l] = x.kv]
           /\ req' = [req EXCEPT ![l] = r]
           /\ err' \subseteq err \cup {"unmapped"}
           /\ (Backend = "dflash" => g = l) => err' = err
  <1> DEFINE e == ChunkEnd(st)
             chunk == x.bad = {} /\ Backend = "dflash" /\ e > st.cursor
             device == IF g = l THEN x.dev ELSE dev[g]
             bundle == IF g = l THEN x.kv ELSE kv[g]
             target == [seq |-> seq[g], dev |-> device, kv |-> bundle, bad |-> {}]
             features == ChunkFeatures(st, e)
             appended == AppendContext(target, e, features)
             saved == IF st.capture.at = e
                      THEN [appended EXCEPT !.dev.ckLocal = appended.dev.local] ELSE appended
  <1>1. x.bad = {} /\ x.kv = y.kv
    BY DEF Stepped
  <1>2. /\ seq' = [seq EXCEPT ![l] = x.seq] /\ kv' = [kv EXCEPT ![l] = x.kv]
        /\ req' = [req EXCEPT ![l] = r]
    BY <1>1 DEF Apply
  <1>3. err' = err \cup x.bad \cup (IF chunk THEN saved.bad ELSE {})
    BY DEF Apply
  <1> HIDE DEF device, bundle, features
  <1>4. IsView(target) /\ target.kv = bundle /\ target.bad = {}
    BY DEF IsView, ViewFields
  <1> HIDE DEF target
  <1>5. saved.bad \subseteq {"unmapped"} /\ (e <= Mapped(target.kv.backend) => saved.bad = {})
    <2> DEFINE a == appended
               b == saved
    <2>1. a = AppendContext(target, e, features)
      OBVIOUS
    <2>2. b = IF st.capture.at = e THEN [a EXCEPT !.dev.ckLocal = a.dev.local] ELSE a
      OBVIOUS
    <2> HIDE DEF a, b
    <2>3. b.bad \subseteq {"unmapped"} /\ (e <= Mapped(target.kv.backend) => b.bad = {})
      BY <1>4, <2>1, <2>2, ContextBad
    <2> QED BY <2>3 DEF b
  <1>6. ASSUME Backend = "dflash" => g = l PROVE chunk => saved.bad = {}
    <2> SUFFICES ASSUME chunk PROVE saved.bad = {}
      OBVIOUS
    <2>1. g = l /\ Backend = "dflash" /\ e > st.cursor
      BY <1>6
    <2>2. target.kv = y.kv
      BY <1>1, <1>4, <2>1 DEF bundle
    <2>3. StagedOK(engine, st) /\ y.kv \in Bundles /\ PromptPages(engine, st, y.kv)
      BY DEF Advancing
    <2>4. e \in Nat /\ e <= Len(st.prompt.ids)
      BY <2>1, <2>3, ChunkWithin
    <2> HIDE DEF e
    <2>5. e <= Mapped(y.kv.backend)
      BY <2>1, <2>3, <2>4, PromptMapped
    <2> QED BY <1>5, <2>2, <2>5
  <1> HIDE DEF saved, chunk
  <1>7. err' \subseteq err \cup {"unmapped"}
    BY <1>1, <1>3, <1>5
  <1>8. (Backend = "dflash" => g = l) => err' = err
    BY <1>1, <1>3, <1>6
  <1> QED BY <1>2, <1>7, <1>8

-----------------------------------------------------------------------------
(***************************************************************************)
(* Lanes and pools.                                                        *)
(***************************************************************************)

LEMMA LanesFinite ==
    ASSUME engine \in Engines
    PROVE  IsFiniteSet(Lanes) /\ Lanes \subseteq Nat /\ 0 \in Lanes
  <1>1. engine.lanes \in Nat \ {0}
    BY EngineFacts
  <1> DEFINE m == engine.lanes - 1
  <1>2. 0 \in Int /\ m \in Int /\ m >= 0
    BY <1>1
  <1> HIDE DEF m
  <1>3. IsFiniteSet(0 .. m)
    BY <1>2, FS_Interval, Zenon
  <1>4. 0 .. m \subseteq Nat /\ 0 \in 0 .. m
    BY <1>2
  <1> QED BY <1>3, <1>4 DEF Lanes, m

\* The least lane of a batch.
LEMMA LeastLane ==
    ASSUME engine \in Engines, NEW S \in SUBSET Lanes, S # {}
    PROVE  Min(S) \in Lanes
  <1>1. S \in SUBSET Nat
    BY LanesFinite
  <1>2. PICK m \in S : \A n \in S : m <= n
    BY <1>1, LeastNatural
  <1>3. Min(S) \in S
    BY <1>2 DEF Min
  <1> QED BY <1>3

LEMMA EntitlementFacts ==
    ASSUME NEW k, \A m \in Lanes : k[m] \in Bundles
    PROVE  \A m \in Lanes :
              /\ Entitlements(k, "text")[m] = k[m].text.ent /\ k[m].text.ent \in Nat
              /\ Entitlements(k, "backend")[m] = k[m].backend.ent /\ k[m].backend.ent \in Nat
  BY BundleFacts DEF Entitlements

\* No lane is entitled to more than before.
LEMMA PagesKept ==
    ASSUME engine \in Engines, PagesFit, engine' = engine,
           \A m \in Lanes : /\ kv[m] \in Bundles /\ kv'[m] \in Bundles
                            /\ kv'[m].text.ent <= kv[m].text.ent
                            /\ kv'[m].backend.ent <= kv[m].backend.ent
    PROVE  PagesFit'
  <1>1. Lanes' = Lanes
    BY DEF Lanes
  <1>2. IsFiniteSet(Lanes)
    BY LanesFinite
  <1>3. \A pool \in {"text", "backend"} : PoolPages(pool)' = PoolPages(pool)
    BY DEF PoolPages, TextPages, BackendPages
  <1>4. \A pool : Entitlements(kv, pool)' = Entitlements(kv', pool)
    BY <1>1 DEF Entitlements
  <1>5. ASSUME NEW pool \in {"text", "backend"}
        PROVE  SumOver(Entitlements(kv', pool), Lanes) <= PoolPages(pool)
    <2> DEFINE f == Entitlements(kv', pool)
               g == Entitlements(kv, pool)
    <2>1. \A m \in Lanes : f[m] \in Nat /\ g[m] \in Nat /\ f[m] <= g[m]
      BY EntitlementFacts
    <2>2. SumOver(g, Lanes) <= PoolPages(pool)
      BY DEF PagesFit
    <2>3. PoolPages(pool) \in Nat
      BY EngineFacts DEF PoolPages
    <2> HIDE DEF f, g
    <2>4. SumOver(f, Lanes) <= SumOver(g, Lanes)
      BY <1>2, <2>1, SumMonotone
    <2>5. SumOver(f, Lanes) \in Nat /\ SumOver(g, Lanes) \in Nat
      BY <1>2, <2>1, SumNat
    <2>6. SumOver(f, Lanes) <= PoolPages(pool)
      BY <2>2, <2>3, <2>4, <2>5
    <2> QED BY <2>6 DEF f
  <1> QED BY <1>1, <1>3, <1>4, <1>5 DEF PagesFit

\* The plan of lane l was admitted against what the other lanes are entitled to.
LEMMA PagesAdmitted ==
    ASSUME engine \in Engines, PagesFit, engine' = engine, NEW l \in Lanes, NEW plan,
           CanAdmitWith(kv, l, plan), plan.text \in Nat, plan.backend \in Nat,
           \A m \in Lanes : kv[m] \in Bundles /\ kv'[m] \in Bundles,
           \A m \in Lanes \ {l} : kv'[m] = kv[m],
           kv'[l].text.ent = plan.text, kv'[l].backend.ent = plan.backend
    PROVE  PagesFit'
  <1>1. Lanes' = Lanes
    BY DEF Lanes
  <1>2. IsFiniteSet(Lanes)
    BY LanesFinite
  <1>3. \A pool \in {"text", "backend"} : PoolPages(pool)' = PoolPages(pool)
    BY DEF PoolPages, TextPages, BackendPages
  <1>4. \A pool : Entitlements(kv, pool)' = Entitlements(kv', pool)
    BY <1>1 DEF Entitlements
  <1>5. ASSUME NEW pool \in {"text", "backend"}
        PROVE  SumOver(Entitlements(kv', pool), Lanes) <= PoolPages(pool)
    <2> DEFINE f == Entitlements(kv', pool)
               g == Entitlements(kv, pool)
               rest == Lanes \ {l}
               pages == IF pool = "text" THEN plan.text ELSE plan.backend
    <2>1. \A m \in Lanes : f[m] \in Nat /\ g[m] \in Nat
      BY EntitlementFacts
    <2>2. \A m \in rest : f[m] \in Nat /\ g[m] \in Nat /\ f[m] <= g[m]
      BY <2>1, EntitlementFacts
    <2>3. f[l] = pages /\ pages \in Nat
      BY EntitlementFacts
    <2>4. SumOver(g, Lanes) <= PoolPages(pool)
      BY DEF PagesFit
    <2>5. PoolPages(pool) \in Nat
      BY EngineFacts DEF PoolPages
    <2>6. IsFiniteSet(rest)
      BY <1>2, FS_RemoveElement
    <2>7. EntitledElsewhere(kv, l, pool) = SumOver(g, rest)
      BY DEF EntitledElsewhere, SumOver
    <2> HIDE DEF f, g, pages
    <2>8. SumOver(g, Lanes) = g[l] + SumOver(g, rest) /\ SumOver(f, Lanes) = f[l] + SumOver(f, rest)
      BY <1>2, <2>1, SumRemove
    <2> HIDE DEF rest
    <2>9. SumOver(f, rest) <= SumOver(g, rest)
      BY <2>2, <2>6, SumMonotone
    <2>10. SumOver(f, rest) \in Nat /\ SumOver(g, rest) \in Nat
      BY <2>2, <2>6, SumNat
    <2>11. pages + SumOver(g, rest) <= PoolPages(pool)
      <3>1. CASE Fits(kv, l, pool, pages)
        <4>1. SumOver(g, rest) + pages <= PoolPages(pool)
          BY <2>7, <3>1 DEF Fits
        <4> QED BY <2>3, <2>5, <2>10, <4>1
      <3>2. CASE ~Fits(kv, l, pool, pages)
        <4>1. pages = 0
          BY <3>2 DEF CanAdmitWith, pages
        <4>2. g[l] \in Nat
          BY <2>1
        <4> DEFINE a == SumOver(g, rest)
                   b == SumOver(g, Lanes)
                   c == PoolPages(pool)
                   d == g[l]
        <4>3. a \in Nat /\ d \in Nat /\ b = d + a /\ b <= c /\ c \in Nat
          BY <2>4, <2>5, <2>8, <2>10, <4>2
        <4> HIDE DEF a, b, c, d
        <4>4. 0 + a <= c
          BY <4>3
        <4> QED BY <4>1, <4>4 DEF a, c
      <3> QED BY <3>1, <3>2
    <2>12. SumOver(f, Lanes) <= PoolPages(pool)
      <3> DEFINE a == SumOver(f, rest)
                 b == SumOver(g, rest)
                 c == PoolPages(pool)
                 d == SumOver(f, Lanes)
      <3>1. /\ a \in Nat /\ b \in Nat /\ c \in Nat /\ pages \in Nat /\ a <= b
            /\ d = pages + a /\ pages + b <= c
        BY <2>3, <2>5, <2>8, <2>9, <2>10, <2>11
      <3> HIDE DEF a, b, c, d
      <3>2. d <= c
        BY <3>1
      <3> QED BY <3>2 DEF c, d
    <2> QED BY <2>12 DEF f
  <1> QED BY <1>1, <1>3, <1>4, <1>5 DEF PagesFit

-----------------------------------------------------------------------------
(***************************************************************************)
(* Steps.                                                                  *)
(***************************************************************************)

\* The parts of the invariant that are put together the same way in every step.
LEMMA Assembled ==
    ASSUME BInv, engine' = engine, frame' \in Lanes,
           DOMAIN seq' = Lanes, DOMAIN req' = Lanes, DOMAIN kv' = Lanes,
           seq' = [m \in Lanes |-> seq'[m]], req' = [m \in Lanes |-> req'[m]],
           kv' = [m \in Lanes |-> kv'[m]],
           \A m \in Lanes : LaneOK(engine, seq'[m], req'[m], kv'[m]),
           Alone', PagesFit', Errors'
    PROVE  BInv'
  <1>1. Lanes' = Lanes /\ engine' \in Engines
    BY DEF Lanes, BInv
  <1>2. \A m \in Lanes : /\ seq'[m] \in SequenceRecords /\ req'[m] \in RequestRecords
                         /\ kv'[m] \in Bundles
    BY DEF LaneOK
  <1>3. /\ seq' \in [Lanes -> SequenceRecords] /\ req' \in [Lanes -> RequestRecords]
        /\ kv' \in [Lanes -> Bundles]
    BY <1>2
  <1> QED BY <1>1, <1>3 DEF BInv

\* A batch whose rows are right clears no lane.
LEMMA BatchUpdates ==
    ASSUME BInv, engine' = engine, NEW rows \in SUBSET Lanes, NEW x, NEW r,
           \A l \in rows : Kept(l, x[l], r[l]), ApplyBatch(rows, x, r)
    PROVE  /\ seq' = [m \in Lanes |-> seq'[m]] /\ req' = [m \in Lanes |-> req'[m]]
           /\ kv' = [m \in Lanes |-> kv'[m]]
           /\ \A m \in Lanes : req'[m] = IF m \in rows THEN r[m] ELSE req[m]
           /\ \A m \in Lanes : LaneOK(engine, seq'[m], req'[m], kv'[m])
           /\ PagesFit' /\ Errors'
  <1> DEFINE bad == UNION {x[l].bad : l \in rows}
             y == [l \in rows |-> IF bad = {} THEN x[l] ELSE Cleared(x[l])]
  <1>1. bad = {}
    BY DEF Kept
  <1>2. /\ seq' = [l \in Lanes |-> IF l \in rows THEN y[l].seq ELSE seq[l]]
        /\ kv' = [l \in Lanes |-> IF l \in rows THEN y[l].kv ELSE kv[l]]
        /\ err' = err \cup bad
    BY DEF ApplyBatch
  <1>3. req' = [l \in Lanes |-> CASE l \notin rows -> req[l]
                                  [] l \in rows /\ bad = {} -> r[l]
                                  [] OTHER -> NoRequest]
    BY DEF ApplyBatch
  <1> HIDE DEF bad
  <1>4. \A l \in rows : y[l] = x[l]
    BY <1>1
  <1> HIDE DEF y
  <1>5. \A m \in Lanes : /\ seq'[m] = IF m \in rows THEN x[m].seq ELSE seq[m]
                         /\ kv'[m] = IF m \in rows THEN x[m].kv ELSE kv[m]
                         /\ req'[m] = IF m \in rows THEN r[m] ELSE req[m]
    BY <1>1, <1>2, <1>3, <1>4
  <1>6. /\ seq' = [m \in Lanes |-> seq'[m]] /\ req' = [m \in Lanes |-> req'[m]]
        /\ kv' = [m \in Lanes |-> kv'[m]]
    BY <1>2, <1>3
  <1>7. ASSUME NEW m \in Lanes
        PROVE  /\ LaneOK(engine, seq'[m], req'[m], kv'[m])
               /\ kv'[m].text.ent <= kv[m].text.ent /\ kv'[m].backend.ent <= kv[m].backend.ent
    <2>1. CASE m \in rows
      BY <1>5, <2>1 DEF Kept
    <2>2. CASE m \notin rows
      <3>1. seq'[m] = seq[m] /\ kv'[m] = kv[m] /\ req'[m] = req[m]
        BY <1>5, <2>2
      <3>2. LaneOK(engine, seq[m], req[m], kv[m]) /\ kv[m] \in Bundles
        BY DEF BInv
      <3>3. kv[m].text.ent \in Nat /\ kv[m].backend.ent \in Nat
        BY <3>2, BundleFacts
      <3> QED BY <3>1, <3>2, <3>3
    <2> QED BY <2>1, <2>2
  <1>8. PagesFit'
    <2>1. engine \in Engines /\ PagesFit
      BY DEF BInv
    <2>2. \A m \in Lanes : kv[m] \in Bundles /\ kv'[m] \in Bundles
      BY <1>7 DEF BInv, LaneOK
    <2> QED BY <1>7, <2>1, <2>2, PagesKept
  <1>9. Errors'
    BY <1>1, <1>2 DEF BInv, Errors
  <1> QED BY <1>5, <1>6, <1>7, <1>8, <1>9

LEMMA ClearedKept ==
    ASSUME NEW l, kv[l] \in Bundles
    PROVE  Kept(l, Cleared(View(l)), NoRequest)
  <1> DEFINE x == View(l)
             d == WithPages(x.dev, NoBundle)
             s == NoSequence
             k == NoBundle
             y == [x EXCEPT !.seq = s, !.kv = k, !.dev = d]
  <1>1. IsView(x) /\ x.bad = {}
    BY ViewFacts
  <1>2. Cleared(x) = y
    BY DEF Cleared
  <1>3. LaneOK(engine, Cleared(x).seq, NoRequest, Cleared(x).kv)
    BY <1>1, ClearedLane
  <1>4. k.text.ent = 0 /\ k.backend.ent = 0
    BY DEF NoBundle, NoPages
  <1>5. kv[l].text.ent \in Nat /\ kv[l].backend.ent \in Nat
    BY BundleFacts
  <1> HIDE DEF x, d, s, k
  <1>6. IsView(y) /\ y.bad = {} /\ y.kv = k
    BY <1>1 DEF IsView, ViewFields
  <1> HIDE DEF y
  <1>7. 0 <= kv[l].text.ent /\ 0 <= kv[l].backend.ent
    BY <1>5
  <1> QED BY <1>2, <1>3, <1>4, <1>6, <1>7 DEF Kept, x

\* A lane is cleared between two units.
LEMMA ClearStep ==
    ASSUME BInv, NEW l \in Lanes, UNCHANGED <<engine, frame>>,
           ApplyBatch({l}, [m \in {l} |-> Cleared(View(l))], [m \in {l} |-> NoRequest])
    PROVE  BInv'
  <1> DEFINE x == [m \in {l} |-> Cleared(View(l))]
             r == [m \in {l} |-> NoRequest]
             rows == {l}
  <1>1. kv[l] \in Bundles
    BY DEF BInv
  <1>2. x[l] = Cleared(View(l)) /\ r[l] = NoRequest
    OBVIOUS
  <1>3. \A m \in rows : Kept(m, x[m], r[m])
    BY <1>1, <1>2, ClearedKept
  <1>4. rows \in SUBSET Lanes /\ ApplyBatch(rows, x, r) /\ engine' = engine /\ frame' = frame
    OBVIOUS
  <1>5. r[l].life = "Empty"
    BY <1>2, NoRequestTyped
  <1> HIDE DEF x, r
  <1>6. /\ seq' = [m \in Lanes |-> seq'[m]] /\ req' = [m \in Lanes |-> req'[m]]
        /\ kv' = [m \in Lanes |-> kv'[m]]
        /\ \A m \in Lanes : req'[m] = IF m \in rows THEN r[m] ELSE req[m]
        /\ \A m \in Lanes : LaneOK(engine, seq'[m], req'[m], kv'[m])
        /\ PagesFit' /\ Errors'
    <2> HIDE DEF rows
    <2> QED BY <1>3, <1>4, BatchUpdates
  <1>7. Alone'
    <2>1. Lanes' = Lanes
      BY DEF Lanes
    <2>2. \A m \in Lanes : req'[m].life = "Pending" => req'[m] = req[m]
      BY <1>5, <1>6
    <2>3. Alone
      BY DEF BInv
    <2> QED BY <2>1, <2>2, <2>3 DEF Alone
  <1>8. frame' \in Lanes
    BY <1>4 DEF BInv
  <1>9. DOMAIN seq' = Lanes /\ DOMAIN req' = Lanes /\ DOMAIN kv' = Lanes
    BY <1>6
  <1> QED BY <1>4, <1>6, <1>7, <1>8, <1>9, Assembled

LEMMA AbortStep ==
    ASSUME BInv, NEW l \in Lanes, AbortLane(l)
    PROVE  BInv'
  BY ClearStep DEF AbortLane

LEMMA EvictStep ==
    ASSUME BInv, NEW l \in Lanes, EvictRetainedLane(l)
    PROVE  BInv'
  BY ClearStep DEF EvictRetainedLane

\* What a batch that leaves nothing pending does.
LEMMA BatchStep ==
    ASSUME BInv, engine' = engine, frame' \in Lanes, NEW rows \in SUBSET Lanes, NEW x, NEW r,
           \A l \in rows : Kept(l, x[l], r[l]), ApplyBatch(rows, x, r),
           \A l \in rows : r[l].life = "Pending" => r[l].pending.kind # "begin",
           \A l \in Lanes \ rows : req[l].life # "Pending"
    PROVE  BInv'
  <1>1. /\ seq' = [m \in Lanes |-> seq'[m]] /\ req' = [m \in Lanes |-> req'[m]]
        /\ kv' = [m \in Lanes |-> kv'[m]]
        /\ \A m \in Lanes : req'[m] = IF m \in rows THEN r[m] ELSE req[m]
        /\ \A m \in Lanes : LaneOK(engine, seq'[m], req'[m], kv'[m])
        /\ PagesFit' /\ Errors'
    BY BatchUpdates
  <1>2. Alone'
    <2>1. Lanes' = Lanes
      BY DEF Lanes
    <2>2. \A m \in Lanes : ~(req'[m].life = "Pending" /\ req'[m].pending.kind = "begin")
      BY <1>1
    <2> QED BY <2>1, <2>2 DEF Alone
  <1>3. DOMAIN seq' = Lanes /\ DOMAIN req' = Lanes /\ DOMAIN kv' = Lanes
    BY <1>1
  <1> QED BY <1>1, <1>2, <1>3, Assembled

LEMMA ResolvePrefillStep ==
    ASSUME BInv, NEW l \in Lanes, ResolvePrefillLane(l)
    PROVE  BInv'
  <1>1. PICK d \in {c \in Decisions(l) : c.how # "cancel"} :
           ApplyBatch({l}, [m \in {l} |-> ResolveOrdinaryRow(l, d.how = "stop")],
                      [m \in {l} |-> ResolvedRequest(req[l], d, 0)])
    BY DEF ResolvePrefillLane
  <1> DEFINE row == ResolveOrdinaryRow(l, d.how = "stop")
             q == ResolvedRequest(req[l], d, 0)
             x == [m \in {l} |-> row]
             r == [m \in {l} |-> q]
             rows == {l}
  <1>2. /\ engine \in Engines /\ LaneOK(engine, seq[l], req[l], kv[l])
        /\ req[l] \in RequestRecords /\ Alone /\ frame \in Lanes
    BY DEF BInv
  <1>3. req[l].life = "Pending" /\ req[l].pending.kind = "begin" /\ engine' = engine /\ frame' = frame
    BY DEF ResolvePrefillLane
  <1>4. d \in Decisions(l) /\ d.how # "cancel"
    OBVIOUS
  <1>5. Kept(l, row, q)
    BY <1>2, <1>3, <1>4, ResolveOrdinaryKeeps
  <1>6. q.life # "Pending"
    <2>1. /\ d.how \in {"stop", "go", "cancel"} /\ d.n \in Nat
          /\ d.how = "go" => d.n < req[l].budget
      BY <1>2, <1>4, DecisionFacts
    <2>2. 0 \in Nat
      OBVIOUS
    <2>3. /\ d.how = "stop" => q.life = "Complete"
          /\ d.how = "go" /\ d.n < req[l].budget => q.life = "Active"
      BY <1>2, <2>1, <2>2, ResolvedFacts
    <2> QED BY <1>4, <2>1, <2>3
  <1> HIDE DEF row, q
  <1>7. x[l] = row /\ r[l] = q /\ ApplyBatch(rows, x, r) /\ rows \in SUBSET Lanes
    BY <1>1 DEF row, q
  <1> HIDE DEF x, r
  <1>8. \A m \in rows : Kept(m, x[m], r[m]) /\ r[m].life # "Pending"
    BY <1>5, <1>6, <1>7
  <1>9. \A m \in Lanes \ rows : req[m].life # "Pending"
    BY <1>2, <1>3 DEF Alone
  <1> HIDE DEF rows
  <1> QED BY <1>2, <1>3, <1>7, <1>8, <1>9, BatchStep

LEMMA DecodeStep ==
    ASSUME BInv, DecodeBatch
    PROVE  BInv'
  <1> DEFINE rows == ActiveLanes
  <1>1. PICK tokens \in [rows -> UNION {LicensedRows(l) : l \in rows}] :
           /\ \A l \in rows : tokens[l] \in LicensedRows(l)
           /\ ApplyBatch(rows,
                 [l \in rows |-> Require(DecodeRow(l, tokens[l]), RowReady(l))],
                 [l \in rows |-> [req[l] EXCEPT !.life = "Pending",
                                                !.pending = PendingRow(l, tokens[l])]])
    BY DEF DecodeBatch
  <1> DEFINE row(l) == Require(DecodeRow(l, tokens[l]), RowReady(l))
             q(l) == [req[l] EXCEPT !.life = "Pending", !.pending = PendingRow(l, tokens[l])]
             x == [l \in rows |-> row(l)]
             r == [l \in rows |-> q(l)]
  <1>2. engine \in Engines /\ frame \in Lanes /\ \A l \in Lanes : req[l] \in RequestRecords
    BY DEF BInv
  <1>3. /\ Quiet /\ rows # {} /\ engine' = engine
        /\ frame' = IF Backend = "dflash" THEN Min(rows) ELSE frame
    BY DEF DecodeBatch
  <1>4. rows \in SUBSET Lanes /\ \A l \in rows : req[l].life = "Active"
    BY DEF ActiveLanes
  <1>5. ASSUME NEW l \in rows
        PROVE  Kept(l, x[l], r[l]) /\ r[l].pending.kind # "begin"
    <2>1. /\ LaneOK(engine, seq[l], req[l], kv[l]) /\ req[l].life = "Active"
          /\ tokens[l] \in LicensedRows(l) /\ req[l] \in RequestRecords
      BY <1>1, <1>2, <1>4 DEF BInv
    <2>2. Kept(l, row(l), q(l))
      BY <1>2, <2>1, DecodeKeeps
    <2>3. q(l).pending.kind # "begin"
      <3>1. PendingRow(l, tokens[l]).kind # "begin"
        BY DEF PendingRow
      <3> DEFINE w == PendingRow(l, tokens[l])
                 o == req[l]
                 v == [o EXCEPT !.life = "Pending", !.pending = w]
      <3>2. o \in RequestRecords /\ q(l) = v
        BY <2>1
      <3> HIDE DEF w, o
      <3>3. v.pending = w
        BY <3>2 DEF RequestRecords
      <3> QED BY <3>1, <3>2, <3>3
    <2>4. x[l] = row(l) /\ r[l] = q(l)
      OBVIOUS
    <2> HIDE DEF row, q, x, r
    <2> QED BY <2>2, <2>3, <2>4
  <1>6. ApplyBatch(rows, x, r)
    BY <1>1
  <1>7. frame' \in Lanes
    <2> HIDE DEF rows
    <2> QED BY <1>2, <1>3, <1>4, LeastLane
  <1>8. \A l \in Lanes \ rows : req[l].life # "Pending"
    BY <1>3 DEF Quiet
  <1> HIDE DEF rows, x, r
  <1> QED BY <1>3, <1>4, <1>5, <1>6, <1>7, <1>8, BatchStep

\* A row of a round is resolved.
LEMMA ResolveRowKeeps ==
    ASSUME engine \in Engines, NEW l, LaneOK(engine, seq[l], req[l], kv[l]),
           req[l].life = "Pending", req[l].pending.kind # "begin", NEW d \in Decisions(l)
    PROVE  /\ Kept(l, ResolveRow(l, d), ResolvedRequest(req[l], d, d.n))
           /\ ResolvedRequest(req[l], d, d.n).life # "Pending"
  <1> DEFINE q == ResolvedRequest(req[l], d, d.n)
  <1>1. req[l] \in RequestRecords /\ kv[l] \in Bundles
    BY DEF LaneOK
  <1>2. /\ d.how \in {"stop", "go", "cancel"} /\ d.n \in Nat
        /\ d.how = "go" => d.n < req[l].budget
    BY <1>1, DecisionFacts
  <1>3. /\ d.how = "stop" => q.life = "Complete"
        /\ d.how = "go" /\ d.n < req[l].budget => q.life = "Active"
        /\ d.how = "cancel" => q = NoRequest
    BY <1>1, <1>2, ResolvedFacts
  <1>4. q.life # "Pending"
    BY <1>2, <1>3, NoRequestTyped
  <1>5. CASE d.how = "cancel"
    <2>1. ResolveRow(l, d) = Cleared(View(l))
      BY <1>5 DEF ResolveRow
    <2> QED BY <1>1, <1>3, <1>4, <1>5, <2>1, ClearedKept
  <1>6. CASE d.how # "cancel" /\ Backend = "none"
    <2>1. ResolveRow(l, d) = ResolveOrdinaryRow(l, d.how = "stop")
      BY <1>6 DEF ResolveRow
    <2>2. Kept(l, ResolveOrdinaryRow(l, d.how = "stop"), ResolvedRequest(req[l], d, d.n))
      BY <1>6, ResolveOrdinaryKeeps
    <2> QED BY <1>4, <2>1, <2>2
  <1>7. CASE d.how # "cancel" /\ Backend # "none"
    <2>1. ResolveRow(l, d) = ResolveSpeculativeRow(l, d)
      BY <1>7 DEF ResolveRow
    <2>2. Kept(l, ResolveSpeculativeRow(l, d), ResolvedRequest(req[l], d, d.n))
      BY <1>7, ResolveSpeculativeKeeps
    <2> QED BY <1>4, <2>1, <2>2
  <1> QED BY <1>5, <1>6, <1>7

LEMMA ResolveStep ==
    ASSUME BInv, ResolvePendingBatch
    PROVE  BInv'
  <1> DEFINE rows == PendingLanes
  <1>1. PICK d \in [rows -> UNION {Decisions(l) : l \in rows}] :
           /\ \A l \in rows : d[l] \in Decisions(l)
           /\ ApplyBatch(rows, [l \in rows |-> ResolveRow(l, d[l])],
                         [l \in rows |-> ResolvedRequest(req[l], d[l], d[l].n)])
           /\ LET ended == {l \in rows : d[l].how = "stop"}
              IN frame' = IF Backend = "dflash" /\ ended # {} THEN Min(ended) ELSE frame
    BY DEF ResolvePendingBatch
  <1> DEFINE x == [l \in rows |-> ResolveRow(l, d[l])]
             r == [l \in rows |-> ResolvedRequest(req[l], d[l], d[l].n)]
             ended == {l \in rows : d[l].how = "stop"}
  <1>2. engine \in Engines /\ frame \in Lanes /\ Alone /\ engine' = engine
    BY DEF BInv, ResolvePendingBatch
  <1>3. rows \in SUBSET Lanes /\ \A l \in Lanes : l \in rows <=> req[l].life = "Pending"
    BY DEF PendingLanes
  <1>4. PICK m \in rows : req[m].pending.kind # "begin"
    BY DEF ResolvePendingBatch
  <1>5. \A l \in rows : req[l].pending.kind # "begin"
    BY <1>2, <1>3, <1>4 DEF Alone
  <1>6. ASSUME NEW l \in rows
        PROVE  Kept(l, x[l], r[l]) /\ r[l].life # "Pending"
    <2>1. /\ LaneOK(engine, seq[l], req[l], kv[l]) /\ req[l].life = "Pending"
          /\ req[l].pending.kind # "begin" /\ d[l] \in Decisions(l)
      BY <1>1, <1>3, <1>5 DEF BInv
    <2>2. /\ Kept(l, ResolveRow(l, d[l]), ResolvedRequest(req[l], d[l], d[l].n))
          /\ ResolvedRequest(req[l], d[l], d[l].n).life # "Pending"
      BY <1>2, <2>1, ResolveRowKeeps
    <2>3. x[l] = ResolveRow(l, d[l]) /\ r[l] = ResolvedRequest(req[l], d[l], d[l].n)
      OBVIOUS
    <2> HIDE DEF x, r
    <2> QED BY <2>2, <2>3
  <1>7. ApplyBatch(rows, x, r)
    BY <1>1
  <1>8. frame' \in Lanes
    <2>1. ended \in SUBSET Lanes
      BY <1>3
    <2>2. frame' = IF Backend = "dflash" /\ ended # {} THEN Min(ended) ELSE frame
      BY <1>1
    <2> HIDE DEF ended
    <2> QED BY <1>2, <2>1, <2>2, LeastLane
  <1>9. \A l \in Lanes \ rows : req[l].life # "Pending"
    BY <1>3
  <1> HIDE DEF rows, x, r
  <1> QED BY <1>2, <1>3, <1>6, <1>7, <1>8, <1>9, BatchStep

\* A prefill step of one lane.
LEMMA LaneStep ==
    ASSUME BInv, engine' = engine, frame' \in Lanes, Quiet, NEW l \in Lanes, NEW x, NEW r,
           seq' = [seq EXCEPT ![l] = x.seq], kv' = [kv EXCEPT ![l] = x.kv],
           req' = [req EXCEPT ![l] = r], LaneOK(engine, x.seq, r, x.kv), PagesFit',
           err' \subseteq err \cup {"unmapped"}, FramesAgree(engine) => err' = err
    PROVE  BInv'
  <1>1. /\ seq \in [Lanes -> SequenceRecords] /\ req \in [Lanes -> RequestRecords]
        /\ kv \in [Lanes -> Bundles]
        /\ \A m \in Lanes : LaneOK(engine, seq[m], req[m], kv[m])
        /\ Errors
    BY DEF BInv
  <1>2. \A m \in Lanes : /\ seq'[m] = IF m = l THEN x.seq ELSE seq[m]
                         /\ kv'[m] = IF m = l THEN x.kv ELSE kv[m]
                         /\ req'[m] = IF m = l THEN r ELSE req[m]
    BY <1>1
  <1>3. /\ DOMAIN seq' = Lanes /\ DOMAIN req' = Lanes /\ DOMAIN kv' = Lanes
        /\ seq' = [m \in Lanes |-> seq'[m]] /\ req' = [m \in Lanes |-> req'[m]]
        /\ kv' = [m \in Lanes |-> kv'[m]]
    BY <1>1
  <1>4. \A m \in Lanes : LaneOK(engine, seq'[m], req'[m], kv'[m])
    BY <1>1, <1>2
  <1>5. Alone'
    <2>1. Lanes' = Lanes
      BY DEF Lanes
    <2>2. \A m \in Lanes : req'[m].life = "Pending" => m = l
      BY <1>2 DEF Quiet
    <2> QED BY <2>1, <2>2 DEF Alone
  <1>6. Errors'
    BY <1>1 DEF Errors
  <1> QED BY <1>3, <1>4, <1>5, <1>6, Assembled

LEMMA AdvanceStep ==
    ASSUME BInv, NEW l \in Lanes, NEW token \in Tokens, AdvancePrefillLane(l, token)
    PROVE  BInv'
  <1> DEFINE st == req[l].prefill
             y == View(l)
             x == Advanced(y, st, token)
             q == req[l]
             r == AdvancedRequest(q, st, token)
  <1>1. /\ engine \in Engines /\ LaneOK(engine, seq[l], req[l], kv[l]) /\ frame \in Lanes
        /\ PagesFit /\ kv \in [Lanes -> Bundles]
        /\ \A m \in Lanes : kv[m] \in Bundles
    BY DEF BInv
  <1>2. /\ Quiet /\ req[l].life = "Prefilling" /\ Apply(l, x, r, frame, st)
        /\ engine' = engine /\ frame' = frame
    BY DEF AdvancePrefillLane
  <1>3. token \in STRING
    BY <1>1, EngineFacts
  <1>4. Advancing(y, q, st)
    BY <1>1, <1>2, PrefillAdvances
  <1>5. y.kv = kv[l]
    BY ViewFacts
  <1> HIDE DEF st, y, q
  <1>6. Stepped(y, x, r)
    BY <1>1, <1>3, <1>4, AdvanceSteps
  <1> HIDE DEF x, r
  <1>7. /\ seq' = [seq EXCEPT ![l] = x.seq] /\ kv' = [kv EXCEPT ![l] = x.kv]
        /\ req' = [req EXCEPT ![l] = r]
        /\ err' \subseteq err \cup {"unmapped"}
        /\ (Backend = "dflash" => frame = l) => err' = err
    BY <1>1, <1>2, <1>4, <1>6, ApplyFacts
  <1>8. LaneOK(engine, x.seq, r, x.kv) /\ x.kv = kv[l]
    BY <1>5, <1>6 DEF Stepped
  <1>9. FramesAgree(engine) => err' = err
    <2>1. Backend = engine.backend /\ engine.lanes \in Nat
      BY <1>1, EngineFacts
    <2>2. engine.lanes = 1 => frame = l
      BY <1>1, <2>1 DEF Lanes
    <2> QED BY <1>7, <2>1, <2>2 DEF FramesAgree
  <1>10. PagesFit'
    <2>1. \A m \in Lanes : kv'[m] = kv[m]
      BY <1>1, <1>7, <1>8
    <2>2. \A m \in Lanes : kv[m].text.ent \in Nat /\ kv[m].backend.ent \in Nat
      BY <1>1, BundleFacts
    <2>3. \A m \in Lanes : /\ kv[m] \in Bundles /\ kv'[m] \in Bundles
                           /\ kv'[m].text.ent <= kv[m].text.ent
                           /\ kv'[m].backend.ent <= kv[m].backend.ent
      BY <1>1, <2>1, <2>2
    <2> QED BY <1>1, <1>2, <2>3, PagesKept
  <1>11. frame' \in Lanes
    BY <1>1, <1>2
  <1> QED BY <1>2, <1>7, <1>8, <1>9, <1>10, <1>11, LaneStep

LEMMA StartStep ==
    ASSUME BInv, NEW l \in Lanes, NEW p \in Prompts, NEW token \in Tokens,
           StartPrefillLane(l, p, token)
    PROVE  BInv'
  <1> DEFINE plan == PlanRequestForLane(p, seq[l])
             st == Staged(p, plan)
             o == req[l]
             q == [o EXCEPT !.budget = plan.output, !.work = plan.work, !.pending = NoPending]
             y == Prepared(l, p, plan)
             x == Advanced(y, st, token)
             r == AdvancedRequest(q, st, token)
  <1>1. /\ engine \in Engines /\ LaneOK(engine, seq[l], req[l], kv[l]) /\ frame \in Lanes
        /\ PagesFit /\ kv \in [Lanes -> Bundles]
        /\ \A m \in Lanes : kv[m] \in Bundles
    BY DEF BInv
  <1>2. /\ Quiet /\ CanAdmitLane(l, plan) /\ Apply(l, x, r, l, st)
        /\ engine' = engine /\ frame' = IF Backend = "dflash" THEN l ELSE frame
    BY DEF StartPrefillLane
  <1>3. token \in STRING
    BY <1>1, EngineFacts
  <1>4. Free(l) /\ CanAdmitWith(kv, l, plan)
    BY <1>2 DEF CanAdmitLane
  <1>5. Restable(engine, seq[l]) /\ o \in RequestRecords
    BY <1>1, <1>4, FreeLane
  <1>6. PlanOK(p, seq[l], plan)
    BY <1>1, <1>5, PlanFacts
  <1> HIDE DEF plan
  <1>7. plan.work \in Int /\ plan.output \in Nat
    BY <1>1, <1>6, WorkFacts DEF PlanOK
  <1>8. q \in RequestRecords /\ q.budget = plan.output /\ q.work = plan.work
    <2> HIDE DEF o
    <2>1. q \in RequestRecords
      BY <1>5, <1>7, NoPendingTyped DEF RequestRecords
    <2>2. q.budget = plan.output /\ q.work = plan.work
      BY <1>5 DEF RequestRecords
    <2> QED BY <2>1, <2>2
  <1> HIDE DEF q
  <1>9. Advancing(y, q, st) /\ y.kv.text.ent = plan.text /\ y.kv.backend.ent = plan.backend
    BY <1>1, <1>2, <1>6, <1>8, PreparedAdvances
  <1>10. plan.text \in Nat /\ plan.backend \in Nat
    <2>1. Admitted(l, p, plan)
      BY <1>1, <1>2, <1>6, AdmittedFacts
    <2> QED BY <2>1 DEF Admitted
  <1> HIDE DEF st, y
  <1>11. Stepped(y, x, r)
    BY <1>1, <1>3, <1>9, AdvanceSteps
  <1> HIDE DEF x, r
  <1>12. /\ seq' = [seq EXCEPT ![l] = x.seq] /\ kv' = [kv EXCEPT ![l] = x.kv]
         /\ req' = [req EXCEPT ![l] = r]
         /\ err' \subseteq err \cup {"unmapped"} /\ err' = err
    <2>1. PICK g : g = l
      OBVIOUS
    <2>2. Apply(l, x, r, g, st)
      BY <1>2, <2>1
    <2>3. Advancing(y, q, st)
      BY <1>9
    <2>4. /\ seq' = [seq EXCEPT ![l] = x.seq] /\ kv' = [kv EXCEPT ![l] = x.kv]
          /\ req' = [req EXCEPT ![l] = r]
          /\ err' \subseteq err \cup {"unmapped"} /\ ((Backend = "dflash" => g = l) => err' = err)
      BY <1>1, <1>11, <2>2, <2>3, ApplyFacts
    <2> QED BY <2>1, <2>4
  <1>13. LaneOK(engine, x.seq, r, x.kv) /\ x.kv = y.kv /\ x.kv \in Bundles
    BY <1>11 DEF Stepped, LaneOK
  <1>14. PagesFit'
    <2>1. kv'[l] = x.kv /\ \A m \in Lanes \ {l} : kv'[m] = kv[m]
      BY <1>1, <1>12
    <2>2. \A m \in Lanes : kv[m] \in Bundles /\ kv'[m] \in Bundles
      BY <1>1, <1>13, <2>1
    <2>3. kv'[l].text.ent = plan.text /\ kv'[l].backend.ent = plan.backend
      BY <1>9, <1>13, <2>1
    <2> QED BY <1>1, <1>2, <1>4, <1>10, <2>1, <2>2, <2>3, PagesAdmitted
  <1>15. frame' \in Lanes
    BY <1>1, <1>2
  <1> QED BY <1>2, <1>12, <1>13, <1>14, <1>15, LaneStep

-----------------------------------------------------------------------------
(***************************************************************************)
(* The theorems.                                                           *)
(***************************************************************************)

LEMMA NothingEntitled ==
    ASSUME NEW S, IsFiniteSet(S), NEW f, \A x \in S : f[x] = 0
    PROVE  SumOver(f, S) = 0
  <1> DEFINE Bad == {n \in Nat : \E s \in SUBSET S : Cardinality(s) = n /\ SumOver(f, s) # 0}
  <1>0. \A s \in SUBSET S : IsFiniteSet(s) /\ Cardinality(s) \in Nat
    BY FS_Subset, FS_CardinalityType
  <1>1. Bad = {}
    <2> SUFFICES ASSUME Bad # {} PROVE FALSE
      OBVIOUS
    <2>1. PICK m \in Bad : \A n \in Bad : m <= n
      BY LeastNatural
    <2>2. PICK s \in SUBSET S : Cardinality(s) = m /\ SumOver(f, s) # 0
      BY <2>1
    <2>3. IsFiniteSet(s) /\ Cardinality(s) \in Nat /\ \A x \in s : f[x] \in Nat
      BY <1>0
    <2>4. s # {}
      BY <2>2, <2>3, SumStep
    <2>5. PICK e \in s : TRUE
      BY <2>4
    <2> DEFINE t == s \ {e}
    <2>6. SumOver(f, s) = f[e] + SumOver(f, t)
      BY <2>3, <2>5, SumRemove
    <2>7. t \in SUBSET S /\ Cardinality(t) = m - 1 /\ Cardinality(t) \in Nat
      <3>1. Cardinality(t) = Cardinality(s) - 1
        BY <2>3, <2>5, FS_RemoveElement
      <3> QED BY <1>0, <2>2, <3>1
    <2>8. SumOver(f, t) = 0
      <3> HIDE DEF t
      <3> SUFFICES ASSUME SumOver(f, t) # 0 PROVE FALSE
        OBVIOUS
      <3>1. Cardinality(t) \in Bad
        BY <2>7
      <3>2. m <= Cardinality(t) /\ m \in Nat
        BY <2>1, <3>1
      <3> QED BY <2>7, <3>2
    <2> QED BY <2>2, <2>6, <2>8
  <1> QED BY <1>0, <1>1

LEMMA InitBooks == Init => BInv
  <1> SUFFICES ASSUME Init PROVE BInv
    OBVIOUS
  <1>1. engine \in Engines /\ frame = 0 /\ err = {}
    BY DEF Init
  <1>2. /\ seq = [l \in Lanes |-> NoSequence] /\ req = [l \in Lanes |-> NoRequest]
        /\ kv = [l \in Lanes |-> NoBundle]
    BY DEF Init
  <1>3. frame \in Lanes /\ IsFiniteSet(Lanes)
    BY <1>1, LanesFinite
  <1>4. NoRequest \in RequestRecords /\ NoRequest.life = "Empty" /\ NoRequest.work = 0
    BY NoRequestTyped
  <1>5. NoBundle \in Bundles /\ NoBundle.text.ent = 0 /\ NoBundle.backend.ent = 0
    BY DEF NoBundle, NoPages, Bundles, PageCounts
  <1>6. LaneOK(engine, NoSequence, NoRequest, NoBundle)
    <2>1. PICK l \in Lanes : l = 0
      BY <1>1, LanesFinite
    <2>2. IsView(View(l))
      BY ViewFacts
    <2> QED BY <2>2, ClearedLane, ClearedFacts
  <1>7. \A l \in Lanes : seq[l] = NoSequence /\ req[l] = NoRequest /\ kv[l] = NoBundle
    BY <1>2
  <1>8. /\ seq \in [Lanes -> SequenceRecords] /\ req \in [Lanes -> RequestRecords]
        /\ kv \in [Lanes -> Bundles]
    <2>1. NoSequence \in SequenceRecords
      BY <1>6 DEF LaneOK
    <2> QED BY <1>2, <1>4, <1>5, <2>1
  <1>9. \A l \in Lanes : LaneOK(engine, seq[l], req[l], kv[l])
    BY <1>6, <1>7
  <1>10. Alone
    BY <1>4, <1>7 DEF Alone
  <1>11. PagesFit
    <2> SUFFICES ASSUME NEW pool \in {"text", "backend"}
                 PROVE  SumOver(Entitlements(kv, pool), Lanes) <= PoolPages(pool)
      BY DEF PagesFit
    <2> DEFINE f == Entitlements(kv, pool)
    <2>1. \A m \in Lanes : f[m] = 0
      BY <1>5, <1>7, EntitlementFacts
    <2> HIDE DEF f
    <2>2. SumOver(f, Lanes) = 0
      BY <1>3, <2>1, NothingEntitled
    <2>3. PoolPages(pool) \in Nat
      BY <1>1, EngineFacts DEF PoolPages
    <2>4. SumOver(f, Lanes) <= PoolPages(pool)
      BY <2>2, <2>3
    <2> QED BY <2>4 DEF f
  <1>12. Errors
    BY <1>1 DEF Errors
  <1> QED BY <1>1, <1>3, <1>8, <1>9, <1>10, <1>11, <1>12 DEF BInv

LEMMA NextBooks == BInv /\ [Next]_vars => BInv'
  <1> SUFFICES ASSUME BInv, [Next]_vars PROVE BInv'
    OBVIOUS
  <1>1. CASE \E l \in Lanes, p \in Prompts, t \in Tokens : StartPrefillLane(l, p, t)
    BY <1>1, StartStep
  <1>2. CASE \E l \in Lanes, t \in Tokens : AdvancePrefillLane(l, t)
    BY <1>2, AdvanceStep
  <1>3. CASE \E l \in Lanes : ResolvePrefillLane(l) \/ AbortLane(l) \/ EvictRetainedLane(l)
    BY <1>3, ResolvePrefillStep, AbortStep, EvictStep
  <1>4. CASE DecodeBatch
    BY <1>4, DecodeStep
  <1>5. CASE ResolvePendingBatch
    BY <1>5, ResolveStep
  <1>6. CASE UNCHANGED vars
    BY <1>6 DEF vars, BInv, Alone, PagesFit, Errors, Lanes, Entitlements, PoolPages, TextPages,
                BackendPages
  <1> QED BY <1>1, <1>2, <1>3, <1>4, <1>5, <1>6 DEF Next

\* The book-keeping invariant of the Program: sequences, bundles and requests of every
\* lane agree in every phase of a request.
THEOREM BooksAgree == Spec => []BInv
  BY InitBooks, NextBooks, PTL DEF Spec

\* No internal check of the Program throws, for any engine and any prompts that
\* plan_request_base accepts.
THEOREM ProgramChecksHold == Spec => []ChecksHold
  <1>1. BInv => ChecksHold
    BY DEF BInv, Errors, ChecksHold
  <1> QED BY <1>1, BooksAgree, PTL

\* No kernel writes past the mapped pages, unless a DFlash engine has several lanes:
\* there the features of a later chunk go to the lane that the decode frame names.
THEOREM WritesAreMapped == Spec => [](FramesAgree(engine) => WritesMapped)
  <1>1. BInv => (FramesAgree(engine) => WritesMapped)
    BY DEF BInv, Errors, WritesMapped
  <1> QED BY <1>1, BooksAgree, PTL

\* What a lane holds by itself.
LEMMA LaneAccounts ==
    ASSUME engine \in Engines, NEW s, NEW r, NEW k, LaneOK(engine, s, r, k)
    PROVE  /\ k.text.map <= k.text.ent /\ k.backend.map <= k.backend.ent
           /\ s.retained => r.life = "Complete" /\ Rested(engine, s, r, k)
           /\ r.work >= 0
           /\ r.life \in {"Prefilling", "Active"} => r.work >= 1
  <1>1. /\ s \in SequenceRecords /\ r \in RequestRecords /\ k \in Bundles
        /\ r.life \in {"Empty", "Prefilling", "Pending", "Active", "Complete"}
        /\ r.budget \in Nat /\ r.work \in Int
    BY DEF LaneOK, RequestRecords
  <1>2. k.text.ent \in Nat /\ k.text.map \in Nat /\ k.backend.ent \in Nat /\ k.backend.map \in Nat
    BY <1>1, BundleFacts
  <1>3. CASE r.life = "Empty"
    <2>1. s = NoSequence /\ k = NoBundle /\ r.work = 0
      BY <1>3 DEF LaneOK
    <2>2. s.retained = FALSE /\ k.text.map = 0 /\ k.backend.map = 0
      BY <2>1 DEF NoSequence, NoBundle, NoPages
    <2> QED BY <1>2, <1>3, <2>1, <2>2
  <1>4. CASE r.life = "Prefilling"
    <2>1. Prefills(engine, s, r, k)
      BY <1>4 DEF LaneOK
    <2> DEFINE st == r.prefill
    <2>2. /\ StagedOK(engine, st) /\ st.cursor < Len(st.prompt.ids)
          /\ r.budget >= 1 /\ Holding(engine, s, k, Len(st.prompt.ids) + r.budget - 1)
          /\ r.work >= StepsLeft(engine, st) + r.budget - 1
      BY <2>1 DEF Prefills
    <2>3. ~s.retained /\ k.text.map <= k.text.ent /\ k.backend.map <= k.backend.ent
      BY <2>2 DEF Holding
    <2>4. StepsLeft(engine, st) \in Int /\ StepsLeft(engine, st) >= 1
      BY <2>2, StepsPositive
    <2> DEFINE c == StepsLeft(engine, st)
    <2> HIDE DEF c
    <2>5. c \in Int /\ c >= 1 /\ r.budget >= 1 /\ r.work >= c + r.budget - 1
      BY <2>2, <2>4 DEF c
    <2>6. r.work >= 1
      BY <1>1, <2>5
    <2> QED BY <1>1, <2>3, <2>6
  <1>5. CASE r.life = "Active"
    <2>1. Ready(engine, s, r, k)
      BY <1>5 DEF LaneOK
    <2>2. r.budget >= 1 /\ r.work >= r.budget /\ Holding(engine, s, k, s.E + r.budget)
      BY <2>1 DEF Ready
    <2>3. ~s.retained /\ k.text.map <= k.text.ent /\ k.backend.map <= k.backend.ent
      BY <2>2 DEF Holding
    <2> QED BY <1>1, <2>2, <2>3
  <1>6. CASE r.life = "Pending" /\ r.pending.kind = "begin"
    <2>1. Begun(engine, s, r, k)
      BY <1>6 DEF LaneOK
    <2>2. /\ r.budget >= 1 /\ r.work >= r.budget - 1
          /\ Holding(engine, s, k, r.pending.baseE + r.budget - 1)
      BY <2>1 DEF Begun
    <2>3. ~s.retained /\ k.text.map <= k.text.ent /\ k.backend.map <= k.backend.ent
      BY <2>2 DEF Holding
    <2> QED BY <1>1, <1>6, <2>2, <2>3
  <1>7. CASE r.life = "Pending" /\ r.pending.kind # "begin"
    <2>1. Rounded(engine, s, r, k)
      BY <1>7 DEF LaneOK
    <2>2. r.work >= r.budget /\ Holding(engine, s, k, s.E + r.budget)
      BY <2>1 DEF Rounded
    <2>3. ~s.retained /\ k.text.map <= k.text.ent /\ k.backend.map <= k.backend.ent
      BY <2>2 DEF Holding
    <2> QED BY <1>1, <1>7, <2>2, <2>3
  <1>8. CASE r.life = "Complete"
    <2>1. Rested(engine, s, r, k)
      BY <1>8 DEF LaneOK
    <2>2. /\ r.work >= 0 /\ k.text = [ent |-> PagesForTokens(s.E), map |-> PagesForTokens(s.E)]
          /\ k.backend = [ent |-> PagesForTokens(Behind(engine, s)),
                          map |-> PagesForTokens(Behind(engine, s))]
      BY <2>1 DEF Rested
    <2>3. k.text.map = k.text.ent /\ k.backend.map = k.backend.ent
      BY <2>2
    <2> QED BY <1>2, <1>8, <2>1, <2>2, <2>3
  <1> QED BY <1>1, <1>3, <1>4, <1>5, <1>6, <1>7, <1>8

\* No request runs out of the service work that was projected for it.
THEOREM WorkIsCovered == Spec => []WorkCovers
  <1>1. BInv => WorkCovers
    <2> SUFFICES ASSUME BInv, NEW l \in Lanes
                 PROVE  /\ req[l].work >= 0
                        /\ req[l].life \in {"Prefilling", "Active"} => req[l].work >= 1
      BY DEF WorkCovers
    <2>1. engine \in Engines /\ LaneOK(engine, seq[l], req[l], kv[l])
      BY DEF BInv
    <2> QED BY <2>1, LaneAccounts
  <1> QED BY <1>1, BooksAgree, PTL

\* All entitlements fit the pools, no lane maps more than it is entitled to, and a
\* retained lane keeps the pages of its frontier and nothing else.
THEOREM PagesAreAccounted == Spec => []PagesAccounted
  <1>1. BInv => PagesAccounted
    <2> SUFFICES ASSUME BInv PROVE PagesAccounted
      OBVIOUS
    <2>1. engine \in Engines /\ PagesFit /\ \A l \in Lanes : LaneOK(engine, seq[l], req[l], kv[l])
      BY DEF BInv
    <2>2. ASSUME NEW pool \in {"text", "backend"}
          PROVE  /\ MapThenSumSet(LAMBDA l : Entitlements(kv, pool)[l], Lanes) <= PoolPages(pool)
                 /\ \A l \in Lanes : kv[l][pool].map <= kv[l][pool].ent
      <3>1. SumOver(Entitlements(kv, pool), Lanes) <= PoolPages(pool)
        BY <2>1 DEF PagesFit
      <3>2. MapThenSumSet(LAMBDA l : Entitlements(kv, pool)[l], Lanes) <= PoolPages(pool)
        BY <3>1 DEF SumOver
      <3>3. \A l \in Lanes : /\ kv[l].text.map <= kv[l].text.ent
                             /\ kv[l].backend.map <= kv[l].backend.ent
        BY <2>1, LaneAccounts
      <3> QED BY <3>2, <3>3
    <2>3. ASSUME NEW l \in Lanes, seq[l].retained PROVE RetainedExact(l)
      <3> DEFINE s == seq[l]
                 k == kv[l]
      <3>1. s \in SequenceRecords /\ req[l].life = "Complete" /\ Rested(engine, s, req[l], k)
        BY <2>1, <2>3, LaneAccounts DEF LaneOK
      <3>2. /\ ~k.bound /\ Len(s.ledger) = s.E + 1
            /\ k.text = [ent |-> PagesForTokens(s.E), map |-> PagesForTokens(s.E)]
            /\ k.backend = [ent |-> PagesForTokens(Behind(engine, s)),
                            map |-> PagesForTokens(Behind(engine, s))]
        BY <3>1 DEF Rested
      <3>3. BackendValid(s) = Behind(engine, s)
        BY <2>1, <3>1, BehindFacts
      <3> QED BY <3>1, <3>2, <3>3 DEF RetainedExact
    <2> QED BY <2>2, <2>3 DEF PagesAccounted
  <1> QED BY <1>1, BooksAgree, PTL
=============================================================================
