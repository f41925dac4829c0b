---------------------------- MODULE ProgramSound ----------------------------
(***************************************************************************)
(* The contents of the lanes of the Program. ProgramProofs shows that the  *)
(* books of every lane agree: frontiers, pages, checkpoints and phases.    *)
(* This module shows that what the device holds under those books is       *)
(* right: the text cells, the recurrent state, the tail hidden vector, the *)
(* MTP columns, the DFlash contexts and the rewrite checkpoint are those   *)
(* of the columns that the lane's ledger and media items stand for.        *)
(*                                                                         *)
(* The invariant is CInv, on top of BInv. A lane between two units is      *)
(* Partial (a part of its prompt is computed) or Whole; a lane with a      *)
(* pending round is Whole one column further, or Provisional: everything   *)
(* but the recurrent state is that of the sequence with all tokens of the  *)
(* round, and the columns to advance the recurrent state by are at hand.   *)
(* The lemmas follow the life of a lane: what the helpers do to a device,  *)
(* clearing and resolving, a round, a chunk, the bridge, the last chunk    *)
(* and the first token, a new request on what the lane retained.           *)
(***************************************************************************)
EXTENDS ProgramProofs

\* The parts of a lane's device state.
DeviceFields == {"kv", "lin", "tail", "ckLin", "ckHid", "mtp", "full", "local", "ckLocal",
                 "features"}
Slots == 0 .. LocalCapacity - 1
IsDevice(d) ==
    /\ DOMAIN d = DeviceFields /\ d = [f \in DeviceFields |-> d[f]]
    /\ DOMAIN d.local = Slots /\ DOMAIN d.ckLocal = Slots

\* The first n text cells read the columns of s.
Cells(s, d, n) == \A i \in 1 .. n : d.kv[i].in = Column(s, i)

\* The first n MTP cells pair a column of s with the one after it.
Aligned(en, s, d, n) ==
    en.backend = "mtp" => \A i \in 1 .. n :
        d.mtp[i] = MtpCell(Feature(i, Column(s, i)), Column(s, i + 1))

\* The DFlash context holds the features of the first n columns, and the pending
\* features those of the columns from a + 1 to n.
Ring(s, cells, n) == \A i \in Recent(n) : cells[LocalSlot(i)] = Feature(i, Column(s, i))
InContext(en, s, d, n) ==
    en.backend = "dflash" /\ en.lanes = 1 =>
        /\ \A i \in 1 .. n : d.full[i] = Feature(i, Column(s, i))
        /\ Ring(s, d.local, n)
Waiting(en, s, d, a, n) ==
    en.backend = "dflash" => \A i \in a + 1 .. n : d.features[i - a] = Feature(i, Column(s, i))

\* The checkpoint's device state is that of the first n columns.
Saved(en, s, d, n) ==
    n # 0 => /\ d.ckLin = History(s, n) /\ d.ckHid = History(s, n)
             /\ en.backend = "dflash" /\ en.lanes = 1 => Ring(s, d.ckLocal, n)

\* No media item reaches past column n.
ItemsEnd(s, n) == \A k \in DOMAIN s.items : s.items[k].last <= n

\* All of it, for a lane that has computed n columns of s.
Whole(en, s, d, n) ==
    /\ Cells(s, d, n) /\ d.lin = History(s, n) /\ d.tail = History(s, n)
    /\ Aligned(en, s, d, n) /\ InContext(en, s, d, s.dctx) /\ Waiting(en, s, d, s.dctx, n)
    /\ Saved(en, s, d, s.ckpt.at) /\ ItemsEnd(s, n)

\* A part of a prompt has been computed; the checkpoint may have been captured.
Partial(en, s, st, d) ==
    /\ Cells(s, d, st.cursor) /\ d.lin = History(s, st.cursor)
    /\ Aligned(en, s, d, st.cursor) /\ InContext(en, s, d, st.cursor)
    /\ Saved(en, s, d, s.ckpt.at)
    /\ st.capture.at <= st.cursor => Saved(en, s, d, st.capture.at)
    /\ st.capture.at # 0 => s.ckpt.at = 0
    /\ s.items = st.prompt.items

\* The sequence that a round would leave behind if all of its tokens were kept.
Licensed(s, tokens) == [s EXCEPT !.ledger = @ \o tokens]

\* A speculative round has been computed: everything but the recurrent state is that of
\* the licensed sequence, and the columns of the round are at hand to advance it.
Provisional(en, s, pending, d) ==
    LET m == Len(pending.tokens)
        t == Licensed(s, pending.tokens)
    IN /\ Cells(t, d, s.E + m) /\ d.lin = History(t, s.E) /\ d.tail = History(t, s.E + m)
       /\ Aligned(en, t, d, s.E + m) /\ InContext(en, t, d, s.E)
       /\ Waiting(en, t, d, s.E, s.E + m)
       /\ Saved(en, t, d, s.ckpt.at) /\ ItemsEnd(s, s.E)
       /\ m <= Len(pending.columns)
       /\ \A j \in 1 .. m : pending.columns[j] = Column(t, s.E + j)

LaneSound(en, s, r, d) ==
    /\ IsDevice(d)
    /\ r.life = "Prefilling" => Partial(en, s, r.prefill, d)
    /\ r.life = "Pending" /\ r.pending.kind = "begin" => Whole(en, s, d, r.pending.baseE)
    /\ r.life = "Pending" /\ r.pending.kind = "ordinary" => Whole(en, s, d, s.E + 1)
    /\ r.life = "Pending" /\ r.pending.kind = "speculative" => Provisional(en, s, r.pending, d)
    /\ r.life \in {"Active", "Complete"} => Whole(en, s, d, s.E)

CInv ==
    /\ dev = [l \in Lanes |-> dev[l]]
    /\ \A l \in Lanes : LaneSound(engine, seq[l], req[l], dev[l])

-----------------------------------------------------------------------------
(***************************************************************************)
(* Columns and histories.                                                  *)
(***************************************************************************)

\* A column stands for a name.
LEMMA ColumnTyped ==
    ASSUME NEW s \in SequenceRecords, NEW i \in Nat, i >= 1, i <= Len(s.ledger)
    PROVE  Column(s, i) \in STRING
  <1>1. s.ledger \in Seq(STRING) /\ s.items \in Seq(Items)
    BY DEF SequenceRecords
  <1>2. s.ledger[i] \in STRING
    BY <1>1
  <1>3. CASE Visual(s.items, i)
    <2> DEFINE k == CHOOSE j \in DOMAIN s.items : Covers(s.items[j], i)
    <2>1. k \in DOMAIN s.items
      BY <1>3 DEF Visual
    <2> HIDE DEF k
    <2>2. s.items[k] \in Items
      BY <1>1, <2>1
    <2>3. s.items[k].content \in STRING
      BY <2>2 DEF Items
    <2> QED BY <1>3, <2>3 DEF Column, Meaning, k
  <1> QED BY <1>2, <1>3 DEF Column, Meaning

LEMMA HistoryFacts ==
    ASSUME NEW s \in SequenceRecords, NEW n \in Nat, n <= Len(s.ledger)
    PROVE  /\ History(s, n) \in Seq(STRING) /\ Len(History(s, n)) = n
           /\ \A i \in 1 .. n : History(s, n)[i] = Column(s, i)
  <1>1. s.ledger \in Seq(STRING)
    BY DEF SequenceRecords
  <1>2. \A i \in 1 .. n : Column(s, i) \in STRING
    BY <1>1, ColumnTyped
  <1> QED BY <1>2 DEF History

\* Two sequences stand for the same columns up to n.
SameColumns(s, t, n) == \A i \in 1 .. n : Column(s, i) = Column(t, i)

LEMMA SameHistory ==
    ASSUME NEW s, NEW t, NEW m \in Nat, SameColumns(s, t, m), NEW n \in Nat, n <= m
    PROVE  History(s, n) = History(t, n)
  BY DEF SameColumns, History

\* A history grows by the columns that follow it.
LEMMA HistoryGrows ==
    ASSUME NEW s \in SequenceRecords, NEW n \in Nat, NEW m \in Nat, n + m <= Len(s.ledger),
           NEW c \in Seq(STRING), Len(c) = m, \A j \in 1 .. m : c[j] = Column(s, n + j)
    PROVE  History(s, n) \o c = History(s, n + m)
  <1> DEFINE h == History(s, n)
             g == History(s, n + m)
  <1>1. Len(s.ledger) \in Nat
    BY DEF SequenceRecords
  <1>2. h \in Seq(STRING) /\ Len(h) = n /\ \A i \in 1 .. n : h[i] = Column(s, i)
    BY <1>1, HistoryFacts
  <1>3. g \in Seq(STRING) /\ Len(g) = n + m /\ \A i \in 1 .. n + m : g[i] = Column(s, i)
    BY <1>1, HistoryFacts
  <1> HIDE DEF h, g
  <1>4. h \o c \in Seq(STRING) /\ Len(h \o c) = n + m
    BY <1>2, Joined
  <1>5. \A i \in 1 .. n + m : (h \o c)[i] = g[i]
    <2> SUFFICES ASSUME NEW i \in 1 .. n + m PROVE (h \o c)[i] = g[i]
      OBVIOUS
    <2>1. CASE i <= n
      BY <1>2, <1>3, <2>1
    <2>2. CASE i > n
      <3>1. i - n \in 1 .. m /\ (h \o c)[i] = c[i - n]
        BY <1>2, <2>2
      <3>2. c[i - n] = Column(s, n + (i - n))
        BY <3>1
      <3>3. n + (i - n) = i
        OBVIOUS
      <3> QED BY <1>3, <3>1, <3>2, <3>3
    <2>3. i <= n \/ i > n
      OBVIOUS
    <2> QED BY <2>1, <2>2, <2>3
  <1>6. h \o c = g
    BY <1>3, <1>4, <1>5, SeqEqual
  <1> QED BY <1>6 DEF h, g

\* The first columns of a round.
LEMMA PartOf ==
    ASSUME NEW T, NEW c \in Seq(T), NEW n \in Nat, n <= Len(c)
    PROVE  /\ SubSeq(c, 1, n) \in Seq(T) /\ Len(SubSeq(c, 1, n)) = n
           /\ \A j \in 1 .. n : SubSeq(c, 1, n)[j] = c[j]
  OBVIOUS

\* A column that no item covers stands for its token.
LEMMA PlainColumn ==
    ASSUME NEW s, NEW i, ~Visual(s.items, i)
    PROVE  Column(s, i) = s.ledger[i]
  BY DEF Column, Meaning

\* No item covers a column past the end of all items.
LEMMA NotVisual ==
    ASSUME NEW items \in Seq(Items), NEW n \in Nat, \A k \in DOMAIN items : items[k].last <= n,
           NEW i \in Nat, i > n
    PROVE  ~Visual(items, i)
  <1> SUFFICES ASSUME NEW k \in DOMAIN items, Covers(items[k], i) PROVE FALSE
    BY DEF Visual
  <1>1. items[k] \in Items
    OBVIOUS
  <1>2. items[k].last \in Nat /\ items[k].last <= n /\ i <= items[k].last
    BY <1>1 DEF Items, Covers
  <1> QED BY <1>2

\* A column stands for the content of the one item that covers it.
LEMMA TheItem ==
    ASSUME NEW ids, NEW items, NEW i, NEW k \in DOMAIN items, Covers(items[k], i),
           \A j \in DOMAIN items : Covers(items[j], i) => j = k
    PROVE  Meaning(ids, items, i) = items[k].content
  <1> DEFINE c == CHOOSE j \in DOMAIN items : Covers(items[j], i)
  <1>1. c \in DOMAIN items /\ Covers(items[c], i)
    OBVIOUS
  <1>2. c = k
    BY <1>1
  <1>3. Visual(items, i)
    BY DEF Visual
  <1> QED BY <1>2, <1>3 DEF Meaning

\* The columns of an item, and where a chunk first needs it.
LEMMA ItemColumns ==
    ASSUME engine \in Engines, NEW p \in Prompts, NEW k \in DOMAIN p.items
    PROVE  /\ p.items[k].first \in Nat /\ p.items[k].last \in Nat
           /\ 1 <= p.items[k].first /\ p.items[k].first <= p.items[k].last
           /\ p.items[k].last <= Len(p.ids)
           /\ UseBegin(Backend, p.items[k]) = IF Backend # "mtp" THEN p.items[k].first - 1
                                              ELSE IF p.items[k].first >= 2
                                              THEN p.items[k].first - 2 ELSE 0
  <1>1. p.items \in Seq(Items) /\ Accepted(engine, p) /\ Backend = engine.backend
    BY PromptFacts, EngineFacts
  <1> DEFINE i == p.items[k]
             d == i.first - 1 - (IF Backend = "mtp" THEN 1 ELSE 0)
  <1>2. i \in Items
    BY <1>1
  <1>3. i.first <= i.last /\ i.last <= Len(p.ids)
    BY <1>1 DEF Accepted
  <1>4. i.first \in Nat /\ i.first >= 1 /\ i.last \in Nat
    BY <1>2 DEF Items
  <1>5. UseBegin(Backend, i) = Max({0, d})
    BY DEF UseBegin
  <1> HIDE DEF i
  <1>6. d \in Int /\ 0 \in Int
    BY <1>4
  <1>7. Max({0, d}) = IF 0 <= d THEN d ELSE 0
    <2> HIDE DEF d
    <2> QED BY <1>6, TwoNumbers
  <1> QED BY <1>3, <1>4, <1>5, <1>7 DEF i

\* The items of a prompt do not overlap.
LEMMA OneItem ==
    ASSUME engine \in Engines, NEW p \in Prompts, NEW i \in Nat,
           NEW j \in DOMAIN p.items, NEW k \in DOMAIN p.items,
           Covers(p.items[j], i), Covers(p.items[k], i)
    PROVE  j = k
  <1>1. ASSUME NEW a \in DOMAIN p.items, NEW b \in DOMAIN p.items, a < b,
               Covers(p.items[a], i), Covers(p.items[b], i)
        PROVE  FALSE
    <2>1. p.items[a].last <= UseBegin(Backend, p.items[b])
      BY <1>1, ItemsOrdered
    <2>2. /\ p.items[b].first \in Nat /\ 1 <= p.items[b].first /\ p.items[a].last \in Nat
          /\ UseBegin(Backend, p.items[b]) = IF Backend # "mtp" THEN p.items[b].first - 1
                                             ELSE IF p.items[b].first >= 2
                                             THEN p.items[b].first - 2 ELSE 0
      BY ItemColumns
    <2>3. i <= p.items[a].last /\ p.items[b].first <= i
      BY <1>1 DEF Covers
    <2> QED BY <2>1, <2>2, <2>3
  <1>2. j \in Nat /\ k \in Nat
    BY ItemFacts
  <1> QED BY <1>1, <1>2

\* A prefix that matches stands for the same columns: an item that covers one of them
\* lies inside the prefix and is the same item in both sequences.
LEMMA PrefixColumns ==
    ASSUME engine \in Engines, NEW p \in Prompts, NEW s, NEW n \in Nat, PrefixMatches(p, s, n),
           s.items \in Seq(Items), NEW i \in 1 .. n
    PROVE  Meaning(p.ids, p.items, i) = Column(s, i)
  <1>1. /\ p.ids[i] = s.ledger[i] /\ Visual(p.items, i) = Visual(s.items, i)
        /\ ~SplitsAnItem(p.items, n) /\ ~SplitsAnItem(s.items, n)
        /\ ItemsWithin(p.items, n) = ItemsWithin(s.items, n)
        /\ \A k \in ItemsWithin(p.items, n) : p.items[k] = s.items[k]
    BY DEF PrefixMatches
  <1>2. CASE ~Visual(p.items, i)
    BY <1>1, <1>2 DEF Column, Meaning
  <1>3. CASE Visual(p.items, i)
    <2>1. PICK k \in DOMAIN p.items : Covers(p.items[k], i)
      BY <1>3 DEF Visual
    <2>2. \A j \in DOMAIN p.items : Covers(p.items[j], i) => j = k
      <3>1. i \in Nat
        OBVIOUS
      <3> QED BY <2>1, <3>1, OneItem
    <2>3. Meaning(p.ids, p.items, i) = p.items[k].content
      BY <2>1, <2>2, TheItem
    <2>4. k \in ItemsWithin(p.items, n)
      <3>1. /\ p.items[k].first \in Nat /\ p.items[k].last \in Nat /\ p.items[k].first <= i
        BY <2>1, ItemColumns DEF Covers
      <3>2. ~(p.items[k].first <= n /\ n < p.items[k].last)
        BY <1>1, <2>1 DEF SplitsAnItem
      <3> QED BY <2>1, <3>1, <3>2 DEF ItemsWithin
    <2>5. k \in DOMAIN s.items /\ p.items[k] = s.items[k]
      BY <1>1, <2>4 DEF ItemsWithin
    <2>6. ASSUME NEW j \in DOMAIN s.items, Covers(s.items[j], i)
          PROVE  j = k
      <3>1. s.items[j] \in Items
        OBVIOUS
      <3>2. s.items[j].first \in Nat /\ s.items[j].last \in Nat /\ s.items[j].first <= i
        BY <2>6, <3>1 DEF Items, Covers
      <3>3. ~(s.items[j].first <= n /\ n < s.items[j].last)
        BY <1>1, <2>6 DEF SplitsAnItem
      <3>4. j \in ItemsWithin(s.items, n)
        BY <2>6, <3>2, <3>3 DEF ItemsWithin
      <3>5. j \in DOMAIN p.items /\ p.items[j] = s.items[j]
        BY <1>1, <3>4 DEF ItemsWithin
      <3> QED BY <2>2, <2>6, <3>5
    <2>7. Meaning(s.ledger, s.items, i) = s.items[k].content
      <3>1. Covers(s.items[k], i)
        BY <2>1, <2>5
      <3> QED BY <2>5, <2>6, <3>1, TheItem
    <2> QED BY <2>3, <2>5, <2>7 DEF Column
  <1> QED BY <1>2, <1>3

\* What a chunk embeds at a column if no item covers it but the one that is encoded.
LEMMA EmbeddedColumn ==
    ASSUME engine \in Engines, NEW p \in Prompts, NEW item \in Nat,
           item # 0 => item \in DOMAIN p.items,
           NEW i \in Nat, \A k \in DOMAIN p.items : Covers(p.items[k], i) => k = item
    PROVE  Embedded(p, item, i) = Meaning(p.ids, p.items, i)
  <1>1. CASE Visual(p.items, i)
    <2>1. PICK k \in DOMAIN p.items : Covers(p.items[k], i)
      BY <1>1 DEF Visual
    <2>2. k = item /\ k # 0
      BY <2>1, ItemFacts
    <2>3. Meaning(p.ids, p.items, i) = p.items[k].content
      BY <2>1, <2>2, TheItem
    <2> QED BY <2>1, <2>2, <2>3 DEF Embedded
  <1>2. CASE ~Visual(p.items, i)
    <2>1. ~(item # 0 /\ Covers(p.items[item], i))
      BY <1>2 DEF Visual
    <2> QED BY <1>2, <2>1 DEF Embedded, Meaning
  <1> QED BY <1>1, <1>2

\* The columns of a chunk, and with the MTP head the one after it, need no item but the
\* one the chunk encodes.
LEMMA ChunkItem ==
    ASSUME engine \in Engines, NEW st, StagedOK(engine, st), st.cursor < Len(st.prompt.ids),
           NEW i \in Nat, i > st.cursor,
           i <= ChunkEnd(st) \/ (Backend = "mtp" /\ i = ChunkEnd(st) + 1),
           NEW k \in DOMAIN st.prompt.items, Covers(st.prompt.items[k], i)
    PROVE  k = ActiveItem(st, st.cursor, ChunkLimit(st))
  <1> DEFINE limit == ChunkLimit(st)
             cursor == st.cursor
             uses == UsesOf(st, cursor, limit)
             item == ActiveItem(st, cursor, limit)
             later == uses \ {item}
             e == ChunkEnd(st)
             begin(j) == UseBegin(Backend, st.prompt.items[j])
             first(j) == st.prompt.items[j].first
             last(j) == st.prompt.items[j].last
  <1>1. /\ limit \in Nat /\ cursor \in Nat /\ e \in Nat /\ cursor < e /\ e <= limit
        /\ st.base \in Nat /\ st.base <= cursor
    BY LimitFacts, StagedNumbers, CutFacts
  <1>2. /\ st.prompt \in Prompts
        /\ st.uses \subseteq DOMAIN st.prompt.items /\ DOMAIN st.prompt.items \subseteq Nat
        /\ st.uses = VisionUses(st.prompt, st.base)
    BY StagedNumbers DEF StagedOK
  <1>3. \A j \in DOMAIN st.prompt.items :
            /\ first(j) \in Nat /\ last(j) \in Nat /\ 1 <= first(j) /\ begin(j) \in Nat
            /\ begin(j) < last(j)
            /\ begin(j) = IF Backend # "mtp" THEN first(j) - 1
                          ELSE IF first(j) >= 2 THEN first(j) - 2 ELSE 0
    BY <1>2, ItemColumns, ItemFacts
  <1>4. \A a, b \in DOMAIN st.prompt.items : a < b => last(a) <= begin(b)
    BY <1>2, ItemsOrdered
  <1>5. /\ uses = {j \in st.uses : last(j) > cursor /\ begin(j) < limit}
        /\ item = IF uses = {} THEN 0 ELSE Min(uses)
        /\ e = IF later = {} THEN limit ELSE Min({limit, begin(Min(later))})
    BY DEF UsesOf, ActiveItem, CutAtNextUse, ChunkEnd
  <1>6. first(k) <= i /\ i <= last(k) /\ i > cursor /\ (i <= e \/ (Backend = "mtp" /\ i = e + 1))
    BY DEF Covers
  <1>7. st.uses = {j \in DOMAIN st.prompt.items : last(j) > st.base}
    BY <1>2 DEF VisionUses
  <1> HIDE DEF limit, cursor, uses, item, e, begin, first, last
  <1>8. k \in uses
    <2>1. last(k) > cursor /\ last(k) > st.base
      BY <1>1, <1>3, <1>6
    <2>2. begin(k) < limit
      BY <1>1, <1>3, <1>6
    <2> QED BY <1>5, <1>7, <2>1, <2>2
  <1> SUFFICES ASSUME k # item PROVE FALSE
    BY DEF item, cursor, limit
  <1> DEFINE m == Min(later)
             u == begin(m)
  <1>9. later \subseteq Nat /\ k \in later
    BY <1>2, <1>5, <1>8
  <1>10. m \in later /\ m <= k
    BY <1>9, LeastNumber
  <1> HIDE DEF m
  <1>11. m \in DOMAIN st.prompt.items
    BY <1>2, <1>5, <1>10
  <1>12. u <= begin(k)
    <2>1. CASE m = k
      BY <1>3, <2>1
    <2>2. CASE m # k
      <3>1. m < k
        BY <1>2, <1>10, <1>11, <2>2
      <3>2. last(m) <= begin(k) /\ begin(m) < last(m) /\ begin(m) \in Nat /\ last(m) \in Nat
            /\ begin(k) \in Nat
        BY <1>3, <1>4, <1>11, <3>1
      <3> QED BY <3>2
    <2> QED BY <2>1, <2>2
  <1>13. e = Min({limit, u})
    BY <1>5, <1>9 DEF m
  <1>14. u \in Nat
    BY <1>3, <1>11
  <1> HIDE DEF u
  <1>15. e = IF limit <= u THEN limit ELSE u
    BY <1>1, <1>13, <1>14, TwoNumbers
  <1>16. e <= u
    BY <1>1, <1>14, <1>15
  <1> QED BY <1>1, <1>3, <1>6, <1>12, <1>14, <1>16

\* The bridge reads one column after the reused ones.
LEMMA BridgeItem ==
    ASSUME engine \in Engines, NEW st, StagedOK(engine, st), Backend = "mtp",
           NEW k \in DOMAIN st.prompt.items, Covers(st.prompt.items[k], st.base + 1)
    PROVE  k = ActiveItem(st, st.base, st.base + 1)
  <1> DEFINE base == st.base
             uses == UsesOf(st, base, base + 1)
             item == ActiveItem(st, base, base + 1)
             begin(j) == UseBegin(Backend, st.prompt.items[j])
             first(j) == st.prompt.items[j].first
             last(j) == st.prompt.items[j].last
  <1>1. /\ st.prompt \in Prompts /\ base \in Nat /\ DOMAIN st.prompt.items \subseteq Nat
        /\ st.uses = VisionUses(st.prompt, base)
    BY StagedNumbers DEF StagedOK
  <1>2. \A j \in DOMAIN st.prompt.items :
            /\ first(j) \in Nat /\ last(j) \in Nat /\ 1 <= first(j) /\ begin(j) \in Nat
            /\ begin(j) = IF first(j) >= 2 THEN first(j) - 2 ELSE 0
    BY <1>1, ItemColumns, ItemFacts
  <1>3. \A a, b \in DOMAIN st.prompt.items : a < b => last(a) <= begin(b)
    BY <1>1, ItemsOrdered
  <1>4. /\ uses = {j \in st.uses : last(j) > base /\ begin(j) < base + 1}
        /\ item = IF uses = {} THEN 0 ELSE Min(uses)
    BY DEF UsesOf, ActiveItem
  <1>5. first(k) <= base + 1 /\ base + 1 <= last(k)
    BY DEF Covers
  <1>6. st.uses = {j \in DOMAIN st.prompt.items : last(j) > base}
    BY <1>1 DEF VisionUses
  <1> HIDE DEF base, uses, item, begin, first, last
  <1>7. k \in uses
    BY <1>1, <1>2, <1>4, <1>5, <1>6
  <1>8. uses \subseteq Nat /\ \A j \in uses : j \in DOMAIN st.prompt.items
    BY <1>1, <1>4, <1>6
  <1>9. item \in uses /\ item <= k
    BY <1>4, <1>7, <1>8, LeastNumber
  <1> SUFFICES ASSUME item # k PROVE FALSE
    BY DEF item, base
  <1>10. item < k /\ item \in DOMAIN st.prompt.items
    BY <1>7, <1>8, <1>9
  <1>11. last(item) <= begin(k) /\ last(item) > base
    BY <1>3, <1>4, <1>9, <1>10
  <1> QED BY <1>1, <1>2, <1>5, <1>10, <1>11

-----------------------------------------------------------------------------
(***************************************************************************)
(* What the helpers do to the device.                                      *)
(***************************************************************************)

\* Only the parts F of the device may have changed.
OnlyIn(F, d, e) == IsDevice(e) /\ \A f \in DeviceFields \ F : e[f] = d[f]

\* The text cells up to n and the cells of the backend up to b are still there.
CutTo(d, e, n, b) ==
    /\ OnlyIn({"kv", "mtp", "full"}, d, e)
    /\ \A i \in 1 .. n : e.kv[i] = d.kv[i]
    /\ \A i \in 1 .. b : e.mtp[i] = d.mtp[i] /\ e.full[i] = d.full[i]

\* The same sequence, and a bundle again.
SameSequence(x, y) == IsView(y) /\ y.seq = x.seq /\ y.kv \in Bundles

LEMMA WithPagesDevice ==
    ASSUME NEW d, IsDevice(d), NEW k
    PROVE  /\ OnlyIn({"kv", "mtp", "full"}, d, WithPages(d, k))
           /\ WithPages(d, k).kv = LostAfter(d.kv, Mapped(k.text), LostCell)
           /\ WithPages(d, k).mtp = LostAfter(d.mtp, Mapped(k.backend), LostMtp)
           /\ WithPages(d, k).full = LostAfter(d.full, Mapped(k.backend), LostFeature)
  <1> DEFINE a == LostAfter(d.kv, Mapped(k.text), LostCell)
             b == LostAfter(d.mtp, Mapped(k.backend), LostMtp)
             c == LostAfter(d.full, Mapped(k.backend), LostFeature)
             e == [d EXCEPT !.kv = a, !.mtp = b, !.full = c]
  <1>1. WithPages(d, k) = e
    BY DEF WithPages
  <1> HIDE DEF a, b, c
  <1>2. OnlyIn({"kv", "mtp", "full"}, d, e) /\ e.kv = a /\ e.mtp = b /\ e.full = c
    BY DEF OnlyIn, IsDevice, DeviceFields
  <1> QED BY <1>1, <1>2 DEF a, b, c

LEMMA RequireDevice ==
    ASSUME NEW x, IsView(x), NEW condition
    PROVE  LET y == Require(x, condition)
           IN IsView(y) /\ y.seq = x.seq /\ y.kv = x.kv /\ y.dev = x.dev
  BY DEF Require, IsView, ViewFields

LEMMA NeedMappedDevice ==
    ASSUME NEW x, IsView(x), NEW pool, NEW n
    PROVE  LET y == NeedMapped(x, pool, n)
           IN IsView(y) /\ y.seq = x.seq /\ y.kv = x.kv /\ y.dev = x.dev
  BY DEF NeedMapped, IsView, ViewFields

LEMMA MaterializeDevice ==
    ASSUME NEW x, IsView(x), x.kv \in Bundles, NEW n \in Nat, NEW b \in Nat
    PROVE  LET y == Materialize(x, n, b)
           IN SameSequence(x, y) /\ y.dev = x.dev
  <1> DEFINE text == Max({x.kv.text.map, PagesForTokens(n)})
             backend == Max({x.kv.backend.map, PagesForTokens(b)})
             k == [x.kv EXCEPT !.text.map = text, !.backend.map = backend]
             z == [x EXCEPT !.kv = k]
             c == /\ x.kv.held /\ n <= Capacity /\ b <= Capacity
                  /\ text <= x.kv.text.ent /\ backend <= x.kv.backend.ent
             y == Require(z, c)
  <1>1. Materialize(x, n, b) = y
    BY DEF Materialize
  <1>2. text \in Nat /\ backend \in Nat
    <2>1. /\ x.kv.text.map \in Nat /\ x.kv.backend.map \in Nat
          /\ PagesForTokens(n) \in Nat /\ PagesForTokens(b) \in Nat
      BY BundleFacts, PagesFacts
    <2>2. \A i, j \in Nat : Max({i, j}) \in Nat
      BY TwoNumbers
    <2> QED BY <2>1, <2>2
  <1> HIDE DEF text, backend
  <1>3. k \in Bundles
    BY <1>2, PageUpdates DEF BundleIs
  <1> HIDE DEF k, c
  <1>4. IsView(z) /\ z.seq = x.seq /\ z.kv = k /\ z.dev = x.dev
    BY DEF IsView, ViewFields
  <1> HIDE DEF z
  <1>5. IsView(y) /\ y.seq = z.seq /\ y.kv = z.kv /\ y.dev = z.dev
    BY <1>4, RequireDevice
  <1> QED BY <1>1, <1>3, <1>4, <1>5 DEF SameSequence

LEMMA EntitledDevice ==
    ASSUME NEW x, IsView(x), x.kv \in Bundles, NEW l, NEW plan, plan.text \in Nat,
           plan.backend \in Nat
    PROVE  LET y == Entitled(x, l, plan)
           IN SameSequence(x, y) /\ y.dev = x.dev
  <1> DEFINE a == plan.text
             b == plan.backend
             k == [x.kv EXCEPT !.held = TRUE, !.text.ent = a, !.backend.ent = b]
             z == [x EXCEPT !.kv = k]
             c == /\ CanAdmitWith(kv, l, plan)
                  /\ z.kv.text.map <= plan.text /\ z.kv.backend.map <= plan.backend
             y == Require(z, c)
  <1>1. Entitled(x, l, plan) = y
    BY DEF Entitled
  <1> HIDE DEF a, b
  <1>3. k \in Bundles
    BY PageUpdates DEF BundleIs, a, b
  <1> HIDE DEF k, c
  <1>4. IsView(z) /\ z.seq = x.seq /\ z.kv = k /\ z.dev = x.dev
    BY DEF IsView, ViewFields
  <1> HIDE DEF z
  <1>5. IsView(y) /\ y.seq = z.seq /\ y.kv = z.kv /\ y.dev = z.dev
    BY <1>4, RequireDevice
  <1> QED BY <1>1, <1>3, <1>4, <1>5 DEF SameSequence

LEMMA BindDevice ==
    ASSUME NEW x, IsView(x), x.kv \in Bundles
    PROVE  LET y == Bind(x)
           IN SameSequence(x, y) /\ y.dev = x.dev
  <1> DEFINE k == [x.kv EXCEPT !.bound = TRUE]
             z == [x EXCEPT !.kv = k]
             c == x.kv.held /\ ~x.kv.bound
             y == Require(z, c)
  <1>1. Bind(x) = y
    BY DEF Bind, IsView, ViewFields
  <1>3. k \in Bundles
    BY BoundUpdate DEF BundleIs
  <1> HIDE DEF k, c
  <1>4. IsView(z) /\ z.seq = x.seq /\ z.kv = k /\ z.dev = x.dev
    BY DEF IsView, ViewFields
  <1> HIDE DEF z
  <1>5. IsView(y) /\ y.seq = z.seq /\ y.kv = z.kv /\ y.dev = z.dev
    BY <1>4, RequireDevice
  <1> QED BY <1>1, <1>3, <1>4, <1>5 DEF SameSequence

LEMMA TrimDevice ==
    ASSUME engine \in Engines, NEW x, IsView(x), x.kv \in Bundles, IsDevice(x.dev),
           NEW n \in Nat, NEW b \in Nat, n <= Capacity, b <= Capacity
    PROVE  LET y == Trim(x, n, b)
           IN SameSequence(x, y) /\ CutTo(x.dev, y.dev, n, b)
  <1> DEFINE p == PagesForTokens(n)
             q == PagesForTokens(b)
             k == [x.kv EXCEPT !.text.map = p, !.backend.map = q]
             e == WithPages(x.dev, k)
             z == [x EXCEPT !.kv = k, !.dev = e]
             c == /\ x.kv.held /\ n <= Capacity /\ b <= n
                  /\ k.text.map <= x.kv.text.map /\ k.backend.map <= x.kv.backend.map
             y == Require(z, c)
  <1>1. Trim(x, n, b) = y
    BY DEF Trim
  <1>2. p \in Nat /\ q \in Nat
    BY PagesFacts
  <1> HIDE DEF p, q
  <1>3. k \in Bundles /\ k.text.map = p /\ k.backend.map = q
    BY <1>2 DEF Bundles, PageCounts
  <1> HIDE DEF k
  <1>4. n <= Mapped(k.text) /\ b <= Mapped(k.backend) /\ Mapped(k.text) \in Nat /\ Mapped(k.backend) \in Nat
    <2>1. k.text \in PageCounts /\ k.backend \in PageCounts
      BY <1>3, BundleFacts
    <2>2. PagesForTokens(n) <= k.text.map /\ PagesForTokens(b) <= k.backend.map
      BY <1>2, <1>3 DEF p, q
    <2>3. k.text.map * PageSize \in Nat /\ k.backend.map * PageSize \in Nat
      BY <1>2, <1>3, PlanAssumption
    <2> QED BY <2>1, <2>2, <2>3, MappedFacts DEF Mapped
  <1>5. CutTo(x.dev, e, n, b)
    <2> DEFINE mt == Mapped(k.text)
               mb == Mapped(k.backend)
    <2>1. /\ OnlyIn({"kv", "mtp", "full"}, x.dev, e)
          /\ e.kv = LostAfter(x.dev.kv, mt, LostCell)
          /\ e.mtp = LostAfter(x.dev.mtp, mb, LostMtp)
          /\ e.full = LostAfter(x.dev.full, mb, LostFeature)
      BY WithPagesDevice
    <2>2. Capacity \in Nat
      BY EngineFacts
    <2>3. mt \in Nat /\ mb \in Nat /\ n <= mt /\ b <= mb
      BY <1>4
    <2> HIDE DEF mt, mb, e
    <2>4. \A i \in 1 .. n : e.kv[i] = x.dev.kv[i]
      BY <2>1, <2>2, <2>3 DEF LostAfter
    <2>5. \A i \in 1 .. b : e.mtp[i] = x.dev.mtp[i] /\ e.full[i] = x.dev.full[i]
      BY <2>1, <2>2, <2>3 DEF LostAfter
    <2> QED BY <2>1, <2>4, <2>5 DEF CutTo
  <1> HIDE DEF e, c
  <1>6. IsView(z) /\ z.seq = x.seq /\ z.kv = k /\ z.dev = e
    BY DEF IsView, ViewFields
  <1> HIDE DEF z
  <1>7. IsView(y) /\ y.seq = z.seq /\ y.kv = z.kv /\ y.dev = z.dev
    BY <1>6, RequireDevice
  <1> QED BY <1>1, <1>3, <1>5, <1>6, <1>7 DEF SameSequence

LEMMA TrimToValidDevice ==
    ASSUME engine \in Engines, NEW x, IsView(x), x.kv \in Bundles, IsDevice(x.dev),
           x.seq \in SequenceRecords, x.seq.textValid <= Capacity,
           Behind(engine, x.seq) <= Capacity
    PROVE  LET y == TrimToValid(x)
           IN SameSequence(x, y) /\ CutTo(x.dev, y.dev, x.seq.textValid, Behind(engine, x.seq))
  <1> DEFINE n == x.seq.textValid
             b == BackendValid(x.seq)
  <1>1. n \in Nat /\ b \in Nat /\ b = Behind(engine, x.seq)
    BY BehindFacts DEF SequenceRecords
  <1>2. TrimToValid(x) = Trim(x, n, b) /\ n <= Capacity /\ b <= Capacity
    BY <1>1 DEF TrimToValid
  <1> HIDE DEF n, b
  <1>3. LET y == Trim(x, n, b)
        IN SameSequence(x, y) /\ CutTo(x.dev, y.dev, n, b)
    BY <1>1, <1>2, TrimDevice
  <1> QED BY <1>1, <1>2, <1>3 DEF n

LEMMA RetainDevice ==
    ASSUME NEW x, IsView(x), x.kv \in Bundles
    PROVE  LET y == Retain(x)
           IN /\ IsView(y) /\ y.dev = x.dev
              /\ y.seq = [x.seq EXCEPT !.retained = TRUE, !.drafts = 0]
  <1> DEFINE k == [x.kv EXCEPT !.text.ent = x.kv.text.map, !.backend.ent = x.kv.backend.map,
                               !.bound = FALSE]
             s == [x.seq EXCEPT !.retained = TRUE, !.drafts = 0]
             y == [x EXCEPT !.kv = k, !.seq = s]
  <1>1. Retain(x) = y
    BY DEF Retain
  <1> HIDE DEF k, s
  <1>2. IsView(y) /\ y.dev = x.dev /\ y.seq = s
    BY DEF IsView, ViewFields
  <1> QED BY <1>1, <1>2 DEF s

LEMMA ClearedDevice ==
    ASSUME NEW x, IsView(x), IsDevice(x.dev)
    PROVE  IsDevice(Cleared(x).dev)
  <1> DEFINE d == WithPages(x.dev, NoBundle)
             y == [x EXCEPT !.seq = NoSequence, !.kv = NoBundle, !.dev = d]
  <1>1. Cleared(x) = y /\ IsDevice(d)
    BY WithPagesDevice DEF Cleared, OnlyIn
  <1> HIDE DEF d
  <1>2. y.dev = d
    BY DEF IsView, ViewFields
  <1> QED BY <1>1, <1>2

LEMMA WriteTextDevice ==
    ASSUME NEW x, IsView(x), IsDevice(x.dev), NEW last, NEW cells
    PROVE  LET y == WriteText(x, last, cells)
           IN /\ IsView(y) /\ y.seq = x.seq /\ y.kv = x.kv
              /\ OnlyIn({"kv"}, x.dev, y.dev) /\ y.dev.kv = Over(x.dev.kv, cells)
  <1> DEFINE a == Over(x.dev.kv, cells)
             e == [x.dev EXCEPT !.kv = a]
             z == [x EXCEPT !.dev = e]
             y == NeedMapped(z, "text", last)
  <1>1. WriteText(x, last, cells) = y
    BY DEF WriteText, IsView, ViewFields
  <1> HIDE DEF a
  <1>2. OnlyIn({"kv"}, x.dev, e) /\ e.kv = a
    BY DEF OnlyIn, IsDevice, DeviceFields
  <1> HIDE DEF e
  <1>3. IsView(z) /\ z.seq = x.seq /\ z.kv = x.kv /\ z.dev = e
    BY DEF IsView, ViewFields
  <1> HIDE DEF z
  <1>4. IsView(y) /\ y.seq = z.seq /\ y.kv = z.kv /\ y.dev = z.dev
    BY <1>3, NeedMappedDevice
  <1> QED BY <1>1, <1>2, <1>3, <1>4 DEF a

LEMMA WriteMtpDevice ==
    ASSUME NEW x, IsView(x), IsDevice(x.dev), NEW last, NEW cells
    PROVE  LET y == WriteMtp(x, last, cells)
           IN /\ IsView(y) /\ y.seq = x.seq /\ y.kv = x.kv
              /\ OnlyIn({"mtp"}, x.dev, y.dev) /\ y.dev.mtp = Over(x.dev.mtp, cells)
  <1> DEFINE a == Over(x.dev.mtp, cells)
             e == [x.dev EXCEPT !.mtp = a]
             z == [x EXCEPT !.dev = e]
             y == NeedMapped(z, "backend", last)
  <1>1. WriteMtp(x, last, cells) = y
    BY DEF WriteMtp, IsView, ViewFields
  <1> HIDE DEF a
  <1>2. OnlyIn({"mtp"}, x.dev, e) /\ e.mtp = a
    BY DEF OnlyIn, IsDevice, DeviceFields
  <1> HIDE DEF e
  <1>3. IsView(z) /\ z.seq = x.seq /\ z.kv = x.kv /\ z.dev = e
    BY DEF IsView, ViewFields
  <1> HIDE DEF z
  <1>4. IsView(y) /\ y.seq = z.seq /\ y.kv = z.kv /\ y.dev = z.dev
    BY <1>3, NeedMappedDevice
  <1> QED BY <1>1, <1>2, <1>3, <1>4 DEF a

\* The cyclic context after an append.
Turned(local, features) ==
    [c \in DOMAIN local |-> IF {i \in DOMAIN features : LocalSlot(i) = c} = {} THEN local[c]
                            ELSE features[Max({i \in DOMAIN features : LocalSlot(i) = c})]]

LEMMA AppendDevice ==
    ASSUME NEW x, IsView(x), IsDevice(x.dev), NEW last, NEW features
    PROVE  LET y == AppendContext(x, last, features)
           IN /\ IsView(y) /\ y.seq = x.seq /\ y.kv = x.kv
              /\ OnlyIn({"full", "local"}, x.dev, y.dev)
              /\ y.dev.full = Over(x.dev.full, features)
              /\ y.dev.local = Turned(x.dev.local, features)
  <1> DEFINE a == Over(x.dev.full, features)
             b == Turned(x.dev.local, features)
             e == [x.dev EXCEPT !.full = a, !.local = b]
             z == [x EXCEPT !.dev = e]
             y == NeedMapped(z, "backend", last)
  <1>0. z = [x EXCEPT !.dev.full = a, !.dev.local = b]
    <2> HIDE DEF a, b
    <2> QED BY DEF IsView, ViewFields, IsDevice, DeviceFields
  <1>1. AppendContext(x, last, features) = y
    BY <1>0 DEF AppendContext, Turned
  <1>5. DOMAIN b = DOMAIN x.dev.local
    BY DEF Turned
  <1> HIDE DEF a, b
  <1>2. OnlyIn({"full", "local"}, x.dev, e) /\ e.full = a /\ e.local = b
    BY <1>5 DEF OnlyIn, IsDevice, DeviceFields
  <1> HIDE DEF e
  <1>3. IsView(z) /\ z.seq = x.seq /\ z.kv = x.kv /\ z.dev = e
    BY DEF IsView, ViewFields
  <1> HIDE DEF z
  <1>4. IsView(y) /\ y.seq = z.seq /\ y.kv = z.kv /\ y.dev = z.dev
    BY <1>3, NeedMappedDevice
  <1> QED BY <1>1, <1>2, <1>3, <1>4 DEF a, b

-----------------------------------------------------------------------------
(***************************************************************************)
(* What a lane holds of a sequence, from one device state and one sequence *)
(* to another.                                                             *)
(***************************************************************************)

\* The sequence stands for the same columns.
LEMMA MoveCells ==
    ASSUME NEW s, NEW t, NEW m \in Nat, SameColumns(s, t, m), NEW n \in Nat, n <= m, NEW d,
           Cells(s, d, n)
    PROVE  Cells(t, d, n)
  BY DEF Cells, SameColumns

LEMMA MoveAligned ==
    ASSUME NEW en, NEW s, NEW t, NEW m \in Nat, SameColumns(s, t, m), NEW n \in Nat,
           n = 0 \/ n < m, NEW d, Aligned(en, s, d, n)
    PROVE  Aligned(en, t, d, n)
  <1> SUFFICES ASSUME en.backend = "mtp", NEW i \in 1 .. n
               PROVE  d.mtp[i] = MtpCell(Feature(i, Column(t, i)), Column(t, i + 1))
    BY DEF Aligned
  <1>1. i \in 1 .. m /\ i + 1 \in 1 .. m
    OBVIOUS
  <1>2. Column(s, i) = Column(t, i) /\ Column(s, i + 1) = Column(t, i + 1)
    BY <1>1 DEF SameColumns
  <1> QED BY <1>2 DEF Aligned

LEMMA MoveContext ==
    ASSUME NEW en, NEW s, NEW t, NEW m \in Nat, SameColumns(s, t, m), NEW n \in Nat,
           n <= m, NEW d, InContext(en, s, d, n)
    PROVE  InContext(en, t, d, n)
  <1>1. \A i \in 1 .. n : Column(s, i) = Column(t, i)
    BY DEF SameColumns
  <1> QED BY <1>1 DEF InContext, Ring, Recent

LEMMA MoveWaiting ==
    ASSUME NEW en, NEW s, NEW t, NEW m \in Nat, SameColumns(s, t, m), NEW n \in Nat,
           n <= m, NEW a \in Nat, NEW d, Waiting(en, s, d, a, n)
    PROVE  Waiting(en, t, d, a, n)
  <1>1. \A i \in a + 1 .. n : Column(s, i) = Column(t, i)
    BY DEF SameColumns
  <1> QED BY <1>1 DEF Waiting

LEMMA MoveSaved ==
    ASSUME NEW en, NEW s, NEW t, NEW m \in Nat, SameColumns(s, t, m), NEW n \in Nat,
           n <= m, NEW d, Saved(en, s, d, n)
    PROVE  Saved(en, t, d, n)
  <1>1. \A i \in 1 .. n : Column(s, i) = Column(t, i)
    BY DEF SameColumns
  <1>2. History(s, n) = History(t, n)
    BY SameHistory
  <1> QED BY <1>1, <1>2 DEF Saved, Ring, Recent

\* The cells are still there.
LEMMA CutCells ==
    ASSUME NEW s, NEW d, NEW e, NEW n \in Nat, NEW b, CutTo(d, e, n, b), NEW m \in Nat, m <= n,
           NEW c \in Nat, m <= c, Cells(s, d, c)
    PROVE  Cells(s, e, m)
  BY DEF Cells, CutTo

LEMMA CutAligned ==
    ASSUME NEW en, NEW s, NEW d, NEW e, NEW n, NEW b \in Nat, CutTo(d, e, n, b),
           NEW m \in Nat, m <= b, NEW c \in Nat, m <= c, Aligned(en, s, d, c)
    PROVE  Aligned(en, s, e, m)
  BY DEF Aligned, CutTo

LEMMA OtherParts ==
    ASSUME NEW d, NEW e, NEW F, OnlyIn(F, d, e)
    PROVE  /\ "lin" \notin F => e.lin = d.lin
           /\ "tail" \notin F => e.tail = d.tail
           /\ "kv" \notin F => e.kv = d.kv
           /\ "mtp" \notin F => e.mtp = d.mtp
           /\ "ckLin" \notin F => e.ckLin = d.ckLin
           /\ "ckHid" \notin F => e.ckHid = d.ckHid
           /\ "full" \notin F => e.full = d.full
           /\ "local" \notin F => e.local = d.local
           /\ "ckLocal" \notin F => e.ckLocal = d.ckLocal
           /\ "features" \notin F => e.features = d.features
           /\ IsDevice(e)
  BY DEF OnlyIn, DeviceFields

LEMMA CutParts ==
    ASSUME NEW d, NEW e, NEW n, NEW b, CutTo(d, e, n, b)
    PROVE  /\ e.lin = d.lin /\ e.tail = d.tail /\ e.ckLin = d.ckLin /\ e.ckHid = d.ckHid
           /\ e.local = d.local /\ e.ckLocal = d.ckLocal /\ e.features = d.features
           /\ IsDevice(e)
  BY DEF CutTo, OnlyIn, DeviceFields

LEMMA CutContext ==
    ASSUME NEW en, NEW s, NEW d, NEW e, NEW n, NEW b \in Nat, CutTo(d, e, n, b),
           NEW m \in Nat, m <= b, InContext(en, s, d, m)
    PROVE  InContext(en, s, e, m)
  <1>1. e.local = d.local
    BY CutParts
  <1>2. \A i \in 1 .. m : e.full[i] = d.full[i]
    BY DEF CutTo
  <1> QED BY <1>1, <1>2 DEF InContext

\* The parts that a predicate reads are the same.
LEMMA SameSaved ==
    ASSUME NEW en, NEW s, NEW d, NEW e, NEW n, e.ckLin = d.ckLin, e.ckHid = d.ckHid,
           e.ckLocal = d.ckLocal, Saved(en, s, d, n)
    PROVE  Saved(en, s, e, n)
  BY DEF Saved

LEMMA SameContext ==
    ASSUME NEW en, NEW s, NEW d, NEW e, NEW n, e.full = d.full, e.local = d.local,
           InContext(en, s, d, n)
    PROVE  InContext(en, s, e, n)
  BY DEF InContext

LEMMA SameWaiting ==
    ASSUME NEW en, NEW s, NEW d, NEW e, NEW a, NEW n, e.features = d.features,
           Waiting(en, s, d, a, n)
    PROVE  Waiting(en, s, e, a, n)
  BY DEF Waiting

LEMMA SameAligned ==
    ASSUME NEW en, NEW s, NEW d, NEW e, NEW n, e.mtp = d.mtp, Aligned(en, s, d, n)
    PROVE  Aligned(en, s, e, n)
  BY DEF Aligned

LEMMA SameCells ==
    ASSUME NEW s, NEW d, NEW e, NEW n, e.kv = d.kv, Cells(s, d, n)
    PROVE  Cells(s, e, n)
  BY DEF Cells

\* New cells follow the ones that are there.
LEMMA CellsWritten ==
    ASSUME engine \in Engines, NEW s, NEW d, NEW e, NEW a \in Nat, NEW b \in Nat, a <= b,
           b <= Capacity, NEW new, e.kv = Over(d.kv, new), Cells(s, d, a),
           \A i \in 1 .. a : i \notin DOMAIN new,
           \A i \in a + 1 .. b : i \in DOMAIN new /\ new[i].in = Column(s, i)
    PROVE  Cells(s, e, b)
  <1> SUFFICES ASSUME NEW i \in 1 .. b PROVE e.kv[i].in = Column(s, i)
    BY DEF Cells
  <1>1. i \in 1 .. Capacity
    BY EngineFacts
  <1>2. e.kv[i] = IF i \in DOMAIN new THEN new[i] ELSE d.kv[i]
    BY <1>1 DEF Over
  <1>3. i \in 1 .. a \/ i \in a + 1 .. b
    OBVIOUS
  <1> QED BY <1>2, <1>3 DEF Cells

LEMMA AlignedWritten ==
    ASSUME engine \in Engines, NEW en, NEW s, NEW d, NEW e, NEW a \in Nat, NEW b \in Nat, a <= b,
           b <= Capacity, NEW new, e.mtp = Over(d.mtp, new), Aligned(en, s, d, a),
           \A i \in 1 .. a : i \notin DOMAIN new,
           \A i \in a + 1 .. b :
               /\ i \in DOMAIN new
               /\ new[i] = MtpCell(Feature(i, Column(s, i)), Column(s, i + 1))
    PROVE  Aligned(en, s, e, b)
  <1> SUFFICES ASSUME en.backend = "mtp", NEW i \in 1 .. b
               PROVE  e.mtp[i] = MtpCell(Feature(i, Column(s, i)), Column(s, i + 1))
    BY DEF Aligned
  <1>1. i \in 1 .. Capacity
    BY EngineFacts
  <1>2. e.mtp[i] = IF i \in DOMAIN new THEN new[i] ELSE d.mtp[i]
    BY <1>1 DEF Over
  <1>3. i \in 1 .. a \/ i \in a + 1 .. b
    OBVIOUS
  <1> QED BY <1>2, <1>3 DEF Aligned

LEMMA Remainder ==
    ASSUME NEW a \in Nat, NEW d \in Nat \ {0}, NEW p, p = a \div d, NEW r, r = a % d
    PROVE  p \in Int /\ r \in Int /\ a = d * p + r
  OBVIOUS

\* Two columns that share a slot are a whole turn apart.
LEMMA SlotsApart ==
    ASSUME NEW i \in Nat \ {0}, NEW j \in Nat \ {0}, i < j, LocalSlot(i) = LocalSlot(j)
    PROVE  i + LocalCapacity <= j
  <1> DEFINE c == LocalCapacity
             p == (i - 1) \div c
             q == (j - 1) \div c
             r == (i - 1) % c
  <1>1. c \in Nat \ {0} /\ i - 1 \in Nat /\ j - 1 \in Nat
    BY ProgramAssumption
  <1> HIDE DEF c
  <1>2. (j - 1) % c = r
    BY DEF LocalSlot, c
  <1>3. p = (i - 1) \div c /\ q = (j - 1) \div c /\ r = (i - 1) % c
    OBVIOUS
  <1> HIDE DEF p, q, r
  <1>4. p \in Int /\ r \in Int /\ i - 1 = c * p + r
    BY <1>1, <1>3, Remainder
  <1>5. q \in Int /\ j - 1 = c * q + r
    <2>1. PICK a : a = j - 1
      OBVIOUS
    <2>2. a \in Nat /\ q = a \div c /\ r = a % c
      BY <1>1, <1>2, <1>3, <2>1
    <2>3. q \in Int /\ a = c * q + r
      <3>1. c \in Nat \ {0}
        BY <1>1
      <3>2. q \in Int /\ r \in Int
        BY <1>4, <2>2, <3>1
      <3>3. a = c * q + r
        BY <2>2, <3>1
      <3> QED BY <3>2, <3>3
    <2> QED BY <2>1, <2>3
  <1>6. c * p < c * q
    BY <1>1, <1>4, <1>5
  <1>7. p < q
    <2> SUFFICES ASSUME q <= p PROVE FALSE
      BY <1>4, <1>5
    <2>1. c * q <= c * p
      BY <1>1, <1>4, <1>5
    <2>2. c * q \in Int /\ c * p \in Int
      BY <1>1, <1>4, <1>5
    <2> QED BY <1>6, <2>1, <2>2
  <1>8. c * p + c <= c * q
    <2>1. c * (p + 1) <= c * q
      BY <1>1, <1>4, <1>5, <1>7
    <2>2. c * (p + 1) = c * p + c
      BY <1>1, <1>4
    <2> QED BY <2>1, <2>2
  <1>9. c * p \in Int /\ c * q \in Int
    BY <1>1, <1>4, <1>5
  <1>10. i + c <= j
    BY <1>1, <1>4, <1>5, <1>8, <1>9
  <1> QED BY <1>10 DEF c

LEMMA SlotTyped ==
    ASSUME NEW i \in Nat \ {0}
    PROVE  LocalSlot(i) \in Slots
  BY ProgramAssumption DEF LocalSlot, Slots

\* An append keeps the newest columns in the cyclic context.
LEMMA RingTurned ==
    ASSUME NEW s, NEW local, DOMAIN local = Slots, NEW a \in Nat, NEW b \in Nat, a <= b,
           NEW new, DOMAIN new = a + 1 .. b,
           \A i \in a + 1 .. b : new[i] = Feature(i, Column(s, i)),
           Ring(s, local, a)
    PROVE  Ring(s, Turned(local, new), b)
  <1> SUFFICES ASSUME NEW i \in Recent(b)
               PROVE  Turned(local, new)[LocalSlot(i)] = Feature(i, Column(s, i))
    BY DEF Ring
  <1> DEFINE c == LocalSlot(i)
             newest == {j \in DOMAIN new : LocalSlot(j) = c}
  <1>1. i \in Nat \ {0} /\ i <= b /\ i > b - LocalCapacity /\ LocalCapacity \in Nat
    BY ProgramAssumption DEF Recent
  <1>2. c \in DOMAIN local
    BY <1>1, SlotTyped
  <1>3. Turned(local, new)[c] = IF newest = {} THEN local[c] ELSE new[Max(newest)]
    BY <1>2 DEF Turned
  <1>4. \A j \in newest : j \in a + 1 .. b /\ LocalSlot(j) = LocalSlot(i)
    OBVIOUS
  <1>5. \A j \in newest : j <= i
    <2> SUFFICES ASSUME NEW j \in newest, i < j PROVE FALSE
      BY <1>1, <1>4
    <2>1. j \in Nat \ {0} /\ j <= b /\ LocalSlot(i) = LocalSlot(j)
      BY <1>4
    <2>2. i + LocalCapacity <= j
      BY <1>1, <2>1, SlotsApart
    <2> QED BY <1>1, <2>1, <2>2
  <1>6. CASE i > a
    <2>1. i \in newest
      BY <1>1, <1>6
    <2>2. newest \in SUBSET (0 .. b)
      BY <1>4
    <2> HIDE DEF newest
    <2>3. Max(newest) \in newest /\ \A j \in newest : j <= Max(newest)
      BY <2>1, <2>2, LargestNumber
    <2>4. Max(newest) = i
      <3>1. i <= Max(newest) /\ Max(newest) <= i
        BY <1>5, <2>1, <2>3
      <3>2. \A j \in newest : j \in Int
        BY <1>4 DEF newest
      <3> QED BY <1>1, <2>3, <3>1, <3>2
    <2> QED BY <1>1, <1>3, <1>6, <2>1, <2>4
  <1>7. CASE i <= a
    <2>1. newest = {}
      BY <1>1, <1>4, <1>5, <1>7
    <2>2. i \in Recent(a)
      BY <1>1, <1>7 DEF Recent
    <2> QED BY <1>3, <2>1, <2>2 DEF Ring
  <1>8. i <= a \/ i > a
    BY <1>1
  <1> QED BY <1>6, <1>7, <1>8

LEMMA ContextAppended ==
    ASSUME engine \in Engines, NEW en, NEW s, NEW d, NEW e, IsDevice(d),
           NEW a \in Nat, NEW b \in Nat, a <= b, b <= Capacity,
           NEW new, DOMAIN new = a + 1 .. b,
           en.backend = "dflash" => \A i \in a + 1 .. b : new[i] = Feature(i, Column(s, i)),
           e.full = Over(d.full, new), e.local = Turned(d.local, new),
           InContext(en, s, d, a)
    PROVE  InContext(en, s, e, b)
  <1> SUFFICES ASSUME en.backend = "dflash", en.lanes = 1
               PROVE  /\ \A i \in 1 .. b : e.full[i] = Feature(i, Column(s, i))
                      /\ Ring(s, e.local, b)
    BY DEF InContext
  <1>1. /\ \A i \in 1 .. a : d.full[i] = Feature(i, Column(s, i))
        /\ Ring(s, d.local, a)
    BY DEF InContext
  <1>2. Ring(s, e.local, b)
    BY <1>1, RingTurned DEF IsDevice
  <1>3. ASSUME NEW i \in 1 .. b
        PROVE  e.full[i] = Feature(i, Column(s, i))
    <2>1. i \in 1 .. Capacity
      BY EngineFacts
    <2>2. e.full[i] = IF i \in DOMAIN new THEN new[i] ELSE d.full[i]
      BY <2>1 DEF Over
    <2>3. i \in 1 .. a \/ i \in a + 1 .. b
      OBVIOUS
    <2> QED BY <1>1, <2>2, <2>3
  <1> QED BY <1>2, <1>3

-----------------------------------------------------------------------------
(***************************************************************************)
(* Steps that clear or resolve.                                            *)
(***************************************************************************)

\* The fields of a sequence.
LEMMA SequenceFacts ==
    ASSUME NEW s \in SequenceRecords
    PROVE  /\ s.E \in Nat /\ s.S \in Nat /\ s.textValid \in Nat /\ s.mtpValid \in Nat
           /\ s.dctx \in Nat /\ s.drafts \in Nat /\ s.ckpt \in Checkpoints /\ s.ckpt.at \in Nat
           /\ s.ledger \in Seq(STRING) /\ Len(s.ledger) \in Nat /\ s.items \in Seq(Items)
  <1>1. /\ s.E \in Nat /\ s.S \in Nat /\ s.textValid \in Nat /\ s.mtpValid \in Nat
        /\ s.dctx \in Nat /\ s.drafts \in Nat /\ s.ckpt \in Checkpoints
        /\ s.ledger \in Seq(STRING) /\ s.items \in Seq(Items)
    BY DEF SequenceRecords
  <1>2. s.ckpt.at \in Nat
    BY <1>1 DEF Checkpoints, NoCkpt
  <1> QED BY <1>1, <1>2

\* An idle lane only has device cells of the right shape.
LEMMA IdleSound ==
    ASSUME NEW en, NEW s, NEW d, IsDevice(d)
    PROVE  LaneSound(en, s, NoRequest, d)
  <1>1. NoRequest.life = "Empty"
    BY NoRequestTyped
  <1> QED BY <1>1 DEF LaneSound

\* A lane whose frontier has been computed.
LEMMA WholeSound ==
    ASSUME NEW en, NEW s, NEW r, NEW d, IsDevice(d), r.life \in {"Active", "Complete"},
           Whole(en, s, d, s.E)
    PROVE  LaneSound(en, s, r, d)
  BY DEF LaneSound

LEMMA BatchContents ==
    ASSUME BInv, CInv, engine' = engine, NEW rows \in SUBSET Lanes, NEW x, NEW r,
           \A l \in rows : Kept(l, x[l], r[l]),
           \A l \in rows : LaneSound(engine, x[l].seq, r[l], x[l].dev),
           ApplyBatch(rows, x, r)
    PROVE  CInv'
  <1> DEFINE bad == UNION {x[l].bad : l \in rows}
             y == [l \in rows |-> IF bad = {} THEN x[l] ELSE Cleared(x[l])]
  <1>1. bad = {}
    BY DEF Kept
  <1>2. /\ seq' = [l \in Lanes |-> IF l \in rows THEN y[l].seq ELSE seq[l]]
        /\ dev' = [l \in Lanes |-> IF l \in rows THEN y[l].dev ELSE dev[l]]
    BY DEF ApplyBatch
  <1>3. req' = [l \in Lanes |-> CASE l \notin rows -> req[l]
                                  [] l \in rows /\ bad = {} -> r[l]
                                  [] OTHER -> NoRequest]
    BY DEF ApplyBatch
  <1> HIDE DEF bad
  <1>4. \A l \in rows : y[l] = x[l]
    BY <1>1
  <1> HIDE DEF y
  <1>5. \A m \in Lanes : /\ seq'[m] = IF m \in rows THEN x[m].seq ELSE seq[m]
                         /\ dev'[m] = IF m \in rows THEN x[m].dev ELSE dev[m]
                         /\ req'[m] = IF m \in rows THEN r[m] ELSE req[m]
    BY <1>1, <1>2, <1>3, <1>4
  <1>6. \A m \in Lanes : LaneSound(engine, seq[m], req[m], dev[m])
    BY DEF CInv
  <1>7. \A m \in Lanes : LaneSound(engine, seq'[m], req'[m], dev'[m])
    BY <1>5, <1>6
  <1>8. Lanes' = Lanes
    BY DEF Lanes
  <1>9. dev' = [m \in Lanes |-> dev'[m]]
    BY <1>2
  <1> QED BY <1>7, <1>8, <1>9 DEF CInv

LEMMA ClearContents ==
    ASSUME BInv, CInv, NEW l \in Lanes, engine' = engine,
           ApplyBatch({l}, [m \in {l} |-> Cleared(View(l))], [m \in {l} |-> NoRequest])
    PROVE  CInv'
  <1> DEFINE x == [m \in {l} |-> Cleared(View(l))]
             r == [m \in {l} |-> NoRequest]
             rows == {l}
  <1>1. kv[l] \in Bundles /\ IsDevice(dev[l])
    BY DEF BInv, CInv, LaneSound
  <1>2. x[l] = Cleared(View(l)) /\ r[l] = NoRequest
    OBVIOUS
  <1>3. \A m \in rows : Kept(m, x[m], r[m])
    BY <1>1, <1>2, ClearedKept
  <1>4. IsDevice(x[l].dev)
    BY <1>1, <1>2, ViewFacts, ClearedDevice
  <1>5. rows \in SUBSET Lanes /\ ApplyBatch(rows, x, r)
    OBVIOUS
  <1> HIDE DEF x, r
  <1>6. \A m \in rows : LaneSound(engine, x[m].seq, r[m], x[m].dev)
    BY <1>2, <1>4, IdleSound
  <1> HIDE DEF rows
  <1> QED BY <1>3, <1>5, <1>6, BatchContents

\* A trim takes nothing that a lane needs.
LEMMA WholeCut ==
    ASSUME NEW en, NEW s, NEW t, NEW d, NEW e, NEW n \in Nat, NEW b \in Nat,
           Whole(en, s, d, n), CutTo(d, e, n, b),
           t.ledger = s.ledger, t.items = s.items, t.dctx = s.dctx, t.ckpt = s.ckpt,
           s.ckpt.at \in Nat, s.dctx \in Nat,
           en.backend = "mtp" => n <= b, en.backend = "dflash" => s.dctx <= b
    PROVE  Whole(en, t, e, n)
  <1>1. \A i : Column(s, i) = Column(t, i)
    BY DEF Column
  <1>2. \A m : SameColumns(s, t, m) /\ SameColumns(s, t, n + 1) /\ SameColumns(s, t, n)
    BY <1>1 DEF SameColumns
  <1>3. /\ e.lin = d.lin /\ e.tail = d.tail /\ e.ckLin = d.ckLin /\ e.ckHid = d.ckHid
        /\ e.ckLocal = d.ckLocal /\ e.features = d.features
    BY CutParts
  <1>4. /\ Cells(s, d, n) /\ d.lin = History(s, n) /\ d.tail = History(s, n)
        /\ Aligned(en, s, d, n) /\ InContext(en, s, d, s.dctx)
        /\ Waiting(en, s, d, s.dctx, n) /\ Saved(en, s, d, s.ckpt.at) /\ ItemsEnd(s, n)
    BY DEF Whole
  <1>5. Cells(t, e, n)
    <2>1. n <= n
      OBVIOUS
    <2>2. Cells(s, e, n)
      BY <1>4, <2>1, CutCells
    <2> QED BY <1>2, <2>1, <2>2, MoveCells
  <1>6. History(s, n) = History(t, n)
    BY <1>2, SameHistory
  <1>7. Aligned(en, t, e, n)
    <2>1. CASE en.backend = "mtp"
      <3>1. n <= n /\ n <= b /\ n < n + 1 /\ n + 1 \in Nat
        BY <2>1
      <3>2. Aligned(en, s, e, n)
        BY <1>4, <3>1, CutAligned
      <3> QED BY <1>2, <3>1, <3>2, MoveAligned
    <2>2. CASE en.backend # "mtp"
      BY <2>2 DEF Aligned
    <2> QED BY <2>1, <2>2
  <1>8. InContext(en, t, e, t.dctx)
    <2>1. CASE en.backend = "dflash"
      <3>1. s.dctx <= s.dctx /\ s.dctx <= b
        BY <2>1
      <3>2. InContext(en, s, e, s.dctx)
        BY <1>4, <3>1, CutContext
      <3>3. SameColumns(s, t, s.dctx)
        BY <1>2
      <3> QED BY <3>1, <3>2, <3>3, MoveContext
    <2>2. CASE en.backend # "dflash"
      BY <2>2 DEF InContext
    <2> QED BY <2>1, <2>2
  <1>9. Waiting(en, t, e, t.dctx, n)
    <2>1. n <= n
      OBVIOUS
    <2>2. Waiting(en, s, e, s.dctx, n)
      BY <1>3, <1>4, SameWaiting
    <2> QED BY <1>2, <2>1, <2>2, MoveWaiting
  <1>10. Saved(en, t, e, t.ckpt.at)
    <2>1. Saved(en, s, e, s.ckpt.at)
      BY <1>3, <1>4, SameSaved
    <2>2. s.ckpt.at <= s.ckpt.at /\ SameColumns(s, t, s.ckpt.at)
      BY <1>2
    <2> QED BY <2>1, <2>2, MoveSaved
  <1>11. ItemsEnd(t, n)
    BY <1>4 DEF ItemsEnd
  <1> QED BY <1>3, <1>4, <1>5, <1>6, <1>7, <1>8, <1>9, <1>10, <1>11 DEF Whole

\* The lane after a decision: trimmed, and retained if it ended.
LEMMA SettledContents ==
    ASSUME engine \in Engines, NEW x, IsView(x), x.kv \in Bundles, IsDevice(x.dev),
           x.seq \in SequenceRecords, NEW n \in Nat, n <= Capacity, x.seq.E = n,
           x.seq.textValid = n, Behind(engine, x.seq) <= Capacity,
           Backend = "mtp" => x.seq.mtpValid = n, Whole(engine, x.seq, x.dev, n),
           NEW r, r.life \in {"Active", "Complete"}
    PROVE  /\ LaneSound(engine, TrimToValid(x).seq, r, TrimToValid(x).dev)
           /\ LaneSound(engine, Retain(TrimToValid(x)).seq, r, Retain(TrimToValid(x)).dev)
  <1> DEFINE y == TrimToValid(x)
             z == Retain(y)
             b == Behind(engine, x.seq)
             s == x.seq
  <1>1. SameSequence(x, y) /\ CutTo(x.dev, y.dev, n, b)
    BY TrimToValidDevice
  <1>2. /\ b \in Nat /\ (Backend = "mtp" => n <= b) /\ (Backend = "dflash" => s.dctx <= b)
        /\ Backend = engine.backend
    <2>1. /\ b \in Nat /\ (Backend = "mtp" => b = s.mtpValid)
          /\ (Backend = "dflash" => b = s.dctx)
      BY BehindFacts
    <2>2. Backend = engine.backend
      BY EngineFacts
    <2> HIDE DEF b
    <2> QED BY <2>1, <2>2
  <1>3. s.ckpt.at \in Nat /\ s.dctx \in Nat
    BY SequenceFacts
  <1>4. IsView(y) /\ y.seq = s /\ y.kv \in Bundles
    BY <1>1 DEF SameSequence
  <1> HIDE DEF y
  <1>5. IsView(z) /\ z.dev = y.dev /\ z.seq = [y.seq EXCEPT !.retained = TRUE, !.drafts = 0]
    BY <1>4, RetainDevice
  <1>6. z.seq = [s EXCEPT !.retained = TRUE, !.drafts = 0]
    BY <1>4, <1>5
  <1> HIDE DEF z, b, s
  <1>7. /\ z.seq.ledger = s.ledger /\ z.seq.items = s.items /\ z.seq.dctx = s.dctx
        /\ z.seq.ckpt = s.ckpt /\ z.seq.E = s.E
    <2>1. s \in SequenceRecords
      BY DEF s
    <2> QED BY <1>6, <2>1 DEF SequenceRecords
  <1>8. Whole(engine, s, x.dev, n) /\ s.E = n
    BY DEF s
  <1>9. Whole(engine, y.seq, y.dev, n)
    <2>1. /\ y.seq.ledger = s.ledger /\ y.seq.items = s.items /\ y.seq.dctx = s.dctx
          /\ y.seq.ckpt = s.ckpt
      BY <1>4
    <2> QED BY <1>1, <1>2, <1>3, <1>8, <2>1, WholeCut
  <1>10. Whole(engine, z.seq, z.dev, n)
    <2>1. Whole(engine, z.seq, y.dev, n)
      BY <1>1, <1>2, <1>3, <1>7, <1>8, WholeCut
    <2> QED BY <1>5, <2>1
  <1>11. IsDevice(y.dev) /\ IsDevice(z.dev)
    BY <1>1, <1>5, CutParts
  <1>12. y.seq.E = n /\ z.seq.E = n
    BY <1>4, <1>7, <1>8
  <1> QED BY <1>9, <1>10, <1>11, <1>12, WholeSound DEF y, z


\* The first token, or the token of an ordinary round, is resolved.
LEMMA ResolveOrdinarySound ==
    ASSUME engine \in Engines, NEW l, LaneOK(engine, seq[l], req[l], kv[l]),
           LaneSound(engine, seq[l], req[l], dev[l]), req[l].life = "Pending",
           \/ req[l].pending.kind = "begin"
           \/ req[l].pending.kind # "begin" /\ Backend = "none",
           NEW d, NEW r, r.life \in {"Active", "Complete"}
    PROVE  LET y == ResolveOrdinaryRow(l, d.how = "stop")
           IN LaneSound(engine, y.seq, r, y.dev)
  <1> DEFINE s == seq[l]
             pending == req[l].pending
             E == IF pending.kind = "begin" THEN pending.baseE ELSE pending.baseE + 1
             t == [s EXCEPT !.E = E, !.S = E + 1]
             x == [View(l) EXCEPT !.seq = t]
             c == Len(s.ledger) = E + 1 /\ Len(s.pos) = E + 1
             z == Require(x, c)
             y == TrimToValid(z)
  <1>1. ResolveOrdinaryRow(l, d.how = "stop") = IF d.how = "stop" THEN Retain(y) ELSE y
    <2>1. x = [View(l) EXCEPT !.seq.E = E, !.seq.S = E + 1]
      BY ViewFacts DEF IsView, ViewFields
    <2> QED BY <2>1 DEF ResolveOrdinaryRow
  <1>2. s \in SequenceRecords /\ kv[l] \in Bundles /\ req[l] \in RequestRecords
    BY DEF LaneOK
  <1>3. Backend = engine.backend /\ Capacity \in Nat /\ Capacity = engine.capacity
        /\ Backend \in {"none", "mtp", "dflash"}
    BY EngineFacts
  <1>4. req[l].budget \in Nat /\ pending \in PendingRecords /\ pending.baseE \in Nat
    BY <1>2 DEF RequestRecords, PendingRecords
  <1>5. /\ E \in Nat /\ E <= Capacity /\ s.textValid = E
        /\ (Backend = "mtp" => s.mtpValid = E) /\ Behind(engine, s) <= Capacity
        /\ Whole(engine, s, dev[l], E)
    <2>1. CASE pending.kind = "begin"
      <3>1. Begun(engine, s, req[l], kv[l]) /\ E = pending.baseE
        BY <2>1 DEF LaneOK
      <3>2. /\ req[l].budget >= 1 /\ E + req[l].budget - 1 <= engine.capacity
            /\ s.textValid = E /\ (Backend # "none" => Behind(engine, s) = E)
        BY <1>3, <3>1 DEF Begun, Holding, Caught
      <3>3. Whole(engine, s, dev[l], E)
        BY <2>1, <3>1 DEF LaneSound
      <3>4. E \in Nat
        BY <1>4, <3>1
      <3> HIDE DEF E, pending
      <3>5. E <= Capacity
        BY <1>3, <1>4, <3>2, <3>4
      <3>6. (Backend = "mtp" => s.mtpValid = E) /\ (Backend = "none" => Behind(engine, s) = 0)
        BY <1>2, <3>2, BehindFacts
      <3>7. Behind(engine, s) <= Capacity
        BY <1>3, <3>2, <3>4, <3>5, <3>6
      <3> QED BY <3>2, <3>3, <3>4, <3>5, <3>6, <3>7
    <2>2. CASE pending.kind # "begin"
      <3>1. Rounded(engine, s, req[l], kv[l]) /\ E = pending.baseE + 1 /\ Backend = "none"
        BY <2>2 DEF LaneOK
      <3>2. /\ pending.kind = "ordinary" /\ pending.baseE = s.E /\ s.textValid = s.E + 1
            /\ 1 <= Len(pending.tokens) /\ Len(pending.tokens) <= req[l].budget
            /\ s.E + req[l].budget <= engine.capacity
        BY <1>3, <3>1 DEF Rounded, Holding
      <3>3. Whole(engine, s, dev[l], s.E + 1)
        BY <3>2 DEF LaneSound
      <3>4. E = s.E + 1 /\ s.E \in Nat /\ Len(pending.tokens) \in Nat
        BY <1>2, <1>4, <3>1, <3>2 DEF SequenceRecords, PendingRecords
      <3> HIDE DEF E, pending
      <3>5. E <= Capacity /\ E \in Nat
        BY <1>3, <1>4, <3>2, <3>4
      <3>6. Behind(engine, s) = 0
        BY <1>2, <3>1, BehindFacts
      <3> QED BY <1>3, <3>1, <3>2, <3>3, <3>4, <3>5, <3>6
    <2> QED BY <2>1, <2>2
  <1> HIDE DEF E, s
  <1>6. /\ t \in SequenceRecords /\ t.E = E /\ t.textValid = s.textValid /\ t.mtpValid = s.mtpValid
        /\ t.ledger = s.ledger /\ t.items = s.items /\ t.dctx = s.dctx /\ t.ckpt = s.ckpt
    <2>1. E + 1 \in Nat
      BY <1>5
    <2> QED BY <1>2, <1>5, <2>1 DEF SequenceRecords
  <1> HIDE DEF t, c
  <1>7. Behind(engine, t) = Behind(engine, s)
    BY <1>6 DEF Behind
  <1>8. IsView(x) /\ x.seq = t /\ x.kv = kv[l] /\ x.dev = dev[l]
    BY ViewFacts DEF IsView, ViewFields
  <1> HIDE DEF x
  <1>9. IsView(z) /\ z.seq = t /\ z.kv = kv[l] /\ z.dev = dev[l]
    BY <1>8, RequireDevice
  <1> HIDE DEF z
  <1>10. Whole(engine, t, dev[l], E)
    <2>1. \A i : Column(t, i) = Column(s, i)
      BY <1>6 DEF Column
    <2>2. History(t, E) = History(s, E) /\ History(t, t.ckpt.at) = History(s, s.ckpt.at)
      BY <1>6, <2>1 DEF History
    <2> QED BY <1>5, <1>6, <2>1, <2>2
            DEF Whole, Cells, Aligned, InContext, Waiting, Saved, Ring, ItemsEnd
  <1>11. IsDevice(dev[l])
    BY DEF LaneSound
  <1>12. /\ LaneSound(engine, y.seq, r, y.dev)
         /\ LaneSound(engine, Retain(y).seq, r, Retain(y).dev)
    <2>1. /\ z.kv \in Bundles /\ IsDevice(z.dev) /\ z.seq \in SequenceRecords /\ z.seq.E = E
          /\ z.seq.textValid = E /\ Behind(engine, z.seq) <= Capacity
          /\ Backend = "mtp" => z.seq.mtpValid = E
      BY <1>2, <1>5, <1>6, <1>7, <1>9, <1>11
    <2>2. Whole(engine, z.seq, z.dev, E)
      BY <1>9, <1>10
    <2> QED BY <1>5, <1>9, <2>1, <2>2, SettledContents
  <1> QED BY <1>1, <1>12

\* The device state of a round that is resolved.
LEMMA FoldedDevice ==
    ASSUME NEW l, IsDevice(dev[l]), NEW n
    PROVE  LET x == FoldedView(l, n)
           IN /\ IsView(x) /\ x.seq = seq[l] /\ x.kv = kv[l]
              /\ OnlyIn({"lin", "tail"}, dev[l], x.dev)
              /\ x.dev.lin = dev[l].lin \o SubSeq(req[l].pending.columns, 1, n)
              /\ x.dev.tail = IF n < Len(req[l].pending.tokens)
                                THEN dev[l].lin \o SubSeq(req[l].pending.columns, 1, n)
                                ELSE dev[l].tail
  <1> DEFINE v == View(l)
             lin == ReplayFold(dev[l].lin, req[l].pending.columns, n)
             tail == TailAt(v, req[l].pending.columns, n, Len(req[l].pending.tokens))
             e == [dev[l] EXCEPT !.lin = lin, !.tail = tail]
             x == [v EXCEPT !.dev = e]
  <1>1. /\ IsView(v) /\ v.seq = seq[l] /\ v.kv = kv[l] /\ v.dev = dev[l]
    BY ViewFacts
  <1>2. FoldedView(l, n) = x
    BY <1>1 DEF FoldedView, IsView, ViewFields
  <1>3. OnlyIn({"lin", "tail"}, dev[l], e) /\ e.lin = lin /\ e.tail = tail
    <2> HIDE DEF lin, tail
    <2> QED BY DEF OnlyIn, IsDevice, DeviceFields
  <1> HIDE DEF e
  <1>4. IsView(x) /\ x.seq = v.seq /\ x.kv = v.kv /\ x.dev = e
    <2> HIDE DEF v
    <2> QED BY <1>1 DEF IsView, ViewFields
  <1>5. /\ lin = dev[l].lin \o SubSeq(req[l].pending.columns, 1, n)
        /\ tail = IF n < Len(req[l].pending.tokens)
                  THEN dev[l].lin \o SubSeq(req[l].pending.columns, 1, n) ELSE dev[l].tail
    BY <1>1 DEF ReplayFold, TailAt
  <1> HIDE DEF x, lin, tail
  <1> QED BY <1>1, <1>2, <1>3, <1>4, <1>5

WaitingFeatures(s, d, n) == [i \in s.E + 1 .. s.E + n |-> d.features[i - s.E]]

LEMMA DFlashTailDevice ==
    ASSUME NEW x, IsView(x), x.kv \in Bundles, IsDevice(x.dev), NEW s \in SequenceRecords,
           x.seq = s, NEW n \in Nat
    PROVE  LET y == DFlashTail(x, s, n)
           IN /\ OnlyIn({"full", "local"}, x.dev, y.dev)
              /\ y.dev.full = Over(x.dev.full, WaitingFeatures(s, x.dev, n))
              /\ y.dev.local = Turned(x.dev.local, WaitingFeatures(s, x.dev, n))
  <1> DEFINE a == Max({s.textValid, s.E + n})
             e == s.E + n
             z == Materialize(x, a, e)
             new == WaitingFeatures(s, x.dev, n)
             w == AppendContext(z, e, new)
             y == [w EXCEPT !.seq.dctx = e]
  <1>1. DFlashTail(x, s, n) = y
    BY DEF DFlashTail, WaitingFeatures
  <1>2. e \in Nat /\ a \in Nat
    <2>1. s.E \in Nat /\ s.textValid \in Nat
      BY SequenceFacts
    <2>2. e \in Nat
      BY <2>1
    <2> DEFINE b == s.textValid
               c == b + e
    <2>3. b \in Nat /\ c \in Nat /\ b <= c /\ e <= c
      BY <2>1, <2>2
    <2> HIDE DEF b, c, e
    <2>4. Max({b, e}) \in Nat
      BY <2>2, <2>3, LargerOfTwo
    <2> QED BY <2>2, <2>4 DEF b, e
  <1> HIDE DEF a, e
  <1>3. IsView(z) /\ z.dev = x.dev
    BY <1>2, MaterializeDevice DEF SameSequence
  <1> HIDE DEF z, new
  <1>4. /\ IsView(w) /\ OnlyIn({"full", "local"}, x.dev, w.dev)
        /\ w.dev.full = Over(x.dev.full, new) /\ w.dev.local = Turned(x.dev.local, new)
    BY <1>3, AppendDevice
  <1> HIDE DEF w
  <1>5. y.dev = w.dev
    BY <1>4 DEF IsView, ViewFields
  <1> HIDE DEF y
  <1> QED BY <1>1, <1>4, <1>5 DEF new
LEMMA Retyped ==
    ASSUME NEW T, NEW U, NEW c \in Seq(T), \A j \in 1 .. Len(c) : c[j] \in U
    PROVE  c \in Seq(U)
  OBVIOUS

\* Equal tokens and equal items are equal columns.
LEMMA EqualColumn ==
    ASSUME NEW s, NEW t, s.items = t.items, NEW i, s.ledger[i] = t.ledger[i]
    PROVE  Column(s, i) = Column(t, i)
  BY DEF Column, Meaning

\* The sequence of a round, and what is committed of it.
LEMMA LicensedColumns ==
    ASSUME NEW s \in SequenceRecords, NEW tokens \in Seq(STRING)
    PROVE  LET t == Licensed(s, tokens)
           IN /\ t \in SequenceRecords /\ t.items = s.items /\ t.ledger = s.ledger \o tokens
              /\ Len(t.ledger) = Len(s.ledger) + Len(tokens)
              /\ \A i \in 1 .. Len(s.ledger) : Column(t, i) = Column(s, i)
  <1> DEFINE ledger == s.ledger \o tokens
             t == [s EXCEPT !.ledger = ledger]
  <1>1. s.ledger \in Seq(STRING)
    BY SequenceFacts
  <1>2. ledger \in Seq(STRING) /\ Len(ledger) = Len(s.ledger) + Len(tokens)
    BY <1>1, Joined
  <1>3. \A i \in 1 .. Len(s.ledger) : ledger[i] = s.ledger[i]
    BY <1>1
  <1>4. Licensed(s, tokens) = t
    BY DEF Licensed
  <1> HIDE DEF ledger
  <1>5. t \in SequenceRecords /\ t.items = s.items /\ t.ledger = ledger
    BY <1>2 DEF SequenceRecords
  <1> HIDE DEF t
  <1>6. \A i \in 1 .. Len(s.ledger) : Column(t, i) = Column(s, i)
    BY <1>3, <1>5, EqualColumn
  <1> QED BY <1>2, <1>4, <1>5, <1>6 DEF ledger

LEMMA CommittedColumns ==
    ASSUME NEW s \in SequenceRecords, NEW tokens \in Seq(STRING), NEW n \in 1 .. Len(tokens),
           NEW u, u.items = s.items, u.ledger = s.ledger \o SubSeq(tokens, 1, n)
    PROVE  SameColumns(Licensed(s, tokens), u, Len(s.ledger) + n)
  <1> DEFINE t == Licensed(s, tokens)
             part == SubSeq(tokens, 1, n)
             a == Len(s.ledger)
  <1>1. t.items = s.items /\ t.ledger = s.ledger \o tokens
    BY LicensedColumns
  <1>2. s.ledger \in Seq(STRING) /\ a \in Nat
    BY SequenceFacts
  <1>3. /\ part \in Seq(STRING) /\ Len(part) = n /\ \A j \in 1 .. n : part[j] = tokens[j]
    OBVIOUS
  <1> HIDE DEF t, part
  <1>4. ASSUME NEW i \in 1 .. a + n PROVE t.ledger[i] = u.ledger[i]
    <2>1. u.ledger = s.ledger \o part
      BY DEF part
    <2>2. CASE i <= a
      BY <1>1, <1>2, <1>3, <2>1, <2>2
    <2>3. CASE i > a
      <3>1. i - a \in 1 .. n /\ i - a \in 1 .. Len(tokens)
        BY <1>2, <2>3
      <3>2. (s.ledger \o tokens)[i] = tokens[i - a]
        BY <1>2, <2>3, <3>1
      <3>3. (s.ledger \o part)[i] = part[i - a]
        BY <1>2, <1>3, <2>3, <3>1
      <3> QED BY <1>1, <1>3, <2>1, <3>1, <3>2, <3>3
    <2>4. i <= a \/ i > a
      BY <1>2
    <2> QED BY <2>2, <2>3, <2>4
  <1>5. \A i \in 1 .. a + n : Column(t, i) = Column(u, i)
    BY <1>1, <1>4, EqualColumn
  <1> QED BY <1>5 DEF SameColumns, t

\* A speculative round is resolved, wholly or in part.
LEMMA CommittedWhole ==
    ASSUME engine \in Engines, NEW l, LaneOK(engine, seq[l], req[l], kv[l]),
           LaneSound(engine, seq[l], req[l], dev[l]),
           req[l].life = "Pending", req[l].pending.kind # "begin", Backend # "none",
           NEW d \in Decisions(l), d.how # "cancel"
    PROVE  LET x == CommittedView(l, d)
           IN IsDevice(x.dev) /\ Whole(engine, x.seq, x.dev, seq[l].E + d.n)
  <1> DEFINE s == seq[l]
             q == req[l]
             pending == q.pending
             tokens == pending.tokens
             columns == pending.columns
             n == d.n
             m == Len(tokens)
             E == s.E
             e == E + n
             t == Licensed(s, tokens)
             x == CommittedView(l, d)
             u == x.seq
             f == FoldedView(l, n)
             c == ContextView(l, d)
             b == dev[l]
             g == x.dev
             part == SubSeq(columns, 1, n)
             ended == Backend = "dflash" /\ d.how = "stop"
             new == WaitingFeatures(s, f.dev, n)
  <1>1. /\ s \in SequenceRecords /\ pending \in PendingRecords /\ kv[l] \in Bundles
        /\ Backend = engine.backend
    BY EngineFacts DEF LaneOK, RequestRecords
  <1>2. pending.kind = "speculative"
    BY <1>1 DEF LaneOK, Rounded
  <1>3. IsDevice(b) /\ Provisional(engine, s, pending, b)
    BY <1>2 DEF LaneSound
  <1>4. /\ Decidable(l, x, e, E + q.budget) /\ g = c.dev
        /\ u.items = s.items /\ u.ckpt = s.ckpt /\ u.ledger = s.ledger \o SubSeq(tokens, 1, n)
        /\ Len(s.ledger) = E + 1
    BY CommittedRow, Zenon
  <1>5. /\ Backend = "dflash" => u.dctx = IF d.how = "stop" THEN e ELSE E
        /\ n \in 1 .. m /\ m \in Nat /\ m <= q.budget /\ E + q.budget <= Capacity
    BY CommittedRow
  <1>6. /\ IsView(f) /\ f.seq = s /\ f.kv = kv[l] /\ OnlyIn({"lin", "tail"}, b, f.dev)
        /\ f.dev.lin = b.lin \o part
        /\ f.dev.tail = IF n < m THEN b.lin \o part ELSE b.tail
    BY <1>3, FoldedDevice
  <1>7. c = IF ended THEN DFlashTail(f, s, n) ELSE f
    BY DEF ContextView
  <1> HIDE DEF f
  <1>8. /\ IsDevice(f.dev) /\ f.dev.kv = b.kv /\ f.dev.mtp = b.mtp /\ f.dev.ckLin = b.ckLin
        /\ f.dev.ckHid = b.ckHid /\ f.dev.full = b.full /\ f.dev.local = b.local
        /\ f.dev.ckLocal = b.ckLocal /\ f.dev.features = b.features
    BY <1>6 DEF OnlyIn, DeviceFields
  <1> HIDE DEF b, c, x
  <1>9. /\ ended => /\ OnlyIn({"full", "local"}, f.dev, c.dev)
                    /\ c.dev.full = Over(f.dev.full, new)
                    /\ c.dev.local = Turned(f.dev.local, new)
        /\ ~ended => c.dev = f.dev
    <2>1. CASE ended
      <3>1. c = DFlashTail(f, s, n) /\ n \in Nat /\ f.kv \in Bundles
        BY <1>1, <1>5, <1>6, <1>7, <2>1
      <3> HIDE DEF s, n
      <3> QED BY <1>1, <1>6, <1>8, <2>1, <3>1, DFlashTailDevice
    <2>2. CASE ~ended
      BY <1>7, <2>2
    <2> QED BY <2>1, <2>2
  <1> HIDE DEF new, s, ended
  <1>10. /\ IsDevice(g) /\ g.kv = b.kv /\ g.mtp = b.mtp /\ g.ckLin = b.ckLin /\ g.ckHid = b.ckHid
         /\ g.ckLocal = b.ckLocal /\ g.features = b.features
         /\ g.lin = f.dev.lin /\ g.tail = f.dev.tail
         /\ ended => g.full = Over(b.full, new) /\ g.local = Turned(b.local, new)
         /\ ~ended => g.full = b.full /\ g.local = b.local
    <2>1. CASE ended
      <3>1. OnlyIn({"full", "local"}, f.dev, g)
        BY <1>4, <1>9, <2>1
      <3> HIDE DEF g
      <3>2. /\ IsDevice(g) /\ g.kv = f.dev.kv /\ g.mtp = f.dev.mtp /\ g.ckLin = f.dev.ckLin
            /\ g.ckHid = f.dev.ckHid /\ g.ckLocal = f.dev.ckLocal
            /\ g.features = f.dev.features /\ g.lin = f.dev.lin /\ g.tail = f.dev.tail
        BY <3>1 DEF OnlyIn, DeviceFields
      <3> QED BY <1>4, <1>8, <1>9, <2>1, <3>2
    <2>2. CASE ~ended
      BY <1>4, <1>8, <1>9, <2>2
    <2> QED BY <2>1, <2>2
  <1> HIDE DEF g, u, tokens, columns, pending, q
  <1>11. /\ tokens \in Seq(STRING) /\ columns \in Seq(Inputs) /\ E \in Nat /\ n \in Nat
         /\ s.ckpt.at \in Nat /\ s.ckpt.at <= e /\ Capacity \in Nat /\ q.budget \in Nat
    <2>1. pending.tokens \in Seq(STRING) /\ pending.columns \in Seq(Inputs)
      BY <1>1 DEF PendingRecords
    <2>3. u.ckpt.at <= e
      BY <1>4 DEF Decidable, Committed, u
    <2>4. q.budget \in Nat
      BY DEF LaneOK, RequestRecords, q
    <2> QED BY <1>1, <1>4, <1>5, <2>1, <2>3, <2>4, SequenceFacts, EngineFacts
            DEF tokens, columns
  <1>12. /\ Cells(t, b, E + m) /\ b.lin = History(t, E) /\ b.tail = History(t, E + m)
         /\ Aligned(engine, t, b, E + m) /\ InContext(engine, t, b, E)
         /\ Waiting(engine, t, b, E, E + m)
         /\ Saved(engine, t, b, s.ckpt.at) /\ ItemsEnd(s, E)
         /\ m <= Len(columns)
         /\ \A j \in 1 .. m : columns[j] = Column(t, E + j)
    BY <1>3 DEF Provisional, tokens, columns
  <1>13. t \in SequenceRecords /\ Len(t.ledger) = E + 1 + m
    BY <1>1, <1>4, <1>11, LicensedColumns
  <1>14. SameColumns(t, u, e + 1)
    <2>1. SameColumns(t, u, Len(s.ledger) + n)
      BY <1>1, <1>4, <1>5, <1>11, CommittedColumns
    <2>2. Len(s.ledger) + n = e + 1
      BY <1>4, <1>11
    <2> QED BY <2>1, <2>2
  <1> HIDE DEF t, m, n
  <1>15. /\ e \in Nat /\ e + 1 \in Nat /\ E + m \in Nat /\ e <= E + m /\ E <= e /\ e <= e + 1
         /\ e <= Capacity /\ 1 <= n /\ n <= m
    <2>1. /\ E \in Nat /\ n \in Nat /\ m \in Nat /\ 1 <= n /\ n <= m
          /\ q.budget \in Nat /\ Capacity \in Nat /\ m <= q.budget /\ E + q.budget <= Capacity
      BY <1>5, <1>11
    <2> HIDE DEF E
    <2> QED BY <2>1
  <1>16. History(t, E) \o part = History(t, e)
    <2>1. part \in Seq(Inputs) /\ Len(part) = n /\ \A j \in 1 .. n : part[j] = columns[j]
      <3>1. n \in Nat /\ 1 <= n /\ n <= Len(columns) /\ columns \in Seq(Inputs)
        BY <1>5, <1>11, <1>12, <1>15
      <3> QED BY <3>1
    <2>2. \A j \in 1 .. n : part[j] = Column(t, E + j)
      <3>1. \A j \in 1 .. n : j \in 1 .. m
        BY <1>5, <1>11, <1>15
      <3> HIDE DEF part
      <3> QED BY <1>12, <2>1, <3>1
    <2>3. E + n <= Len(t.ledger) /\ E \in Nat
      BY <1>5, <1>11, <1>13, <1>15
    <2>4. \A j \in 1 .. n : Column(t, E + j) \in STRING
      <3>1. \A j \in 1 .. n : E + j \in Nat /\ E + j >= 1 /\ E + j <= Len(t.ledger)
        BY <1>11, <1>13, <2>3
      <3> QED BY <1>13, <3>1, ColumnTyped
    <2> HIDE DEF part, E
    <2>5. part \in Seq(STRING)
      BY <2>1, <2>2, <2>4, Retyped
    <2> QED BY <1>11, <1>13, <2>1, <2>2, <2>3, <2>5, HistoryGrows
  <1> HIDE DEF part, E, e
  <1>17. g.lin = History(u, e) /\ g.tail = History(u, e)
    <2>1. History(t, e) = History(u, e)
      BY <1>14, <1>15, SameHistory
    <2>2. g.lin = History(t, e)
      BY <1>6, <1>10, <1>12, <1>16
    <2>3. CASE n < m
      BY <1>6, <1>10, <1>12, <1>16, <2>1, <2>2, <2>3
    <2>4. CASE ~(n < m)
      <3>1. n = m
        BY <1>5, <1>11, <1>15, <2>4
      <3>2. g.tail = History(t, E + m) /\ E + m = e
        BY <1>6, <1>10, <1>12, <2>4, <3>1 DEF e
      <3> QED BY <2>1, <2>2, <3>2
    <2> QED BY <2>1, <2>2, <2>3, <2>4
  <1>18. Cells(u, g, e)
    <2>1. Cells(t, b, e)
      BY <1>12, <1>15 DEF Cells
    <2>2. Cells(t, g, e)
      BY <1>10, <2>1, SameCells
    <2> QED BY <1>14, <1>15, <2>2, MoveCells
  <1>19. Aligned(engine, u, g, e)
    <2>1. Aligned(engine, t, b, e)
      BY <1>12, <1>15 DEF Aligned
    <2>2. Aligned(engine, t, g, e) /\ e < e + 1
      BY <1>10, <1>15, <2>1, SameAligned
    <2> QED BY <1>14, <1>15, <2>2, MoveAligned
  <1>20. /\ InContext(engine, u, g, u.dctx)
         /\ Waiting(engine, u, g, u.dctx, e)
    <2>1. CASE ended
      <3>1. u.dctx = e /\ engine.backend = "dflash"
        BY <1>1, <1>5, <2>1 DEF ended
      <3>2. DOMAIN new = E + 1 .. e /\ \A i \in E + 1 .. e : new[i] = Feature(i, Column(t, i))
        <4>1. new = [i \in E + 1 .. e |-> b.features[i - E]]
          BY <1>8 DEF new, WaitingFeatures, E, e
        <4>2. \A i \in E + 1 .. E + m : b.features[i - E] = Feature(i, Column(t, i))
          BY <1>12, <3>1 DEF Waiting
        <4> QED BY <1>11, <1>15, <4>1, <4>2
      <3>3. InContext(engine, t, g, e)
        BY <1>3, <1>10, <1>11, <1>12, <1>15, <2>1, <3>2, ContextAppended
      <3>4. InContext(engine, u, g, e)
        BY <1>14, <1>15, <3>3, MoveContext
      <3>5. Waiting(engine, u, g, e, e)
        BY <1>15 DEF Waiting
      <3> QED BY <3>1, <3>4, <3>5
    <2>2. CASE ~ended /\ Backend = "dflash"
      <3>1. u.dctx = E
        BY <1>5, <2>2 DEF ended
      <3>2. InContext(engine, t, g, E)
        BY <1>10, <1>12, <2>2, SameContext
      <3>3. InContext(engine, u, g, E)
        <4>1. E <= e + 1
          BY <1>11, <1>15
        <4> QED BY <1>11, <1>14, <1>15, <3>2, <4>1, MoveContext
      <3>4. Waiting(engine, t, g, E, e)
        BY <1>10, <1>11, <1>12, <1>15 DEF Waiting
      <3>5. Waiting(engine, u, g, E, e)
        BY <1>11, <1>14, <1>15, <3>4, MoveWaiting
      <3> QED BY <3>1, <3>3, <3>5
    <2>3. CASE Backend # "dflash"
      BY <1>1, <2>3 DEF InContext, Waiting
    <2> QED BY <2>1, <2>2, <2>3
  <1>21. Saved(engine, u, g, u.ckpt.at)
    <2>1. Saved(engine, t, g, s.ckpt.at)
      BY <1>10, <1>12, SameSaved
    <2>2. s.ckpt.at <= e + 1
      BY <1>11, <1>15
    <2> QED BY <1>4, <1>11, <1>14, <1>15, <2>1, <2>2, MoveSaved
  <1>22. ItemsEnd(u, e)
    <2>1. \A k \in DOMAIN s.items : s.items[k].last \in Nat
      <3>1. s.items \in Seq(Items)
        BY <1>1, SequenceFacts
      <3>2. \A k \in DOMAIN s.items : s.items[k] \in Items
        BY <3>1
      <3> QED BY <3>2 DEF Items
    <2> QED BY <1>4, <1>11, <1>12, <1>15, <2>1 DEF ItemsEnd
  <1>23. Whole(engine, u, g, e)
    BY <1>17, <1>18, <1>19, <1>20, <1>21, <1>22 DEF Whole
  <1> QED BY <1>10, <1>23 DEF x, u, g, e, E, s, n

LEMMA ResolveSpeculativeSound ==
    ASSUME engine \in Engines, NEW l, LaneOK(engine, seq[l], req[l], kv[l]),
           LaneSound(engine, seq[l], req[l], dev[l]),
           req[l].life = "Pending", req[l].pending.kind # "begin", Backend # "none",
           NEW d \in Decisions(l), d.how # "cancel", NEW r, r.life \in {"Active", "Complete"}
    PROVE  LET y == ResolveSpeculativeRow(l, d)
           IN LaneSound(engine, y.seq, r, y.dev)
  <1> DEFINE x == CommittedView(l, d)
             e == seq[l].E + d.n
             reserved == seq[l].E + req[l].budget
             b == Behind(engine, x.seq)
             t == TrimToValid(x)
             y == ResolveSpeculativeRow(l, d)
  <1>1. /\ Decidable(l, x, e, reserved)
        /\ y = IF d.how = "stop" THEN Retain(TrimToValid(x)) ELSE TrimToValid(x)
    BY CommittedRow, Zenon
  <1>2. IsDevice(x.dev) /\ Whole(engine, x.seq, x.dev, e)
    BY CommittedWhole
  <1>3. /\ IsView(x) /\ x.kv \in Bundles /\ x.seq \in SequenceRecords /\ e \in Nat
        /\ x.seq.E = e /\ x.seq.textValid = e /\ e <= reserved /\ reserved \in Nat
        /\ reserved <= Capacity /\ Capacity \in Nat
        /\ Backend = "mtp" => x.seq.mtpValid = e
        /\ Backend = "dflash" => x.seq.dctx <= e
    BY <1>1, EngineFacts DEF Decidable, Committed, Paged, Holding
  <1> HIDE DEF x, e, reserved, y
  <1>4. b \in Nat /\ b <= e /\ e <= Capacity
    <2>1. /\ b \in Nat /\ Backend = "mtp" => b = x.seq.mtpValid
          /\ b \in Nat /\ Backend = "dflash" => b = x.seq.dctx
          /\ Backend = "none" => b = 0
      BY <1>3, BehindFacts
    <2>2. b \in Nat
      BY <1>3, BehindFacts
    <2> HIDE DEF b
    <2> QED BY <1>3, <2>1, <2>2, EngineFacts
  <1>5. b <= Capacity
    <2> HIDE DEF b
    <2> QED BY <1>3, <1>4
  <1> HIDE DEF b
  <1>6. /\ LaneSound(engine, TrimToValid(x).seq, r, TrimToValid(x).dev)
        /\ LaneSound(engine, Retain(TrimToValid(x)).seq, r, Retain(TrimToValid(x)).dev)
    BY <1>2, <1>3, <1>4, <1>5, SettledContents DEF b
  <1> QED BY <1>1, <1>6 DEF y

\* A row of a round is resolved.
LEMMA ResolveRowSound ==
    ASSUME engine \in Engines, NEW l, LaneOK(engine, seq[l], req[l], kv[l]),
           LaneSound(engine, seq[l], req[l], dev[l]),
           req[l].life = "Pending", req[l].pending.kind # "begin", NEW d \in Decisions(l)
    PROVE  LET y == ResolveRow(l, d)
           IN LaneSound(engine, y.seq, ResolvedRequest(req[l], d, d.n), y.dev)
  <1> DEFINE r == ResolvedRequest(req[l], d, d.n)
             y == ResolveRow(l, d)
  <1>1. req[l] \in RequestRecords /\ IsDevice(dev[l])
    BY DEF LaneOK, LaneSound
  <1>2. /\ d.how \in {"stop", "go", "cancel"} /\ d.n \in Nat
        /\ d.how = "go" => d.n < req[l].budget
    BY <1>1, DecisionFacts
  <1>3. /\ d.how = "stop" => r.life = "Complete"
        /\ d.how = "go" /\ d.n < req[l].budget => r.life = "Active"
        /\ d.how = "cancel" => r = NoRequest
    BY <1>1, <1>2, ResolvedFacts
  <1>4. y = CASE d.how = "cancel" -> Cleared(View(l))
              [] d.how # "cancel" /\ Backend = "none" ->
                    ResolveOrdinaryRow(l, d.how = "stop")
              [] OTHER -> ResolveSpeculativeRow(l, d)
    BY DEF ResolveRow
  <1> HIDE DEF r, y
  <1>5. CASE d.how = "cancel"
    <2>1. IsDevice(Cleared(View(l)).dev)
      BY <1>1, ViewFacts, ClearedDevice
    <2>2. y = Cleared(View(l)) /\ r = NoRequest
      BY <1>3, <1>4, <1>5
    <2>3. LaneSound(engine, y.seq, NoRequest, y.dev)
      BY <2>1, <2>2, IdleSound
    <2> QED BY <2>2, <2>3 DEF r, y
  <1>6. CASE d.how # "cancel" /\ Backend = "none"
    <2>1. y = ResolveOrdinaryRow(l, d.how = "stop")
      BY <1>4, <1>6
    <2>2. r.life \in {"Active", "Complete"}
      BY <1>2, <1>3, <1>6
    <2>3. LaneSound(engine, y.seq, r, y.dev)
      <3> DEFINE z == ResolveOrdinaryRow(l, d.how = "stop")
      <3>1. LaneSound(engine, z.seq, r, z.dev)
        BY <1>6, <2>2, ResolveOrdinarySound
      <3> QED BY <2>1, <3>1
    <2> QED BY <2>3 DEF r, y
  <1>7. CASE d.how # "cancel" /\ Backend # "none"
    <2>1. y = ResolveSpeculativeRow(l, d)
      BY <1>4, <1>7
    <2>2. r.life \in {"Active", "Complete"}
      BY <1>2, <1>3, <1>7
    <2>3. LaneSound(engine, y.seq, r, y.dev)
      BY <1>7, <2>1, <2>2, ResolveSpeculativeSound
    <2> QED BY <2>3 DEF r, y
  <1> QED BY <1>5, <1>6, <1>7

LEMMA ResolveContents ==
    ASSUME BInv, CInv, ResolvePendingBatch
    PROVE  CInv'
  <1> DEFINE rows == PendingLanes
  <1>1. PICK d \in [rows -> UNION {Decisions(l) : l \in rows}] :
           /\ \A l \in rows : d[l] \in Decisions(l)
           /\ ApplyBatch(rows, [l \in rows |-> ResolveRow(l, d[l])],
                         [l \in rows |-> ResolvedRequest(req[l], d[l], d[l].n)])
    BY DEF ResolvePendingBatch
  <1> DEFINE x == [l \in rows |-> ResolveRow(l, d[l])]
             r == [l \in rows |-> ResolvedRequest(req[l], d[l], d[l].n)]
  <1>2. engine \in Engines /\ Alone /\ engine' = engine
    BY DEF BInv, ResolvePendingBatch
  <1>3. rows \in SUBSET Lanes /\ \A l \in Lanes : l \in rows <=> req[l].life = "Pending"
    BY DEF PendingLanes
  <1>4. PICK m \in rows : req[m].pending.kind # "begin"
    BY DEF ResolvePendingBatch
  <1>5. \A l \in rows : req[l].pending.kind # "begin"
    BY <1>2, <1>3, <1>4 DEF Alone
  <1>6. ASSUME NEW l \in rows
        PROVE  Kept(l, x[l], r[l]) /\ LaneSound(engine, x[l].seq, r[l], x[l].dev)
    <2>1. /\ LaneOK(engine, seq[l], req[l], kv[l]) /\ req[l].life = "Pending"
          /\ LaneSound(engine, seq[l], req[l], dev[l])
          /\ req[l].pending.kind # "begin" /\ d[l] \in Decisions(l)
      BY <1>1, <1>3, <1>5 DEF BInv, CInv
    <2>2. Kept(l, ResolveRow(l, d[l]), ResolvedRequest(req[l], d[l], d[l].n))
      BY <1>2, <2>1, ResolveRowKeeps
    <2>3. LET y == ResolveRow(l, d[l])
          IN LaneSound(engine, y.seq, ResolvedRequest(req[l], d[l], d[l].n), y.dev)
      BY <1>2, <2>1, ResolveRowSound
    <2>4. x[l] = ResolveRow(l, d[l]) /\ r[l] = ResolvedRequest(req[l], d[l], d[l].n)
      OBVIOUS
    <2> HIDE DEF x, r
    <2> QED BY <2>2, <2>3, <2>4
  <1>7. ApplyBatch(rows, x, r)
    BY <1>1
  <1> HIDE DEF rows, x, r
  <1> QED BY <1>2, <1>3, <1>6, <1>7, BatchContents

LEMMA ResolvePrefillContents ==
    ASSUME BInv, CInv, NEW l \in Lanes, ResolvePrefillLane(l)
    PROVE  CInv'
  <1> DEFINE rows == {l}
  <1>1. PICK d \in Decisions(l) :
           /\ d.how # "cancel"
           /\ ApplyBatch({l}, [m \in {l} |-> ResolveOrdinaryRow(l, d.how = "stop")],
                         [m \in {l} |-> ResolvedRequest(req[l], d, 0)])
    BY DEF ResolvePrefillLane
  <1> DEFINE y == ResolveOrdinaryRow(l, d.how = "stop")
             q == ResolvedRequest(req[l], d, 0)
             x == [m \in {l} |-> y]
             r == [m \in {l} |-> q]
  <1>2. /\ engine \in Engines /\ engine' = engine /\ req[l].life = "Pending"
        /\ req[l].pending.kind = "begin"
        /\ LaneOK(engine, seq[l], req[l], kv[l]) /\ LaneSound(engine, seq[l], req[l], dev[l])
    BY DEF BInv, CInv, ResolvePrefillLane
  <1>3. req[l] \in RequestRecords
    BY <1>2 DEF LaneOK
  <1>4. /\ d.how \in {"stop", "go", "cancel"} /\ d.n \in Nat
        /\ d.how = "go" => d.n < req[l].budget
    BY <1>1, <1>3, DecisionFacts
  <1>5. Kept(l, y, q)
    BY <1>1, <1>2, ResolveOrdinaryKeeps
  <1>6. q.life \in {"Active", "Complete"}
    <2>1. PICK work \in Nat : work = 0
      OBVIOUS
    <2>2. LET v == ResolvedRequest(req[l], d, work)
          IN /\ d.how = "stop" => v.life = "Complete"
             /\ d.how = "go" /\ d.n < req[l].budget => v.life = "Active"
      BY <1>3, <1>4, ResolvedFacts
    <2> QED BY <1>1, <1>4, <2>1, <2>2
  <1>7. LaneSound(engine, y.seq, q, y.dev)
    <2> HIDE DEF q
    <2> QED BY <1>2, <1>6, ResolveOrdinarySound
  <1>8. ApplyBatch(rows, x, r) /\ x[l] = y /\ r[l] = q /\ rows \in SUBSET Lanes
    BY <1>1
  <1> HIDE DEF x, r, y, q
  <1>9. /\ \A m \in rows : Kept(m, x[m], r[m])
        /\ \A m \in rows : LaneSound(engine, x[m].seq, r[m], x[m].dev)
    BY <1>5, <1>7, <1>8
  <1> HIDE DEF rows
  <1> QED BY <1>2, <1>8, <1>9, BatchContents

-----------------------------------------------------------------------------
(***************************************************************************)
(* A round of decoding.                                                    *)
(***************************************************************************)

LEMMA ConcatAt ==
    ASSUME NEW T, NEW a \in Seq(T), NEW b \in Seq(T)
    PROVE  /\ \A i \in 1 .. Len(a) : (a \o b)[i] = a[i]
           /\ \A j \in 1 .. Len(b) : (a \o b)[Len(a) + j] = b[j]
  OBVIOUS

\* What the columns of a round read, and the tokens that follow them.
LEMMA RoundColumns ==
    ASSUME engine \in Engines, NEW l, LaneOK(engine, seq[l], req[l], kv[l]),
           LaneSound(engine, seq[l], req[l], dev[l]),
           req[l].life = "Active", NEW tokens \in LicensedRows(l)
    PROVE  LET s == seq[l]
               t == Licensed(s, tokens)
               m == Len(tokens)
               inputs == VerifyInputs(l, tokens)
           IN /\ t \in SequenceRecords /\ Len(t.ledger) = s.E + 1 + m /\ t.items = s.items
              /\ SameColumns(s, t, s.E + 1) /\ t.ledger = s.ledger \o tokens
              /\ inputs \in Seq(Inputs) /\ Len(inputs) = Extent(l) + 1
              /\ \A j \in 1 .. m : inputs[j] = Column(t, s.E + j)
              /\ \A j \in 1 .. m : tokens[j] = Column(t, s.E + j + 1)
  <1> DEFINE s == seq[l]
             t == Licensed(s, tokens)
             m == Len(tokens)
             E == s.E
             n == Extent(l) + 1
             inputs == VerifyInputs(l, tokens)
  <1>1. /\ s \in SequenceRecords /\ Ready(engine, s, req[l], kv[l])
        /\ E \in Nat /\ Extent(l) \in Nat
        /\ tokens \in Seq(STRING) /\ m \in Nat /\ m >= 1 /\ m <= Extent(l) + 1
    BY DecodeNumbers
  <1>2. s.S = E + 1 /\ Len(s.ledger) = E + 1 /\ Len(s.ledger) = s.S
    BY <1>1 DEF Ready
  <1>3. ItemsEnd(s, E)
    BY DEF LaneSound, Whole
  <1>4. /\ t \in SequenceRecords /\ t.items = s.items /\ t.ledger = s.ledger \o tokens
        /\ Len(t.ledger) = Len(s.ledger) + m
        /\ \A i \in 1 .. Len(s.ledger) : Column(t, i) = Column(s, i)
    BY <1>1, LicensedColumns
  <1>5. s.S >= 1
    BY <1>1, <1>2
  <1>6. inputs \in Seq(Inputs) /\ Len(inputs) = n
    BY <1>1, <1>2, <1>5, InputFacts
  <1>7. \A j \in 1 .. n : inputs[j] = CASE j = 1 -> s.ledger[s.S]
                                        [] j > 1 /\ j <= m -> tokens[j - 1]
                                        [] OTHER -> Rejected
    BY DEF VerifyInputs
  <1>8. s.ledger \in Seq(STRING) /\ s.items \in Seq(Items)
    BY <1>1, SequenceFacts
  <1> HIDE DEF s, inputs, t
  <1>9. ASSUME NEW i \in Nat, i > E PROVE Column(t, i) = t.ledger[i]
    <2>1. ~Visual(s.items, i)
      BY <1>1, <1>3, <1>8, <1>9, NotVisual DEF ItemsEnd
    <2> QED BY <1>4, <2>1, PlainColumn
  <1> HIDE DEF E, m, n
  <1>10. t.ledger[E + 1] = s.ledger[E + 1]
    <2>1. E + 1 \in 1 .. Len(s.ledger)
      BY <1>1, <1>2
    <2>2. tokens \in Seq(STRING)
      BY <1>1
    <2> QED BY <1>4, <1>8, <2>1, <2>2, ConcatAt
  <1>11. \A j \in 1 .. m : t.ledger[E + 1 + j] = tokens[j]
    <2> SUFFICES ASSUME NEW j \in 1 .. m PROVE t.ledger[E + 1 + j] = tokens[j]
      OBVIOUS
    <2>1. (s.ledger \o tokens)[Len(s.ledger) + j] = tokens[j]
      BY <1>1, <1>8, ConcatAt DEF m
    <2> QED BY <1>2, <1>4, <2>1
  <1>12. ASSUME NEW j \in 1 .. m PROVE tokens[j] = Column(t, E + j + 1)
    <2>1. E + j + 1 \in Nat /\ E + j + 1 > E /\ E + j + 1 = E + 1 + j
      BY <1>1
    <2> QED BY <1>9, <1>11, <2>1
  <1>13. ASSUME NEW j \in 1 .. m PROVE inputs[j] = Column(t, E + j)
    <2>1. E + j \in Nat /\ E + j > E /\ j \in 1 .. n
      BY <1>1 DEF n
    <2>2. CASE j = 1
      BY <1>2, <1>7, <1>9, <1>10, <2>1, <2>2
    <2>3. CASE j > 1
      <3>1. j - 1 \in 1 .. m /\ E + 1 + (j - 1) = E + j /\ j <= m /\ j # 1
        BY <1>1, <2>3
      <3>2. inputs[j] = tokens[j - 1]
        BY <1>7, <2>1, <2>3, <3>1
      <3> QED BY <1>9, <1>11, <2>1, <3>1, <3>2
    <2> QED BY <2>2, <2>3
  <1>14. SameColumns(s, t, E + 1)
    BY <1>2, <1>4 DEF SameColumns
  <1>15. Len(t.ledger) = E + 1 + m
    BY <1>2, <1>4
  <1> QED BY <1>4, <1>6, <1>12, <1>13, <1>14, <1>15 DEF s, t, m, E, inputs, n

\* The lane that starts a round, seen from the licensed sequence.
LEMMA RoundBase ==
    ASSUME engine \in Engines, NEW l, LaneOK(engine, seq[l], req[l], kv[l]),
           LaneSound(engine, seq[l], req[l], dev[l]),
           req[l].life = "Active", NEW tokens \in LicensedRows(l)
    PROVE  LET s == seq[l]
               t == Licensed(s, tokens)
               d == dev[l]
           IN /\ IsDevice(d) /\ Cells(t, d, s.E) /\ d.lin = History(t, s.E)
              /\ Aligned(engine, t, d, s.E) /\ InContext(engine, t, d, s.dctx)
              /\ Waiting(engine, t, d, s.dctx, s.E) /\ Saved(engine, t, d, s.ckpt.at)
              /\ ItemsEnd(s, s.E)
              /\ s.ckpt.at \in Nat /\ s.ckpt.at <= s.E /\ s.dctx \in Nat
              /\ Backend = "dflash" => s.dctx <= s.E
  <1> DEFINE s == seq[l]
             t == Licensed(s, tokens)
             d == dev[l]
             E == s.E
  <1>1. s \in SequenceRecords /\ Ready(engine, s, req[l], kv[l]) /\ E \in Nat
    BY DecodeNumbers
  <1>2. IsDevice(d) /\ Whole(engine, s, d, E)
    BY DEF LaneSound
  <1>3. SameColumns(s, t, E + 1)
    BY RoundColumns
  <1>4. s.dctx \in Nat /\ s.ckpt.at \in Nat /\ s.ckpt.at <= E
        /\ (Backend = "dflash" => s.dctx <= E) /\ Backend = engine.backend
    BY <1>1, SequenceFacts, EngineFacts DEF Ready
  <1>5. /\ Cells(s, d, E) /\ d.lin = History(s, E)
        /\ Aligned(engine, s, d, E) /\ InContext(engine, s, d, s.dctx)
        /\ Waiting(engine, s, d, s.dctx, E)
        /\ Saved(engine, s, d, s.ckpt.at) /\ ItemsEnd(s, E)
    BY <1>2 DEF Whole
  <1> HIDE DEF t, d, E, s
  <1>6. E + 1 \in Nat /\ E <= E + 1 /\ E < E + 1 /\ s.ckpt.at <= E + 1
    BY <1>1, <1>4
  <1>7. Cells(t, d, E)
    BY <1>1, <1>3, <1>5, <1>6, MoveCells
  <1>8. Aligned(engine, t, d, E)
    BY <1>1, <1>3, <1>5, <1>6, MoveAligned
  <1>9. d.lin = History(t, E)
    BY <1>1, <1>3, <1>5, <1>6, SameHistory
  <1>10. InContext(engine, t, d, s.dctx)
    <2>1. CASE Backend = "dflash"
      <3>1. s.dctx <= E + 1
        BY <1>1, <1>4, <2>1
      <3> QED BY <1>3, <1>4, <1>5, <1>6, <3>1, MoveContext
    <2>2. CASE Backend # "dflash"
      BY <1>4, <2>2 DEF InContext
    <2> QED BY <2>1, <2>2
  <1>11. Waiting(engine, t, d, s.dctx, E)
    BY <1>1, <1>3, <1>4, <1>5, <1>6, MoveWaiting
  <1>12. Saved(engine, t, d, s.ckpt.at)
    BY <1>3, <1>4, <1>5, <1>6, MoveSaved
  <1> QED BY <1>2, <1>4, <1>5, <1>7, <1>8, <1>9, <1>10, <1>11, <1>12 DEF t, d, s, E

\* The recurrent state after the licensed columns, and the cells of the round.
LEMMA RoundWritten ==
    ASSUME engine \in Engines, NEW l, LaneOK(engine, seq[l], req[l], kv[l]),
           LaneSound(engine, seq[l], req[l], dev[l]),
           req[l].life = "Active", NEW tokens \in LicensedRows(l)
    PROVE  LET s == seq[l]
               t == Licensed(s, tokens)
               m == Len(tokens)
               inputs == VerifyInputs(l, tokens)
               cells == VerifyCells(l, inputs)
           IN /\ History(t, s.E) \o SubSeq(inputs, 1, m) = History(t, s.E + m)
              /\ s.E + m <= Capacity
              /\ \A i \in 1 .. s.E : i \notin DOMAIN cells
              /\ \A i \in s.E + 1 .. s.E + m : i \in DOMAIN cells /\ cells[i].in = Column(t, i)
  <1> DEFINE s == seq[l]
             t == Licensed(s, tokens)
             m == Len(tokens)
             E == s.E
             n == Extent(l) + 1
             inputs == VerifyInputs(l, tokens)
             part == SubSeq(inputs, 1, m)
             cells == VerifyCells(l, inputs)
  <1>1. /\ E \in Nat /\ Extent(l) \in Nat /\ m \in Nat /\ m >= 1 /\ m <= n
        /\ E + Extent(l) + 1 <= E + req[l].budget /\ E + req[l].budget <= Capacity
        /\ E + req[l].budget \in Nat
    BY DecodeNumbers
  <1>2. /\ t \in SequenceRecords /\ Len(t.ledger) = E + 1 + m
        /\ inputs \in Seq(Inputs) /\ Len(inputs) = n
        /\ \A j \in 1 .. m : inputs[j] = Column(t, E + j)
    BY RoundColumns
  <1>3. cells = [i \in E + 1 .. E + Len(inputs) |->
                   [in |-> inputs[i - E], pos |-> i - 1 + s.delta]]
    BY DEF VerifyCells
  <1> HIDE DEF t, m, E, inputs, cells
  <1>4. part \in Seq(Inputs) /\ Len(part) = m /\ \A j \in 1 .. m : part[j] = inputs[j]
    <2>1. m \in Nat /\ 1 <= m /\ m <= Len(inputs) /\ inputs \in Seq(Inputs)
      BY <1>1, <1>2
    <2> QED BY <2>1
  <1> HIDE DEF part, n
  <1>5. \A j \in 1 .. m : part[j] = Column(t, E + j) /\ Column(t, E + j) \in STRING
    <2>1. \A j \in 1 .. m : E + j \in Nat /\ E + j >= 1 /\ E + j <= Len(t.ledger)
      BY <1>1, <1>2
    <2> QED BY <1>2, <1>4, <2>1, ColumnTyped
  <1>6. part \in Seq(STRING)
    BY <1>4, <1>5, Retyped
  <1>7. History(t, E) \o part = History(t, E + m)
    <2>1. E + m <= Len(t.ledger)
      BY <1>1, <1>2
    <2> QED BY <1>1, <1>2, <1>4, <1>5, <1>6, <2>1, HistoryGrows
  <1>8. E + m <= Capacity
    <2> DEFINE x == Extent(l)
               r == E + req[l].budget
    <2>1. /\ E \in Nat /\ x \in Nat /\ m \in Nat /\ m <= x + 1 /\ E + x + 1 <= r /\ r \in Nat
          /\ r <= Capacity /\ Capacity \in Nat
      BY <1>1, EngineFacts DEF n
    <2> HIDE DEF x, r
    <2> QED BY <2>1
  <1>9. /\ \A i \in 1 .. E : i \notin DOMAIN cells
        /\ \A i \in E + 1 .. E + m : i \in DOMAIN cells /\ cells[i].in = Column(t, i)
    <2>1. DOMAIN cells = E + 1 .. E + n
      BY <1>2, <1>3
    <2>2. ASSUME NEW i \in E + 1 .. E + m
          PROVE  i \in DOMAIN cells /\ cells[i].in = Column(t, i)
      <3>1. n \in Nat
        BY <1>1 DEF n
      <3>2. i \in E + 1 .. E + n /\ i - E \in 1 .. m /\ E + (i - E) = i
        BY <1>1, <3>1
      <3>3. cells[i].in = inputs[i - E]
        BY <1>2, <1>3, <3>2
      <3> QED BY <1>2, <2>1, <3>2, <3>3
    <2>3. \A i \in 1 .. E : i \notin E + 1 .. E + n
      BY <1>1
    <2> QED BY <2>1, <2>2, <2>3
  <1> QED BY <1>7, <1>8, <1>9 DEF part, E, m, t, inputs, cells

\* A lane that waits for a decision on a round.
LEMMA RoundSound ==
    ASSUME NEW en, NEW s, NEW q, NEW d, NEW pending, q \in RequestRecords, IsDevice(d),
           \/ pending.kind = "ordinary" /\ Whole(en, s, d, s.E + 1)
           \/ pending.kind = "speculative" /\ Provisional(en, s, pending, d)
    PROVE  LaneSound(en, s, [q EXCEPT !.life = "Pending", !.pending = pending], d)
  <1> DEFINE r == [q EXCEPT !.life = "Pending", !.pending = pending]
  <1>1. r.life = "Pending" /\ r.pending = pending
    BY DEF RequestRecords
  <1> HIDE DEF r
  <1>2. LaneSound(en, s, r, d)
    BY <1>1 DEF LaneSound
  <1> QED BY <1>2 DEF r

LEMMA OrdinaryRowSound ==
    ASSUME engine \in Engines, NEW l, LaneOK(engine, seq[l], req[l], kv[l]),
           LaneSound(engine, seq[l], req[l], dev[l]),
           req[l].life = "Active", NEW tokens \in LicensedRows(l), Backend = "none"
    PROVE  LET y == DecodeRow(l, tokens)
           IN LaneSound(engine, y.seq,
                 [req[l] EXCEPT !.life = "Pending", !.pending = PendingRow(l, tokens)], y.dev)
  <1> DEFINE s == seq[l]
             E == s.E
             a == E + 1
             t == Licensed(s, tokens)
             inputs == VerifyInputs(l, tokens)
             cells == VerifyCells(l, inputs)
             g == Materialize(View(l), a, 0)
             x == WriteText(g, a, cells)
             lin == x.dev.lin \o inputs
             ledger == Append(x.seq.ledger, tokens[1])
             pos == Append(x.seq.pos, s.S + s.delta)
             e == [x.dev EXCEPT !.lin = lin, !.tail = lin]
             u == [x.seq EXCEPT !.textValid = a, !.tailValid = TRUE, !.ledger = ledger, !.pos = pos]
             y == [x EXCEPT !.dev = e, !.seq = u]
             d == dev[l]
  <1>1. /\ s \in SequenceRecords /\ kv[l] \in Bundles /\ Ready(engine, s, req[l], kv[l])
        /\ E \in Nat /\ Extent(l) \in Nat /\ req[l] \in RequestRecords
        /\ tokens \in Seq(STRING) /\ Len(tokens) \in Nat /\ Len(tokens) >= 1
        /\ Len(tokens) <= Extent(l) + 1
    BY DecodeNumbers
  <1>2. Extent(l) = 0 /\ Len(tokens) = 1
    <2>1. Extent(l) = 0
      BY DEF Extent
    <2> DEFINE m == Len(tokens)
               v == Extent(l)
    <2>2. m \in Nat /\ m >= 1 /\ m <= v + 1 /\ v = 0
      BY <1>1, <2>1
    <2> HIDE DEF m, v
    <2>3. m = 1
      BY <2>2
    <2> QED BY <2>1, <2>3 DEF m
  <1>3. /\ IsDevice(d) /\ Cells(t, d, E) /\ d.lin = History(t, E)
        /\ Saved(engine, t, d, s.ckpt.at) /\ ItemsEnd(s, E)
        /\ s.ckpt.at \in Nat /\ s.ckpt.at <= E
    BY RoundBase
  <1>4. /\ t.items = s.items /\ t.ledger = s.ledger \o tokens
        /\ inputs \in Seq(Inputs) /\ Len(inputs) = Extent(l) + 1
    BY RoundColumns
  <1>5. /\ History(t, E) \o SubSeq(inputs, 1, Len(tokens)) = History(t, E + Len(tokens))
        /\ E + Len(tokens) <= Capacity
        /\ \A i \in 1 .. E : i \notin DOMAIN cells
        /\ \A i \in E + 1 .. E + Len(tokens) : i \in DOMAIN cells /\ cells[i].in = Column(t, i)
    BY RoundWritten
  <1>6. PendingRow(l, tokens).kind = "ordinary"
    BY DEF PendingRow
  <1> HIDE DEF inputs, cells, t
  <1>7. /\ History(t, E) \o inputs = History(t, a) /\ a <= Capacity /\ a \in Nat /\ E <= a
        /\ \A i \in E + 1 .. a : i \in DOMAIN cells /\ cells[i].in = Column(t, i)
    <2>1. SubSeq(inputs, 1, Len(tokens)) = inputs
      BY <1>2, <1>4
    <2>2. a \in Nat /\ E <= a
      BY <1>1
    <2> QED BY <1>2, <1>5, <2>1, <2>2
  <1>8. IsView(g) /\ g.seq = s /\ g.dev = d
    <2>1. 0 \in Nat
      OBVIOUS
    <2>2. View(l).kv = kv[l] /\ View(l).dev = d /\ View(l).seq = s /\ IsView(View(l))
      BY ViewFacts
    <2> HIDE DEF a, d, s
    <2> QED BY <1>1, <1>7, <2>1, <2>2, MaterializeDevice DEF SameSequence
  <1>9. DecodeRow(l, tokens)
          = [x EXCEPT !.dev.lin = lin, !.dev.tail = lin, !.seq.textValid = a, !.seq.tailValid = TRUE,
                      !.seq.ledger = ledger, !.seq.pos = pos]
    BY DEF DecodeRow, DecodeOrdinaryRow, inputs, cells
  <1> HIDE DEF g, d, s
  <1>10. /\ IsView(x) /\ x.seq = s /\ OnlyIn({"kv"}, d, x.dev) /\ x.dev.kv = Over(d.kv, cells)
    BY <1>3, <1>8, WriteTextDevice
  <1> HIDE DEF x, lin, ledger, pos, a
  <1>11. DecodeRow(l, tokens) = y
    BY <1>9, <1>10 DEF IsView, ViewFields
  <1>12. IsView(y) /\ y.dev = e /\ y.seq = u
    <2> HIDE DEF e, u
    <2> QED BY <1>10 DEF IsView, ViewFields
  <1>13. /\ IsDevice(e) /\ e.lin = lin /\ e.tail = lin /\ e.kv = x.dev.kv /\ e.mtp = d.mtp
         /\ e.ckLin = d.ckLin /\ e.ckHid = d.ckHid /\ e.ckLocal = d.ckLocal
    <2>1. /\ IsDevice(x.dev) /\ x.dev.mtp = d.mtp /\ x.dev.ckLin = d.ckLin
          /\ x.dev.ckHid = d.ckHid /\ x.dev.ckLocal = d.ckLocal
      BY <1>10 DEF OnlyIn, DeviceFields
    <2>2. /\ IsDevice(e) /\ e.lin = lin /\ e.tail = lin /\ e.kv = x.dev.kv /\ e.mtp = x.dev.mtp
          /\ e.ckLin = x.dev.ckLin /\ e.ckHid = x.dev.ckHid /\ e.ckLocal = x.dev.ckLocal
      <3> DEFINE w == x.dev
      <3>1. IsDevice(w)
        BY <2>1
      <3> HIDE DEF w
      <3>2. LET v == [w EXCEPT !.lin = lin, !.tail = lin]
            IN /\ IsDevice(v) /\ v.lin = lin /\ v.tail = lin /\ v.kv = w.kv /\ v.mtp = w.mtp
               /\ v.ckLin = w.ckLin /\ v.ckHid = w.ckHid /\ v.ckLocal = w.ckLocal
        BY <3>1 DEF IsDevice, DeviceFields
      <3> QED BY <3>2 DEF w
    <2> QED BY <2>1, <2>2
  <1> HIDE DEF e
  <1>14. e.lin = History(t, a) /\ e.tail = History(t, a)
    <2>1. x.dev.lin = d.lin
      BY <1>10 DEF OnlyIn, DeviceFields
    <2> QED BY <1>3, <1>7, <1>13, <2>1 DEF lin
  <1>15. /\ u.items = s.items /\ u.ledger = Append(s.ledger, tokens[1]) /\ u.ckpt = s.ckpt
         /\ u.E = E
    BY <1>1, <1>10 DEF SequenceRecords, ledger
  <1> HIDE DEF u
  <1>16. SameColumns(t, u, a)
    <2>1. s.ledger \in Seq(STRING) /\ Len(s.ledger) = a /\ tokens[1] \in STRING
      <3>1. s.S = E + 1 /\ Len(s.ledger) = s.S
        BY <1>1 DEF Ready
      <3>2. 1 \in 1 .. Len(tokens)
        BY <1>2
      <3> QED BY <1>1, <3>1, <3>2, SequenceFacts DEF a
    <2>2. \A i \in 1 .. a : Append(s.ledger, tokens[1])[i] = s.ledger[i]
      BY <2>1
    <2>3. \A i \in 1 .. a : (s.ledger \o tokens)[i] = s.ledger[i]
      BY <1>1, <2>1, ConcatAt
    <2>4. \A i \in 1 .. a : t.ledger[i] = u.ledger[i]
      BY <1>4, <1>15, <2>2, <2>3
    <2>5. t.items = u.items
      BY <1>4, <1>15
    <2>6. \A i \in 1 .. a : Column(t, i) = Column(u, i)
      BY <2>4, <2>5, EqualColumn
    <2> QED BY <2>6 DEF SameColumns
  <1>17. Whole(engine, u, e, a)
    <2>1. e.lin = History(u, a) /\ e.tail = History(u, a)
      <3>1. a <= a
        BY <1>7
      <3>2. History(t, a) = History(u, a)
        BY <1>7, <1>16, <3>1, SameHistory
      <3> QED BY <1>14, <3>2
    <2>2. Cells(u, e, a)
      <3>1. Cells(t, e, a)
        <4>1. e.kv = Over(d.kv, cells)
          BY <1>10, <1>13
        <4> QED BY <1>1, <1>3, <1>5, <1>7, <4>1, CellsWritten
      <3>2. a <= a
        BY <1>7
      <3> QED BY <1>7, <1>16, <3>1, <3>2, MoveCells
    <2>3. engine.backend = "none"
      BY EngineFacts
    <2>4. /\ Aligned(engine, u, e, a) /\ InContext(engine, u, e, u.dctx)
          /\ Waiting(engine, u, e, u.dctx, a)
      BY <2>3 DEF Aligned, InContext, Waiting
    <2>5. Saved(engine, u, e, u.ckpt.at)
      <3>1. Saved(engine, t, e, s.ckpt.at)
        BY <1>3, <1>13, SameSaved
      <3>2. s.ckpt.at <= a
        BY <1>1, <1>3, <1>7
      <3> QED BY <1>3, <1>7, <1>15, <1>16, <3>1, <3>2, MoveSaved
    <2>6. ItemsEnd(u, a)
      <3>1. s.items \in Seq(Items)
        BY <1>1, SequenceFacts
      <3>2. \A k \in DOMAIN s.items : s.items[k] \in Items
        BY <3>1
      <3>3. \A k \in DOMAIN s.items : s.items[k].last \in Nat
        BY <3>2 DEF Items
      <3> QED BY <1>1, <1>3, <1>7, <1>15, <3>3 DEF ItemsEnd
    <2> QED BY <2>1, <2>2, <2>4, <2>5, <2>6 DEF Whole
  <1>18. Whole(engine, u, e, u.E + 1)
    BY <1>15, <1>17 DEF a
  <1>19. LaneSound(engine, u,
            [req[l] EXCEPT !.life = "Pending", !.pending = PendingRow(l, tokens)], e)
    BY <1>1, <1>6, <1>13, <1>18, RoundSound
  <1> QED BY <1>11, <1>12, <1>19

\* A speculative round leaves its columns to be resolved.
LEMMA ProvisionalRow ==
    ASSUME engine \in Engines, NEW l, LaneOK(engine, seq[l], req[l], kv[l]),
           LaneSound(engine, seq[l], req[l], dev[l]),
           req[l].life = "Active", NEW tokens \in LicensedRows(l), Backend # "none",
           NEW u \in SequenceRecords, u.E = seq[l].E, u.ledger = seq[l].ledger,
           u.items = seq[l].items, u.ckpt = seq[l].ckpt,
           NEW e, IsDevice(e),
           e.kv = Over(dev[l].kv, VerifyCells(l, VerifyInputs(l, tokens))),
           e.lin = dev[l].lin,
           e.tail = dev[l].lin \o SubSeq(VerifyInputs(l, tokens), 1, Len(tokens)),
           e.ckLin = dev[l].ckLin, e.ckHid = dev[l].ckHid, e.ckLocal = dev[l].ckLocal,
           Aligned(engine, Licensed(seq[l], tokens), e, seq[l].E + Len(tokens)),
           InContext(engine, Licensed(seq[l], tokens), e, seq[l].E),
           Waiting(engine, Licensed(seq[l], tokens), e, seq[l].E, seq[l].E + Len(tokens))
    PROVE  LaneSound(engine, u,
              [req[l] EXCEPT !.life = "Pending", !.pending = PendingRow(l, tokens)], e)
  <1> DEFINE s == seq[l]
             E == s.E
             m == Len(tokens)
             t == Licensed(s, tokens)
             v == Licensed(u, tokens)
             d == dev[l]
             inputs == VerifyInputs(l, tokens)
             cells == VerifyCells(l, inputs)
             pending == PendingRow(l, tokens)
             f == E + m
  <1>1. /\ s \in SequenceRecords /\ E \in Nat /\ Extent(l) \in Nat /\ req[l] \in RequestRecords
        /\ tokens \in Seq(STRING) /\ m \in Nat /\ m >= 1 /\ m <= Extent(l) + 1
    BY DecodeNumbers
  <1>2. /\ IsDevice(d) /\ Cells(t, d, E) /\ d.lin = History(t, E)
        /\ Saved(engine, t, d, s.ckpt.at) /\ ItemsEnd(s, E)
        /\ s.ckpt.at \in Nat /\ s.ckpt.at <= E
    BY RoundBase
  <1>3. /\ t.items = s.items /\ t.ledger = s.ledger \o tokens
        /\ inputs \in Seq(Inputs) /\ Len(inputs) = Extent(l) + 1
        /\ \A j \in 1 .. m : inputs[j] = Column(t, E + j)
    BY RoundColumns
  <1>4. /\ History(t, E) \o SubSeq(inputs, 1, m) = History(t, f)
        /\ f <= Capacity
        /\ \A i \in 1 .. E : i \notin DOMAIN cells
        /\ \A i \in E + 1 .. f : i \in DOMAIN cells /\ cells[i].in = Column(t, i)
    BY RoundWritten
  <1>5. /\ pending.kind = "speculative" /\ pending.tokens = tokens /\ pending.columns = inputs
    BY DEF PendingRow
  <1>6. v.items = u.items /\ v.ledger = u.ledger \o tokens
    BY <1>1, LicensedColumns
  <1>7. /\ e.kv = Over(d.kv, cells) /\ e.lin = d.lin /\ e.tail = d.lin \o SubSeq(inputs, 1, m)
        /\ e.ckLin = d.ckLin /\ e.ckHid = d.ckHid /\ e.ckLocal = d.ckLocal
        /\ Aligned(engine, t, e, f) /\ InContext(engine, t, e, E)
        /\ Waiting(engine, t, e, E, f)
        /\ u.E = E /\ u.ledger = s.ledger /\ u.items = s.items /\ u.ckpt = s.ckpt
    OBVIOUS
  <1> HIDE DEF s, t, v, d, inputs, cells, pending, m
  <1>8. \A i : Column(t, i) = Column(v, i)
    <2>1. t.items = v.items /\ t.ledger = v.ledger
      BY <1>3, <1>6, <1>7
    <2> QED BY <2>1, EqualColumn
  <1>9. \A n : SameColumns(t, v, n)
    BY <1>8 DEF SameColumns
  <1>10. f \in Nat /\ E <= f /\ f <= f /\ f + 1 \in Nat /\ f < f + 1 /\ E <= E
         /\ s.ckpt.at <= s.ckpt.at
    <2> HIDE DEF E
    <2> QED BY <1>1, <1>2
  <1> HIDE DEF E, f
  <1>11. Cells(v, e, f)
    <2>1. Cells(t, e, f)
      BY <1>1, <1>2, <1>4, <1>7, <1>10, CellsWritten
    <2> QED BY <1>9, <1>10, <2>1, MoveCells
  <1>12. e.lin = History(v, E) /\ e.tail = History(v, f)
    <2>1. History(t, E) = History(v, E)
      BY <1>1, <1>9, <1>10, SameHistory
    <2>2. History(t, f) = History(v, f)
      BY <1>9, <1>10, SameHistory
    <2> QED BY <1>2, <1>4, <1>7, <2>1, <2>2
  <1>13. Aligned(engine, v, e, f)
    BY <1>7, <1>9, <1>10, MoveAligned
  <1>14. InContext(engine, v, e, E)
    BY <1>1, <1>7, <1>9, <1>10, MoveContext
  <1>15. Waiting(engine, v, e, E, f)
    BY <1>1, <1>7, <1>9, <1>10, MoveWaiting
  <1>16. Saved(engine, v, e, s.ckpt.at)
    <2>1. Saved(engine, t, e, s.ckpt.at)
      BY <1>2, <1>7, SameSaved
    <2> QED BY <1>2, <1>9, <1>10, <2>1, MoveSaved
  <1>17. \A j \in 1 .. m : inputs[j] = Column(v, E + j)
    BY <1>3, <1>8
  <1>18. ItemsEnd(u, E)
    BY <1>2, <1>7 DEF ItemsEnd
  <1>19. Provisional(engine, u, pending, e)
    BY <1>1, <1>3, <1>5, <1>7, <1>11, <1>12, <1>13, <1>14, <1>15, <1>16, <1>17, <1>18
       DEF Provisional, v, f, m
  <1>20. LaneSound(engine, u, [req[l] EXCEPT !.life = "Pending", !.pending = pending], e)
    BY <1>1, <1>5, <1>19, RoundSound
  <1> QED BY <1>20 DEF pending

\* Cells beyond the aligned ones change nothing.
LEMMA AlignedBeyond ==
    ASSUME engine \in Engines, NEW en, NEW s, NEW d, NEW e, NEW a \in Nat, a <= Capacity,
           NEW new, e.mtp = Over(d.mtp, new), \A i \in 1 .. a : i \notin DOMAIN new,
           Aligned(en, s, d, a)
    PROVE  Aligned(en, s, e, a)
  <1>1. a <= a /\ \A i \in a + 1 .. a : FALSE
    OBVIOUS
  <1> QED BY <1>1, AlignedWritten

LEMMA MtpRowSound ==
    ASSUME engine \in Engines, NEW l, LaneOK(engine, seq[l], req[l], kv[l]),
           LaneSound(engine, seq[l], req[l], dev[l]),
           req[l].life = "Active", NEW tokens \in LicensedRows(l), Backend = "mtp"
    PROVE  LET y == DecodeRow(l, tokens)
           IN LaneSound(engine, y.seq,
                 [req[l] EXCEPT !.life = "Pending", !.pending = PendingRow(l, tokens)], y.dev)
  <1> DEFINE s == seq[l]
             d == dev[l]
             E == s.E
             t == Licensed(s, tokens)
             n == E + Extent(l) + 1
             reach == MtpReach(l)
             inputs == VerifyInputs(l, tokens)
             g == Materialize(View(l), n, reach)
             x == WriteText(g, n, VerifyCells(l, inputs))
             m == Len(tokens)
             end == E + m
             cells == [i \in E + 1 .. end |->
                          MtpCell(Feature(i, inputs[i - E]), tokens[i - E])]
             a == WriteMtp(x, end, cells)
             next == NextExtent(l, m)
             last == end + Max({0, next - 1})
             drafts == [i \in end + 1 .. last |-> MtpCell(LostFeature, Rejected)]
             w == WriteMtp(a, last, drafts)
             tail == x.dev.lin \o SubSeq(inputs, 1, m)
             e == [w.dev EXCEPT !.tail = tail]
             y == [w EXCEPT !.dev = e]
  <1>1. /\ s \in SequenceRecords /\ req[l] \in RequestRecords /\ kv[l] \in Bundles
        /\ Ready(engine, s, req[l], kv[l])
        /\ E \in Nat /\ Extent(l) \in Nat /\ n \in Nat
        /\ tokens \in Seq(STRING) /\ m \in Nat /\ m >= 1 /\ m <= Extent(l) + 1 /\ end \in Nat
    BY DecodeNumbers
  <1>2. reach \in Nat /\ last \in Nat
    BY <1>1, NextDrafts
  <1>3. DecodeRow(l, tokens) = [w EXCEPT !.dev.tail = tail]
    BY DEF DecodeRow, DecodeMtpRow, WriteDrafts
  <1>4. /\ IsDevice(d) /\ Aligned(engine, t, d, E)
    BY RoundBase
  <1>5. /\ \A j \in 1 .. m : inputs[j] = Column(t, E + j)
        /\ \A j \in 1 .. m : tokens[j] = Column(t, E + j + 1)
    BY RoundColumns
  <1>6. end <= Capacity
    BY RoundWritten
  <1>7. View(l).kv = kv[l] /\ View(l).dev = d /\ View(l).seq = s /\ IsView(View(l))
    BY ViewFacts
  <1> HIDE DEF s, d, n, reach, t, inputs, last, next
  <1>8. IsView(g) /\ g.seq = s /\ g.dev = d
    BY <1>1, <1>2, <1>7, MaterializeDevice DEF SameSequence
  <1> HIDE DEF g
  <1>9. /\ IsView(x) /\ x.seq = s /\ OnlyIn({"kv"}, d, x.dev)
        /\ x.dev.kv = Over(d.kv, VerifyCells(l, inputs))
    BY <1>4, <1>8, WriteTextDevice
  <1>10. IsDevice(x.dev) /\ x.dev.lin = d.lin /\ x.dev.ckLin = d.ckLin /\ x.dev.ckHid = d.ckHid
         /\ x.dev.ckLocal = d.ckLocal /\ x.dev.mtp = d.mtp
    BY <1>9 DEF OnlyIn, DeviceFields
  <1> HIDE DEF x, cells, drafts
  <1>11. /\ IsView(a) /\ a.seq = s /\ OnlyIn({"mtp"}, x.dev, a.dev)
         /\ a.dev.mtp = Over(d.mtp, cells)
    BY <1>9, <1>10, WriteMtpDevice
  <1>12. IsDevice(a.dev) /\ a.dev.lin = d.lin /\ a.dev.ckLin = d.ckLin /\ a.dev.ckHid = d.ckHid
         /\ a.dev.ckLocal = d.ckLocal /\ a.dev.kv = x.dev.kv
    BY <1>10, <1>11 DEF OnlyIn, DeviceFields
  <1> HIDE DEF a
  <1>13. /\ IsView(w) /\ w.seq = s /\ OnlyIn({"mtp"}, a.dev, w.dev)
         /\ w.dev.mtp = Over(a.dev.mtp, drafts)
    BY <1>11, <1>12, WriteMtpDevice
  <1>14. IsDevice(w.dev) /\ w.dev.lin = d.lin /\ w.dev.ckLin = d.ckLin /\ w.dev.ckHid = d.ckHid
         /\ w.dev.ckLocal = d.ckLocal /\ w.dev.kv = x.dev.kv
    BY <1>12, <1>13 DEF OnlyIn, DeviceFields
  <1> HIDE DEF w, tail
  <1>15. IsDevice(e) /\ e.lin = d.lin /\ e.ckLin = d.ckLin /\ e.ckHid = d.ckHid
         /\ e.ckLocal = d.ckLocal /\ e.kv = x.dev.kv /\ e.tail = tail /\ e.mtp = w.dev.mtp
    <2> DEFINE b == w.dev
    <2>1. IsDevice(b)
      BY <1>14
    <2> HIDE DEF b
    <2>2. LET v == [b EXCEPT !.tail = tail]
          IN IsDevice(v) /\ v.lin = b.lin /\ v.ckLin = b.ckLin /\ v.ckHid = b.ckHid
             /\ v.ckLocal = b.ckLocal /\ v.kv = b.kv /\ v.tail = tail /\ v.mtp = b.mtp
      BY <2>1 DEF IsDevice, DeviceFields
    <2> QED BY <1>14, <2>2 DEF b
  <1>16. DecodeRow(l, tokens) = y
    BY <1>3, <1>13 DEF IsView, ViewFields
  <1> HIDE DEF e
  <1>17. y.dev = e /\ y.seq = s
    BY <1>13 DEF IsView, ViewFields
  <1> HIDE DEF E, m, end
  <1>18. /\ \A i \in 1 .. E : i \notin DOMAIN cells
         /\ \A i \in E + 1 .. end :
               /\ i \in DOMAIN cells
               /\ cells[i] = MtpCell(Feature(i, Column(t, i)), Column(t, i + 1))
    <2>1. DOMAIN cells = E + 1 .. end
      BY DEF cells
    <2>2. \A i \in 1 .. E : i \notin E + 1 .. end
      BY <1>1
    <2>3. ASSUME NEW i \in E + 1 .. end
          PROVE  cells[i] = MtpCell(Feature(i, Column(t, i)), Column(t, i + 1))
      <3>1. i - E \in 1 .. m /\ E + (i - E) = i /\ E + (i - E) + 1 = i + 1
        BY <1>1 DEF end
      <3>2. inputs[i - E] = Column(t, i) /\ tokens[i - E] = Column(t, i + 1)
        BY <1>5, <3>1
      <3> QED BY <3>2 DEF cells
    <2> QED BY <2>1, <2>2, <2>3
  <1>19. E <= end
    BY <1>1 DEF end
  <1>20. Aligned(engine, t, a.dev, end)
    BY <1>1, <1>4, <1>6, <1>11, <1>18, <1>19, AlignedWritten
  <1>21. Aligned(engine, t, w.dev, end)
    <2>1. \A i \in 1 .. end : i \notin DOMAIN drafts
      <3>1. DOMAIN drafts = end + 1 .. last
        BY DEF drafts
      <3> QED BY <1>1, <1>2, <3>1
    <2> QED BY <1>1, <1>6, <1>13, <1>20, <2>1, AlignedBeyond
  <1>22. Aligned(engine, t, e, end)
    BY <1>15, <1>21, SameAligned
  <1>23. /\ InContext(engine, t, e, E) /\ Waiting(engine, t, e, E, end)
    <2>1. engine.backend = "mtp"
      BY EngineFacts
    <2> QED BY <2>1 DEF InContext, Waiting
  <1>24. e.tail = d.lin \o SubSeq(inputs, 1, m)
    BY <1>10, <1>15 DEF tail
  <1>25. e.kv = Over(d.kv, VerifyCells(l, inputs))
    BY <1>9, <1>15
  <1>26. LaneSound(engine, s,
            [req[l] EXCEPT !.life = "Pending", !.pending = PendingRow(l, tokens)], e)
    BY <1>1, <1>15, <1>22, <1>23, <1>24, <1>25, ProvisionalRow
       DEF s, d, t, E, m, end, inputs
  <1> QED BY <1>16, <1>17, <1>26

LEMMA DFlashRowSound ==
    ASSUME engine \in Engines, NEW l, LaneOK(engine, seq[l], req[l], kv[l]),
           LaneSound(engine, seq[l], req[l], dev[l]),
           req[l].life = "Active", NEW tokens \in LicensedRows(l), Backend = "dflash"
    PROVE  LET y == DecodeRow(l, tokens)
           IN LaneSound(engine, y.seq,
                 [req[l] EXCEPT !.life = "Pending", !.pending = PendingRow(l, tokens)], y.dev)
  <1> DEFINE s == seq[l]
             d == dev[l]
             E == s.E
             t == Licensed(s, tokens)
             n == E + Extent(l) + 1
             m == Len(tokens)
             end == E + m
             inputs == VerifyInputs(l, tokens)
             g == Materialize(View(l), n, E)
             old == [i \in s.dctx + 1 .. E |-> g.dev.features[i - s.dctx]]
             a == AppendContext(g, E, old)
             w == WriteText(a, n, VerifyCells(l, inputs))
             tail == g.dev.lin \o SubSeq(inputs, 1, m)
             new == [j \in DOMAIN inputs |-> Feature(E + j, inputs[j])]
             e == [w.dev EXCEPT !.tail = tail, !.features = new]
             u == [w.seq EXCEPT !.dctx = E]
             y == [w EXCEPT !.dev = e, !.seq = u]
  <1>1. /\ s \in SequenceRecords /\ req[l] \in RequestRecords /\ kv[l] \in Bundles
        /\ Ready(engine, s, req[l], kv[l])
        /\ E \in Nat /\ Extent(l) \in Nat /\ n \in Nat
        /\ tokens \in Seq(STRING) /\ m \in Nat /\ m >= 1 /\ m <= Extent(l) + 1 /\ end \in Nat
    BY DecodeNumbers
  <1>2. DecodeRow(l, tokens)
          = [w EXCEPT !.dev.tail = tail, !.dev.features = new, !.seq.dctx = E]
    BY DEF DecodeRow, DecodeDFlashRow
  <1>3. /\ IsDevice(d) /\ InContext(engine, t, d, s.dctx)
        /\ Waiting(engine, t, d, s.dctx, E) /\ s.dctx \in Nat /\ s.dctx <= E
    BY RoundBase
  <1>4. /\ inputs \in Seq(Inputs) /\ Len(inputs) = Extent(l) + 1
        /\ \A j \in 1 .. m : inputs[j] = Column(t, E + j)
    BY RoundColumns
  <1>5. end <= Capacity
    BY RoundWritten
  <1>6. View(l).kv = kv[l] /\ View(l).dev = d /\ View(l).seq = s /\ IsView(View(l))
    BY ViewFacts
  <1>7. engine.backend = "dflash"
    BY EngineFacts
  <1> HIDE DEF s, d, n, t, inputs
  <1>8. IsView(g) /\ g.seq = s /\ g.dev = d
    BY <1>1, <1>6, MaterializeDevice DEF SameSequence
  <1> HIDE DEF g, old
  <1>9. /\ IsView(a) /\ a.seq = s /\ OnlyIn({"full", "local"}, d, a.dev)
        /\ a.dev.full = Over(d.full, old) /\ a.dev.local = Turned(d.local, old)
    BY <1>3, <1>8, AppendDevice
  <1>10. /\ IsDevice(a.dev) /\ a.dev.lin = d.lin /\ a.dev.ckLin = d.ckLin
         /\ a.dev.ckHid = d.ckHid /\ a.dev.ckLocal = d.ckLocal /\ a.dev.kv = d.kv
    BY <1>9 DEF OnlyIn, DeviceFields
  <1> HIDE DEF a
  <1>11. /\ IsView(w) /\ w.seq = s /\ OnlyIn({"kv"}, a.dev, w.dev)
         /\ w.dev.kv = Over(d.kv, VerifyCells(l, inputs))
    BY <1>9, <1>10, WriteTextDevice
  <1>12. /\ IsDevice(w.dev) /\ w.dev.lin = d.lin /\ w.dev.ckLin = d.ckLin
         /\ w.dev.ckHid = d.ckHid /\ w.dev.ckLocal = d.ckLocal
         /\ w.dev.full = a.dev.full /\ w.dev.local = a.dev.local
    BY <1>10, <1>11 DEF OnlyIn, DeviceFields
  <1> HIDE DEF w, tail, new
  <1>13. /\ IsDevice(e) /\ e.lin = d.lin /\ e.ckLin = d.ckLin /\ e.ckHid = d.ckHid
         /\ e.ckLocal = d.ckLocal /\ e.kv = w.dev.kv /\ e.tail = tail /\ e.features = new
         /\ e.full = a.dev.full /\ e.local = a.dev.local
    <2> DEFINE b == w.dev
    <2>1. IsDevice(b)
      BY <1>12
    <2> HIDE DEF b
    <2>2. LET v == [b EXCEPT !.tail = tail, !.features = new]
          IN /\ IsDevice(v) /\ v.lin = b.lin /\ v.ckLin = b.ckLin /\ v.ckHid = b.ckHid
             /\ v.ckLocal = b.ckLocal /\ v.kv = b.kv /\ v.tail = tail /\ v.features = new
             /\ v.full = b.full /\ v.local = b.local
      BY <2>1 DEF IsDevice, DeviceFields
    <2> QED BY <1>12, <2>2 DEF b
  <1>14. DecodeRow(l, tokens) = y
    <2> HIDE DEF E
    <2> QED BY <1>2, <1>11 DEF IsView, ViewFields
  <1>15. /\ u \in SequenceRecords /\ u.E = E /\ u.ledger = s.ledger /\ u.items = s.items
         /\ u.ckpt = s.ckpt
    <2> DEFINE v == E
    <2>1. v \in Nat /\ u = [s EXCEPT !.dctx = v]
      BY <1>1, <1>11
    <2> HIDE DEF v
    <2> QED BY <1>1, <2>1 DEF SequenceRecords
  <1> HIDE DEF e, u
  <1>16. y.dev = e /\ y.seq = u
    BY <1>11 DEF IsView, ViewFields
  <1> HIDE DEF E, m, end
  <1>17. InContext(engine, t, e, E)
    <2>1. DOMAIN old = s.dctx + 1 .. E
      BY DEF old
    <2>2. \A i \in s.dctx + 1 .. E : old[i] = Feature(i, Column(t, i))
      BY <1>3, <1>7, <1>8 DEF Waiting, old
    <2>3. E <= Capacity
      BY <1>1, <1>5, EngineFacts DEF end
    <2>4. InContext(engine, t, a.dev, E)
      BY <1>1, <1>3, <1>9, <2>1, <2>2, <2>3, ContextAppended
    <2> QED BY <1>13, <2>4, SameContext
  <1>18. Waiting(engine, t, e, E, end)
    <2> SUFFICES ASSUME NEW i \in E + 1 .. end
                 PROVE  e.features[i - E] = Feature(i, Column(t, i))
      BY DEF Waiting
    <2>1. i - E \in 1 .. m /\ E + (i - E) = i
      BY <1>1 DEF end
    <2>2. i - E \in DOMAIN inputs
      <3> DEFINE x == Extent(l)
                 j == i - E
      <3>1. DOMAIN inputs = 1 .. x + 1 /\ j \in 1 .. m /\ m \in Nat /\ m <= x + 1 /\ x \in Nat
        BY <1>1, <1>4, <2>1
      <3> HIDE DEF x, j
      <3>2. j \in DOMAIN inputs
        BY <3>1
      <3> QED BY <3>2 DEF j
    <2>3. new[i - E] = Feature(E + (i - E), inputs[i - E])
      BY <2>2 DEF new
    <2> QED BY <1>4, <1>13, <2>1, <2>3
  <1>19. Aligned(engine, t, e, end)
    BY <1>7 DEF Aligned
  <1>20. e.tail = d.lin \o SubSeq(inputs, 1, m)
    BY <1>8, <1>13 DEF tail
  <1>21. e.kv = Over(d.kv, VerifyCells(l, inputs))
    BY <1>11, <1>13
  <1>22. LaneSound(engine, u,
            [req[l] EXCEPT !.life = "Pending", !.pending = PendingRow(l, tokens)], e)
    BY <1>1, <1>13, <1>15, <1>17, <1>18, <1>19, <1>20, <1>21, ProvisionalRow
       DEF s, d, t, E, m, end, inputs
  <1> QED BY <1>14, <1>16, <1>22

LEMMA DecodeContents ==
    ASSUME BInv, CInv, DecodeBatch
    PROVE  CInv'
  <1> DEFINE rows == ActiveLanes
  <1>1. PICK tokens \in [rows -> UNION {LicensedRows(l) : l \in rows}] :
           /\ \A l \in rows : tokens[l] \in LicensedRows(l)
           /\ ApplyBatch(rows,
                 [l \in rows |-> Require(DecodeRow(l, tokens[l]), RowReady(l))],
                 [l \in rows |-> [req[l] EXCEPT !.life = "Pending",
                                                !.pending = PendingRow(l, tokens[l])]])
    BY DEF DecodeBatch
  <1> DEFINE row(l) == Require(DecodeRow(l, tokens[l]), RowReady(l))
             q(l) == [req[l] EXCEPT !.life = "Pending", !.pending = PendingRow(l, tokens[l])]
             x == [l \in rows |-> row(l)]
             r == [l \in rows |-> q(l)]
  <1>2. engine \in Engines /\ engine' = engine
    BY DEF BInv, DecodeBatch
  <1>3. rows \in SUBSET Lanes /\ \A l \in rows : req[l].life = "Active"
    BY DEF ActiveLanes
  <1>4. ASSUME NEW l \in rows
        PROVE  Kept(l, x[l], r[l]) /\ LaneSound(engine, x[l].seq, r[l], x[l].dev)
    <2>1. /\ LaneOK(engine, seq[l], req[l], kv[l]) /\ req[l].life = "Active"
          /\ LaneSound(engine, seq[l], req[l], dev[l])
          /\ tokens[l] \in LicensedRows(l)
      BY <1>1, <1>3 DEF BInv, CInv
    <2>2. Kept(l, row(l), q(l))
      BY <1>2, <2>1, DecodeKeeps
    <2>3. Backend \in {"none", "mtp", "dflash"}
      BY <1>2, EngineFacts
    <2>4. LET y == DecodeRow(l, tokens[l]) IN LaneSound(engine, y.seq, q(l), y.dev)
      BY <1>2, <2>1, <2>3, OrdinaryRowSound, MtpRowSound, DFlashRowSound
    <2>5. row(l) = DecodeRow(l, tokens[l])
      BY <1>2, <2>1, RowIsReady
    <2>6. x[l] = row(l) /\ r[l] = q(l)
      OBVIOUS
    <2> HIDE DEF row, q, x, r
    <2> QED BY <2>2, <2>4, <2>5, <2>6
  <1>5. ApplyBatch(rows, x, r)
    BY <1>1
  <1> HIDE DEF rows, x, r
  <1> QED BY <1>2, <1>3, <1>4, <1>5, BatchContents

-----------------------------------------------------------------------------
(***************************************************************************)
(* A chunk of a prompt.                                                    *)
(***************************************************************************)

\* The sequence t is that of the prompt p, before or after the first token.
Follows(t, p, token) ==
    /\ t \in SequenceRecords /\ t.items = p.items
    /\ t.ledger = p.ids \/ t.ledger = Append(p.ids, token)

LEMMA PromptColumns ==
    ASSUME engine \in Engines, NEW p \in Prompts, NEW token \in STRING, NEW t,
           Follows(t, p, token)
    PROVE  /\ Len(p.ids) \in Nat /\ Len(p.ids) <= Len(t.ledger) /\ Len(t.ledger) \in Nat
           /\ \A i \in 1 .. Len(p.ids) : Column(t, i) = Meaning(p.ids, p.items, i)
           /\ t.ledger = Append(p.ids, token) => /\ Len(t.ledger) = Len(p.ids) + 1
                                                 /\ Column(t, Len(p.ids) + 1) = token
           /\ ItemsEnd(t, Len(p.ids))
  <1> DEFINE n == Len(p.ids)
             ids == p.ids
  <1>1. ids \in Seq(STRING) /\ p.items \in Seq(Items) /\ n \in Nat
    BY PromptFacts
  <1>2. t.items = p.items /\ (t.ledger = ids \/ t.ledger = Append(ids, token))
    BY DEF Follows
  <1> HIDE DEF ids
  <1>3. /\ Len(ids) \in Nat /\ Append(ids, token) \in Seq(STRING)
        /\ Len(Append(ids, token)) = Len(ids) + 1
        /\ Append(ids, token)[Len(ids) + 1] = token
        /\ \A i \in 1 .. Len(ids) : Append(ids, token)[i] = ids[i]
    BY <1>1
  <1>4. \A i \in 1 .. Len(ids) : t.ledger[i] = ids[i]
    BY <1>2, <1>3
  <1>5. \A i \in 1 .. Len(ids) : Column(t, i) = Meaning(ids, p.items, i)
    BY <1>2, <1>4 DEF Column, Meaning
  <1>6. ItemsEnd(t, n)
    BY <1>2, ItemColumns DEF ItemsEnd
  <1>7. t.ledger = Append(ids, token) => Column(t, Len(ids) + 1) = token
    <2>1. Len(ids) + 1 \in Nat /\ Len(ids) + 1 > Len(ids)
      BY <1>3
    <2>2. ~Visual(p.items, Len(ids) + 1)
      <3>1. \A k \in DOMAIN p.items : p.items[k].last <= Len(ids)
        BY <1>2, <1>6 DEF ItemsEnd, ids
      <3> QED BY <1>1, <1>3, <2>1, <3>1, NotVisual
    <2>3. Column(t, Len(ids) + 1) = t.ledger[Len(ids) + 1]
      BY <1>2, <2>2, PlainColumn
    <2> QED BY <1>3, <2>3
  <1>8. Len(ids) <= Len(t.ledger) /\ Len(t.ledger) \in Nat
    BY <1>2, <1>3
  <1> QED BY <1>2, <1>3, <1>5, <1>6, <1>7, <1>8 DEF ids

\* The item that a chunk or a bridge encodes is one of the prompt.
LEMMA ActiveFacts ==
    ASSUME engine \in Engines, NEW st, StagedOK(engine, st), NEW b, NEW e
    PROVE  /\ ActiveItem(st, b, e) \in Nat
           /\ ActiveItem(st, b, e) # 0 => ActiveItem(st, b, e) \in DOMAIN st.prompt.items
  <1> DEFINE uses == UsesOf(st, b, e)
  <1>1. /\ st.uses \subseteq DOMAIN st.prompt.items /\ DOMAIN st.prompt.items \subseteq Nat
    BY StagedNumbers
  <1>2. uses \subseteq st.uses
    BY DEF UsesOf
  <1>3. ActiveItem(st, b, e) = IF uses = {} THEN 0 ELSE Min(uses)
    BY DEF ActiveItem
  <1> HIDE DEF uses
  <1>4. CASE uses = {}
    BY <1>3, <1>4
  <1>5. CASE uses # {}
    <2>1. uses \subseteq Nat
      BY <1>1, <1>2
    <2>2. Min(uses) \in uses
      BY <1>5, <2>1, LeastNumber
    <2> QED BY <1>1, <1>2, <1>3, <1>5, <2>2
  <1> QED BY <1>4, <1>5

\* What the columns of a chunk read, and what follows each of them.
LEMMA ChunkInputs ==
    ASSUME engine \in Engines, NEW st, StagedOK(engine, st), st.cursor < Len(st.prompt.ids),
           NEW token \in STRING, NEW t, Follows(t, st.prompt, token),
           ChunkEnd(st) = Len(st.prompt.ids) => t.ledger = Append(st.prompt.ids, token)
    PROVE  LET p == st.prompt
               e == ChunkEnd(st)
               item == ActiveItem(st, st.cursor, ChunkLimit(st))
           IN /\ e \in Nat /\ st.cursor \in Nat /\ st.cursor < e /\ e <= Len(p.ids)
              /\ \A i \in st.cursor + 1 .. e : Embedded(p, item, i) = Column(t, i)
              /\ Backend = "mtp" => \A i \in st.cursor + 1 .. e :
                    (IF i = Len(p.ids) THEN token ELSE Embedded(p, item, i + 1)) = Column(t, i + 1)
  <1> DEFINE p == st.prompt
             n == Len(p.ids)
             e == ChunkEnd(st)
             c == st.cursor
             item == ActiveItem(st, c, ChunkLimit(st))
  <1>1. p \in Prompts /\ c \in Nat /\ n \in Nat
    BY StagedNumbers
  <1>2. e \in Nat /\ c < e /\ e <= n
    <2>1. /\ e \in Nat /\ c < e /\ e <= ChunkLimit(st)
          /\ ChunkLimit(st) \in Nat /\ ChunkLimit(st) <= n
      BY CutFacts, LimitFacts
    <2> HIDE DEF e, c, n
    <2> QED BY <1>1, <2>1
  <1>3. item \in Nat /\ (item # 0 => item \in DOMAIN p.items)
    BY ActiveFacts
  <1>4. /\ \A i \in 1 .. n : Column(t, i) = Meaning(p.ids, p.items, i)
        /\ t.ledger = Append(p.ids, token) => Column(t, n + 1) = token
    BY <1>1, PromptColumns
  <1>5. \A i \in Nat : i > c /\ i <= n /\ (i <= e \/ (Backend = "mtp" /\ i = e + 1))
                       => Embedded(p, item, i) = Column(t, i)
    <2> SUFFICES ASSUME NEW i \in Nat, i > c, i <= n, i <= e \/ (Backend = "mtp" /\ i = e + 1)
                 PROVE  Embedded(p, item, i) = Column(t, i)
      OBVIOUS
    <2>1. ASSUME NEW k \in DOMAIN p.items, Covers(p.items[k], i) PROVE k = item
      <3>1. i <= ChunkEnd(st) \/ (Backend = "mtp" /\ i = ChunkEnd(st) + 1)
        OBVIOUS
      <3> QED BY <2>1, <3>1, ChunkItem
    <2>2. Embedded(p, item, i) = Meaning(p.ids, p.items, i)
      <3> HIDE DEF item, p
      <3> QED BY <1>1, <1>3, <2>1, EmbeddedColumn
    <2>3. i \in 1 .. n
      BY <1>1
    <2> QED BY <1>4, <2>2, <2>3
  <1>6. e = n => t.ledger = Append(p.ids, token)
    OBVIOUS
  <1> HIDE DEF e, n, c, item, p
  <1>7. ASSUME NEW i \in c + 1 .. e PROVE Embedded(p, item, i) = Column(t, i)
    <2>1. i \in Nat /\ i > c /\ i <= n /\ i <= e
      BY <1>1, <1>2
    <2> QED BY <1>5, <2>1
  <1>8. ASSUME Backend = "mtp", NEW i \in c + 1 .. e
        PROVE  (IF i = n THEN token ELSE Embedded(p, item, i + 1)) = Column(t, i + 1)
    <2>1. CASE i = n
      <3>1. e = n
        <4>1. n <= e
          BY <1>1, <1>2, <2>1
        <4> QED BY <1>1, <1>2, <4>1
      <3>2. Column(t, n + 1) = token
        BY <1>4, <1>6, <3>1
      <3> QED BY <2>1, <3>2
    <2>2. CASE i # n
      <3>1. i + 1 \in Nat /\ i + 1 > c /\ i + 1 <= n /\ (i + 1 <= e \/ i + 1 = e + 1)
        BY <1>1, <1>2, <2>2
      <3>2. Embedded(p, item, i + 1) = Column(t, i + 1)
        BY <1>5, <1>8, <3>1, Zenon
      <3> QED BY <2>2, <3>2
    <2> QED BY <2>1, <2>2
  <1> QED BY <1>1, <1>2, <1>7, <1>8 DEF e, n, c, item, p

\* The parts of the device that a chunk does not touch.
ChunkFields == {"kv", "mtp", "lin", "ckLin", "ckHid"}

\* A chunk may leave its recurrent state as the checkpoint.
LEMMA CaptureDevice ==
    ASSUME NEW x, IsView(x), IsDevice(x.dev), NEW st, NEW e
    PROVE  LET y == Capture(x, st, e)
           IN /\ IsView(y) /\ y.seq = x.seq /\ OnlyIn({"ckLin", "ckHid"}, x.dev, y.dev)
              /\ y.dev.ckLin = IF st.capture.at = e THEN x.dev.lin ELSE x.dev.ckLin
              /\ y.dev.ckHid = IF st.capture.at = e THEN x.dev.lin ELSE x.dev.ckHid
  <1> DEFINE a == x.dev.lin
             w == x.dev
             d == [w EXCEPT !.ckHid = a, !.ckLin = a]
             z == [x EXCEPT !.dev = d]
  <1>1. Capture(x, st, e) = IF st.capture.at # e THEN x ELSE z
    BY DEF Capture, IsView, ViewFields
  <1>2. IsDevice(w) /\ w = x.dev
    OBVIOUS
  <1> HIDE DEF a, w
  <1>3. OnlyIn({"ckLin", "ckHid"}, w, d) /\ d.ckLin = a /\ d.ckHid = a
    BY <1>2 DEF OnlyIn, IsDevice, DeviceFields
  <1> HIDE DEF d
  <1>4. IsView(z) /\ z.seq = x.seq /\ z.dev = d
    BY DEF IsView, ViewFields
  <1>5. OnlyIn({"ckLin", "ckHid"}, w, w)
    BY <1>2 DEF OnlyIn
  <1> HIDE DEF z
  <1>6. CASE st.capture.at # e
    BY <1>1, <1>2, <1>5, <1>6
  <1>7. CASE st.capture.at = e
    BY <1>1, <1>2, <1>3, <1>4, <1>7 DEF a
  <1> QED BY <1>6, <1>7

\* What a chunk writes of the text cells, the MTP cells and the recurrent state.
LEMMA ComputedContents ==
    ASSUME engine \in Engines, NEW st, StagedOK(engine, st), st.cursor < Len(st.prompt.ids),
           NEW token \in STRING, NEW t, Follows(t, st.prompt, token),
           ChunkEnd(st) = Len(st.prompt.ids) => t.ledger = Append(st.prompt.ids, token),
           NEW x, IsView(x), IsDevice(x.dev), x.seq \in SequenceRecords,
           Cells(t, x.dev, st.cursor), x.dev.lin = History(t, st.cursor),
           Aligned(engine, t, x.dev, st.cursor)
    PROVE  LET e == ChunkEnd(st)
               y == ComputeChunk(x, st, e, token)
           IN /\ IsView(y) /\ y.seq.items = x.seq.items
              /\ OnlyIn(ChunkFields, x.dev, y.dev)
              /\ Cells(t, y.dev, e) /\ y.dev.lin = History(t, e) /\ Aligned(engine, t, y.dev, e)
              /\ y.dev.ckLin = IF st.capture.at = e THEN History(t, e) ELSE x.dev.ckLin
              /\ y.dev.ckHid = IF st.capture.at = e THEN History(t, e) ELSE x.dev.ckHid
  <1> DEFINE p == st.prompt
             n == Len(p.ids)
             c == st.cursor
             e == ChunkEnd(st)
             item == ActiveItem(st, c, ChunkLimit(st))
             columns == c + 1 .. e
             input(i) == Embedded(p, item, i)
             shifted(i) == IF i = n THEN token ELSE Embedded(p, item, i + 1)
             cells == [i \in columns |-> [in |-> input(i), pos |-> RopePosition(st, i)]]
             mtp == [i \in columns |-> MtpCell(Feature(i, input(i)), shifted(i))]
             checked == Require(x, e > c /\ InOrder(st, item))
             text == WriteText(checked, e, cells)
             aligned == WriteMtp(text, e, mtp)
             drafts == [i \in n + 1 .. n + st.extent - 1 |-> MtpCell(LostFeature, Rejected)]
             drafted == IF e = n /\ st.extent # 0
                        THEN WriteMtp(aligned, n + st.extent - 1, drafts) ELSE aligned
             base == IF Backend = "mtp" THEN drafted ELSE text
             new == [j \in 1 .. e - c |-> input(c + j)]
             valid == IF Backend = "mtp" THEN e ELSE base.seq.mtpValid
             dctx == IF Backend = "dflash" THEN e ELSE base.seq.dctx
             lin == base.dev.lin \o new
             v == [base.seq EXCEPT !.textValid = e, !.mtpValid = valid, !.dctx = dctx]
             d == [base.dev EXCEPT !.lin = lin]
             done == [base EXCEPT !.dev = d, !.seq = v]
             y == ComputeChunk(x, st, e, token)
  <1>1. y = Capture([base EXCEPT !.dev.lin = @ \o new, !.seq.textValid = e,
                                 !.seq.mtpValid = valid, !.seq.dctx = dctx], st, e)
    BY DEF ComputeChunk, WriteDrafts
  <1>2. /\ e \in Nat /\ c \in Nat /\ c < e /\ e <= n
        /\ \A i \in c + 1 .. e : input(i) = Column(t, i)
        /\ Backend = "mtp" => \A i \in c + 1 .. e : shifted(i) = Column(t, i + 1)
    BY ChunkInputs
  <1>3. n \in Nat /\ n <= Capacity /\ Capacity \in Nat /\ Backend = engine.backend
    BY StagedNumbers, EngineFacts
  <1>4. t \in SequenceRecords /\ n <= Len(t.ledger) /\ Len(t.ledger) \in Nat
    BY StagedNumbers, PromptColumns DEF Follows
  <1>5. /\ \A i \in 1 .. c : i \notin DOMAIN cells
        /\ \A i \in c + 1 .. e : i \in DOMAIN cells /\ cells[i].in = Column(t, i)
    <2>1. \A i \in 1 .. c : i \notin c + 1 .. e
      BY <1>2
    <2> HIDE DEF input, e, c
    <2> QED BY <1>2, <2>1
  <1>6. /\ \A i \in 1 .. c : i \notin DOMAIN mtp
        /\ Backend = "mtp" => \A i \in c + 1 .. e :
              /\ i \in DOMAIN mtp
              /\ mtp[i] = MtpCell(Feature(i, Column(t, i)), Column(t, i + 1))
    <2>1. \A i \in 1 .. c : i \notin c + 1 .. e
      BY <1>2
    <2> HIDE DEF input, e, c, shifted
    <2> QED BY <1>2, <2>1
  <1>7. new \in Seq(STRING) /\ Len(new) = e - c /\ \A j \in 1 .. e - c : new[j] = Column(t, c + j)
    <2> HIDE DEF input, e, c, n
    <2>1. e - c \in Nat
      BY <1>2
    <2>2. \A j \in 1 .. e - c : c + j \in c + 1 .. e /\ c + j \in Nat /\ c + j >= 1 /\ c + j <= Len(t.ledger)
      BY <1>2, <1>3, <1>4
    <2>3. \A j \in 1 .. e - c : input(c + j) = Column(t, c + j) /\ Column(t, c + j) \in STRING
      BY <1>2, <1>4, <2>2, ColumnTyped
    <2>4. \A j \in 1 .. e - c : input(c + j) \in STRING
      BY <2>3
    <2>5. new \in Seq(STRING) /\ Len(new) = e - c
      BY <2>1, <2>4
    <2> QED BY <2>3, <2>5
  <1>8. IsView(checked) /\ checked.seq = x.seq /\ checked.dev = x.dev
    BY RequireDevice
  <1> HIDE DEF e, item, input, shifted, cells, mtp, drafts, new, n, checked, c
  <1>9. /\ IsView(text) /\ text.seq = x.seq /\ OnlyIn({"kv"}, x.dev, text.dev)
        /\ text.dev.kv = Over(x.dev.kv, cells)
    BY <1>8, WriteTextDevice
  <1>10. IsDevice(text.dev) /\ text.dev.mtp = x.dev.mtp
    BY <1>9 DEF OnlyIn, DeviceFields
  <1> HIDE DEF text
  <1>11. /\ IsView(aligned) /\ aligned.seq = text.seq /\ OnlyIn({"mtp"}, text.dev, aligned.dev)
         /\ aligned.dev.mtp = Over(text.dev.mtp, mtp)
    BY <1>9, <1>10, WriteMtpDevice
  <1>12. IsDevice(aligned.dev)
    BY <1>11 DEF OnlyIn
  <1> HIDE DEF aligned
  <1>13. /\ IsView(drafted) /\ drafted.seq = x.seq /\ OnlyIn({"mtp"}, text.dev, drafted.dev)
         /\ \/ drafted.dev = aligned.dev
            \/ e = n /\ drafted.dev.mtp = Over(aligned.dev.mtp, drafts)
    <2>1. CASE e = n /\ st.extent # 0
      <3>1. /\ IsView(drafted) /\ drafted.seq = aligned.seq
            /\ OnlyIn({"mtp"}, aligned.dev, drafted.dev)
            /\ drafted.dev.mtp = Over(aligned.dev.mtp, drafts)
        <4> DEFINE k == n + st.extent - 1
        <4>1. drafted = WriteMtp(aligned, k, drafts)
          BY <2>1
        <4> HIDE DEF drafted, k
        <4> QED BY <1>11, <1>12, <4>1, WriteMtpDevice
      <3> HIDE DEF drafted
      <3>2. OnlyIn({"mtp"}, text.dev, drafted.dev)
        BY <1>11, <3>1 DEF OnlyIn
      <3> QED BY <1>9, <1>11, <2>1, <3>1, <3>2
    <2>2. CASE ~(e = n /\ st.extent # 0)
      BY <1>9, <1>11, <2>2
    <2> QED BY <2>1, <2>2
  <1> HIDE DEF drafted
  <1>14. /\ IsView(base) /\ base.seq = x.seq /\ OnlyIn({"kv", "mtp"}, x.dev, base.dev)
         /\ base.dev.kv = Over(x.dev.kv, cells)
    <2>1. OnlyIn({"kv", "mtp"}, x.dev, text.dev)
      BY <1>9 DEF OnlyIn
    <2>2. OnlyIn({"kv", "mtp"}, x.dev, drafted.dev) /\ drafted.dev.kv = text.dev.kv
      BY <1>9, <1>13 DEF OnlyIn, DeviceFields
    <2> QED BY <1>9, <1>13, <2>1, <2>2
  <1>15. Aligned(engine, t, base.dev, e)
    <2>1. CASE Backend # "mtp"
      BY <1>3, <2>1 DEF Aligned
    <2>2. CASE Backend = "mtp"
      <3>1. Aligned(engine, t, aligned.dev, e)
        <4>1. aligned.dev.mtp = Over(x.dev.mtp, mtp) /\ c <= e /\ e <= Capacity
          BY <1>2, <1>3, <1>10, <1>11
        <4>2. Aligned(engine, t, x.dev, c)
          BY DEF c
        <4> QED BY <1>2, <1>6, <2>2, <4>1, <4>2, AlignedWritten
      <3>2. Aligned(engine, t, drafted.dev, e)
        <4>1. CASE drafted.dev = aligned.dev
          BY <3>1, <4>1
        <4>2. CASE e = n /\ drafted.dev.mtp = Over(aligned.dev.mtp, drafts)
          <5>1. \A i \in 1 .. e : i \notin DOMAIN drafts
            <6>1. st.extent \in Nat
              BY StagedNumbers
            <6> QED BY <1>2, <4>2, <6>1 DEF drafts
          <5>2. e <= Capacity
            BY <1>2, <1>3
          <5> QED BY <1>2, <3>1, <4>2, <5>1, <5>2, AlignedBeyond
        <4> QED BY <1>13, <4>1, <4>2
      <3> QED BY <2>2, <3>2
    <2> QED BY <2>1, <2>2
  <1>16. Cells(t, base.dev, e)
    <2>1. c <= e /\ e <= Capacity
      BY <1>2, <1>3
    <2>2. Cells(t, x.dev, c)
      BY DEF c
    <2> QED BY <1>2, <1>5, <1>14, <2>1, <2>2, CellsWritten
  <1>17. lin = History(t, e)
    <2>1. base.dev.lin = History(t, c)
      <3>1. base.dev.lin = x.dev.lin
        BY <1>14 DEF OnlyIn, DeviceFields
      <3> QED BY <3>1 DEF c
    <2> DEFINE m == e - c
    <2>2. m \in Nat /\ c + m <= Len(t.ledger) /\ c + m = e
      BY <1>2, <1>3, <1>4
    <2>3. new \in Seq(STRING) /\ Len(new) = m /\ \A j \in 1 .. m : new[j] = Column(t, c + j)
      BY <1>7
    <2> HIDE DEF m
    <2>4. History(t, c) \o new = History(t, c + m)
      BY <1>2, <1>4, <2>2, <2>3, HistoryGrows
    <2> QED BY <2>1, <2>2, <2>4
  <1> HIDE DEF base, lin, valid, dctx
  <1>18. y = Capture(done, st, e)
    <2>1. done = [base EXCEPT !.dev.lin = @ \o new, !.seq.textValid = e,
                              !.seq.mtpValid = valid, !.seq.dctx = dctx]
      <3>1. lin = base.dev.lin \o new
        BY DEF lin
      <3> HIDE DEF new
      <3> QED BY <1>14, <3>1 DEF IsView, ViewFields
    <2> HIDE DEF done, y
    <2> QED BY <1>1, <2>1
  <1> HIDE DEF y
  <1>19. v.items = x.seq.items
    <2>1. base.seq \in SequenceRecords
      BY <1>14
    <2> QED BY <1>14, <2>1 DEF SequenceRecords
  <1>20. OnlyIn({"lin"}, base.dev, d) /\ d.lin = lin
    <2>1. IsDevice(base.dev)
      BY <1>14 DEF OnlyIn
    <2> DEFINE w == base.dev
    <2>2. IsDevice(w)
      BY <2>1
    <2> HIDE DEF w
    <2>3. LET u == [w EXCEPT !.lin = lin]
          IN OnlyIn({"lin"}, w, u) /\ u.lin = lin
      BY <2>2 DEF OnlyIn, IsDevice, DeviceFields
    <2> QED BY <2>3 DEF w
  <1> HIDE DEF d, v
  <1>21. IsView(done) /\ done.seq = v /\ done.dev = d
    BY <1>14 DEF IsView, ViewFields
  <1> HIDE DEF done
  <1>22. IsDevice(d) /\ d.kv = base.dev.kv /\ d.mtp = base.dev.mtp
         /\ d.ckLin = x.dev.ckLin /\ d.ckHid = x.dev.ckHid
    BY <1>14, <1>20 DEF OnlyIn, DeviceFields
  <1>23. /\ IsView(y) /\ y.seq = v /\ OnlyIn({"ckLin", "ckHid"}, d, y.dev)
         /\ y.dev.ckLin = IF st.capture.at = e THEN d.lin ELSE d.ckLin
         /\ y.dev.ckHid = IF st.capture.at = e THEN d.lin ELSE d.ckHid
    BY <1>18, <1>21, <1>22, CaptureDevice
  <1>24. /\ y.dev.kv = base.dev.kv /\ y.dev.mtp = base.dev.mtp /\ y.dev.lin = lin
    BY <1>20, <1>22, <1>23 DEF OnlyIn, DeviceFields
  <1>25. OnlyIn(ChunkFields, x.dev, y.dev)
    BY <1>14, <1>20, <1>23 DEF OnlyIn, DeviceFields, ChunkFields
  <1>26. Cells(t, y.dev, e) /\ Aligned(engine, t, y.dev, e)
    BY <1>15, <1>16, <1>24, SameCells, SameAligned
  <1> QED BY <1>17, <1>19, <1>20, <1>22, <1>23, <1>24, <1>25, <1>26 DEF y, e

-----------------------------------------------------------------------------
(***************************************************************************)
(* What a lane holds when a prefill step begins.                           *)
(***************************************************************************)

\* The columns up to the cursor are there. If a bridge is due, the last MTP column is
\* not, but the hidden vector it takes is.
Begins(en, s, st, d) ==
    /\ IsDevice(d)
    /\ Cells(s, d, st.cursor) /\ d.lin = History(s, st.cursor)
    /\ InContext(en, s, d, st.cursor)
    /\ Saved(en, s, d, s.ckpt.at)
    /\ st.capture.at <= st.cursor => Saved(en, s, d, st.capture.at)
    /\ st.capture.at # 0 => s.ckpt.at = 0
    /\ st.bridge = "none" => Aligned(en, s, d, st.cursor)
    /\ st.bridge # "none" => /\ st.cursor = st.base /\ st.base >= 1
                             /\ Aligned(en, s, d, st.base - 1)
    /\ st.bridge = "before" =>
          (IF IsRestore(st.reuse) THEN d.ckHid ELSE d.tail) = History(s, st.base)
    /\ st.bridge = "after" => st.cursor = Len(st.prompt.ids)
    /\ st.cursor = Len(st.prompt.ids) => d.tail = History(s, st.cursor)

\* The first token changes none of it.
LEMMA BeginsMoved ==
    ASSUME engine \in Engines, NEW st, StagedOK(engine, st), NEW token \in STRING,
           NEW s, Follows(s, st.prompt, token), NEW t, Follows(t, st.prompt, token),
           t.ckpt = s.ckpt, s.ckpt.at <= Len(st.prompt.ids), NEW d, Begins(engine, s, st, d),
           st.cursor = Len(st.prompt.ids) /\ Backend = "mtp" => st.bridge = "after"
    PROVE  Begins(engine, t, st, d)
  <1> DEFINE n == Len(st.prompt.ids)
             c == st.cursor
             base == st.base
  <1>1. /\ st.prompt \in Prompts /\ n \in Nat /\ c \in Nat /\ c <= n /\ base \in Nat /\ base <= n
        /\ st.capture.at \in Nat /\ st.capture.at <= n /\ base <= c
        /\ st.bridge \in {"none", "before", "after"}
    <2>1. /\ st.prompt \in Prompts /\ n \in Nat /\ c \in Nat /\ c <= n /\ base \in Nat
          /\ base <= c /\ st.capture.at \in Nat /\ st.capture.at <= n
      BY StagedNumbers
    <2>2. st.bridge \in {"none", "before", "after"}
      BY StagedNumbers DEF StagedRecords
    <2> HIDE DEF n, c, base
    <2> QED BY <2>1, <2>2
  <1>2. s.ckpt.at \in Nat /\ Backend = engine.backend
    BY SequenceFacts, EngineFacts DEF Follows
  <1>3. SameColumns(s, t, n)
    BY <1>1, PromptColumns DEF SameColumns
  <1>4. /\ IsDevice(d) /\ Cells(s, d, c) /\ d.lin = History(s, c) /\ InContext(engine, s, d, c)
        /\ Saved(engine, s, d, s.ckpt.at)
        /\ (st.capture.at <= c => Saved(engine, s, d, st.capture.at))
        /\ (st.capture.at # 0 => s.ckpt.at = 0)
        /\ (st.bridge = "none" => Aligned(engine, s, d, c))
        /\ (st.bridge # "none" => c = base /\ base >= 1 /\ Aligned(engine, s, d, base - 1))
        /\ (st.bridge = "before" =>
               (IF IsRestore(st.reuse) THEN d.ckHid ELSE d.tail) = History(s, base))
        /\ (st.bridge = "after" => c = n)
        /\ (c = n => d.tail = History(s, c))
    BY DEF Begins
  <1>5. (c = n /\ Backend = "mtp" => st.bridge = "after") /\ s.ckpt.at <= n
    OBVIOUS
  <1>6. Begins(engine, t, st, d)
          = (/\ IsDevice(d) /\ Cells(t, d, c) /\ d.lin = History(t, c) /\ InContext(engine, t, d, c)
             /\ Saved(engine, t, d, t.ckpt.at)
             /\ (st.capture.at <= c => Saved(engine, t, d, st.capture.at))
             /\ (st.capture.at # 0 => t.ckpt.at = 0)
             /\ (st.bridge = "none" => Aligned(engine, t, d, c))
             /\ (st.bridge # "none" => c = base /\ base >= 1 /\ Aligned(engine, t, d, base - 1))
             /\ (st.bridge = "before" =>
                    (IF IsRestore(st.reuse) THEN d.ckHid ELSE d.tail) = History(t, base))
             /\ (st.bridge = "after" => c = n)
             /\ (c = n => d.tail = History(t, c)))
    BY DEF Begins
  <1> HIDE DEF n, c, base
  <1>7. Cells(t, d, c) /\ InContext(engine, t, d, c)
    BY <1>1, <1>3, <1>4, MoveCells, MoveContext
  <1>8. History(s, c) = History(t, c) /\ History(s, base) = History(t, base)
    BY <1>1, <1>3, SameHistory
  <1>9. Saved(engine, t, d, s.ckpt.at)
    BY <1>1, <1>2, <1>3, <1>4, <1>5, MoveSaved
  <1>10. st.capture.at <= c => Saved(engine, t, d, st.capture.at)
    BY <1>1, <1>3, <1>4, MoveSaved
  <1>11. st.bridge = "none" => Aligned(engine, t, d, c)
    <2> SUFFICES ASSUME st.bridge = "none", Backend = "mtp" PROVE Aligned(engine, t, d, c)
      BY <1>2 DEF Aligned
    <2>1. c < n
      BY <1>1, <1>5
    <2> QED BY <1>1, <1>3, <1>4, <2>1, MoveAligned
  <1>12. st.bridge # "none" => Aligned(engine, t, d, base - 1)
    <2> SUFFICES ASSUME st.bridge # "none" PROVE Aligned(engine, t, d, base - 1)
      OBVIOUS
    <2> DEFINE b == base - 1
    <2>1. b \in Nat /\ b < n /\ Aligned(engine, s, d, b)
      BY <1>1, <1>4
    <2> HIDE DEF b
    <2>2. Aligned(engine, t, d, b)
      BY <1>1, <1>3, <2>1, MoveAligned
    <2> QED BY <2>2 DEF b
  <1> QED BY <1>4, <1>6, <1>7, <1>8, <1>9, <1>10, <1>11, <1>12

\* The bridge makes the MTP columns whole again.
LEMMA BridgedContents ==
    ASSUME engine \in Engines, NEW st, StagedOK(engine, st), st.cursor < Len(st.prompt.ids),
           NEW token \in STRING, NEW t, Follows(t, st.prompt, token),
           NEW x, IsView(x), x.seq \in SequenceRecords, Begins(engine, t, st, x.dev),
           st.bridge = "before" => Backend = "mtp"
    PROVE  LET y == AfterBridge(x, st)
           IN /\ IsView(y) /\ y.seq.items = x.seq.items /\ OnlyIn({"mtp"}, x.dev, y.dev)
              /\ Aligned(engine, t, y.dev, st.cursor)
  <1>1. /\ IsDevice(x.dev)
        /\ st.bridge = "none" => Aligned(engine, t, x.dev, st.cursor)
        /\ st.bridge = "before" => /\ st.cursor = st.base /\ st.base >= 1
                                   /\ Aligned(engine, t, x.dev, st.base - 1)
                                   /\ (IF IsRestore(st.reuse) THEN x.dev.ckHid ELSE x.dev.tail)
                                        = History(t, st.base)
        /\ st.bridge # "after"
    <2>1. ~(st.cursor = Len(st.prompt.ids))
      BY StagedNumbers
    <2> QED BY <2>1 DEF Begins
  <1>2. /\ st.prompt \in Prompts /\ Len(st.prompt.ids) \in Nat /\ st.cursor \in Nat
        /\ st.base \in Nat /\ Len(st.prompt.ids) <= Capacity
        /\ st.bridge \in {"none", "before", "after"}
    BY StagedNumbers DEF StagedRecords
  <1>3. CASE st.bridge = "none"
    <2>1. AfterBridge(x, st) = x
      BY <1>3 DEF AfterBridge
    <2>2. OnlyIn({"mtp"}, x.dev, x.dev)
      BY <1>1 DEF OnlyIn
    <2> QED BY <1>1, <1>3, <2>1, <2>2
  <1>4. CASE st.bridge = "before"
    <2> DEFINE base == st.base
               hidden == IF IsRestore(st.reuse) THEN x.dev.ckHid ELSE x.dev.tail
               item == ActiveItem(st, base, base + 1)
               next == Embedded(st.prompt, item, base + 1)
               cells == [i \in {base} |-> MtpCell(HiddenOf(hidden), next)]
               w == WriteMtp(x, base, cells)
               v == [w.seq EXCEPT !.mtpValid = base]
               y == [w EXCEPT !.seq = v]
    <2>1. AfterBridge(x, st) = [w EXCEPT !.seq.mtpValid = base]
      BY <1>4 DEF AfterBridge, BridgeBeforeSuffix
    <2>2. base \in Nat /\ base >= 1 /\ base + 1 \in Nat /\ base + 1 <= Len(st.prompt.ids)
          /\ base <= Capacity /\ Backend = "mtp"
      <3>1. Capacity \in Nat
        BY EngineFacts
      <3> QED BY <1>1, <1>2, <1>4, <3>1
    <2>3. next = Column(t, base + 1)
      <3>1. item \in Nat /\ (item # 0 => item \in DOMAIN st.prompt.items)
        BY ActiveFacts
      <3>2. \A k \in DOMAIN st.prompt.items : Covers(st.prompt.items[k], base + 1) => k = item
        BY <2>2, BridgeItem
      <3> HIDE DEF item
      <3> DEFINE b == base + 1
                 p == st.prompt
      <3>3. b \in Nat /\ p \in Prompts /\ b \in 1 .. Len(p.ids)
        BY <1>2, <2>2
      <3>4. \A k \in DOMAIN p.items : Covers(p.items[k], b) => k = item
        BY <3>2
      <3>5. Column(t, b) = Meaning(p.ids, p.items, b)
        BY <3>3, PromptColumns
      <3> HIDE DEF b, p
      <3>6. Embedded(p, item, b) = Meaning(p.ids, p.items, b)
        <4>1. item # 0 => item \in DOMAIN p.items
          BY <3>1 DEF p
        <4> QED BY <3>1, <3>3, <3>4, <4>1, EmbeddedColumn
      <3> QED BY <3>5, <3>6 DEF b, p
    <2>4. HiddenOf(hidden) = Feature(base, Column(t, base))
      <3>1. hidden = History(t, base)
        BY <1>1, <1>4
      <3>2. t \in SequenceRecords /\ base <= Len(t.ledger)
        <4>1. t \in SequenceRecords /\ Len(st.prompt.ids) <= Len(t.ledger) /\ Len(t.ledger) \in Nat
          BY <1>2, PromptColumns DEF Follows
        <4> QED BY <1>2, <2>2, <4>1
      <3> HIDE DEF hidden, base
      <3>3. Len(History(t, base)) = base /\ History(t, base)[base] = Column(t, base)
        <4>1. base \in 1 .. base
          BY <2>2
        <4> QED BY <2>2, <3>2, <4>1, HistoryFacts
      <3> QED BY <3>1, <3>3 DEF HiddenOf
    <2>5. DOMAIN cells = {base} /\ cells[base] = MtpCell(Feature(base, Column(t, base)), Column(t, base + 1))
      BY <2>3, <2>4
    <2> HIDE DEF base, hidden, item, next, cells
    <2>6. /\ IsView(w) /\ w.seq = x.seq /\ OnlyIn({"mtp"}, x.dev, w.dev)
          /\ w.dev.mtp = Over(x.dev.mtp, cells)
      BY <1>1, WriteMtpDevice
    <2> HIDE DEF w
    <2>7. AfterBridge(x, st) = y
      BY <2>1, <2>6 DEF IsView, ViewFields
    <2>8. v.items = x.seq.items
      <3>1. w.seq \in SequenceRecords
        BY <2>6
      <3> QED BY <2>6, <3>1 DEF SequenceRecords
    <2> HIDE DEF v
    <2>9. IsView(y) /\ y.seq = v /\ y.dev = w.dev
      BY <2>6 DEF IsView, ViewFields
    <2> HIDE DEF y
    <2>10. Aligned(engine, t, w.dev, base)
      <3> DEFINE a == base - 1
      <3>1. a \in Nat /\ a <= base /\ Aligned(engine, t, x.dev, a)
        BY <1>1, <1>4, <2>2 DEF base
      <3>2. \A i \in 1 .. a : i \notin DOMAIN cells
        BY <2>2, <2>5
      <3>3. \A i \in a + 1 .. base : i = base
        BY <2>2
      <3>4. \A i \in a + 1 .. base :
                /\ i \in DOMAIN cells
                /\ cells[i] = MtpCell(Feature(i, Column(t, i)), Column(t, i + 1))
        BY <2>5, <3>3
      <3> HIDE DEF a
      <3> QED BY <2>2, <2>6, <3>1, <3>2, <3>4, AlignedWritten
    <2>11. st.cursor = base
      BY <1>1, <1>4 DEF base
    <2> QED BY <2>6, <2>7, <2>8, <2>9, <2>10, <2>11
  <1> QED BY <1>1, <1>2, <1>3, <1>4

-----------------------------------------------------------------------------
(***************************************************************************)
(* The context of DFlash, and a whole prefill step.                        *)
(***************************************************************************)

\* What the append of a chunk to the context makes of the device d of the lane. With
\* several lanes it may be the context of another one, or that of another one's chunk.
FrameExtends(st, d, e) ==
    LET b == ChunkEnd(st)
    IN /\ OnlyIn({"full", "local", "ckLocal"}, d, e)
       /\ engine.backend = "dflash" /\ engine.lanes = 1 =>
             IF b > st.cursor
             THEN /\ e.full = Over(d.full, ChunkFeatures(st, b))
                  /\ e.local = Turned(d.local, ChunkFeatures(st, b))
                  /\ e.ckLocal = IF st.capture.at = b THEN e.local ELSE d.ckLocal
             ELSE e = d

\* A chunk never passes the frontier that must be captured.
LEMMA CaptureAtEnd ==
    ASSUME engine \in Engines, NEW st, StagedOK(engine, st), st.cursor < Len(st.prompt.ids),
           st.capture.at <= ChunkEnd(st), st.capture.at # ChunkEnd(st)
    PROVE  st.capture.at <= st.cursor
  <1> DEFINE a == st.cursor + Chunk
             n == Len(st.prompt.ids)
             nominal == Min({a, n})
             at == st.capture.at
             limit == ChunkLimit(st)
             e == ChunkEnd(st)
             c == st.cursor
  <1>1. at \in Nat /\ c \in Nat /\ n \in Nat /\ a \in Nat
    <2>1. at \in Nat /\ c \in Nat /\ n \in Nat /\ Chunk \in Nat
      BY StagedNumbers, EngineFacts
    <2> HIDE DEF at, n
    <2> QED BY <2>1
  <1>2. e \in Nat /\ e <= limit /\ limit \in Nat
    BY CutFacts, LimitFacts
  <1>3. limit = IF at \in c + 1 .. nominal THEN at ELSE nominal
    BY DEF ChunkLimit
  <1>4. at <= e /\ at # e
    OBVIOUS
  <1>5. nominal \in Nat
    <2>1. a \in Int /\ n \in Int
      BY <1>1
    <2> HIDE DEF a, n
    <2>2. nominal = IF a <= n THEN a ELSE n
      BY <2>1, TwoNumbers
    <2> QED BY <1>1, <2>2
  <1> HIDE DEF a, n, nominal, at, limit, e, c
  <1>6. at <= c
    BY <1>1, <1>2, <1>3, <1>4, <1>5
  <1> QED BY <1>6 DEF at, c

\* A prompt of a DFlash engine has no media.
LEMMA DFlashColumns ==
    ASSUME engine \in Engines, NEW st, StagedOK(engine, st), NEW token \in STRING,
           NEW t, Follows(t, st.prompt, token), engine.backend = "dflash",
           NEW i \in 1 .. Len(st.prompt.ids)
    PROVE  Column(t, i) = st.prompt.ids[i]
  <1> DEFINE p == st.prompt
  <1>1. p \in Prompts
    BY StagedNumbers
  <1>2. p.items = <<>>
    BY <1>1, EngineFacts DEF Accepted
  <1>3. Column(t, i) = Meaning(p.ids, p.items, i)
    BY <1>1, PromptColumns
  <1>4. DOMAIN p.items = {}
    BY <1>2
  <1>5. ~Visual(p.items, i)
    BY <1>4 DEF Visual
  <1> QED BY <1>3, <1>5 DEF Meaning

\* The columns of t up to b have been computed.
Reached(t, st, e, b) ==
    /\ IsDevice(e) /\ Cells(t, e, b) /\ e.lin = History(t, b) /\ Aligned(engine, t, e, b)
    /\ InContext(engine, t, e, b) /\ Saved(engine, t, e, t.ckpt.at)
    /\ st.capture.at <= b => Saved(engine, t, e, st.capture.at)

\* A step computes a chunk, and d is the device after it up to the tail.
ChunkTaken(st, token, t, x, y, d, e) ==
    /\ StagedOK(engine, st) /\ st.cursor < Len(st.prompt.ids)
    /\ token \in STRING /\ Follows(t, st.prompt, token)
    /\ ChunkEnd(st) = Len(st.prompt.ids) => t.ledger = Append(st.prompt.ids, token)
    /\ IsView(x) /\ x.seq \in SequenceRecords /\ Begins(engine, t, st, x.dev)
    /\ AfterBridge(x, st).seq \in SequenceRecords
    /\ st.bridge = "before" => Backend = "mtp"
    /\ y = ComputeChunk(AfterBridge(x, st), st, ChunkEnd(st), token)
    /\ OnlyIn({"tail"}, y.dev, d) /\ FrameExtends(st, d, e)

ChunkDone(st, t, x, y, d, e) ==
    /\ Reached(t, st, e, ChunkEnd(st)) /\ y.seq.items = x.seq.items /\ e.tail = d.tail
    /\ y.dev.lin = History(t, ChunkEnd(st))

\* What a lane holds after a chunk.
LEMMA ChunkContents ==
    ASSUME engine \in Engines, NEW st, NEW token, NEW t, NEW x, NEW y, NEW d, NEW e,
           ChunkTaken(st, token, t, x, y, d, e)
    PROVE  ChunkDone(st, t, x, y, d, e)
  <1>0. /\ StagedOK(engine, st) /\ st.cursor < Len(st.prompt.ids)
        /\ token \in STRING /\ Follows(t, st.prompt, token)
        /\ (ChunkEnd(st) = Len(st.prompt.ids) => t.ledger = Append(st.prompt.ids, token))
        /\ IsView(x) /\ x.seq \in SequenceRecords /\ Begins(engine, t, st, x.dev)
        /\ AfterBridge(x, st).seq \in SequenceRecords
        /\ (st.bridge = "before" => Backend = "mtp")
        /\ y = ComputeChunk(AfterBridge(x, st), st, ChunkEnd(st), token)
        /\ OnlyIn({"tail"}, y.dev, d) /\ FrameExtends(st, d, e)
    BY DEF ChunkTaken
  <1> SUFFICES ASSUME StagedOK(engine, st), st.cursor < Len(st.prompt.ids),
                      token \in STRING, Follows(t, st.prompt, token),
                      ChunkEnd(st) = Len(st.prompt.ids) => t.ledger = Append(st.prompt.ids, token),
                      IsView(x), x.seq \in SequenceRecords, Begins(engine, t, st, x.dev),
                      AfterBridge(x, st).seq \in SequenceRecords,
                      st.bridge = "before" => Backend = "mtp",
                      y = ComputeChunk(AfterBridge(x, st), st, ChunkEnd(st), token),
                      OnlyIn({"tail"}, y.dev, d), FrameExtends(st, d, e)
               PROVE  ChunkDone(st, t, x, y, d, e)
    BY <1>0
  <1> DEFINE b == ChunkEnd(st)
             c == st.cursor
             z == AfterBridge(x, st)
  <1>1. /\ IsDevice(x.dev) /\ Cells(t, x.dev, c) /\ x.dev.lin = History(t, c)
        /\ InContext(engine, t, x.dev, c) /\ Saved(engine, t, x.dev, t.ckpt.at)
        /\ (st.capture.at <= c => Saved(engine, t, x.dev, st.capture.at))
        /\ (st.capture.at # 0 => t.ckpt.at = 0)
    BY DEF Begins
  <1>2. /\ IsView(z) /\ z.seq.items = x.seq.items /\ OnlyIn({"mtp"}, x.dev, z.dev)
        /\ Aligned(engine, t, z.dev, c)
    BY BridgedContents
  <1>3. /\ IsDevice(z.dev) /\ z.dev.kv = x.dev.kv /\ z.dev.lin = x.dev.lin
        /\ z.dev.ckLin = x.dev.ckLin /\ z.dev.ckHid = x.dev.ckHid
        /\ z.dev.full = x.dev.full /\ z.dev.local = x.dev.local /\ z.dev.ckLocal = x.dev.ckLocal
    BY <1>2 DEF OnlyIn, DeviceFields
  <1>4. Cells(t, z.dev, c) /\ z.dev.lin = History(t, c)
    BY <1>1, <1>3, SameCells
  <1>5. /\ b \in Nat /\ c \in Nat /\ c < b /\ b <= Len(st.prompt.ids)
        /\ Len(st.prompt.ids) \in Nat /\ Len(st.prompt.ids) <= Capacity
    BY StagedNumbers, ChunkInputs
  <1>6. b > c /\ b <= Capacity /\ c <= b /\ st.capture.at \in Nat /\ t.ckpt.at \in Nat
    <2>1. Capacity \in Nat /\ st.capture.at \in Nat /\ t.ckpt.at \in Nat
      BY EngineFacts, StagedNumbers, SequenceFacts DEF Follows
    <2> HIDE DEF b, c
    <2> QED BY <1>5, <2>1
  <1>7. z.seq \in SequenceRecords
    OBVIOUS
  <1>8. y = ComputeChunk(z, st, b, token)
    OBVIOUS
  <1> HIDE DEF z
  <1>9. /\ IsView(y) /\ y.seq.items = z.seq.items
        /\ OnlyIn(ChunkFields, z.dev, y.dev)
        /\ Cells(t, y.dev, b) /\ y.dev.lin = History(t, b) /\ Aligned(engine, t, y.dev, b)
        /\ y.dev.ckLin = IF st.capture.at = b THEN History(t, b) ELSE z.dev.ckLin
        /\ y.dev.ckHid = IF st.capture.at = b THEN History(t, b) ELSE z.dev.ckHid
    <2> DEFINE u == ComputeChunk(z, st, ChunkEnd(st), token)
    <2>1. /\ IsView(u) /\ u.seq.items = z.seq.items
          /\ OnlyIn(ChunkFields, z.dev, u.dev)
          /\ Cells(t, u.dev, ChunkEnd(st)) /\ u.dev.lin = History(t, ChunkEnd(st))
          /\ Aligned(engine, t, u.dev, ChunkEnd(st))
          /\ u.dev.ckLin = IF st.capture.at = ChunkEnd(st) THEN History(t, ChunkEnd(st)) ELSE z.dev.ckLin
          /\ u.dev.ckHid = IF st.capture.at = ChunkEnd(st) THEN History(t, ChunkEnd(st)) ELSE z.dev.ckHid
      <3>1. /\ IsView(z) /\ IsDevice(z.dev) /\ z.seq \in SequenceRecords
            /\ Cells(t, z.dev, st.cursor) /\ z.dev.lin = History(t, st.cursor)
            /\ Aligned(engine, t, z.dev, st.cursor)
        BY <1>2, <1>3, <1>4, <1>7
      <3> HIDE DEF b, c
      <3> QED BY <3>1, ComputedContents
    <2> QED BY <1>8, <2>1, Zenon
  <1>10. /\ IsDevice(y.dev) /\ y.dev.full = x.dev.full /\ y.dev.local = x.dev.local
         /\ y.dev.ckLocal = x.dev.ckLocal
    BY <1>3, <1>9 DEF OnlyIn, DeviceFields, ChunkFields
  <1>11. /\ IsDevice(d) /\ d.full = x.dev.full /\ d.local = x.dev.local /\ d.ckLocal = x.dev.ckLocal
         /\ d.kv = y.dev.kv /\ d.lin = y.dev.lin /\ d.mtp = y.dev.mtp
         /\ d.ckLin = y.dev.ckLin /\ d.ckHid = y.dev.ckHid
    BY <1>10 DEF OnlyIn, DeviceFields
  <1>12. /\ OnlyIn({"full", "local", "ckLocal"}, d, e)
         /\ engine.backend = "dflash" /\ engine.lanes = 1 =>
               /\ e.full = Over(d.full, ChunkFeatures(st, b))
               /\ e.local = Turned(d.local, ChunkFeatures(st, b))
               /\ e.ckLocal = IF st.capture.at = b THEN e.local ELSE d.ckLocal
    BY <1>6 DEF FrameExtends
  <1> HIDE DEF b, c
  <1>13. /\ IsDevice(e) /\ e.kv = y.dev.kv /\ e.lin = y.dev.lin /\ e.mtp = y.dev.mtp
         /\ e.ckLin = y.dev.ckLin /\ e.ckHid = y.dev.ckHid /\ e.tail = d.tail
    BY <1>11, <1>12 DEF OnlyIn, DeviceFields
  <1>14. Cells(t, e, b) /\ e.lin = History(t, b) /\ Aligned(engine, t, e, b)
    BY <1>9, <1>13, SameCells, SameAligned
  <1>15. InContext(engine, t, e, b)
    <2>1. CASE ~(engine.backend = "dflash" /\ engine.lanes = 1)
      BY <2>1 DEF InContext
    <2>2. CASE engine.backend = "dflash" /\ engine.lanes = 1
      <3> DEFINE new == ChunkFeatures(st, b)
      <3>1. DOMAIN new = c + 1 .. b /\ \A i \in c + 1 .. b : new[i] = Feature(i, Column(t, i))
        <4>1. engine.backend = "dflash"
          BY <2>2
        <4>2. b \in Nat /\ b <= Len(st.prompt.ids)
          BY <1>5
        <4>3. ASSUME NEW i \in c + 1 .. b PROVE Column(t, i) = st.prompt.ids[i]
          <5>1. i \in 1 .. Len(st.prompt.ids)
            BY <1>5
          <5> QED BY <4>1, <5>1, DFlashColumns
        <4>4. new = [i \in c + 1 .. b |-> Feature(i, st.prompt.ids[i])]
          BY DEF ChunkFeatures, c
        <4> HIDE DEF new
        <4> QED BY <4>3, <4>4
      <3>2. InContext(engine, t, d, c)
        BY <1>1, <1>11, SameContext
      <3>3. e.full = Over(d.full, new) /\ e.local = Turned(d.local, new)
        BY <1>12, <2>2
      <3> HIDE DEF new
      <3> QED BY <1>5, <1>6, <1>11, <3>1, <3>2, <3>3, ContextAppended
    <2> QED BY <2>1, <2>2
  <1>16. CASE st.capture.at = b
    <2>1. Saved(engine, t, e, b)
      <3>1. e.ckLin = History(t, b) /\ e.ckHid = History(t, b)
        BY <1>9, <1>13, <1>16
      <3>2. engine.backend = "dflash" /\ engine.lanes = 1 => Ring(t, e.ckLocal, b)
        BY <1>12, <1>15, <1>16 DEF InContext
      <3> QED BY <3>1, <3>2 DEF Saved
    <2>2. t.ckpt.at = 0
      BY <1>1, <1>5, <1>16
    <2>3. Saved(engine, t, e, t.ckpt.at)
      BY <2>2 DEF Saved
    <2> QED BY <1>2, <1>9, <1>10, <1>13, <1>14, <1>15, <1>16, <2>1, <2>3 DEF b, Reached, ChunkDone
  <1>17. CASE st.capture.at # b
    <2>1. ASSUME NEW m, Saved(engine, t, x.dev, m) PROVE Saved(engine, t, e, m)
      <3>1. e.ckLin = x.dev.ckLin /\ e.ckHid = x.dev.ckHid
        BY <1>3, <1>9, <1>13, <1>17
      <3>2. engine.backend = "dflash" /\ engine.lanes = 1 => e.ckLocal = x.dev.ckLocal
        BY <1>11, <1>12, <1>17
      <3> QED BY <2>1, <3>1, <3>2 DEF Saved
    <2>2. st.capture.at <= b => st.capture.at <= c
      BY <1>17, CaptureAtEnd DEF b, c
    <2> QED BY <1>1, <1>2, <1>9, <1>10, <1>13, <1>14, <1>15, <2>1, <2>2 DEF b, Reached, ChunkDone
  <1> QED BY <1>16, <1>17

-----------------------------------------------------------------------------
(***************************************************************************)
(* The end of a prefill step.                                              *)
(***************************************************************************)

\* Columns depend on the tokens and the media of a sequence only.
LEMMA AlikeColumns ==
    ASSUME NEW s, NEW t, s.ledger = t.ledger, s.items = t.items, NEW n
    PROVE  SameColumns(s, t, n)
  BY DEF SameColumns, Column

\* The first token joins the ledger, and the checkpoint of the prompt becomes valid.
Finished(st, token, x, y) ==
    /\ y.dev = x.dev /\ y.seq.ledger = Append(x.seq.ledger, token)
    /\ y.seq.items = x.seq.items /\ y.seq.dctx = x.seq.dctx
    /\ y.seq.ckpt = IF st.capture = NoCkpt THEN x.seq.ckpt ELSE st.capture
LEMMA FinishedSequence ==
    ASSUME NEW st, NEW token, NEW x, IsView(x), x.seq \in SequenceRecords,
           NEW f, f = FinishPrefill(x, st, token)
    PROVE  Finished(st, token, x, f)
  <1> DEFINE n == Len(st.prompt.ids)
             s == x.seq
             ledger == Append(s.ledger, token)
             pos == Append(s.pos, n + s.delta)
             drafts == IF Backend = "mtp" THEN st.extent ELSE s.drafts
             ckpt == IF st.capture = NoCkpt THEN s.ckpt ELSE st.capture
             y == [x EXCEPT !.seq.ledger = ledger, !.seq.pos = pos, !.seq.textValid = n,
                            !.seq.drafts = drafts, !.seq.tailValid = TRUE, !.seq.ckpt = ckpt]
             z == [s EXCEPT !.ledger = ledger, !.pos = pos, !.textValid = n,
                            !.drafts = drafts, !.tailValid = TRUE, !.ckpt = ckpt]
             c == /\ Len(s.ledger) = n /\ (Backend = "mtp" => s.mtpValid = n)
                  /\ (Backend = "dflash" => s.dctx = n) /\ s.textValid >= st.capture.at
  <1>1. FinishPrefill(x, st, token) = Require(y, c)
    BY DEF FinishPrefill
  <1>2. s \in SequenceRecords
    OBVIOUS
  <1> HIDE DEF ledger, pos, drafts, ckpt, n, c
  <1>3. IsView(y) /\ y.seq = z /\ y.dev = x.dev
    BY DEF IsView, ViewFields
  <1> HIDE DEF y, s
  <1>4. z.ledger = ledger /\ z.ckpt = ckpt /\ z.dctx = s.dctx /\ z.items = s.items
    BY <1>2 DEF SequenceRecords
  <1> HIDE DEF z
  <1>5. Require(y, c).seq = y.seq /\ Require(y, c).dev = y.dev
    BY <1>3, RequireDevice
  <1> QED BY <1>1, <1>3, <1>4, <1>5 DEF Finished, ledger, ckpt, s

\* Which checkpoint is meant when the prompt asks for none.
LEMMA CaptureAt ==
    ASSUME engine \in Engines, NEW st, StagedOK(engine, st)
    PROVE  st.capture = NoCkpt <=> st.capture.at = 0
  <1>1. st.capture \in Checkpoints
    BY StagedNumbers
  <1> QED BY <1>1 DEF Checkpoints, NoCkpt

\* The prompt has been computed, and its first token has joined the sequence.
FirstToken(st, token, s, t, e) ==
    LET n == Len(st.prompt.ids)
    IN /\ Follows(s, st.prompt, token) /\ s.ledger = Append(st.prompt.ids, token)
       /\ t.ledger = s.ledger /\ t.items = s.items /\ IsDevice(e)
       /\ Cells(t, e, n) /\ e.lin = History(t, n) /\ e.tail = History(t, n)
       /\ Aligned(engine, t, e, n) /\ InContext(engine, t, e, n)
       /\ Saved(engine, t, e, s.ckpt.at)

\* A lane whose first token is pending.
LEMMA BegunSound ==
    ASSUME engine \in Engines, NEW st, StagedOK(engine, st), NEW token \in STRING,
           NEW s, NEW t, NEW e, FirstToken(st, token, s, t, e),
           NEW r, r \in RequestRecords,
           NEW q, q = [r EXCEPT !.life = "Pending", !.prefill = NoPrefill, !.work = @ - 1,
                                !.pending = [NoPending EXCEPT !.kind = "begin",
                                                              !.baseE = Len(st.prompt.ids),
                                                              !.tokens = <<token>>]],
           NEW k, LaneOK(engine, s, q, k)
    PROVE  LaneSound(engine, s, q, e)
  <1> DEFINE n == Len(st.prompt.ids)
             m == n + 1
  <1>1. n \in Nat /\ st.prompt \in Prompts
    BY StagedNumbers
  <1>2. /\ Follows(s, st.prompt, token) /\ s \in SequenceRecords
        /\ t.ledger = s.ledger /\ t.items = s.items /\ IsDevice(e)
        /\ Saved(engine, t, e, s.ckpt.at)
    BY DEF FirstToken, Follows
  <1>3. SameColumns(t, s, m)
    BY <1>2, AlikeColumns
  <1>4. ItemsEnd(s, n)
    BY <1>1, <1>2, PromptColumns
  <1>5. q.life = "Pending" /\ q.pending.kind = "begin" /\ q.pending.baseE = n
    <2> DEFINE w == [NoPending EXCEPT !.kind = "begin", !.baseE = n, !.tokens = <<token>>]
    <2>1. w.kind = "begin" /\ w.baseE = n
      <3> HIDE DEF n
      <3> QED BY DEF NoPending
    <2> HIDE DEF w
    <2>2. q.life = "Pending" /\ q.pending = w
      BY DEF RequestRecords, w
    <2> QED BY <2>1, <2>2
  <1>14. s.ckpt.at <= n /\ (engine.backend = "dflash" => s.dctx = n)
    <2>1. Begun(engine, s, q, k)
      BY <1>5 DEF LaneOK
    <2>2. s.ckpt.at <= n /\ (engine.backend # "none" => Behind(engine, s) = n)
      BY <1>5, <2>1 DEF Begun, Caught
    <2> QED BY <2>2 DEF Behind
  <1>6. /\ Cells(t, e, n) /\ e.lin = History(t, n) /\ e.tail = History(t, n)
        /\ Aligned(engine, t, e, n) /\ InContext(engine, t, e, n)
        /\ s.ckpt.at <= n /\ (engine.backend = "dflash" => s.dctx = n)
    BY <1>14 DEF FirstToken
  <1> HIDE DEF n
  <1>7. m \in Nat /\ n <= m /\ n < m
    BY <1>1
  <1>8. s.ckpt.at \in Nat /\ s.ckpt.at <= m /\ s.dctx \in Nat
    BY <1>1, <1>2, <1>6, SequenceFacts
  <1> HIDE DEF m
  <1>9. Cells(s, e, n) /\ Aligned(engine, s, e, n) /\ InContext(engine, s, e, n)
    BY <1>1, <1>3, <1>6, <1>7, MoveCells, MoveAligned, MoveContext
  <1>10. Saved(engine, s, e, s.ckpt.at)
    BY <1>2, <1>3, <1>7, <1>8, MoveSaved
  <1>11. History(t, n) = History(s, n)
    BY <1>1, <1>3, <1>7, SameHistory
  <1>12. InContext(engine, s, e, s.dctx) /\ Waiting(engine, s, e, s.dctx, n)
    <2>1. CASE engine.backend # "dflash"
      BY <2>1 DEF InContext, Waiting
    <2>2. CASE engine.backend = "dflash"
      <3>1. s.dctx = n
        BY <1>6, <2>2
      <3>2. n + 1 .. n = {}
        BY <1>1
      <3> QED BY <1>9, <3>1, <3>2 DEF Waiting
    <2> QED BY <2>1, <2>2
  <1>13. Whole(engine, s, e, n)
    BY <1>4, <1>6, <1>9, <1>10, <1>11, <1>12 DEF Whole
  <1> QED BY <1>2, <1>5, <1>13 DEF LaneSound

\* A chunk that is not the last.
LEMMA ChunkSound ==
    ASSUME engine \in Engines, NEW x, NEW r, NEW st, Advancing(x, r, st), NEW token \in STRING,
           st.cursor < Len(st.prompt.ids), ChunkEnd(st) < Len(st.prompt.ids),
           x.seq.items = st.prompt.items, Begins(engine, x.seq, st, x.dev),
           NEW y, y = ComputeChunk(AfterBridge(x, st), st, ChunkEnd(st), token),
           NEW e, FrameExtends(st, y.dev, e),
           NEW g, g = [r EXCEPT !.life = "Prefilling", !.prefill = NextPrefill(st), !.work = @ - 1]
    PROVE  LaneSound(engine, y.seq, g, e)
  <1> DEFINE b == AfterBridge(x, st)
             n == ChunkEnd(st)
             s == x.seq
             u == NextPrefill(st)
  <1>1. /\ IsView(x) /\ s \in SequenceRecords /\ x.kv \in Bundles
        /\ StagedOK(engine, st) /\ r \in RequestRecords /\ PromptPages(engine, st, x.kv)
        /\ s.ledger = st.prompt.ids /\ (st.bridge = "before" => Backend = "mtp")
    BY DEF Advancing
  <1>2. /\ IsView(b) /\ b.kv = x.kv /\ b.seq \in SequenceRecords
        /\ b.seq.ledger = s.ledger /\ b.seq.ckpt = s.ckpt
    BY <1>1, BridgedFacts
  <1>3. /\ IsView(y) /\ y.seq \in SequenceRecords /\ y.seq.ledger = b.seq.ledger
        /\ y.seq.ckpt = b.seq.ckpt
    <2>1. /\ IsView(b) /\ b.kv \in Bundles /\ PromptPages(engine, st, b.kv)
          /\ b.seq \in SequenceRecords
      BY <1>1, <1>2
    <2> HIDE DEF b
    <2>2. y = ComputeChunk(b, st, ChunkEnd(st), token)
      BY DEF b
    <2> QED BY <1>1, <2>1, <2>2, ComputedFacts
  <1>4. Follows(s, st.prompt, token)
    BY <1>1 DEF Follows
  <1>5. n \in Nat /\ ~(n = Len(st.prompt.ids))
    BY <1>1, StagedNumbers, CutFacts
  <1>6. OnlyIn({"tail"}, y.dev, y.dev)
    <2>1. IsDevice(x.dev)
      BY DEF Begins
    <2>2. /\ IsView(b) /\ OnlyIn({"mtp"}, x.dev, b.dev) /\ Aligned(engine, s, b.dev, st.cursor)
      BY <1>1, <1>4, BridgedContents
    <2>3. IsDevice(b.dev) /\ b.dev.kv = x.dev.kv /\ b.dev.lin = x.dev.lin
      BY <2>2 DEF OnlyIn, DeviceFields
    <2>4. Cells(s, b.dev, st.cursor) /\ b.dev.lin = History(s, st.cursor)
      BY <2>3, SameCells DEF Begins
    <2>5. n = Len(st.prompt.ids) => s.ledger = Append(st.prompt.ids, token)
      BY <1>5
    <2> HIDE DEF b, s
    <2>6. y = ComputeChunk(b, st, ChunkEnd(st), token)
      BY DEF b
    <2>7. OnlyIn(ChunkFields, b.dev, y.dev)
      BY <1>1, <1>2, <1>4, <2>2, <2>3, <2>4, <2>5, <2>6, ComputedContents
    <2> QED BY <2>7 DEF OnlyIn
  <1>7. /\ IsDevice(e) /\ y.seq.items = s.items
        /\ Cells(s, e, n) /\ e.lin = History(s, n) /\ Aligned(engine, s, e, n)
        /\ InContext(engine, s, e, n) /\ Saved(engine, s, e, s.ckpt.at)
        /\ (st.capture.at <= n => Saved(engine, s, e, st.capture.at))
    <2>1. n = Len(st.prompt.ids) => s.ledger = Append(st.prompt.ids, token)
      BY <1>5
    <2>2. AfterBridge(x, st).seq \in SequenceRecords
      BY <1>2
    <2> DEFINE w == y.dev
    <2>3. /\ IsView(x) /\ x.seq \in SequenceRecords /\ Begins(engine, s, st, x.dev)
          /\ StagedOK(engine, st) /\ (st.bridge = "before" => Backend = "mtp")
          /\ Follows(s, st.prompt, token) /\ OnlyIn({"tail"}, y.dev, w)
          /\ FrameExtends(st, w, e)
      BY <1>1, <1>4, <1>6
    <2> HIDE DEF b, s, w
    <2>6. ChunkTaken(st, token, s, x, y, w, e)
      BY <2>1, <2>2, <2>3 DEF ChunkTaken
    <2>7. ChunkDone(st, s, x, y, w, e)
      BY <2>6, ChunkContents
    <2>4. y.seq.items = x.seq.items /\ Reached(s, st, e, ChunkEnd(st))
      BY <2>7 DEF ChunkDone
    <2> HIDE DEF n
    <2>5. Reached(s, st, e, n)
      BY <2>4 DEF n
    <2> QED BY <2>4, <2>5 DEF s, Reached
  <1>8. u.cursor = n /\ u.capture = st.capture /\ u.prompt = st.prompt
    BY <1>1, NextPrefillFacts
  <1>9. g.life = "Prefilling" /\ g.prefill = u
    BY <1>1 DEF RequestRecords
  <1>10. /\ y.seq.ledger = s.ledger /\ y.seq.items = s.items /\ y.seq.ckpt = s.ckpt
         /\ y.seq.items = st.prompt.items
    BY <1>2, <1>3, <1>7
  <1>11. (st.capture.at # 0 => s.ckpt.at = 0) /\ st.capture.at \in Nat /\ s.ckpt.at \in Nat
    BY <1>1, StagedNumbers, SequenceFacts DEF Begins
  <1> DEFINE t == y.seq
  <1>12. Cells(t, e, n) /\ InContext(engine, t, e, n) /\ Aligned(engine, t, e, n)
    <2> DEFINE m == n + 1
    <2>1. SameColumns(s, t, m)
      BY <1>10, AlikeColumns
    <2> HIDE DEF n, t, s
    <2>2. m \in Nat /\ n <= m /\ n < m
      BY <1>5
    <2> HIDE DEF m
    <2> QED BY <1>5, <1>7, <2>1, <2>2, MoveCells, MoveContext, MoveAligned
  <1>13. \A k \in Nat : Saved(engine, s, e, k) => Saved(engine, t, e, k)
    <2> SUFFICES ASSUME NEW k \in Nat, Saved(engine, s, e, k) PROVE Saved(engine, t, e, k)
      OBVIOUS
    <2>1. SameColumns(s, t, k) /\ k <= k
      BY <1>10, AlikeColumns
    <2> QED BY <2>1, MoveSaved
  <1>14. History(s, n) = History(t, n)
    <2>1. SameColumns(s, t, n) /\ n <= n
      BY <1>5, <1>10, AlikeColumns
    <2> QED BY <1>5, <2>1, SameHistory
  <1>15. Partial(engine, t, u, e)
    <2> HIDE DEF n, s, u, t, b
    <2>1. t.ckpt = s.ckpt /\ t.items = u.prompt.items
      BY <1>8, <1>10 DEF t
    <2> QED BY <1>7, <1>8, <1>11, <1>12, <1>13, <1>14, <2>1 DEF Partial
  <1> QED BY <1>7, <1>9, <1>15 DEF LaneSound

\* The sequence of a prompt with its first token.
LEMMA WithToken ==
    ASSUME engine \in Engines, NEW p \in Prompts, NEW token \in STRING,
           NEW s \in SequenceRecords, s.ledger = p.ids, s.items = p.items
    PROVE  LET t == [s EXCEPT !.ledger = Append(p.ids, token)]
           IN /\ Follows(s, p, token) /\ Follows(t, p, token) /\ t \in SequenceRecords
              /\ t.ledger = Append(p.ids, token) /\ t.items = p.items /\ t.ckpt = s.ckpt
              /\ t.dctx = s.dctx
  <1> DEFINE a == Append(p.ids, token)
             t == [s EXCEPT !.ledger = a]
  <1>1. a \in Seq(STRING)
    BY PromptFacts
  <1>2. a = Append(p.ids, token)
    OBVIOUS
  <1> HIDE DEF a
  <1>3. /\ t \in SequenceRecords /\ t.ledger = a /\ t.items = s.items /\ t.ckpt = s.ckpt
        /\ t.dctx = s.dctx
    BY <1>1 DEF SequenceRecords
  <1> HIDE DEF t
  <1>4. Follows(t, p, token) /\ Follows(s, p, token)
    BY <1>2, <1>3 DEF Follows
  <1> QED BY <1>2, <1>3, <1>4 DEF t, a

\* The last chunk.
LEMMA LastChunkSound ==
    ASSUME engine \in Engines, NEW x, NEW r, NEW st, Advancing(x, r, st), NEW token \in STRING,
           st.cursor < Len(st.prompt.ids), ChunkEnd(st) = Len(st.prompt.ids),
           x.seq.items = st.prompt.items, Begins(engine, x.seq, st, x.dev),
           NEW y, y = ComputeChunk(AfterBridge(x, st), st, ChunkEnd(st), token),
           NEW q, q = [r EXCEPT !.life = "Pending", !.prefill = NoPrefill, !.work = @ - 1,
                                !.pending = [NoPending EXCEPT !.kind = "begin",
                                                              !.baseE = Len(st.prompt.ids),
                                                              !.tokens = <<token>>]],
           NEW z, z = FinishPrefill([y EXCEPT !.dev.tail = y.dev.lin], st, token),
           NEW e, FrameExtends(st, z.dev, e)
    PROVE  LaneSound(engine, z.seq, q, e)
  <1> DEFINE b == AfterBridge(x, st)
             n == ChunkEnd(st)
             s == x.seq
             p == st.prompt
             w == [y EXCEPT !.dev.tail = y.dev.lin]
             d == w.dev
             t == [s EXCEPT !.ledger = Append(p.ids, token)]
  <1>1. /\ IsView(x) /\ s \in SequenceRecords /\ x.kv \in Bundles
        /\ StagedOK(engine, st) /\ r \in RequestRecords /\ PromptPages(engine, st, x.kv)
        /\ s.ledger = p.ids /\ (st.bridge = "before" => Backend = "mtp")
        /\ s.ckpt.at <= st.base
    BY DEF Advancing
  <1>2. /\ IsView(b) /\ b.kv = x.kv /\ b.seq \in SequenceRecords
        /\ b.seq.ledger = s.ledger /\ b.seq.ckpt = s.ckpt
    BY <1>1, BridgedFacts
  <1>3. /\ IsView(y) /\ y.seq \in SequenceRecords /\ y.seq.ledger = b.seq.ledger
        /\ y.seq.ckpt = b.seq.ckpt
    <2>1. /\ IsView(b) /\ b.kv \in Bundles /\ PromptPages(engine, st, b.kv)
          /\ b.seq \in SequenceRecords
      BY <1>1, <1>2
    <2> HIDE DEF b
    <2>2. y = ComputeChunk(b, st, ChunkEnd(st), token)
      BY DEF b
    <2> QED BY <1>1, <2>1, <2>2, ComputedFacts
  <1>4. p \in Prompts /\ n \in Nat /\ n = Len(p.ids) /\ st.cursor # n
    BY <1>1, StagedNumbers
  <1>5. /\ Follows(s, p, token) /\ Follows(t, p, token) /\ t \in SequenceRecords
        /\ t.ledger = Append(p.ids, token) /\ t.items = p.items /\ t.ckpt = s.ckpt
    BY <1>1, <1>4, WithToken
  <1> HIDE DEF t
  <1>6. Begins(engine, t, st, x.dev)
    <2>1. s.ckpt.at <= Len(st.prompt.ids)
      <3>1. s.ckpt.at \in Nat /\ st.base \in Nat /\ st.base <= st.cursor /\ st.cursor \in Nat
            /\ Len(st.prompt.ids) \in Nat
        BY <1>1, SequenceFacts, StagedNumbers
      <3> QED BY <1>1, <3>1
    <2>2. ~(st.cursor = Len(st.prompt.ids))
      BY <1>4
    <2> HIDE DEF s
    <2>3. Begins(engine, s, st, x.dev)
      BY DEF s
    <2> QED BY <1>1, <1>5, <2>1, <2>2, <2>3, BeginsMoved
  <1>7. IsDevice(y.dev)
    <2>1. IsDevice(x.dev)
      BY DEF Begins
    <2>2. /\ IsView(b) /\ OnlyIn({"mtp"}, x.dev, b.dev) /\ Aligned(engine, t, b.dev, st.cursor)
      BY <1>1, <1>5, <1>6, BridgedContents
    <2>3. IsDevice(b.dev) /\ b.dev.kv = x.dev.kv /\ b.dev.lin = x.dev.lin
      BY <2>2 DEF OnlyIn, DeviceFields
    <2>4. Cells(t, b.dev, st.cursor) /\ b.dev.lin = History(t, st.cursor)
      BY <1>6, <2>3, SameCells DEF Begins
    <2>5. n = Len(st.prompt.ids) => t.ledger = Append(st.prompt.ids, token)
      BY <1>5
    <2> HIDE DEF b, s
    <2>6. y = ComputeChunk(b, st, ChunkEnd(st), token)
      BY DEF b
    <2>7. OnlyIn(ChunkFields, b.dev, y.dev)
      BY <1>1, <1>2, <1>5, <2>2, <2>3, <2>4, <2>5, <2>6, ComputedContents
    <2> QED BY <2>7 DEF OnlyIn
  <1>8. /\ IsView(w) /\ w.seq = y.seq /\ OnlyIn({"tail"}, y.dev, d) /\ d.tail = y.dev.lin
    <2> DEFINE a == y.dev.lin
               v == y.dev
               c == [v EXCEPT !.tail = a]
    <2>1. IsDevice(v)
      BY <1>7
    <2> HIDE DEF v, a
    <2>2. OnlyIn({"tail"}, v, c) /\ c.tail = a
      BY <2>1 DEF OnlyIn, IsDevice, DeviceFields
    <2>3. w = [y EXCEPT !.dev = c]
      BY DEF v, a
    <2> HIDE DEF c
    <2>4. IsView(w) /\ w.seq = y.seq /\ w.dev = c
      <3> HIDE DEF w
      <3>1. w = [y EXCEPT !.dev = c]
        BY <2>3
      <3> QED BY <1>3, <3>1 DEF IsView, ViewFields
    <2> HIDE DEF w
    <2> QED BY <2>2, <2>4 DEF v, a
  <1>9. z = FinishPrefill(w, st, token)
    OBVIOUS
  <1> HIDE DEF w
  <1>10. /\ z.dev = d /\ z.seq.ledger = Append(p.ids, token) /\ z.seq.items = y.seq.items
         /\ z.seq.ckpt = IF st.capture = NoCkpt THEN s.ckpt ELSE st.capture
    <2>1. IsView(w) /\ w.seq \in SequenceRecords
      BY <1>3, <1>8
    <2>2. /\ z.dev = w.dev /\ z.seq.ledger = Append(w.seq.ledger, token)
          /\ z.seq.items = w.seq.items
          /\ z.seq.ckpt = IF st.capture = NoCkpt THEN w.seq.ckpt ELSE st.capture
      <3>1. Finished(st, token, w, z)
        BY <1>9, <2>1, FinishedSequence
      <3> QED BY <3>1 DEF Finished
    <2> HIDE DEF s, b
    <2> QED BY <1>1, <1>2, <1>3, <1>8, <2>2
  <1>11. FrameExtends(st, d, e)
    BY <1>10
  <1>12. ChunkDone(st, t, x, y, d, e)
    <2>1. x.seq \in SequenceRecords /\ AfterBridge(x, st).seq \in SequenceRecords
      BY <1>1, <1>2
    <2> HIDE DEF s, b, d
    <2>2. ChunkTaken(st, token, t, x, y, d, e)
      BY <1>1, <1>5, <1>6, <1>8, <1>11, <2>1 DEF ChunkTaken
    <2> QED BY <2>2, ChunkContents
  <1>13. Stepped(x, z, q)
    <2>1. Stepped(x, FinishPrefill([y EXCEPT !.dev.tail = y.dev.lin], st, token), q)
      BY LastChunkStep
    <2> QED BY <2>1
  <1>14. LaneOK(engine, z.seq, q, z.kv) /\ z.seq \in SequenceRecords
    BY <1>13 DEF Stepped, LaneOK
  <1> HIDE DEF d, n, s, b
  <1>15. /\ Reached(t, st, e, n) /\ y.seq.items = s.items /\ e.tail = History(t, n)
    BY <1>8, <1>12 DEF ChunkDone, n, s
  <1>16. Saved(engine, t, e, z.seq.ckpt.at)
    <2>1. st.capture.at <= n /\ (st.capture = NoCkpt <=> st.capture.at = 0)
      BY <1>1, <1>4, CaptureAt DEF StagedOK
    <2> QED BY <1>5, <1>10, <1>15, <2>1 DEF Reached
  <1> DEFINE v == z.seq
  <1>17. v.ledger = Append(p.ids, token) /\ v.items = p.items /\ Follows(v, p, token)
    BY <1>10, <1>14, <1>15 DEF Follows, s
  <1>18. /\ IsDevice(e) /\ Cells(t, e, Len(p.ids)) /\ e.lin = History(t, Len(p.ids))
         /\ e.tail = History(t, Len(p.ids)) /\ Aligned(engine, t, e, Len(p.ids))
         /\ InContext(engine, t, e, Len(p.ids)) /\ Saved(engine, t, e, v.ckpt.at)
    BY <1>4, <1>15, <1>16 DEF Reached
  <1> HIDE DEF v
  <1>19. t.ledger = v.ledger /\ t.items = v.items /\ LaneOK(engine, v, q, z.kv)
    BY <1>5, <1>14, <1>17 DEF v
  <1>20. LaneSound(engine, v, q, e)
    <2>1. FirstToken(st, token, v, t, e)
      BY <1>17, <1>18, <1>19 DEF FirstToken
    <2> DEFINE k == z.kv
    <2>2. LaneOK(engine, v, q, k) /\ StagedOK(engine, st) /\ r \in RequestRecords
      BY <1>1, <1>19
    <2> HIDE DEF k
    <2> QED BY <2>1, <2>2, BegunSound
  <1> QED BY <1>20 DEF v

\* What sampling from the tail writes of the MTP cells.
LEMMA SampledContents ==
    ASSUME engine \in Engines, NEW st, StagedOK(engine, st), NEW token \in STRING,
           NEW t, Follows(t, st.prompt, token), t.ledger = Append(st.prompt.ids, token),
           NEW x, IsView(x), Begins(engine, t, st, x.dev), st.cursor = Len(st.prompt.ids),
           Backend = "mtp" => st.bridge = "after",
           NEW w, w = SampleFromTail(x, st, token)
    PROVE  OnlyIn({"mtp"}, x.dev, w.dev) /\ Aligned(engine, t, w.dev, Len(st.prompt.ids))
  <1> DEFINE n == Len(st.prompt.ids)
             checked == Require(x, st.bridge = "after")
             hidden == x.dev.tail
             cells == [i \in {n} |-> MtpCell(HiddenOf(hidden), token)]
             y == WriteMtp(checked, n, cells)
             drafts == [i \in n + 1 .. n + st.extent - 1 |-> MtpCell(LostFeature, Rejected)]
             z == IF st.extent = 0 THEN y ELSE WriteMtp(y, n + st.extent - 1, drafts)
             v == [z EXCEPT !.seq.mtpValid = n]
             u == IF Backend = "mtp" THEN v ELSE x
  <1>1. w = Require(u, x.seq.tailValid)
    BY DEF SampleFromTail, WriteDrafts
  <1>2. /\ IsDevice(x.dev) /\ hidden = History(t, n)
        /\ (st.bridge # "none" => /\ st.cursor = st.base /\ st.base >= 1
                                  /\ Aligned(engine, t, x.dev, st.base - 1))
    BY DEF Begins
  <1>3. /\ n \in Nat /\ n <= Capacity /\ st.prompt \in Prompts /\ st.extent \in Nat
        /\ Backend = engine.backend
    BY StagedNumbers, EngineFacts
  <1>4. CASE Backend # "mtp"
    <2>1. u = x
      BY <1>4
    <2> HIDE DEF u
    <2>2. w.dev = x.dev
      BY <1>1, <2>1, RequireDevice
    <2>3. OnlyIn({"mtp"}, x.dev, w.dev)
      BY <1>2, <2>2 DEF OnlyIn
    <2> QED BY <1>3, <1>4, <2>3 DEF Aligned
  <1>5. CASE Backend = "mtp"
    <2>1. n >= 1 /\ Aligned(engine, t, x.dev, n - 1)
      <3>1. st.bridge # "none" /\ st.cursor = n
        BY <1>5
      <3> QED BY <1>2, <3>1
    <2>2. t \in SequenceRecords /\ n <= Len(t.ledger) /\ Len(t.ledger) \in Nat
          /\ Column(t, n + 1) = token
      BY <1>3, PromptColumns DEF Follows
    <2>3. HiddenOf(hidden) = Feature(n, Column(t, n))
      <3> HIDE DEF hidden, n
      <3>1. Len(History(t, n)) = n /\ History(t, n)[n] = Column(t, n)
        <4>1. n \in 1 .. n
          BY <1>3, <2>1
        <4> QED BY <1>3, <2>2, <4>1, HistoryFacts
      <3> QED BY <1>2, <3>1 DEF HiddenOf
    <2>4. /\ DOMAIN cells = {n}
          /\ cells[n] = MtpCell(Feature(n, Column(t, n)), Column(t, n + 1))
      BY <2>2, <2>3
    <2>5. IsView(checked) /\ checked.dev = x.dev
      BY RequireDevice
    <2> HIDE DEF n, hidden, cells, drafts, checked
    <2>6. IsView(y) /\ OnlyIn({"mtp"}, x.dev, y.dev) /\ y.dev.mtp = Over(x.dev.mtp, cells)
      BY <1>2, <2>5, WriteMtpDevice
    <2>7. IsDevice(y.dev)
      BY <2>6 DEF OnlyIn
    <2>8. Aligned(engine, t, y.dev, n)
      <3> DEFINE a == n - 1
      <3>1. a \in Nat /\ a <= n /\ Aligned(engine, t, x.dev, a)
        BY <1>3, <2>1
      <3>2. \A i \in 1 .. a : i \notin DOMAIN cells
        BY <1>3, <2>4
      <3>3. \A i \in a + 1 .. n : i = n
        BY <1>3, <2>1
      <3>4. \A i \in a + 1 .. n :
                /\ i \in DOMAIN cells
                /\ cells[i] = MtpCell(Feature(i, Column(t, i)), Column(t, i + 1))
        BY <2>4, <3>3
      <3> HIDE DEF a
      <3> QED BY <1>3, <2>6, <3>1, <3>2, <3>4, AlignedWritten
    <2> HIDE DEF y
    <2>9. IsView(z) /\ OnlyIn({"mtp"}, x.dev, z.dev) /\ Aligned(engine, t, z.dev, n)
      <3>1. CASE st.extent = 0
        BY <2>6, <2>8, <3>1
      <3>2. CASE st.extent # 0
        <4> DEFINE k == n + st.extent - 1
        <4>1. z = WriteMtp(y, k, drafts)
          BY <3>2
        <4>2. \A i \in 1 .. n : i \notin DOMAIN drafts
          BY <1>3 DEF drafts
        <4> HIDE DEF z, k
        <4>3. IsView(z) /\ OnlyIn({"mtp"}, y.dev, z.dev) /\ z.dev.mtp = Over(y.dev.mtp, drafts)
          BY <2>6, <2>7, <4>1, WriteMtpDevice
        <4>4. Aligned(engine, t, z.dev, n)
          BY <1>3, <2>8, <4>2, <4>3, AlignedBeyond
        <4> QED BY <2>6, <4>3, <4>4 DEF OnlyIn
      <3> QED BY <3>1, <3>2
    <2> HIDE DEF z
    <2>10. IsView(v) /\ v.dev = z.dev
      BY <2>9 DEF IsView, ViewFields
    <2>11. u = v
      BY <1>5
    <2> HIDE DEF u, v
    <2>12. w.dev = z.dev
      BY <1>1, <2>10, <2>11, RequireDevice
    <2> QED BY <2>9, <2>12 DEF n
  <1> QED BY <1>4, <1>5

\* What a frame may do to the device when there is no chunk.
LEMMA NoChunk ==
    ASSUME engine \in Engines, NEW st, StagedOK(engine, st), st.cursor = Len(st.prompt.ids),
           NEW d, NEW e, FrameExtends(st, d, e)
    PROVE  /\ OnlyIn({"full", "local", "ckLocal"}, d, e)
           /\ engine.backend = "dflash" /\ engine.lanes = 1 => e = d
  <1> DEFINE b == ChunkEnd(st)
             c == st.cursor
  <1>1. ~(b > c)
    <2> SUFFICES ASSUME b > c PROVE FALSE
      OBVIOUS
    <2>1. b \in Nat /\ b <= Len(st.prompt.ids)
      BY ChunkWithin
    <2>2. c \in Nat /\ c = Len(st.prompt.ids)
      BY StagedNumbers
    <2> HIDE DEF b, c
    <2> QED BY <2>1, <2>2
  <1> QED BY <1>1 DEF FrameExtends

\* The prompt was found whole.
LEMMA TailSound ==
    ASSUME engine \in Engines, NEW x, NEW r, NEW st, Advancing(x, r, st), NEW token \in STRING,
           st.cursor = Len(st.prompt.ids),
           x.seq.items = st.prompt.items, Begins(engine, x.seq, st, x.dev),
           NEW q, q = [r EXCEPT !.life = "Pending", !.prefill = NoPrefill, !.work = @ - 1,
                                !.pending = [NoPending EXCEPT !.kind = "begin",
                                                              !.baseE = Len(st.prompt.ids),
                                                              !.tokens = <<token>>]],
           NEW z, z = FinishPrefill(SampleFromTail(x, st, token), st, token),
           NEW e, FrameExtends(st, z.dev, e)
    PROVE  LaneSound(engine, z.seq, q, e)
  <1> DEFINE n == Len(st.prompt.ids)
             s == x.seq
             p == st.prompt
             w == SampleFromTail(x, st, token)
             d == w.dev
             t == [s EXCEPT !.ledger = Append(p.ids, token)]
  <1>1. /\ IsView(x) /\ s \in SequenceRecords /\ x.kv \in Bundles
        /\ StagedOK(engine, st) /\ r \in RequestRecords /\ PromptPages(engine, st, x.kv)
        /\ s.ledger = p.ids /\ s.tailValid /\ (Backend = "mtp" => st.bridge = "after")
        /\ s.ckpt.at <= st.base
    BY DEF Advancing
  <1>2. p \in Prompts /\ n \in Nat /\ st.cursor = n
    BY <1>1, StagedNumbers
  <1>3. /\ Follows(s, p, token) /\ Follows(t, p, token) /\ t \in SequenceRecords
        /\ t.ledger = Append(p.ids, token) /\ t.items = p.items /\ t.ckpt = s.ckpt
    BY <1>1, <1>2, WithToken
  <1> HIDE DEF t
  <1>4. Begins(engine, t, st, x.dev)
    <2>1. s.ckpt.at <= Len(st.prompt.ids)
      <3>1. s.ckpt.at \in Nat /\ st.base \in Nat /\ st.base <= st.cursor /\ st.cursor \in Nat
        BY <1>1, SequenceFacts, StagedNumbers
      <3> QED BY <1>1, <1>2, <3>1
    <2> HIDE DEF s
    <2>2. Begins(engine, s, st, x.dev)
      BY DEF s
    <2> QED BY <1>1, <1>3, <2>1, <2>2, BeginsMoved
  <1>5. OnlyIn({"mtp"}, x.dev, w.dev) /\ Aligned(engine, t, w.dev, n)
    <2> HIDE DEF s
    <2>1. StagedOK(engine, st) /\ IsView(x) /\ (Backend = "mtp" => st.bridge = "after")
          /\ Follows(t, st.prompt, token) /\ t.ledger = Append(st.prompt.ids, token)
      BY <1>1, <1>3
    <2> QED BY <1>4, <2>1, SampledContents
  <1>6. /\ IsView(w)
        /\ w.seq = IF Backend = "mtp" THEN [x.seq EXCEPT !.mtpValid = n] ELSE x.seq
    BY <1>1, SampledFacts
  <1>7. z = FinishPrefill(w, st, token)
    OBVIOUS
  <1> HIDE DEF w
  <1>8. /\ w.seq \in SequenceRecords /\ w.seq.ledger = s.ledger /\ w.seq.items = s.items
        /\ w.seq.ckpt = s.ckpt
    <2> HIDE DEF n
    <2>1. x.seq \in SequenceRecords
      BY <1>1
    <2> QED BY <1>2, <1>6, <2>1, ZenonT(60) DEF SequenceRecords
  <1>9. Finished(st, token, w, z)
    BY <1>6, <1>7, <1>8, FinishedSequence
  <1>10. Stepped(x, z, q)
    <2>1. Stepped(x, FinishPrefill(SampleFromTail(x, st, token), st, token), q)
      BY TailStep
    <2> QED BY <2>1
  <1>11. LaneOK(engine, z.seq, q, z.kv) /\ z.seq \in SequenceRecords
    BY <1>10 DEF Stepped, LaneOK
  <1> HIDE DEF s, n
  <1>12. /\ z.dev = d /\ z.seq.ledger = Append(p.ids, token) /\ z.seq.items = p.items
         /\ z.seq.ckpt = IF st.capture = NoCkpt THEN s.ckpt ELSE st.capture
    BY <1>1, <1>8, <1>9 DEF Finished, s
  <1>13. /\ OnlyIn({"full", "local", "ckLocal"}, d, e)
         /\ engine.backend = "dflash" /\ engine.lanes = 1 => e = d
    BY <1>1, <1>12, NoChunk
  <1> HIDE DEF d
  <1>14. OnlyIn({"mtp"}, x.dev, d) /\ Aligned(engine, t, d, n)
    BY <1>5 DEF d
  <1>15. /\ IsDevice(e) /\ e.kv = x.dev.kv /\ e.lin = x.dev.lin /\ e.tail = x.dev.tail
         /\ e.mtp = d.mtp /\ e.ckLin = x.dev.ckLin /\ e.ckHid = x.dev.ckHid
    BY <1>13, <1>14 DEF OnlyIn, DeviceFields
  <1>16. engine.backend = "dflash" /\ engine.lanes = 1 =>
            /\ e.full = x.dev.full /\ e.local = x.dev.local /\ e.ckLocal = x.dev.ckLocal
    BY <1>13, <1>14 DEF OnlyIn, DeviceFields
  <1>17. /\ Cells(t, x.dev, n) /\ x.dev.lin = History(t, n) /\ InContext(engine, t, x.dev, n)
         /\ Saved(engine, t, x.dev, t.ckpt.at) /\ x.dev.tail = History(t, n)
         /\ (st.capture.at <= n => Saved(engine, t, x.dev, st.capture.at))
    BY <1>2, <1>4 DEF Begins, n
  <1>18. InContext(engine, t, e, n)
    BY <1>16, <1>17 DEF InContext
  <1>19. Saved(engine, t, e, z.seq.ckpt.at)
    <2>1. st.capture.at <= n /\ (st.capture = NoCkpt <=> st.capture.at = 0)
      BY <1>1, CaptureAt DEF StagedOK, n
    <2>2. Saved(engine, t, x.dev, z.seq.ckpt.at)
      BY <1>3, <1>12, <1>17, <2>1
    <2> QED BY <1>15, <1>16, <2>2 DEF Saved
  <1>20. Cells(t, e, n) /\ Aligned(engine, t, e, n)
    BY <1>14, <1>15, <1>17, SameCells, SameAligned
  <1> DEFINE v == z.seq
             k == z.kv
  <1>21. FirstToken(st, token, v, t, e)
    BY <1>3, <1>11, <1>12, <1>15, <1>17, <1>18, <1>19, <1>20 DEF FirstToken, Follows, n
  <1>22. LaneOK(engine, v, q, k) /\ StagedOK(engine, st) /\ r \in RequestRecords
    BY <1>1, <1>11
  <1> HIDE DEF v, k
  <1>23. LaneSound(engine, v, q, e)
    BY <1>21, <1>22, BegunSound
  <1> QED BY <1>23 DEF v

\* A prefill step leaves a sound lane.
LEMMA AdvanceSound ==
    ASSUME engine \in Engines, NEW x, NEW r, NEW st, Advancing(x, r, st), NEW token \in STRING,
           x.seq.items = st.prompt.items, Begins(engine, x.seq, st, x.dev),
           NEW z, z = Advanced(x, st, token), NEW e, FrameExtends(st, z.dev, e)
    PROVE  LaneSound(engine, z.seq, AdvancedRequest(r, st, token), e)
  <1> DEFINE n == Len(st.prompt.ids)
             b == ChunkEnd(st)
             y == ComputeChunk(AfterBridge(x, st), st, b, token)
             q == [r EXCEPT !.life = "Pending", !.prefill = NoPrefill, !.work = @ - 1,
                            !.pending = [NoPending EXCEPT !.kind = "begin", !.baseE = n,
                                                          !.tokens = <<token>>]]
             g == [r EXCEPT !.life = "Prefilling", !.prefill = NextPrefill(st), !.work = @ - 1]
  <1>1. st.cursor \in Nat /\ n \in Nat /\ st.cursor <= n
    BY StagedNumbers DEF Advancing
  <1>2. z = CASE st.cursor = n -> FinishPrefill(SampleFromTail(x, st, token), st, token)
              [] st.cursor < n /\ b = n ->
                    FinishPrefill([y EXCEPT !.dev.tail = y.dev.lin], st, token)
              [] OTHER -> y
    BY DEF Advanced
  <1>3. AdvancedRequest(r, st, token) = IF st.cursor = n \/ b = n THEN q ELSE g
    BY DEF AdvancedRequest
  <1>4. CASE st.cursor = n
    <2>1. z = FinishPrefill(SampleFromTail(x, st, token), st, token)
      <3> HIDE DEF n, y
      <3>1. ~(st.cursor < n)
        BY <1>1, <1>4
      <3> QED BY <1>2, <1>4, <3>1
    <2>2. LaneSound(engine, z.seq, q, e)
      BY <1>4, <2>1, TailSound
    <2> HIDE DEF n, q
    <2> QED BY <1>3, <1>4, <2>2
  <1>5. CASE st.cursor < n /\ b = n
    <2>1. z = FinishPrefill([y EXCEPT !.dev.tail = y.dev.lin], st, token)
      <3> HIDE DEF n, y, b
      <3>1. st.cursor # n
        BY <1>1, <1>5
      <3> QED BY <1>2, <1>5, <3>1
    <2>2. y = ComputeChunk(AfterBridge(x, st), st, ChunkEnd(st), token)
      OBVIOUS
    <2> HIDE DEF y
    <2>3. LaneSound(engine, z.seq, q, e)
      BY <1>5, <2>1, <2>2, LastChunkSound
    <2> HIDE DEF n, q
    <2> QED BY <1>3, <1>5, <2>3
  <1>6. CASE st.cursor < n /\ b # n
    <2>1. b \in Nat /\ b <= n
      <3>1. b \in Nat /\ b <= ChunkLimit(st) /\ ChunkLimit(st) \in Nat /\ ChunkLimit(st) <= n
        BY <1>6, CutFacts, LimitFacts DEF Advancing
      <3> HIDE DEF b, n
      <3> QED BY <1>1, <3>1
    <2>2. b < n
      <3> HIDE DEF b, n
      <3> QED BY <1>1, <1>6, <2>1
    <2>3. z = y
      <3> HIDE DEF n, y, b
      <3>1. st.cursor # n
        BY <1>1, <1>6
      <3> QED BY <1>2, <1>6, <3>1
    <2>4. y = ComputeChunk(AfterBridge(x, st), st, ChunkEnd(st), token)
      OBVIOUS
    <2> HIDE DEF y
    <2>5. FrameExtends(st, y.dev, e)
      BY <2>3
    <2>6. LaneSound(engine, y.seq, g, e)
      BY <1>6, <2>2, <2>4, <2>5, ChunkSound
    <2> HIDE DEF n, g, b
    <2>7. st.cursor # n
      BY <1>1, <1>6
    <2> QED BY <1>3, <1>6, <2>3, <2>6, <2>7
  <1> QED BY <1>1, <1>4, <1>5, <1>6

\* The context of another lane does not matter where no lane may rely on its own.
LEMMA LooseLane ==
    ASSUME NEW en, en.lanes # 1, NEW s, NEW r, NEW d, LaneSound(en, s, r, d),
           NEW e, OnlyIn({"full", "local", "ckLocal"}, d, e)
    PROVE  LaneSound(en, s, r, e)
  <1>1. /\ IsDevice(e) /\ e.kv = d.kv /\ e.lin = d.lin /\ e.tail = d.tail /\ e.mtp = d.mtp
        /\ e.ckLin = d.ckLin /\ e.ckHid = d.ckHid /\ e.features = d.features
    BY DEF OnlyIn, DeviceFields
  <1>2. \A t, n : InContext(en, t, e, n)
    BY DEF InContext
  <1>3. \A t, n : Saved(en, t, d, n) => Saved(en, t, e, n)
    BY <1>1 DEF Saved
  <1>4. \A t, n : /\ Cells(t, d, n) => Cells(t, e, n)
                  /\ Aligned(en, t, d, n) => Aligned(en, t, e, n)
                  /\ \A a : Waiting(en, t, d, a, n) => Waiting(en, t, e, a, n)
    BY <1>1 DEF Cells, Aligned, Waiting
  <1>5. ASSUME NEW n, Whole(en, s, d, n) PROVE Whole(en, s, e, n)
    BY <1>1, <1>2, <1>3, <1>4, <1>5 DEF Whole
  <1>6. ASSUME NEW st, Partial(en, s, st, d) PROVE Partial(en, s, st, e)
    BY <1>1, <1>2, <1>3, <1>4, <1>6 DEF Partial
  <1>7. ASSUME NEW pending, Provisional(en, s, pending, d) PROVE Provisional(en, s, pending, e)
    <2> DEFINE t == Licensed(s, pending.tokens)
               m == Len(pending.tokens)
    <2>1. /\ Cells(t, d, s.E + m) /\ d.lin = History(t, s.E) /\ d.tail = History(t, s.E + m)
          /\ Aligned(en, t, d, s.E + m)
          /\ Waiting(en, t, d, s.E, s.E + m)
          /\ Saved(en, t, d, s.ckpt.at) /\ ItemsEnd(s, s.E)
          /\ m <= Len(pending.columns)
          /\ \A j \in 1 .. m : pending.columns[j] = Column(t, s.E + j)
      BY <1>7 DEF Provisional
    <2>2. /\ Cells(t, e, s.E + m) /\ e.lin = History(t, s.E) /\ e.tail = History(t, s.E + m)
          /\ Aligned(en, t, e, s.E + m) /\ InContext(en, t, e, s.E)
          /\ Waiting(en, t, e, s.E, s.E + m) /\ Saved(en, t, e, s.ckpt.at)
      <3> HIDE DEF t, m
      <3> QED BY <1>1, <1>2, <1>3, <1>4, <2>1
    <2> QED BY <2>1, <2>2 DEF Provisional
  <1> QED BY <1>1, <1>5, <1>6, <1>7 DEF LaneSound

\* Where the device state of a prefill step goes.
LEMMA ApplyDevice ==
    ASSUME engine \in Engines, CInv, NEW l \in Lanes, NEW g \in Lanes, NEW x, x.bad = {},
           IsDevice(x.dev), NEW r, NEW st, Apply(l, x, r, g, st)
    PROVE  /\ dev' = [m \in Lanes |-> dev'[m]]
           /\ FrameExtends(st, x.dev, dev'[l])
           /\ \A m \in Lanes \ {l} : OnlyIn({"full", "local", "ckLocal"}, dev[m], dev'[m])
  <1> DEFINE b == ChunkEnd(st)
             chunk == Backend = "dflash" /\ b > st.cursor
             device == IF g = l THEN x.dev ELSE dev[g]
             bundle == IF g = l THEN x.kv ELSE kv[g]
             target == [seq |-> seq[g], dev |-> device, kv |-> bundle, bad |-> {}]
             features == ChunkFeatures(st, b)
             appended == AppendContext(target, b, features)
             saved == IF st.capture.at = b
                      THEN [appended EXCEPT !.dev.ckLocal = appended.dev.local] ELSE appended
             d == [dev EXCEPT ![l] = x.dev]
  <1>1. dev' = IF chunk THEN [d EXCEPT ![g] = saved.dev] ELSE d
    BY DEF Apply
  <1>2. dev = [m \in Lanes |-> dev[m]] /\ \A m \in Lanes : IsDevice(dev[m])
    BY DEF CInv, LaneSound
  <1>3. Backend = engine.backend /\ (engine.lanes = 1 => \A m \in Lanes : m = l)
    <2>1. engine.lanes \in Nat
      BY EngineFacts
    <2>2. engine.lanes = 1 => Lanes = {0}
      BY <2>1 DEF Lanes
    <2> QED BY <2>2, EngineFacts
  <1>4. IsDevice(device)
    BY <1>2
  <1> HIDE DEF device, bundle, features
  <1>5. IsView(target) /\ target.dev = device
    BY DEF IsView, ViewFields
  <1> HIDE DEF target
  <1>6. /\ IsView(appended) /\ OnlyIn({"full", "local"}, device, appended.dev)
        /\ appended.dev.full = Over(device.full, features)
        /\ appended.dev.local = Turned(device.local, features)
    <2> HIDE DEF b
    <2> QED BY <1>4, <1>5, AppendDevice
  <1> HIDE DEF appended
  <1>7. /\ OnlyIn({"full", "local", "ckLocal"}, device, saved.dev)
        /\ saved.dev.full = Over(device.full, features)
        /\ saved.dev.local = Turned(device.local, features)
        /\ saved.dev.ckLocal = IF st.capture.at = b THEN saved.dev.local ELSE device.ckLocal
    <2> DEFINE w == appended.dev
               a == w.local
               u == [w EXCEPT !.ckLocal = a]
    <2>1. IsDevice(w) /\ w.ckLocal = device.ckLocal
      BY <1>6 DEF OnlyIn, DeviceFields
    <2>2. a = appended.dev.local /\ w = appended.dev
      OBVIOUS
    <2>3. DOMAIN a = Slots
      BY <2>1 DEF IsDevice
    <2> HIDE DEF w, a
    <2>4. OnlyIn({"ckLocal"}, w, u) /\ u.ckLocal = a
      BY <2>1, <2>3 DEF OnlyIn, IsDevice, DeviceFields
    <2>5. CASE st.capture.at = b
      <3>1. saved.dev = u
        <4>1. saved = [appended EXCEPT !.dev = u]
          BY <2>2, <2>5
        <4> HIDE DEF saved, u
        <4> QED BY <1>6, <4>1 DEF IsView, ViewFields
      <3> HIDE DEF saved, u
      <3>2. OnlyIn({"full", "local", "ckLocal"}, device, u) /\ u.full = appended.dev.full
            /\ u.local = appended.dev.local
        BY <1>6, <2>2, <2>4 DEF OnlyIn, DeviceFields
      <3> QED BY <1>6, <2>2, <2>4, <2>5, <3>1, <3>2
    <2>6. CASE st.capture.at # b
      <3>1. saved = appended
        BY <2>6
      <3> HIDE DEF saved
      <3>2. OnlyIn({"full", "local", "ckLocal"}, device, appended.dev)
        BY <1>6 DEF OnlyIn, DeviceFields
      <3> QED BY <1>6, <2>1, <2>2, <2>6, <3>1, <3>2
    <2> QED BY <2>5, <2>6
  <1> HIDE DEF saved
  <1>8. /\ dev' = [m \in Lanes |-> dev'[m]]
        /\ \A m \in Lanes : dev'[m] = IF chunk /\ m = g THEN saved.dev
                                      ELSE IF m = l THEN x.dev ELSE dev[m]
    <2> HIDE DEF chunk
    <2>1. d = [m \in Lanes |-> IF m = l THEN x.dev ELSE dev[m]]
      BY <1>2
    <2> HIDE DEF d
    <2>2. dev' = [m \in Lanes |-> IF chunk /\ m = g THEN saved.dev
                                  ELSE IF m = l THEN x.dev ELSE dev[m]]
      BY <1>1, <2>1
    <2> QED BY <2>2
  <1> DEFINE Loose == {"full", "local", "ckLocal"}
  <1>9. \A w : IsDevice(w) => OnlyIn(Loose, w, w)
    BY DEF OnlyIn
  <1>10. OnlyIn(Loose, x.dev, dev'[l])
    <2>1. CASE chunk /\ l = g
      BY <1>7, <1>8, <2>1 DEF device
    <2>2. CASE ~(chunk /\ l = g)
      <3> HIDE DEF chunk
      <3>1. dev'[l] = x.dev
        BY <1>8, <2>2
      <3> QED BY <1>9, <3>1
    <2> QED BY <2>1, <2>2
  <1>11. ASSUME NEW m \in Lanes \ {l} PROVE OnlyIn(Loose, dev[m], dev'[m])
    <2>1. CASE chunk /\ m = g
      BY <1>7, <1>8, <2>1 DEF device
    <2>2. CASE ~(chunk /\ m = g)
      <3> HIDE DEF chunk
      <3>1. dev'[m] = dev[m]
        BY <1>8, <2>2
      <3> QED BY <1>2, <1>9, <3>1
    <2> QED BY <2>1, <2>2
  <1>12. engine.backend = "dflash" /\ engine.lanes = 1 =>
            IF b > st.cursor
            THEN /\ dev'[l].full = Over(x.dev.full, features)
                 /\ dev'[l].local = Turned(x.dev.local, features)
                 /\ dev'[l].ckLocal = IF st.capture.at = b THEN dev'[l].local ELSE x.dev.ckLocal
            ELSE dev'[l] = x.dev
    <2> SUFFICES ASSUME engine.backend = "dflash", engine.lanes = 1
                 PROVE  IF b > st.cursor
                        THEN /\ dev'[l].full = Over(x.dev.full, features)
                             /\ dev'[l].local = Turned(x.dev.local, features)
                             /\ dev'[l].ckLocal = IF st.capture.at = b THEN dev'[l].local
                                                  ELSE x.dev.ckLocal
                        ELSE dev'[l] = x.dev
      OBVIOUS
    <2>1. g = l /\ device = x.dev
      BY <1>3 DEF device
    <2>2. chunk <=> b > st.cursor
      BY <1>3
    <2>3. dev'[l] = IF b > st.cursor THEN saved.dev ELSE x.dev
      <3> HIDE DEF b, chunk
      <3> QED BY <1>8, <2>1, <2>2
    <2> HIDE DEF b
    <2> QED BY <1>7, <2>1, <2>3
  <1>13. FrameExtends(st, x.dev, dev'[l])
    BY <1>10, <1>12 DEF FrameExtends, features
  <1> QED BY <1>8, <1>11, <1>13

\* A prefill step leaves a device.
LEMMA AdvancedDevice ==
    ASSUME engine \in Engines, NEW x, NEW r, NEW st, Advancing(x, r, st), NEW token \in STRING,
           x.seq.items = st.prompt.items, Begins(engine, x.seq, st, x.dev),
           NEW z, z = Advanced(x, st, token)
    PROVE  IsDevice(z.dev)
  <1> DEFINE n == Len(st.prompt.ids)
             b == AfterBridge(x, st)
             e == ChunkEnd(st)
             y == ComputeChunk(b, st, e, token)
             w == [y EXCEPT !.dev.tail = y.dev.lin]
             s == x.seq
             p == st.prompt
             u == SampleFromTail(x, st, token)
             t == [s EXCEPT !.ledger = Append(p.ids, token)]
  <1>1. /\ IsView(x) /\ s \in SequenceRecords /\ x.kv \in Bundles
        /\ StagedOK(engine, st) /\ PromptPages(engine, st, x.kv)
        /\ s.ledger = p.ids /\ (st.bridge = "before" => Backend = "mtp")
        /\ s.ckpt.at <= st.base
        /\ (st.cursor = n => s.tailValid /\ (Backend = "mtp" => st.bridge = "after"))
    BY DEF Advancing
  <1>2. p \in Prompts /\ n \in Nat /\ st.cursor \in Nat /\ st.cursor <= n
    BY <1>1, StagedNumbers
  <1>3. /\ Follows(s, p, token) /\ Follows(t, p, token) /\ t \in SequenceRecords
        /\ t.ledger = Append(p.ids, token) /\ t.items = p.items /\ t.ckpt = s.ckpt
    BY <1>1, <1>2, WithToken
  <1> HIDE DEF t
  <1>4. Begins(engine, t, st, x.dev)
    <2>1. s.ckpt.at <= Len(st.prompt.ids)
      <3>1. s.ckpt.at \in Nat /\ st.base \in Nat /\ st.base <= st.cursor
        BY <1>1, SequenceFacts, StagedNumbers
      <3> QED BY <1>1, <1>2, <3>1
    <2>2. st.cursor = Len(st.prompt.ids) /\ Backend = "mtp" => st.bridge = "after"
      BY <1>1
    <2> HIDE DEF s
    <2>3. Begins(engine, s, st, x.dev)
      BY DEF s
    <2> QED BY <1>1, <1>3, <2>1, <2>2, <2>3, BeginsMoved
  <1>5. z = CASE st.cursor = n -> FinishPrefill(u, st, token)
              [] st.cursor < n /\ e = n -> FinishPrefill(w, st, token)
              [] OTHER -> y
    BY DEF Advanced
  <1>6. CASE st.cursor = n
    <2>1. z = FinishPrefill(u, st, token)
      <3> HIDE DEF n, u, w
      <3>1. ~(st.cursor < n)
        BY <1>2, <1>6
      <3> QED BY <1>5, <1>6, <3>1
    <2>2. OnlyIn({"mtp"}, x.dev, u.dev)
      <3> HIDE DEF s
      <3>1. StagedOK(engine, st) /\ IsView(x) /\ (Backend = "mtp" => st.bridge = "after")
            /\ Follows(t, st.prompt, token) /\ t.ledger = Append(st.prompt.ids, token)
        BY <1>1, <1>3, <1>6
      <3> QED BY <1>4, <1>6, <3>1, SampledContents
    <2>3. /\ IsView(u)
          /\ u.seq = IF Backend = "mtp" THEN [x.seq EXCEPT !.mtpValid = n] ELSE x.seq
      BY <1>1, <1>6, SampledFacts
    <2> HIDE DEF u
    <2>4. u.seq \in SequenceRecords
      <3> HIDE DEF n
      <3>1. x.seq \in SequenceRecords
        BY <1>1
      <3> QED BY <1>2, <2>3, <3>1, ZenonT(60) DEF SequenceRecords
    <2>5. Finished(st, token, u, z)
      BY <2>1, <2>3, <2>4, FinishedSequence
    <2> QED BY <2>2, <2>5 DEF Finished, OnlyIn
  <1>7. CASE st.cursor < n
    <2>1. /\ IsView(b) /\ b.kv = x.kv /\ b.seq \in SequenceRecords
      BY <1>1, BridgedFacts
    <2>2. /\ OnlyIn({"mtp"}, x.dev, b.dev) /\ Aligned(engine, t, b.dev, st.cursor)
      BY <1>1, <1>3, <1>4, <1>7, BridgedContents
    <2>3. IsDevice(b.dev) /\ b.dev.kv = x.dev.kv /\ b.dev.lin = x.dev.lin
      BY <2>2 DEF OnlyIn, DeviceFields
    <2>4. Cells(t, b.dev, st.cursor) /\ b.dev.lin = History(t, st.cursor)
      BY <1>4, <2>3, SameCells DEF Begins
    <2>5. t.ledger = Append(st.prompt.ids, token)
      BY <1>3
    <2>6. y = ComputeChunk(b, st, ChunkEnd(st), token)
      OBVIOUS
    <2>7. b.kv \in Bundles /\ PromptPages(engine, st, b.kv)
      BY <1>1, <2>1
    <2> HIDE DEF b, s
    <2>8. IsView(y) /\ OnlyIn(ChunkFields, b.dev, y.dev) /\ y.seq \in SequenceRecords
      <3>1. OnlyIn(ChunkFields, b.dev, y.dev)
        BY <1>1, <1>3, <1>7, <2>1, <2>2, <2>3, <2>4, <2>5, ComputedContents
      <3>2. IsView(y) /\ y.seq \in SequenceRecords
        BY <1>1, <1>7, <2>1, <2>7, ComputedFacts
      <3> QED BY <3>1, <3>2
    <2> HIDE DEF y
    <2>9. IsDevice(y.dev)
      BY <2>8 DEF OnlyIn
    <2>10. IsView(w) /\ w.seq = y.seq /\ IsDevice(w.dev)
      <3> DEFINE a == y.dev.lin
                 v == y.dev
                 c == [v EXCEPT !.tail = a]
      <3>1. IsDevice(v)
        BY <2>9
      <3>2. w = [y EXCEPT !.dev = c]
        OBVIOUS
      <3> HIDE DEF v, a
      <3>3. IsDevice(c)
        BY <3>1 DEF IsDevice, DeviceFields
      <3> HIDE DEF c, w
      <3>4. IsView(w) /\ w.seq = y.seq /\ w.dev = c
        BY <2>8, <3>2 DEF IsView, ViewFields
      <3> QED BY <3>3, <3>4
    <2> HIDE DEF w, e, n
    <2>11. st.cursor # n
      BY <1>2, <1>7
    <2>12. CASE e = n
      <3>1. z = FinishPrefill(w, st, token)
        BY <1>5, <1>7, <2>11, <2>12
      <3>2. Finished(st, token, w, z)
        BY <2>8, <2>10, <3>1, FinishedSequence
      <3> QED BY <2>10, <3>2 DEF Finished
    <2>13. CASE e # n
      BY <1>5, <1>7, <2>9, <2>11, <2>13
    <2> QED BY <2>12, <2>13
  <1>8. st.cursor = n \/ st.cursor < n
    <2> HIDE DEF n
    <2> QED BY <1>2
  <1> QED BY <1>6, <1>7, <1>8

\* A step of one lane leaves every lane sound.
LEMMA StepContents ==
    ASSUME BInv, CInv, engine' = engine, NEW l \in Lanes, NEW g \in Lanes, NEW y, NEW q, NEW st,
           Advancing(y, q, st), NEW token \in STRING,
           y.seq.items = st.prompt.items, Begins(engine, y.seq, st, y.dev),
           NEW x, x = Advanced(y, st, token), NEW r, r = AdvancedRequest(q, st, token),
           Apply(l, x, r, g, st)
    PROVE  CInv'
  <1>1. engine \in Engines
    BY DEF BInv
  <1>2. Stepped(y, x, r)
    BY <1>1, AdvanceSteps
  <1>3. x.bad = {}
    BY <1>2 DEF Stepped
  <1>4. /\ seq' = [seq EXCEPT ![l] = x.seq] /\ req' = [req EXCEPT ![l] = r]
    BY <1>3 DEF Apply
  <1>5. IsDevice(x.dev)
    BY <1>1, AdvancedDevice
  <1>6. /\ dev' = [m \in Lanes |-> dev'[m]]
        /\ FrameExtends(st, x.dev, dev'[l])
        /\ \A m \in Lanes \ {l} : OnlyIn({"full", "local", "ckLocal"}, dev[m], dev'[m])
    BY <1>1, <1>3, <1>5, ApplyDevice
  <1>7. LaneSound(engine, x.seq, r, dev'[l])
    <2> DEFINE e == dev'[l]
    <2>1. FrameExtends(st, x.dev, e)
      BY <1>6
    <2> HIDE DEF e
    <2>2. LaneSound(engine, x.seq, AdvancedRequest(q, st, token), e)
      BY <1>1, <2>1, AdvanceSound
    <2> QED BY <2>2 DEF e
  <1>8. \A m \in Lanes : /\ seq'[m] = IF m = l THEN x.seq ELSE seq[m]
                         /\ req'[m] = IF m = l THEN r ELSE req[m]
    BY <1>4 DEF BInv
  <1>9. ASSUME NEW m \in Lanes PROVE LaneSound(engine, seq'[m], req'[m], dev'[m])
    <2>1. CASE m = l
      BY <1>7, <1>8, <2>1
    <2>2. CASE m # l
      <3>1. LaneSound(engine, seq[m], req[m], dev[m])
        BY DEF CInv
      <3>2. engine.lanes # 1
        <4>1. engine.lanes \in Nat
          BY <1>1, EngineFacts
        <4>2. engine.lanes = 1 => Lanes = {0}
          BY <4>1 DEF Lanes
        <4> QED BY <2>2, <4>2
      <3>3. OnlyIn({"full", "local", "ckLocal"}, dev[m], dev'[m])
        BY <1>6, <2>2
      <3>4. seq'[m] = seq[m] /\ req'[m] = req[m]
        BY <1>8, <2>2
      <3> DEFINE e == dev'[m]
      <3>5. OnlyIn({"full", "local", "ckLocal"}, dev[m], e)
        BY <3>3
      <3> HIDE DEF e
      <3>6. LaneSound(engine, seq[m], req[m], e)
        BY <3>1, <3>2, <3>5, LooseLane
      <3> QED BY <3>4, <3>6 DEF e
    <2> QED BY <2>1, <2>2
  <1>10. Lanes' = Lanes
    BY DEF Lanes
  <1> QED BY <1>6, <1>9, <1>10 DEF CInv

\* A later chunk of a prompt.
LEMMA AdvanceContents ==
    ASSUME BInv, CInv, NEW l \in Lanes, NEW token \in Tokens, AdvancePrefillLane(l, token)
    PROVE  CInv'
  <1> DEFINE st == req[l].prefill
             y == View(l)
             q == req[l]
             x == Advanced(y, st, token)
             r == AdvancedRequest(q, st, token)
             s == seq[l]
  <1>1. /\ engine \in Engines /\ LaneOK(engine, seq[l], req[l], kv[l]) /\ frame \in Lanes
    BY DEF BInv
  <1>2. /\ req[l].life = "Prefilling" /\ Apply(l, x, r, frame, st) /\ engine' = engine
    BY DEF AdvancePrefillLane
  <1>3. token \in STRING
    BY <1>1, EngineFacts
  <1>4. Advancing(y, q, st)
    BY <1>1, <1>2, PrefillAdvances
  <1>5. y.seq = s /\ y.dev = dev[l]
    BY ViewFacts
  <1>6. Partial(engine, s, st, dev[l]) /\ IsDevice(dev[l])
    BY <1>2 DEF CInv, LaneSound
  <1>7. st.bridge = "none" /\ st.cursor < Len(st.prompt.ids) /\ StagedOK(engine, st)
    BY <1>1, <1>2 DEF LaneOK, Prefills
  <1> HIDE DEF st, y, q, s
  <1>8. st.cursor # Len(st.prompt.ids)
    BY <1>1, <1>7, StagedNumbers
  <1>9. Begins(engine, y.seq, st, y.dev) /\ y.seq.items = st.prompt.items
    BY <1>5, <1>6, <1>7, <1>8 DEF Begins, Partial
  <1> HIDE DEF x, r
  <1>10. x = Advanced(y, st, token) /\ r = AdvancedRequest(q, st, token)
    BY DEF x, r
  <1> QED BY <1>1, <1>2, <1>3, <1>4, <1>9, <1>10, StepContents

-----------------------------------------------------------------------------
(***************************************************************************)
(* A new request on a lane.                                                *)
(***************************************************************************)

\* What a plan says of the sequence that it reuses.
Reuses(p, s, plan) ==
    /\ plan.reuse # "full" => PrefixMatches(p, s, plan.base)
    /\ plan.reuse = "append" => plan.base = s.E
    /\ IsRestore(plan.reuse) => plan.base = s.ckpt.at
    /\ plan.capture.at # 0 => /\ plan.capture.at > plan.base
                              /\ CheckpointAtStart(p, s, plan.action).at = 0
    /\ CheckpointAtStart(p, s, plan.action).at # 0 =>
          /\ plan.reuse # "full" /\ CheckpointAtStart(p, s, plan.action).at = s.ckpt.at
    /\ Backend # "mtp" \/ plan.reuse = "full" => plan.bridge = "none"
    /\ Backend = "mtp" /\ plan.reuse # "full" =>
          plan.bridge = IF plan.base < Len(p.ids) THEN "before" ELSE "after"

LEMMA CandidateMatches ==
    ASSUME engine \in Engines, NEW p \in Prompts, NEW s, Restable(engine, s), NEW c,
           c = ReuseFor(p, s)
    PROVE  c.reuse # "full" => PrefixMatches(p, s, c.base)
  <1> DEFINE none == [reuse |-> "full", base |-> 0]
             g == Candidate(p, s)
  <1>1. g = none \/ (g = [reuse |-> "append", base |-> s.E] /\ AppendMatches(p, s))
        \/ (g = [reuse |-> s.ckpt.kind, base |-> s.ckpt.at] /\ CheckpointMatches(p, s))
    BY DEF Candidate
  <1>2. c = g \/ c = none
    BY DEF ReuseFor
  <1> HIDE DEF g
  <1>3. none.reuse = "full"
    OBVIOUS
  <1> QED BY <1>1, <1>2, <1>3 DEF AppendMatches, CheckpointMatches

LEMMA PlanReuses ==
    ASSUME engine \in Engines, NEW p \in Prompts, NEW s, Restable(engine, s), NEW plan,
           plan = PlanRequestForLane(p, s)
    PROVE  Reuses(p, s, plan)
  <1> DEFINE c == ReuseFor(p, s)
             action == CheckpointAction(p, s, c)
             ckpt == CheckpointAtStart(p, s, action)
  <1>1. /\ plan.reuse = c.reuse /\ plan.base = c.base /\ plan.action = action
        /\ plan.capture = IF action = "capture" THEN p.ckpt ELSE NoCkpt
    BY DEF PlanRequestForLane
  <1>2. plan.bridge = CASE Backend # "mtp" \/ c.reuse = "full" -> "none"
                        [] Backend = "mtp" /\ c.reuse # "full" /\ c.base < Len(p.ids) -> "before"
                        [] OTHER -> "after"
    BY DEF PlanRequestForLane
  <1>3. /\ c.reuse \in Paths /\ c.base \in Nat /\ c.base <= Len(p.ids)
        /\ c.reuse = "full" => c.base = 0
        /\ c.reuse = "append" => c.base = s.E
        /\ IsRestore(c.reuse) => c.base = s.ckpt.at
    BY ReuseFacts
  <1>4. c.reuse # "full" => PrefixMatches(p, s, c.base)
    BY CandidateMatches
  <1>5. p.ckpt \in Checkpoints /\ p.ckpt.at \in Nat /\ (p.ckpt # NoCkpt => p.ckpt.at >= 1)
    BY PromptFacts
  <1>6. s.ckpt \in Checkpoints
    BY DEF Restable, SequenceRecords
  <1>7. /\ action \in {"drop", "keep", "reclassify", "capture", "defer"}
        /\ action \in {"keep", "reclassify"} => c.reuse # "full"
        /\ action = "defer" => p.ckpt # NoCkpt /\ ~(p.ckpt.at > c.base)
        /\ action = "capture" => p.ckpt.at > c.base
    BY DEF CheckpointAction
  <1>8. NoCkpt.at = 0
    BY DEF NoCkpt
  <1> HIDE DEF c, action
  <1>9. action = "defer" => c.reuse # "full"
    BY <1>3, <1>5, <1>7
  <1>10. /\ action \in {"drop", "capture"} => ckpt.at = 0
         /\ action \notin {"drop", "capture"} => c.reuse # "full" /\ ckpt.at = s.ckpt.at
    <2>1. action \in {"drop", "capture"} => ckpt.at = 0
      BY <1>8 DEF CheckpointAtStart
    <2>2. action = "reclassify" => ckpt = [s.ckpt EXCEPT !.kind = p.ckpt.kind]
      BY DEF CheckpointAtStart
    <2>3. [s.ckpt EXCEPT !.kind = p.ckpt.kind].at = s.ckpt.at
      BY <1>6 DEF Checkpoints, NoCkpt
    <2>4. action \in {"keep", "defer"} => ckpt = s.ckpt
      BY DEF CheckpointAtStart
    <2> QED BY <1>7, <1>9, <2>1, <2>2, <2>3, <2>4
  <1>11. plan.capture.at # 0 => plan.capture.at > plan.base /\ ckpt.at = 0
    BY <1>1, <1>7, <1>8, <1>10
  <1>12. /\ Backend # "mtp" \/ plan.reuse = "full" => plan.bridge = "none"
         /\ Backend = "mtp" /\ plan.reuse # "full" =>
               plan.bridge = IF plan.base < Len(p.ids) THEN "before" ELSE "after"
    BY <1>1, <1>2
  <1>13. ckpt.at # 0 => plan.reuse # "full" /\ ckpt.at = s.ckpt.at
    BY <1>1, <1>10
  <1> QED BY <1>1, <1>3, <1>4, <1>11, <1>12, <1>13 DEF Reuses

\* The device of a lane that resumes the first a columns of s.
Resumed(en, s, d, a, reuse) ==
    /\ IsDevice(d)
    /\ Cells(s, d, a) /\ d.lin = History(s, a) /\ InContext(en, s, d, a)
    /\ Aligned(en, s, d, MtpBase(a))
    /\ reuse # "full" => Saved(en, s, d, s.ckpt.at)
    /\ reuse = "append" => d.tail = History(s, a)
    /\ IsRestore(reuse) => d.ckHid = History(s, a)

LEMMA ResumedCut ==
    ASSUME engine \in Engines, NEW s, NEW d, NEW a \in Nat, NEW reuse, Resumed(engine, s, d, a, reuse),
           NEW e, CutTo(d, e, a, ReusedColumns(a))
    PROVE  Resumed(engine, s, e, a, reuse) /\ e.tail = d.tail
  <1> DEFINE b == ReusedColumns(a)
  <1>1. /\ b \in Nat
        /\ Backend = "mtp" => MtpBase(a) \in Nat /\ b = MtpBase(a)
        /\ Backend = "dflash" => b = a
    BY ReusedFacts
  <1>2. engine.backend = Backend
    BY EngineFacts
  <1>3. /\ e.lin = d.lin /\ e.tail = d.tail /\ e.ckLin = d.ckLin /\ e.ckHid = d.ckHid
        /\ e.local = d.local /\ e.ckLocal = d.ckLocal /\ IsDevice(e)
    BY CutParts
  <1>4. Cells(s, e, a)
    BY CutCells DEF Resumed
  <1>5. Aligned(engine, s, e, MtpBase(a))
    <2>1. CASE Backend = "mtp"
      <3> HIDE DEF b
      <3>1. CutTo(d, e, a, b) /\ Aligned(engine, s, d, MtpBase(a))
        BY DEF Resumed, b
      <3> DEFINE m == MtpBase(a)
      <3>2. m \in Nat /\ m <= b
        BY <1>1, <2>1
      <3> HIDE DEF m
      <3>3. Aligned(engine, s, d, m)
        BY <3>1 DEF m
      <3>4. Aligned(engine, s, e, m)
        BY <1>1, <3>1, <3>2, <3>3, CutAligned
      <3> QED BY <3>4 DEF m
    <2>2. CASE Backend # "mtp"
      BY <1>2, <2>2 DEF Aligned
    <2> QED BY <2>1, <2>2
  <1>6. InContext(engine, s, e, a)
    <2>1. CASE Backend = "dflash"
      <3>1. CutTo(d, e, a, a) /\ InContext(engine, s, d, a)
        BY <1>1, <2>1 DEF Resumed
      <3> QED BY <3>1, CutContext
    <2>2. CASE Backend # "dflash"
      BY <1>2, <2>2 DEF InContext
    <2> QED BY <2>1, <2>2
  <1>7. reuse # "full" => Saved(engine, s, e, s.ckpt.at)
    BY <1>3, SameSaved DEF Resumed
  <1> QED BY <1>3, <1>4, <1>5, <1>6, <1>7 DEF Resumed

\* A trim to the frontier and the new entitlement.
LEMMA FrontierCut ==
    ASSUME engine \in Engines, NEW l, NEW p, NEW plan, Admitted(l, p, plan),
           NEW y, IsView(y), y.kv \in Bundles, IsDevice(y.dev), y.seq \in SequenceRecords,
           NEW z, z = Entitled(TrimToValid(y), l, plan), Positions(z, plan), z.seq = y.seq
    PROVE  CutTo(y.dev, z.dev, plan.base, ReusedColumns(plan.base))
  <1> DEFINE t == TrimToValid(y)
  <1>1. /\ plan.base \in Nat /\ plan.base <= Len(p.ids) /\ p \in Prompts
        /\ plan.text \in Nat /\ plan.backend \in Nat
    BY DEF Admitted
  <1>2. Len(p.ids) \in Nat /\ Len(p.ids) <= Capacity /\ Capacity \in Nat
    BY <1>1, PromptFacts, EngineFacts
  <1>3. ReusedColumns(plan.base) \in Nat /\ ReusedColumns(plan.base) <= plan.base
    BY <1>1, ReusedFacts
  <1>4. y.seq.textValid = plan.base /\ Behind(engine, y.seq) = ReusedColumns(plan.base)
    BY DEF Positions
  <1>5. y.seq.textValid <= Capacity /\ Behind(engine, y.seq) <= Capacity
    BY <1>1, <1>2, <1>3, <1>4
  <1>6. SameSequence(y, t) /\ CutTo(y.dev, t.dev, y.seq.textValid, Behind(engine, y.seq))
    BY <1>5, TrimToValidDevice
  <1>7. IsView(t) /\ t.kv \in Bundles
    BY <1>6 DEF SameSequence
  <1> HIDE DEF t
  <1>8. z.dev = t.dev
    BY <1>1, <1>7, EntitledDevice DEF t
  <1> QED BY <1>4, <1>6, <1>8

\* Neither the trim nor the entitlement touches the sequence.
LEMMA FrontierSequence ==
    ASSUME NEW y, IsView(y), NEW l, NEW plan
    PROVE  Entitled(TrimToValid(y), l, plan).seq = y.seq
  <1> DEFINE n == y.seq.textValid
             b == BackendValid(y.seq)
             k == [y.kv EXCEPT !.text.map = PagesForTokens(n), !.backend.map = PagesForTokens(b)]
             e == WithPages(y.dev, k)
             u == [y EXCEPT !.kv = k, !.dev = e]
             c == /\ y.kv.held /\ n <= Capacity /\ b <= n
                  /\ k.text.map <= y.kv.text.map /\ k.backend.map <= y.kv.backend.map
             t == Require(u, c)
             j == [t.kv EXCEPT !.held = TRUE, !.text.ent = plan.text, !.backend.ent = plan.backend]
             v == [t EXCEPT !.kv = j]
             q == /\ CanAdmitWith(kv, l, plan)
                  /\ v.kv.text.map <= plan.text /\ v.kv.backend.map <= plan.backend
             z == Require(v, q)
  <1>1. TrimToValid(y) = t
    <2>1. TrimToValid(y) = Trim(y, n, b)
      BY DEF TrimToValid
    <2> HIDE DEF n, b
    <2>2. Trim(y, n, b) = t
      BY DEF Trim
    <2> QED BY <2>1, <2>2
  <1>2. Entitled(t, l, plan) = z
    BY DEF Entitled
  <1> HIDE DEF k, e, c
  <1>3. IsView(u) /\ u.seq = y.seq
    BY DEF IsView, ViewFields
  <1> HIDE DEF u
  <1>4. IsView(t) /\ t.seq = u.seq
    BY <1>3, RequireDevice
  <1> HIDE DEF t, j, q
  <1>5. IsView(v) /\ v.seq = t.seq
    BY <1>4 DEF IsView, ViewFields
  <1> HIDE DEF v
  <1>6. z.seq = v.seq
    BY <1>5, RequireDevice
  <1> HIDE DEF z
  <1> QED BY <1>1, <1>2, <1>3, <1>4, <1>5, <1>6

\* What a free lane holds of the sequence that a plan reuses up to a.
Resumable(en, s, d, a, reuse) ==
    /\ IsDevice(d) /\ a \in Nat /\ (reuse = "full" => a = 0)
    /\ reuse # "full" =>
          /\ Whole(en, s, d, s.E) /\ s.E \in Nat /\ a <= s.E
          /\ en.backend = "dflash" => s.dctx = s.E
    /\ reuse = "append" => a = s.E
    /\ IsRestore(reuse) => a = s.ckpt.at /\ a >= 1

\* Nothing is reused.
LEMMA FullResumed ==
    ASSUME engine \in Engines, NEW s, NEW d, IsDevice(d), d.lin = <<>>
    PROVE  Resumed(engine, s, d, 0, "full")
  <1>1. History(s, 0) = <<>>
    BY DEF History
  <1>2. MtpBase(0) = 0
    BY DEF MtpBase
  <1>3. Cells(s, d, 0) /\ Aligned(engine, s, d, 0)
    BY DEF Cells, Aligned
  <1>4. Recent(0) = {}
    BY DEF Recent
  <1>5. InContext(engine, s, d, 0)
    BY <1>4 DEF InContext, Ring
  <1> QED BY <1>1, <1>2, <1>3, <1>5 DEF Resumed, IsRestore, CheckpointKinds

LEMMA FullResumes ==
    ASSUME engine \in Engines, NEW l, NEW p, NEW plan, Admitted(l, p, plan),
           plan.reuse = "full", NEW x, Reusable(x, plan), IsDevice(x.dev), NEW s,
           NEW z, z = FullReset(x, l, plan)
    PROVE  Resumed(engine, s, z.dev, plan.base, plan.reuse)
  <1> DEFINE w == WithPages(x.dev, NoBundle)
             empty == <<>>
             d == [w EXCEPT !.lin = empty]
             y == [x EXCEPT !.kv = NoBundle, !.dev = d,
                            !.seq.textValid = 0, !.seq.mtpValid = 0, !.seq.dctx = 0]
  <1>1. z = Entitled(y, l, plan)
    BY DEF FullReset
  <1>2. IsView(x)
    BY DEF Reusable
  <1>3. plan.base = 0 /\ plan.text \in Nat /\ plan.backend \in Nat
    BY DEF Admitted
  <1>4. IsDevice(w)
    BY WithPagesDevice DEF OnlyIn
  <1> HIDE DEF w, empty
  <1>5. IsDevice(d) /\ d.lin = empty
    BY <1>4 DEF IsDevice, DeviceFields
  <1> HIDE DEF d
  <1>6. IsView(y) /\ y.kv = NoBundle /\ y.dev = d
    BY <1>2 DEF IsView, ViewFields
  <1> HIDE DEF y
  <1>7. NoBundle \in Bundles
    BY DEF NoBundle, NoPages, Bundles, PageCounts
  <1>8. z.dev = d
    BY <1>1, <1>3, <1>6, <1>7, EntitledDevice
  <1> QED BY <1>3, <1>5, <1>8, FullResumed DEF empty

\* The retained sequence goes on where it ended.
LEMMA AppendResumes ==
    ASSUME engine \in Engines, NEW l, NEW p, NEW plan, Admitted(l, p, plan),
           plan.reuse = "append", NEW x, Reusable(x, plan), NEW s,
           Resumable(engine, s, x.dev, plan.base, plan.reuse),
           NEW z, z = AppendAtFrontier(x, l, plan)
    PROVE  Resumed(engine, s, z.dev, plan.base, plan.reuse)
  <1> DEFINE a == plan.base
             m == IF Backend = "mtp" THEN MtpBase(a) ELSE x.seq.mtpValid
             u == [x EXCEPT !.seq.textValid = a, !.seq.mtpValid = m]
             ready == /\ x.seq.textValid >= a
                      /\ Backend = "mtp" => x.seq.mtpValid >= MtpBase(a)
                      /\ Backend = "dflash" => x.seq.dctx = a
             y == Require(u, ready)
  <1>1. z = Entitled(TrimToValid(y), l, plan)
    BY DEF AppendAtFrontier
  <1>2. Positions(z, plan)
    BY AppendPositions
  <1>3. IsView(x) /\ x.kv \in Bundles /\ IsDevice(x.dev)
    BY DEF Reusable, Resumable
  <1> HIDE DEF a, m, ready
  <1>4. IsView(u) /\ u.kv = x.kv /\ u.dev = x.dev
    BY <1>3 DEF IsView, ViewFields
  <1> HIDE DEF u
  <1>5. IsView(y) /\ y.kv = u.kv /\ y.dev = u.dev
    BY <1>4, RequireDevice
  <1> HIDE DEF y
  <1>6. z.seq = y.seq /\ z.seq \in SequenceRecords
    BY <1>1, <1>2, <1>5, FrontierSequence DEF Positions
  <1>7. CutTo(x.dev, z.dev, plan.base, ReusedColumns(plan.base))
    <2>1. CutTo(y.dev, z.dev, plan.base, ReusedColumns(plan.base))
      BY <1>1, <1>2, <1>3, <1>4, <1>5, <1>6, FrontierCut
    <2> QED BY <1>4, <1>5, <2>1
  <1>8. Resumed(engine, s, x.dev, a, "append")
    <2>1. /\ Whole(engine, s, x.dev, s.E) /\ a = s.E /\ a \in Nat
          /\ engine.backend = "dflash" => s.dctx = s.E
      BY DEF Resumable, a
    <2>2. MtpBase(a) \in Nat /\ MtpBase(a) <= a
      BY <2>1 DEF MtpBase
    <2>3. Aligned(engine, s, x.dev, MtpBase(a))
      BY <2>1, <2>2 DEF Whole, Aligned
    <2>4. InContext(engine, s, x.dev, a)
      BY <2>1 DEF Whole, InContext
    <2> QED BY <1>3, <2>1, <2>3, <2>4 DEF Whole, Resumed, IsRestore, CheckpointKinds
  <1>9. a \in Nat
    BY DEF Admitted, a
  <1> QED BY <1>7, <1>8, <1>9, ResumedCut DEF a

\* The lane goes back to its checkpoint.
LEMMA RestoreResumes ==
    ASSUME engine \in Engines, NEW l, NEW p, NEW plan, Admitted(l, p, plan),
           IsRestore(plan.reuse), NEW x, Reusable(x, plan), NEW s,
           Resumable(engine, s, x.dev, plan.base, plan.reuse),
           NEW z, z = RestoreCheckpoint(x, l, plan)
    PROVE  Resumed(engine, s, z.dev, plan.base, plan.reuse)
  <1> DEFINE a == plan.base
             m == IF Backend = "mtp" THEN MtpBase(a) ELSE x.seq.mtpValid
             c == IF Backend = "dflash" THEN a ELSE x.seq.dctx
             d == x.dev
             local == IF Backend = "dflash" THEN d.ckLocal ELSE d.local
             lin == d.ckLin
             e == [d EXCEPT !.local = local, !.lin = lin]
             u == [x EXCEPT !.seq.textValid = a, !.seq.mtpValid = m, !.seq.dctx = c,
                            !.dev.local = local, !.dev.lin = lin]
             ready == /\ x.seq.textValid >= a
                      /\ Backend = "mtp" => x.seq.mtpValid >= MtpBase(a)
                      /\ Backend = "dflash" => x.seq.dctx >= a
             y == Require(u, ready)
  <1>1. z = Entitled(TrimToValid(y), l, plan)
    BY DEF RestoreCheckpoint
  <1>2. plan.reuse # "full" /\ plan.reuse # "append"
    BY DEF IsRestore, CheckpointKinds
  <1>3. Positions(z, plan)
    BY <1>2, RestorePositions
  <1>4. IsView(x) /\ x.kv \in Bundles /\ IsDevice(d)
    BY DEF Reusable, Resumable
  <1>5. DOMAIN local = Slots
    BY <1>4 DEF IsDevice
  <1> HIDE DEF a, m, c, ready, local, lin
  <1>6. IsView(u) /\ u.kv = x.kv /\ u.dev = e
    BY <1>4 DEF IsView, ViewFields
  <1> HIDE DEF u
  <1>7. IsView(y) /\ y.kv = u.kv /\ y.dev = u.dev
    BY <1>6, RequireDevice
  <1> HIDE DEF y, d
  <1>8. OnlyIn({"local", "lin"}, d, e) /\ e.local = local /\ e.lin = lin
    BY <1>4, <1>5 DEF OnlyIn, IsDevice, DeviceFields
  <1> HIDE DEF e
  <1>9. /\ IsDevice(e) /\ e.kv = d.kv /\ e.mtp = d.mtp /\ e.full = d.full
        /\ e.ckLin = d.ckLin /\ e.ckHid = d.ckHid /\ e.ckLocal = d.ckLocal
    BY <1>8 DEF OnlyIn, DeviceFields
  <1>10. z.seq = y.seq /\ z.seq \in SequenceRecords
    BY <1>1, <1>3, <1>7, FrontierSequence DEF Positions
  <1>11. CutTo(e, z.dev, plan.base, ReusedColumns(plan.base))
    <2>1. y.dev = e /\ y.kv = x.kv /\ y.kv \in Bundles /\ IsDevice(y.dev)
      BY <1>4, <1>6, <1>7, <1>9
    <2>2. CutTo(y.dev, z.dev, plan.base, ReusedColumns(plan.base))
      BY <1>1, <1>3, <1>7, <1>10, <2>1, FrontierCut
    <2> QED BY <2>1, <2>2
  <1>12. Resumed(engine, s, e, a, plan.reuse)
    <2>1. /\ Whole(engine, s, d, s.E) /\ a \in Nat /\ a <= s.E /\ s.E \in Nat
          /\ a = s.ckpt.at /\ a >= 1
          /\ engine.backend = "dflash" => s.dctx = s.E
      BY <1>2 DEF Resumable, a, d
    <2>2. MtpBase(a) \in Nat /\ MtpBase(a) <= s.E
      BY <2>1 DEF MtpBase
    <2>3. Cells(s, d, s.E) /\ Aligned(engine, s, d, s.E) /\ InContext(engine, s, d, s.dctx)
          /\ Saved(engine, s, d, a)
      BY <2>1 DEF Whole
    <2>4. Cells(s, e, a)
      BY <1>9, <2>1, <2>3 DEF Cells
    <2>5. Aligned(engine, s, e, MtpBase(a))
      BY <1>9, <2>1, <2>2, <2>3 DEF Aligned
    <2>6. Saved(engine, s, e, a)
      BY <1>9, <2>3, SameSaved
    <2>7. lin = History(s, a) /\ e.ckHid = History(s, a)
      BY <1>9, <2>1, <2>3 DEF Saved, lin
    <2>8. InContext(engine, s, e, a)
      <3> SUFFICES ASSUME engine.backend = "dflash", engine.lanes = 1
                   PROVE  /\ \A i \in 1 .. a : e.full[i] = Feature(i, Column(s, i))
                          /\ Ring(s, e.local, a)
        BY DEF InContext
      <3>1. Backend = "dflash"
        BY EngineFacts
      <3>2. Ring(s, d.ckLocal, a)
        BY <2>1, <2>3 DEF Saved
      <3>3. \A i \in 1 .. s.E : d.full[i] = Feature(i, Column(s, i))
        BY <2>1, <2>3 DEF InContext
      <3>4. e.local = d.ckLocal
        BY <1>8, <3>1 DEF local
      <3> QED BY <1>9, <2>1, <3>2, <3>3, <3>4
    <2> QED BY <1>2, <1>8, <1>9, <2>1, <2>4, <2>5, <2>6, <2>7, <2>8 DEF Resumed
  <1>13. a \in Nat
    BY DEF Admitted, a
  <1> QED BY <1>11, <1>12, <1>13, ResumedCut DEF a
\* The lane is where the plan resumes, and the tail hidden vector is that of a prompt
\* that was found whole.
LEMMA PositionedResumes ==
    ASSUME engine \in Engines, NEW l, NEW p, NEW plan, Admitted(l, p, plan),
           NEW x, Reusable(x, plan), NEW s, Resumable(engine, s, x.dev, plan.base, plan.reuse),
           NEW z, z = Positioned(x, l, p, plan)
    PROVE  /\ Resumed(engine, s, z.dev, plan.base, plan.reuse)
           /\ plan.base = Len(p.ids) => z.dev.tail = History(s, plan.base)
  <1> DEFINE y == CASE plan.reuse = "full" -> FullReset(x, l, plan)
                    [] plan.reuse = "append" -> AppendAtFrontier(x, l, plan)
                    [] OTHER -> RestoreCheckpoint(x, l, plan)
             exact == plan.base = Len(p.ids)
             h == x.dev.ckHid
             v == exact /\ y.seq.tailValid
             a == plan.base
  <1>1. z = IF exact /\ IsRestore(plan.reuse)
            THEN [y EXCEPT !.dev.tail = h, !.seq.tailValid = TRUE]
            ELSE [y EXCEPT !.seq.tailValid = v]
    BY DEF Positioned
  <1>2. /\ plan.reuse \in Paths /\ (plan.reuse = "full" <=> plan.base = 0)
        /\ Len(p.ids) \in Nat /\ Len(p.ids) >= 1
    BY PromptFacts DEF Admitted
  <1>3. IsView(y) /\ Resumed(engine, s, y.dev, a, plan.reuse)
    <2>1. CASE plan.reuse = "full"
      <3>1. y = FullReset(x, l, plan)
        BY <2>1
      <3>2. IsDevice(x.dev)
        BY DEF Resumable
      <3> HIDE DEF y
      <3>3. Positions(y, plan)
        BY <2>1, <3>1, FullPositions
      <3>4. Resumed(engine, s, y.dev, plan.base, plan.reuse)
        BY <2>1, <3>1, <3>2, FullResumes
      <3> QED BY <3>3, <3>4 DEF Positions
    <2>2. CASE plan.reuse = "append"
      <3>1. y = AppendAtFrontier(x, l, plan)
        BY <2>2
      <3> HIDE DEF y
      <3>2. Positions(y, plan)
        BY <2>2, <3>1, AppendPositions
      <3>3. Resumed(engine, s, y.dev, plan.base, plan.reuse)
        BY <2>2, <3>1, AppendResumes
      <3> QED BY <3>2, <3>3 DEF Positions
    <2>3. CASE plan.reuse # "full" /\ plan.reuse # "append"
      <3>1. y = RestoreCheckpoint(x, l, plan)
        BY <2>3
      <3>2. IsRestore(plan.reuse)
        BY <1>2, <2>3 DEF Paths, IsRestore
      <3> HIDE DEF y
      <3>3. Positions(y, plan)
        BY <2>3, <3>1, RestorePositions
      <3>4. Resumed(engine, s, y.dev, plan.base, plan.reuse)
        BY <3>1, <3>2, RestoreResumes
      <3> QED BY <3>3, <3>4 DEF Positions
    <2> QED BY <2>1, <2>2, <2>3
  <1> HIDE DEF y
  <1>4. CASE exact /\ IsRestore(plan.reuse)
    <2>1. h = History(s, a)
      BY <1>4 DEF Resumable, Whole, Saved, IsRestore, CheckpointKinds
    <2> DEFINE d == y.dev
               e == [d EXCEPT !.tail = h]
    <2>2. z = [y EXCEPT !.dev.tail = h, !.seq.tailValid = TRUE]
      BY <1>1, <1>4
    <2> HIDE DEF h
    <2>3. z.dev = e
      BY <1>3, <2>2 DEF IsView, ViewFields
    <2>4. IsDevice(d) /\ Resumed(engine, s, d, a, plan.reuse)
      BY <1>3 DEF Resumed
    <2> HIDE DEF d
    <2>5. OnlyIn({"tail"}, d, e) /\ e.tail = h
      BY <2>4 DEF OnlyIn, IsDevice, DeviceFields
    <2> HIDE DEF e
    <2>6. /\ IsDevice(e) /\ e.kv = d.kv /\ e.lin = d.lin /\ e.mtp = d.mtp /\ e.full = d.full
          /\ e.local = d.local /\ e.ckLin = d.ckLin /\ e.ckHid = d.ckHid /\ e.ckLocal = d.ckLocal
      BY <2>5 DEF OnlyIn, DeviceFields
    <2>7. plan.reuse # "append"
      BY <1>4 DEF IsRestore, CheckpointKinds
    <2>8. Resumed(engine, s, e, a, plan.reuse)
      <3>1. Cells(s, e, a) /\ InContext(engine, s, e, a) /\ Aligned(engine, s, e, MtpBase(a))
        BY <2>4, <2>6, SameCells, SameContext, SameAligned DEF Resumed
      <3>2. plan.reuse # "full" => Saved(engine, s, e, s.ckpt.at)
        BY <2>4, <2>6, SameSaved DEF Resumed
      <3> QED BY <2>4, <2>6, <2>7, <3>1, <3>2 DEF Resumed
    <2> QED BY <2>1, <2>3, <2>5, <2>8
  <1>5. CASE ~(exact /\ IsRestore(plan.reuse))
    <2>1. exact => plan.reuse = "append"
      BY <1>2, <1>5 DEF Paths, IsRestore
    <2>2. z = [y EXCEPT !.seq.tailValid = v]
      BY <1>1, <1>5
    <2> HIDE DEF v
    <2>3. z.dev = y.dev
      BY <1>3, <2>2 DEF IsView, ViewFields
    <2> QED BY <1>3, <2>1, <2>3 DEF Resumed
  <1> QED BY <1>4, <1>5

\* The device of the prepared lane.
LEMMA PreparedDevice ==
    ASSUME engine \in Engines, NEW l, LaneOK(engine, seq[l], req[l], kv[l]), NEW p \in Prompts,
           NEW plan, PlanOK(p, seq[l], plan), CanAdmitLane(l, plan),
           NEW s, s = seq[l], Resumable(engine, s, dev[l], plan.base, plan.reuse),
           NEW w, w = Prepared(l, p, plan)
    PROVE  /\ Resumed(engine, s, w.dev, plan.base, plan.reuse)
           /\ plan.base = Len(p.ids) => w.dev.tail = History(s, plan.base)
           /\ w.seq.items = p.items /\ w.seq.ledger = p.ids
           /\ w.seq.ckpt = CheckpointAtStart(p, s, plan.action)
  <1> DEFINE x == [View(l) EXCEPT !.seq.retained = FALSE]
             y == Positioned(x, l, p, plan)
             n == Len(p.ids)
             m == StartColumns(p, plan)
             t == TrimToValid(y)
             u == Bind(t)
             z == Materialize(u, n, m)
             ckpt == CheckpointAtStart(p, x.seq, plan.action)
             none == 0
             o == [z EXCEPT !.seq.ledger = p.ids, !.seq.pos = p.pos, !.seq.items = p.items,
                            !.seq.delta = p.delta, !.seq.drafts = none, !.seq.ckpt = ckpt]
  <1>1. w = o
    BY DEF Prepared, StartColumns
  <1>2. Free(l)
    BY DEF CanAdmitLane
  <1>3. Admitted(l, p, plan)
    BY AdmittedFacts
  <1>4. Reusable(x, plan)
    BY <1>2, ReusableFacts
  <1>5. x.dev = dev[l] /\ x.seq = [s EXCEPT !.retained = FALSE]
    <2>1. IsView(View(l)) /\ View(l).seq = s /\ View(l).dev = dev[l]
      BY ViewFacts
    <2> QED BY <2>1 DEF IsView, ViewFields
  <1>6. ckpt = CheckpointAtStart(p, s, plan.action)
    <2>1. s \in SequenceRecords
      BY DEF LaneOK
    <2> HIDE DEF x
    <2>2. x.seq.ckpt = s.ckpt
      BY <1>5, <2>1 DEF SequenceRecords
    <2> QED BY <2>2 DEF CheckpointAtStart
  <1> HIDE DEF x
  <1>7. /\ Resumed(engine, s, y.dev, plan.base, plan.reuse)
        /\ plan.base = Len(p.ids) => y.dev.tail = History(s, plan.base)
    BY <1>3, <1>4, <1>5, PositionedResumes
  <1>8. Positions(y, plan)
    BY <1>3, <1>4, PositionedFacts
  <1> HIDE DEF y
  <1>9. /\ plan.base \in Nat /\ plan.base <= n /\ n \in Nat /\ n <= Capacity /\ Capacity \in Nat
        /\ ReusedColumns(plan.base) \in Nat /\ ReusedColumns(plan.base) <= plan.base
    <2>1. plan.base \in Nat /\ plan.base <= n
      BY DEF PlanOK
    <2> QED BY <2>1, PromptFacts, EngineFacts, ReusedFacts
  <1>10. /\ IsView(y) /\ y.kv \in Bundles /\ y.seq \in SequenceRecords
         /\ y.seq.textValid = plan.base /\ Behind(engine, y.seq) = ReusedColumns(plan.base)
    BY <1>8 DEF Positions, BundleIs
  <1>11. SameSequence(y, t) /\ CutTo(y.dev, t.dev, plan.base, ReusedColumns(plan.base))
    <2>1. y.seq.textValid <= Capacity /\ Behind(engine, y.seq) <= Capacity
      BY <1>9, <1>10
    <2>2. IsDevice(y.dev)
      BY <1>7 DEF Resumed
    <2>3. SameSequence(y, t) /\ CutTo(y.dev, t.dev, y.seq.textValid, Behind(engine, y.seq))
      BY <1>10, <2>1, <2>2, TrimToValidDevice
    <2> QED BY <1>10, <2>3
  <1>12. Resumed(engine, s, t.dev, plan.base, plan.reuse) /\ t.dev.tail = y.dev.tail
    BY <1>7, <1>9, <1>11, ResumedCut
  <1> HIDE DEF t
  <1>13. IsView(u) /\ u.kv \in Bundles /\ u.dev = t.dev /\ u.seq = t.seq
    BY <1>11, BindDevice DEF SameSequence
  <1>14. m \in Nat
    <2>1. /\ plan.output \in Nat /\ plan.output >= 1 /\ n + plan.output - 1 <= Capacity
          /\ plan.backend = BackendShare(engine, n + plan.output - 1)
      BY DEF PlanOK
    <2> QED BY <2>1, StartColumnsFacts
  <1> HIDE DEF u, m
  <1>15. IsView(z) /\ z.dev = u.dev /\ z.seq = u.seq
    BY <1>9, <1>13, <1>14, MaterializeDevice DEF SameSequence
  <1>16. z.seq \in SequenceRecords
    BY <1>10, <1>11, <1>13, <1>15 DEF SameSequence
  <1> HIDE DEF z, ckpt, none, n
  <1>17. o.dev = z.dev
         /\ o.seq = [z.seq EXCEPT !.ledger = p.ids, !.pos = p.pos, !.items = p.items,
                                  !.delta = p.delta, !.drafts = none, !.ckpt = ckpt]
    BY <1>15 DEF IsView, ViewFields
  <1> DEFINE f == z.seq
             g == o.seq
  <1>18. f \in SequenceRecords
         /\ g = [f EXCEPT !.ledger = p.ids, !.pos = p.pos, !.items = p.items,
                          !.delta = p.delta, !.drafts = none, !.ckpt = ckpt]
    BY <1>16, <1>17
  <1> HIDE DEF f, g
  <1>19. g.items = p.items /\ g.ledger = p.ids /\ g.ckpt = ckpt
    BY <1>18, ZenonT(60) DEF SequenceRecords
  <1>20. o.seq.items = p.items /\ o.seq.ledger = p.ids /\ o.seq.ckpt = ckpt
    BY <1>19 DEF g
  <1> HIDE DEF o
  <1> QED BY <1>1, <1>6, <1>7, <1>12, <1>13, <1>15, <1>17, <1>20 DEF n
\* The reused columns are those of the prompt.
LEMMA ReusedPrefix ==
    ASSUME engine \in Engines, NEW p \in Prompts, NEW s \in SequenceRecords, NEW n \in Nat,
           PrefixMatches(p, s, n), NEW t, t.ledger = p.ids, t.items = p.items
    PROVE  SameColumns(s, t, n)
  <1> SUFFICES ASSUME NEW i \in 1 .. n PROVE Column(s, i) = Column(t, i)
    BY DEF SameColumns
  <1>1. s.items \in Seq(Items)
    BY DEF SequenceRecords
  <1>2. Meaning(p.ids, p.items, i) = Column(s, i)
    BY <1>1, PrefixColumns
  <1> QED BY <1>2 DEF Column

\* The prompt begins where the plan resumes.
LEMMA ResumedBegins ==
    ASSUME engine \in Engines, NEW p \in Prompts, NEW s \in SequenceRecords, NEW plan,
           PlanOK(p, s, plan), Reuses(p, s, plan), NEW st, st = Staged(p, plan),
           NEW d, Resumed(engine, s, d, plan.base, plan.reuse),
           plan.base = Len(p.ids) => d.tail = History(s, plan.base),
           NEW t, t.ledger = p.ids, t.items = p.items,
           t.ckpt = CheckpointAtStart(p, s, plan.action)
    PROVE  Begins(engine, t, st, d)
  <1> DEFINE a == plan.base
             c == CheckpointAtStart(p, s, plan.action).at
             reuse == plan.reuse
  <1>1. /\ st.prompt = p /\ st.base = a /\ st.cursor = a /\ st.capture = plan.capture
        /\ st.bridge = plan.bridge /\ st.reuse = reuse
    BY DEF Staged
  <1>2. /\ a \in Nat /\ a <= Len(p.ids) /\ (reuse = "full" <=> a = 0) /\ c \in Nat /\ c <= a
        /\ plan.capture.at \in Nat
    BY DEF PlanOK, Checkpoints, NoCkpt
  <1>3. Len(p.ids) \in Nat /\ Len(p.ids) >= 1 /\ reuse \in Paths /\ engine.backend = Backend
    BY PromptFacts, EngineFacts DEF PlanOK
  <1>4. SameColumns(s, t, a)
    <2>1. CASE reuse = "full"
      BY <1>2, <2>1 DEF SameColumns
    <2>2. CASE reuse # "full"
      <3>1. PrefixMatches(p, s, a)
        BY <2>2 DEF Reuses
      <3> QED BY <1>2, <3>1, ReusedPrefix
    <2> QED BY <2>1, <2>2
  <1>5. /\ IsDevice(d) /\ Cells(s, d, a) /\ d.lin = History(s, a) /\ InContext(engine, s, d, a)
        /\ Aligned(engine, s, d, MtpBase(a))
        /\ reuse # "full" => Saved(engine, s, d, s.ckpt.at)
        /\ reuse = "append" => d.tail = History(s, a)
        /\ IsRestore(reuse) => d.ckHid = History(s, a)
    BY DEF Resumed
  <1>6. /\ plan.capture.at # 0 => plan.capture.at > a /\ c = 0
        /\ c # 0 => reuse # "full" /\ c = s.ckpt.at
        /\ Backend # "mtp" \/ reuse = "full" => plan.bridge = "none"
        /\ Backend = "mtp" /\ reuse # "full" =>
              plan.bridge = IF a < Len(p.ids) THEN "before" ELSE "after"
    BY DEF Reuses
  <1>7. t.ckpt.at = c
    OBVIOUS
  <1> HIDE DEF a, c, reuse
  <1>8. History(s, a) = History(t, a)
    BY <1>2, <1>4, SameHistory
  <1>9. Cells(t, d, a) /\ InContext(engine, t, d, a)
    BY <1>2, <1>4, <1>5, MoveCells, MoveContext
  <1>10. Saved(engine, t, d, c)
    <2>1. CASE c = 0
      BY <2>1 DEF Saved
    <2>2. CASE c # 0
      <3>1. Saved(engine, s, d, c)
        BY <1>5, <1>6, <2>2
      <3> QED BY <1>2, <1>4, <3>1, MoveSaved
    <2> QED BY <2>1, <2>2
  <1>11. plan.capture.at <= a => Saved(engine, t, d, plan.capture.at)
    BY <1>2, <1>6 DEF Saved
  <1>12. Aligned(engine, t, d, MtpBase(a))
    <2> DEFINE m == MtpBase(a)
    <2>1. m \in Nat /\ (m = 0 \/ m < a)
      BY <1>2 DEF MtpBase
    <2> HIDE DEF m
    <2>2. Aligned(engine, s, d, m)
      BY <1>5 DEF m
    <2>3. Aligned(engine, t, d, m)
      BY <1>2, <1>4, <2>1, <2>2, MoveAligned
    <2> QED BY <2>3 DEF m
  <1>13. plan.bridge = "none" => Aligned(engine, t, d, a)
    <2>1. CASE Backend # "mtp"
      BY <1>3, <2>1 DEF Aligned
    <2>2. CASE reuse = "full"
      <3>1. MtpBase(a) = a
        BY <1>2, <2>2 DEF MtpBase
      <3> QED BY <1>12, <3>1
    <2>3. CASE Backend = "mtp" /\ reuse # "full"
      BY <1>6, <2>3
    <2> QED BY <2>1, <2>2, <2>3
  <1>14. plan.bridge # "none" => a >= 1 /\ Aligned(engine, t, d, a - 1)
    <2> SUFFICES ASSUME plan.bridge # "none" PROVE a >= 1 /\ Aligned(engine, t, d, a - 1)
      OBVIOUS
    <2>1. a >= 1
      BY <1>2, <1>6
    <2>2. MtpBase(a) = a - 1
      BY <1>2, <2>1 DEF MtpBase
    <2> QED BY <1>12, <2>1, <2>2
  <1>15. plan.bridge = "before" => (IF IsRestore(reuse) THEN d.ckHid ELSE d.tail) = History(t, a)
    <2>1. plan.bridge = "before" => reuse # "full"
      BY <1>6
    <2> QED BY <1>3, <1>5, <1>8, <2>1 DEF Paths, IsRestore
  <1>16. plan.bridge = "after" => a = Len(p.ids)
    <2>1. a < Len(p.ids) \/ a = Len(p.ids)
      BY <1>2, <1>3
    <2> QED BY <1>6, <2>1
  <1>17. a = Len(p.ids) => d.tail = History(t, a)
    BY <1>8 DEF a
  <1> QED BY <1>1, <1>5, <1>6, <1>7, <1>8, <1>9, <1>10, <1>11, <1>13, <1>14, <1>15, <1>16, <1>17
          DEF Begins

\* A free lane holds what a plan may reuse of it.
LEMMA FreeResumable ==
    ASSUME engine \in Engines, NEW l, LaneOK(engine, seq[l], req[l], kv[l]), Free(l),
           NEW p \in Prompts, NEW plan, PlanOK(p, seq[l], plan), Reuses(p, seq[l], plan),
           NEW d, LaneSound(engine, seq[l], req[l], d)
    PROVE  Resumable(engine, seq[l], d, plan.base, plan.reuse)
  <1> DEFINE s == seq[l]
             a == plan.base
  <1>1. IsDevice(d)
    BY DEF LaneSound
  <1>2. a \in Nat /\ (plan.reuse = "full" <=> a = 0) /\ plan.reuse \in Paths
    BY DEF PlanOK
  <1>3. (plan.reuse = "append" => a = s.E) /\ (IsRestore(plan.reuse) => a = s.ckpt.at)
    BY DEF Reuses
  <1>4. CASE plan.reuse = "full"
    BY <1>1, <1>2, <1>4 DEF Resumable, IsRestore, CheckpointKinds
  <1>5. CASE plan.reuse # "full"
    <2>1. s.retained
      BY <1>5 DEF PlanOK
    <2>2. Rested(engine, s, req[l], kv[l])
      BY <2>1, FreeLane
    <2>3. /\ s \in SequenceRecords /\ s.textValid = s.E /\ s.ckpt.at <= s.E
          /\ engine.backend # "none" => Behind(engine, s) = s.E
      BY <2>2 DEF Rested, Caught, LaneOK
    <2>4. req[l].life = "Complete"
      <3>1. req[l].life \in {"Empty", "Complete"}
        BY DEF Free
      <3>2. NoSequence.retained = FALSE
        BY DEF NoSequence
      <3> QED BY <2>1, <3>1, <3>2 DEF LaneOK
    <2>5. Whole(engine, s, d, s.E)
      BY <2>4 DEF LaneSound
    <2>6. s.E \in Nat
      BY <2>3 DEF SequenceRecords
    <2>7. engine.backend = "dflash" => s.dctx = s.E
      BY <2>3, BehindFacts, EngineFacts
    <2> HIDE DEF s, a
    <2>8. a <= s.E /\ (IsRestore(plan.reuse) => a >= 1)
      <3>1. a >= 1
        BY <1>2, <1>5
      <3> QED BY <1>2, <1>3, <1>5, <2>3, <2>6, <3>1 DEF Paths, IsRestore
    <2>9. Resumable(engine, s, d, a, plan.reuse)
      BY <1>1, <1>2, <1>3, <1>5, <2>5, <2>6, <2>7, <2>8 DEF Resumable
    <2> QED BY <2>9 DEF s, a
  <1> QED BY <1>4, <1>5

\* The first step of a request.
LEMMA StartContents ==
    ASSUME BInv, CInv, NEW l \in Lanes, NEW p \in Prompts, NEW token \in Tokens,
           StartPrefillLane(l, p, token)
    PROVE  CInv'
  <1> DEFINE plan == PlanRequestForLane(p, seq[l])
             st == Staged(p, plan)
             o == req[l]
             q == [o EXCEPT !.budget = plan.output, !.work = plan.work, !.pending = NoPending]
             y == Prepared(l, p, plan)
             x == Advanced(y, st, token)
             r == AdvancedRequest(q, st, token)
             s == seq[l]
  <1>1. engine \in Engines /\ LaneOK(engine, seq[l], req[l], kv[l])
    BY DEF BInv
  <1>2. CanAdmitLane(l, plan) /\ Apply(l, x, r, l, st) /\ engine' = engine
    BY DEF StartPrefillLane
  <1>3. token \in STRING
    BY <1>1, EngineFacts
  <1>4. Free(l)
    BY <1>2 DEF CanAdmitLane
  <1>5. Restable(engine, seq[l]) /\ o \in RequestRecords /\ s \in SequenceRecords
    BY <1>1, <1>4, FreeLane DEF LaneOK
  <1>6. PlanOK(p, seq[l], plan) /\ Reuses(p, seq[l], plan)
    BY <1>1, <1>5, PlanFacts, PlanReuses
  <1> HIDE DEF plan
  <1>7. plan.work \in Int /\ plan.output \in Nat
    BY <1>1, <1>6, WorkFacts DEF PlanOK
  <1>8. q \in RequestRecords /\ q.budget = plan.output /\ q.work = plan.work
    <2> HIDE DEF o
    <2>1. q \in RequestRecords
      BY <1>5, <1>7, NoPendingTyped DEF RequestRecords
    <2>2. q.budget = plan.output /\ q.work = plan.work
      BY <1>5 DEF RequestRecords
    <2> QED BY <2>1, <2>2
  <1> HIDE DEF q
  <1>9. Advancing(y, q, st)
    BY <1>1, <1>2, <1>6, <1>8, PreparedAdvances
  <1>10. Resumable(engine, seq[l], dev[l], plan.base, plan.reuse)
    <2>1. LaneSound(engine, seq[l], req[l], dev[l])
      BY DEF CInv
    <2> QED BY <1>1, <1>4, <1>6, <2>1, FreeResumable
  <1>11. /\ Resumed(engine, s, y.dev, plan.base, plan.reuse)
         /\ plan.base = Len(p.ids) => y.dev.tail = History(s, plan.base)
         /\ y.seq.items = p.items /\ y.seq.ledger = p.ids
         /\ y.seq.ckpt = CheckpointAtStart(p, s, plan.action)
    BY <1>1, <1>2, <1>6, <1>10, PreparedDevice
  <1>12. st = Staged(p, plan) /\ st.prompt = p
    BY DEF Staged
  <1> HIDE DEF st, y
  <1>13. Begins(engine, y.seq, st, y.dev)
    <2>1. PlanOK(p, s, plan) /\ Reuses(p, s, plan)
      BY <1>6
    <2> HIDE DEF s
    <2> DEFINE t == y.seq
               d == y.dev
    <2>2. /\ Resumed(engine, s, d, plan.base, plan.reuse)
          /\ plan.base = Len(p.ids) => d.tail = History(s, plan.base)
          /\ t.items = p.items /\ t.ledger = p.ids
          /\ t.ckpt = CheckpointAtStart(p, s, plan.action)
      BY <1>11
    <2> HIDE DEF t, d
    <2>3. Begins(engine, t, st, d)
      BY <1>1, <1>5, <1>12, <2>1, <2>2, ResumedBegins
    <2> QED BY <2>3 DEF t, d
  <1> HIDE DEF x, r
  <1>14. PICK g : g = l
    OBVIOUS
  <1>15. Apply(l, x, r, g, st) /\ g \in Lanes
    BY <1>2, <1>14
  <1>16. x = Advanced(y, st, token) /\ r = AdvancedRequest(q, st, token)
    BY DEF x, r
  <1>17. y.seq.items = st.prompt.items
    BY <1>11, <1>12
  <1> QED BY <1>1, <1>2, <1>3, <1>9, <1>13, <1>15, <1>16, <1>17, StepContents

-----------------------------------------------------------------------------
(***************************************************************************)
(* The theorems.                                                           *)
(***************************************************************************)

LEMMA InitContents == Init => CInv
  <1> SUFFICES ASSUME Init PROVE CInv
    OBVIOUS
  <1>1. dev = [l \in Lanes |-> Blank] /\ req = [l \in Lanes |-> NoRequest]
    BY DEF Init
  <1>2. IsDevice(Blank)
    BY DEF Blank, IsDevice, DeviceFields, Slots
  <1>3. NoRequest.life = "Empty"
    BY DEF NoRequest
  <1>4. ASSUME NEW l \in Lanes PROVE LaneSound(engine, seq[l], req[l], dev[l])
    <2>1. dev[l] = Blank /\ req[l].life = "Empty"
      BY <1>1, <1>3
    <2> QED BY <1>2, <2>1 DEF LaneSound
  <1>5. dev = [l \in Lanes |-> dev[l]]
    BY <1>1
  <1> QED BY <1>4, <1>5 DEF CInv

LEMMA AbortContents ==
    ASSUME BInv, CInv, NEW l \in Lanes, AbortLane(l)
    PROVE  CInv'
  <1>1. /\ ApplyBatch({l}, [m \in {l} |-> Cleared(View(l))], [m \in {l} |-> NoRequest])
        /\ engine' = engine
    BY DEF AbortLane
  <1> QED BY <1>1, ClearContents

LEMMA EvictContents ==
    ASSUME BInv, CInv, NEW l \in Lanes, EvictRetainedLane(l)
    PROVE  CInv'
  <1>1. /\ ApplyBatch({l}, [m \in {l} |-> Cleared(View(l))], [m \in {l} |-> NoRequest])
        /\ engine' = engine
    BY DEF EvictRetainedLane
  <1> QED BY <1>1, ClearContents

LEMMA NextContents == BInv /\ CInv /\ [Next]_vars => CInv'
  <1> SUFFICES ASSUME BInv, CInv, [Next]_vars PROVE CInv'
    OBVIOUS
  <1>1. CASE \E l \in Lanes, p \in Prompts, t \in Tokens : StartPrefillLane(l, p, t)
    BY <1>1, StartContents
  <1>2. CASE \E l \in Lanes, t \in Tokens : AdvancePrefillLane(l, t)
    BY <1>2, AdvanceContents
  <1>3. CASE \E l \in Lanes : ResolvePrefillLane(l) \/ AbortLane(l) \/ EvictRetainedLane(l)
    BY <1>3, ResolvePrefillContents, AbortContents, EvictContents
  <1>4. CASE DecodeBatch
    BY <1>4, DecodeContents
  <1>5. CASE ResolvePendingBatch
    BY <1>5, ResolveContents
  <1>6. CASE UNCHANGED vars
    BY <1>6 DEF vars, CInv, Lanes
  <1> QED BY <1>1, <1>2, <1>3, <1>4, <1>5, <1>6 DEF Next

\* The content invariant of the Program: in every phase of a request the cells, the
\* recurrent state, the caches of the backend and the checkpoint of a lane are those
\* of the columns that its sequence stands for.
THEOREM ContentsAgree == Spec => []CInv
  BY InitContents, NextContents, BooksAgree, PTL DEF Spec

\* The state of a lane between two units, at frontier n.
AtFrontier(s, r, k, d, n) ==
    /\ n \in Nat /\ s.textValid = n /\ n <= Mapped(k.text)
    /\ Cells(s, d, n) /\ d.lin = History(s, n)
    /\ r.life # "Prefilling" => d.tail = History(s, n)
    /\ Backend = "mtp" => s.mtpValid = n /\ n <= Mapped(k.backend)
    /\ Backend = "dflash" => s.dctx <= n /\ s.dctx <= Mapped(k.backend)
    /\ Backend = "dflash" /\ r.life # "Active" => s.dctx = n
    /\ Aligned(engine, s, d, n) /\ InContext(engine, s, d, s.dctx)
    /\ Backend = "dflash" /\ s.dctx < n => Waiting(engine, s, d, s.dctx, n)
    /\ s.ckpt.at <= n /\ Saved(engine, s, d, s.ckpt.at)

LEMMA LaneAtFrontier ==
    ASSUME BInv, CInv, NEW l \in Lanes, Settled(l)
    PROVE  AtFrontier(seq[l], req[l], kv[l], dev[l], Frontier(l))
  <1> DEFINE s == seq[l]
             r == req[l]
             k == kv[l]
             d == dev[l]
  <1>1. engine \in Engines /\ LaneOK(engine, s, r, k) /\ LaneSound(engine, s, r, d)
    BY DEF BInv, CInv
  <1>2. s \in SequenceRecords /\ k \in Bundles
    BY <1>1 DEF LaneOK
  <1>3. /\ Behind(engine, s) \in Nat
        /\ engine.backend = "mtp" => Behind(engine, s) = s.mtpValid
        /\ engine.backend = "dflash" => Behind(engine, s) = s.dctx
    BY <1>1, <1>2, BehindFacts, EngineFacts
  <1>4. s.E \in Nat /\ s.dctx \in Nat /\ s.mtpValid \in Nat /\ s.ckpt.at \in Nat
    BY <1>2, SequenceFacts
  <1>0. engine.backend = Backend
    BY <1>1, EngineFacts
  <1>5. /\ k.text \in PageCounts /\ k.backend \in PageCounts
    BY <1>2 DEF Bundles
  <1>6. r.life \in {"Prefilling", "Active", "Complete"}
    BY DEF Settled
  <1>7. Frontier(l) = IF r.life = "Prefilling" THEN r.prefill.cursor ELSE s.E
    BY DEF Frontier
  <1> HIDE DEF s, r, k, d
  <1>8. CASE r.life = "Prefilling"
    <2> DEFINE st == r.prefill
               n == st.cursor
    <2>1. /\ StagedOK(engine, st) /\ s.textValid = n
          /\ engine.backend # "none" => Behind(engine, s) = n
          /\ PromptPages(engine, st, k) /\ s.ckpt.at <= st.base
      BY <1>1, <1>8 DEF LaneOK, Prefills
    <2>2. Partial(engine, s, st, d)
      BY <1>1, <1>8 DEF LaneSound
    <2>3. /\ n \in Nat /\ n <= Len(st.prompt.ids) /\ Len(st.prompt.ids) \in Nat
          /\ st.base \in Nat /\ st.base <= n
      BY <1>1, <2>1, StagedNumbers
    <2>4. /\ PagesForTokens(Len(st.prompt.ids)) <= k.text.map
          /\ engine.backend # "none" => PagesForTokens(Len(st.prompt.ids)) <= k.backend.map
      BY <2>1 DEF PromptPages
    <2>5. n <= Mapped(k.text) /\ (engine.backend # "none" => n <= Mapped(k.backend))
      <3> DEFINE a == Len(st.prompt.ids)
      <3> HIDE DEF a, n
      <3>1. a \in Nat /\ n \in Nat /\ n <= a /\ PagesForTokens(a) <= k.text.map
            /\ (engine.backend # "none" => PagesForTokens(a) <= k.backend.map)
            /\ k.text.map \in Nat /\ k.backend.map \in Nat
        BY <1>5, <2>3, <2>4 DEF a, PageCounts
      <3>2. PagesForTokens(n) <= k.text.map
            /\ (engine.backend # "none" => PagesForTokens(n) <= k.backend.map)
        BY <3>1, PagesSuffice
      <3> QED BY <1>5, <3>1, <3>2, MappedFacts
    <2>6. s.ckpt.at <= n
      BY <1>4, <2>1, <2>3
    <2>7. InContext(engine, s, d, s.dctx)
      <3>1. CASE engine.backend = "dflash"
        BY <1>3, <2>1, <2>2, <3>1 DEF Partial
      <3>2. CASE engine.backend # "dflash"
        BY <3>2 DEF InContext
      <3> QED BY <3>1, <3>2
    <2>8. AtFrontier(s, r, k, d, n)
      <3> HIDE DEF n
      <3>1. Cells(s, d, n) /\ d.lin = History(s, n) /\ Aligned(engine, s, d, n)
            /\ Saved(engine, s, d, s.ckpt.at)
        BY <2>2 DEF Partial, n
      <3>2. /\ engine.backend = "mtp" => s.mtpValid = n
            /\ engine.backend = "dflash" => s.dctx = n
        BY <1>3, <2>1
      <3>3. ~(n < n)
        BY <2>3
      <3>4. n <= Mapped(k.text) /\ (engine.backend # "none" => n <= Mapped(k.backend))
        BY <2>5
      <3>5. n \in Nat /\ s.textValid = n
        BY <2>1, <2>3 DEF n
      <3> QED BY <1>0, <1>8, <2>6, <2>7, <3>1, <3>2, <3>3, <3>4, <3>5 DEF AtFrontier
    <2>9. Frontier(l) = n
      BY <1>7, <1>8
    <2> HIDE DEF n
    <2> QED BY <2>8, <2>9 DEF s, r, k, d
  <1>9. CASE r.life # "Prefilling"
    <2> DEFINE n == s.E
    <2>1. Whole(engine, s, d, n)
      BY <1>1, <1>6, <1>9 DEF LaneSound
    <2>2. /\ s.textValid = n /\ s.ckpt.at <= n
          /\ PagesForTokens(n) <= k.text.map /\ PagesForTokens(Behind(engine, s)) <= k.backend.map
          /\ engine.backend = "mtp" => s.mtpValid = n
          /\ engine.backend = "dflash" => s.dctx <= n
          /\ engine.backend = "dflash" /\ r.life # "Active" => s.dctx = n
      <3>1. CASE r.life = "Active"
        BY <1>1, <3>1 DEF LaneOK, Ready
      <3>2. CASE r.life = "Complete"
        BY <1>1, <1>3, <1>4, <3>2 DEF LaneOK, Rested, Caught
      <3> QED BY <1>6, <1>9, <3>1, <3>2
    <2>3. n <= Mapped(k.text) /\ Behind(engine, s) <= Mapped(k.backend)
      <3>1. n \in Nat
        BY <1>4
      <3> DEFINE b == Behind(engine, s)
      <3>2. b \in Nat /\ PagesForTokens(b) <= k.backend.map
        BY <1>3, <2>2
      <3> HIDE DEF b
      <3>3. b <= Mapped(k.backend)
        BY <1>5, <3>2, MappedFacts
      <3>4. n <= Mapped(k.text)
        BY <1>5, <2>2, <3>1, MappedFacts
      <3> QED BY <3>3, <3>4 DEF b
    <2>4. Frontier(l) = n
      BY <1>7, <1>9
    <2> HIDE DEF n
    <2>5. AtFrontier(s, r, k, d, n)
      <3>1. n \in Nat
        BY <1>4 DEF n
      <3> QED BY <1>0, <1>3, <2>1, <2>2, <2>3, <3>1 DEF AtFrontier, Whole
    <2> QED BY <2>4, <2>5 DEF s, r, k, d
  <1> QED BY <1>8, <1>9

\* The text KV cells, the recurrent state and the tail hidden vector of every lane are
\* those of the tokens and the media of its ledger, for any engine, any prompts and
\* any sequence of units (ContinuationSound).
THEOREM ContinuationIsSound == Spec => []ContinuationSound
  <1>1. BInv /\ CInv => ContinuationSound
    <2> SUFFICES ASSUME BInv, CInv, NEW l \in Lanes, Settled(l)
                 PROVE  LET n == Frontier(l)
                        IN /\ n = seq[l].textValid /\ n <= Mapped(kv[l].text)
                           /\ \A i \in 1 .. n : dev[l].kv[i].in = Column(seq[l], i)
                           /\ dev[l].lin = History(seq[l], n)
                           /\ (seq[l].tailValid /\ req[l].life # "Prefilling") =>
                                 dev[l].tail = History(seq[l], n)
      BY DEF ContinuationSound
    <2>1. AtFrontier(seq[l], req[l], kv[l], dev[l], Frontier(l))
      BY LaneAtFrontier
    <2> QED BY <2>1 DEF AtFrontier, Cells
  <1> QED BY <1>1, BooksAgree, ContentsAgree, PTL

\* A valid rewrite checkpoint is the state of the prefix that the ledger still holds
\* at its frontier (CheckpointSound).
THEOREM CheckpointIsSound == Spec => []CheckpointSound
  <1>1. BInv /\ CInv => CheckpointSound
    <2> SUFFICES ASSUME BInv, CInv, NEW l \in Lanes, Settled(l), seq[l].ckpt.at # 0
                 PROVE  LET at == seq[l].ckpt.at
                        IN /\ at <= seq[l].textValid
                           /\ dev[l].ckLin = History(seq[l], at)
                           /\ dev[l].ckHid = History(seq[l], at)
                           /\ Backend = "mtp" => seq[l].mtpValid >= at - 1
                           /\ Backend = "dflash" => seq[l].dctx >= at \/ req[l].life = "Active"
      BY DEF CheckpointSound
    <2> DEFINE n == Frontier(l)
               s == seq[l]
               d == dev[l]
    <2>1. AtFrontier(s, req[l], kv[l], d, n)
      BY LaneAtFrontier
    <2>2. s \in SequenceRecords /\ engine.backend = Backend
      BY EngineFacts DEF BInv, LaneOK
    <2>3. s.ckpt.at \in Nat
      BY <2>2, SequenceFacts
    <2> HIDE DEF n
    <2>4. /\ n \in Nat /\ s.textValid = n /\ s.ckpt.at <= n /\ Saved(engine, s, d, s.ckpt.at)
          /\ engine.backend = "mtp" => s.mtpValid = n
          /\ engine.backend = "dflash" /\ req[l].life # "Active" => s.dctx = n
      BY <2>1, <2>2 DEF AtFrontier
    <2>5. d.ckLin = History(s, s.ckpt.at) /\ d.ckHid = History(s, s.ckpt.at)
      BY <2>4 DEF Saved
    <2> QED BY <2>2, <2>3, <2>4, <2>5
  <1> QED BY <1>1, BooksAgree, ContentsAgree, PTL

\* Every column that the MTP cache counts as valid pairs the hidden vector of a column
\* with the input that really follows it (MtpSound).
THEOREM MtpIsSound == Spec => []MtpSound
  <1>1. BInv /\ CInv => MtpSound
    <2> SUFFICES ASSUME BInv, CInv, NEW l \in Lanes, Backend = "mtp", Settled(l)
                 PROVE  /\ seq[l].mtpValid <= Mapped(kv[l].backend)
                        /\ \A i \in 1 .. seq[l].mtpValid :
                              dev[l].mtp[i] = MtpCell(Feature(i, Column(seq[l], i)),
                                                      Column(seq[l], i + 1))
      BY DEF MtpSound
    <2>1. AtFrontier(seq[l], req[l], kv[l], dev[l], Frontier(l))
      BY LaneAtFrontier
    <2>2. engine.backend = "mtp"
      BY EngineFacts DEF BInv
    <2> QED BY <2>1, <2>2 DEF AtFrontier, Aligned
  <1> QED BY <1>1, BooksAgree, ContentsAgree, PTL

\* The DFlash contexts of a lane hold the features of its own committed columns, and
\* what is missing waits in its pending features (DFlashSound), unless a DFlash engine
\* has several lanes: there the features of a later chunk go to the lane that the
\* decode frame names.
THEOREM DFlashIsSound == Spec => [](FramesAgree(engine) => DFlashSound)
  <1>1. BInv /\ CInv => (FramesAgree(engine) => DFlashSound)
    <2> SUFFICES ASSUME BInv, CInv, FramesAgree(engine), NEW l \in Lanes, Backend = "dflash",
                        Settled(l)
                 PROVE  LET s == seq[l]
                            feature(i) == Feature(i, Column(s, i))
                        IN /\ s.dctx <= Mapped(kv[l].backend)
                           /\ \A i \in 1 .. s.dctx : dev[l].full[i] = feature(i)
                           /\ \A i \in Recent(s.dctx) : dev[l].local[LocalSlot(i)] = feature(i)
                           /\ \A i \in s.dctx + 1 .. Frontier(l) :
                                 dev[l].features[i - s.dctx] = feature(i)
                           /\ s.ckpt.at # 0 => \A i \in Recent(s.ckpt.at) :
                                 dev[l].ckLocal[LocalSlot(i)] = feature(i)
      BY DEF DFlashSound
    <2> DEFINE n == Frontier(l)
               s == seq[l]
               d == dev[l]
    <2>1. AtFrontier(s, req[l], kv[l], d, n)
      BY LaneAtFrontier
    <2>2. engine.backend = "dflash" /\ engine.lanes = 1 /\ s \in SequenceRecords
      BY EngineFacts DEF BInv, LaneOK, FramesAgree
    <2>3. s.ckpt.at \in Nat /\ s.dctx \in Nat
      BY <2>2, SequenceFacts
    <2> HIDE DEF n, s, d
    <2>4. /\ n \in Nat /\ s.dctx <= n /\ s.dctx <= Mapped(kv[l].backend)
          /\ InContext(engine, s, d, s.dctx) /\ Saved(engine, s, d, s.ckpt.at)
          /\ s.dctx < n => Waiting(engine, s, d, s.dctx, n)
      BY <2>1, <2>2 DEF AtFrontier
    <2>5. /\ \A i \in 1 .. s.dctx : d.full[i] = Feature(i, Column(s, i))
          /\ \A i \in Recent(s.dctx) : d.local[LocalSlot(i)] = Feature(i, Column(s, i))
      BY <2>2, <2>4 DEF InContext, Ring
    <2>6. \A i \in s.dctx + 1 .. n : d.features[i - s.dctx] = Feature(i, Column(s, i))
      <3>1. CASE s.dctx < n
        BY <2>2, <2>4, <3>1 DEF Waiting
      <3>2. CASE ~(s.dctx < n)
        BY <2>3, <2>4, <3>2
      <3> QED BY <3>1, <3>2
    <2>7. s.ckpt.at # 0 => \A i \in Recent(s.ckpt.at) :
              d.ckLocal[LocalSlot(i)] = Feature(i, Column(s, i))
      BY <2>2, <2>4 DEF Saved, Ring
    <2> QED BY <2>4, <2>5, <2>6, <2>7 DEF n, s, d
  <1> QED BY <1>1, BooksAgree, ContentsAgree, PTL
=============================================================================
