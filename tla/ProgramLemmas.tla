--------------------------- MODULE ProgramLemmas ----------------------------
(***************************************************************************)
(* The inductive invariant behind the Program's book-keeping, and what a   *)
(* round of decoding does to it, for every set of engines and prompts: the *)
(* numbers of a lane, the pages of its bundle, the request plan, the       *)
(* resolution of a pending step, and the ordinary, MTP and DFlash rounds.  *)
(* ProgramProofs adds prefill and reuse and assembles the theorems.        *)
(***************************************************************************)
EXTENDS Program, DataTheorems

-----------------------------------------------------------------------------
(***************************************************************************)
(* The inductive invariant.  It is stated for the options en of an engine  *)
(* and the sequence s, the request r and the bundle k of a lane.           *)
(***************************************************************************)

SequenceRecords ==
    [E : Nat, S : Nat, ledger : Seq(STRING), pos : Seq(Int), items : Seq(Items), delta : Int,
     textValid : Nat, mtpValid : Nat, dctx : Nat, drafts : Nat, tailValid : BOOLEAN,
     retained : BOOLEAN, ckpt : Checkpoints]

PageCounts == [ent : Nat, map : Nat]
Bundles == [held : BOOLEAN, bound : BOOLEAN, text : PageCounts, backend : PageCounts]

StagedRecords ==
    [base : Nat, cursor : Nat, prompt : PromptRecords, capture : Checkpoints,
     uses : SUBSET Nat, encoded : Nat, bridge : {"none", "before", "after"},
     reuse : {"full", "append"} \cup CheckpointKinds, extent : Nat]

\* What a column may read.
Inputs == STRING \cup {Rejected}

PendingRecords ==
    [kind : {"none", "begin", "ordinary", "speculative"}, baseE : Nat, baseS : Nat,
     tokens : Seq(STRING), columns : Seq(Inputs), next : Nat]

RequestRecords ==
    [life : {"Empty", "Prefilling", "Pending", "Active", "Complete"},
     pending : PendingRecords, prefill : {NoPrefill} \cup StagedRecords,
     budget : Nat, work : Int]

\* The part of the sequence that the backend's own cache holds.
Behind(en, s) == CASE en.backend = "mtp" -> s.mtpValid
                   [] en.backend = "dflash" -> s.dctx
                   [] OTHER -> 0

\* The backend's pages for a request that reserves so many columns.
BackendShare(en, reserved) ==
    CASE en.backend = "none" -> 0
      [] en.backend = "mtp" -> PagesForTokens(Min({en.capacity, reserved + en.window - 1}))
      [] en.backend = "dflash" -> PagesForTokens(reserved)

\* A request that runs holds the pages of the columns it may still compute.
Holding(en, s, k, reserved) ==
    /\ k.held /\ k.bound /\ ~s.retained /\ reserved <= en.capacity
    /\ k.text.ent = PagesForTokens(reserved) /\ k.backend.ent = BackendShare(en, reserved)
    /\ k.text.map <= k.text.ent /\ k.backend.map <= k.backend.ent

\* The columns up to n are there, in both caches.
Caught(en, s, k, n) ==
    /\ s.textValid = n /\ (en.backend # "none" => Behind(en, s) = n)
    /\ PagesForTokens(n) <= k.text.map /\ PagesForTokens(Behind(en, s)) <= k.backend.map

\* How many prefill steps a staged prompt takes at most: full chunks, a cut at each
\* item that begins later, and one at the frontier to be captured.
StepsLeft(en, st) ==
    LET n == Len(st.prompt.ids)
    IN 1 + (n - st.cursor - 1) \div en.chunk
       + Cardinality({k \in st.uses : UseBegin(en.backend, st.prompt.items[k]) > st.cursor})
       + (IF st.capture.at \in st.cursor + 1 .. n - 1 THEN 1 ELSE 0)

\* A prompt of which a part has been computed.
StagedOK(en, st) ==
    /\ st \in StagedRecords /\ st.prompt \in en.prompts
    /\ st.base <= st.cursor /\ st.cursor <= Len(st.prompt.ids)
    /\ st.capture.at <= Len(st.prompt.ids)
    /\ st.uses = VisionUses(st.prompt, st.base)
    /\ \A i \in st.uses : st.prompt.items[i].last > st.cursor => i >= st.encoded
    /\ st.extent <= en.window
    /\ st.extent # 0 => /\ en.backend = "mtp"
                        /\ Len(st.prompt.ids) + st.extent + 1 <= en.capacity

\* The pages that the prompt and the first drafts need.
PromptPages(en, st, k) ==
    LET n == Len(st.prompt.ids)
    IN /\ PagesForTokens(n) <= k.text.map
       /\ en.backend # "none" => PagesForTokens(n) <= k.backend.map
       /\ st.extent # 0 => PagesForTokens(n + st.extent - 1) <= k.backend.map

Prefills(en, s, r, k) ==
    LET st == r.prefill
        n == Len(st.prompt.ids)
    IN /\ StagedOK(en, st) /\ st.cursor < n /\ st.bridge = "none"
       /\ r.budget >= 1 /\ Holding(en, s, k, n + r.budget - 1)
       /\ s.textValid = st.cursor /\ (en.backend # "none" => Behind(en, s) = st.cursor)
       /\ s.ledger = st.prompt.ids /\ Len(s.pos) = n
       /\ PromptPages(en, st, k)
       /\ s.ckpt.at <= st.base /\ s.drafts <= en.window
       /\ r.work >= StepsLeft(en, st) + r.budget - 1

\* The first token has been sampled.
Begun(en, s, r, k) ==
    LET n == r.pending.baseE
    IN /\ n >= 1 /\ Len(r.pending.tokens) = 1
       /\ r.budget >= 1 /\ Holding(en, s, k, n + r.budget - 1)
       /\ Caught(en, s, k, n)
       /\ Len(s.ledger) = n + 1 /\ Len(s.pos) = n + 1
       /\ s.drafts <= en.window /\ s.tailValid /\ s.ckpt.at <= n
       /\ r.work >= r.budget - 1

\* Between two rounds. The context of DFlash is behind by the last round.
Ready(en, s, r, k) ==
    /\ s.E >= 1 /\ s.S = s.E + 1 /\ Len(s.ledger) = s.S /\ Len(s.pos) = s.S
    /\ r.budget >= 1 /\ Holding(en, s, k, s.E + r.budget)
    /\ s.textValid = s.E
    /\ PagesForTokens(s.E) <= k.text.map /\ PagesForTokens(Behind(en, s)) <= k.backend.map
    /\ en.backend = "mtp" => s.mtpValid = s.E
    /\ en.backend = "dflash" => s.dctx <= s.E /\ s.E <= s.dctx + en.window + 1
    /\ s.drafts <= en.window /\ s.tailValid /\ s.ckpt.at <= s.E
    /\ r.work >= r.budget

\* A round has been computed and is not resolved.
Rounded(en, s, r, k) ==
    LET m == Len(r.pending.tokens)
    IN /\ s.E >= 1 /\ s.S = s.E + 1 /\ r.pending.baseE = s.E /\ r.pending.baseS = s.S
       /\ 1 <= m /\ m <= r.budget /\ m <= en.window + 1
       /\ Holding(en, s, k, s.E + r.budget)
       /\ PagesForTokens(s.E + m) <= k.text.map
       /\ IF en.backend = "none"
            THEN /\ r.pending.kind = "ordinary"
                 /\ s.textValid = s.E + 1 /\ s.tailValid
                 /\ Len(s.ledger) = s.S + 1 /\ Len(s.pos) = s.S + 1
            ELSE /\ r.pending.kind = "speculative"
                 /\ s.textValid = s.E /\ Behind(en, s) = s.E
                 /\ Len(s.ledger) = s.S /\ Len(s.pos) = s.S
                 /\ PagesForTokens(s.E) <= k.backend.map
                 /\ en.backend = "mtp" => PagesForTokens(s.E + m) <= k.backend.map
       /\ r.pending.next <= en.window /\ s.drafts <= en.window /\ s.ckpt.at <= s.E
       /\ r.work >= r.budget

\* A lane that has been retained.
Rested(en, s, r, k) ==
    /\ s.retained /\ k.held /\ ~k.bound
    /\ s.E >= 1 /\ s.E <= en.capacity /\ Caught(en, s, k, s.E)
    /\ k.text = [ent |-> PagesForTokens(s.E), map |-> PagesForTokens(s.E)]
    /\ k.backend = [ent |-> PagesForTokens(Behind(en, s)), map |-> PagesForTokens(Behind(en, s))]
    /\ Len(s.ledger) = s.E + 1 /\ Len(s.pos) = s.E + 1
    /\ s.tailValid /\ s.ckpt.at <= s.E
    /\ r.work >= 0

LaneOK(en, s, r, k) ==
    /\ s \in SequenceRecords /\ r \in RequestRecords /\ k \in Bundles
    /\ r.life = "Empty" => s = NoSequence /\ k = NoBundle /\ r.work = 0
    /\ r.life = "Prefilling" => Prefills(en, s, r, k)
    /\ r.life = "Active" => Ready(en, s, r, k)
    /\ r.life = "Pending" /\ r.pending.kind = "begin" => Begun(en, s, r, k)
    /\ r.life = "Pending" /\ r.pending.kind # "begin" => Rounded(en, s, r, k)
    /\ r.life = "Complete" => Rested(en, s, r, k)

\* The first token of a prompt is resolved before anything else becomes pending.
Alone ==
    \A l, m \in Lanes :
        /\ req[l].life = "Pending" /\ req[l].pending.kind = "begin"
        /\ req[m].life = "Pending"
        => l = m

\* The entitlements fit the pools.
PagesFit ==
    \A pool \in {"text", "backend"} :
        SumOver(Entitlements(kv, pool), Lanes) <= PoolPages(pool)

\* Features of a later chunk may go to another lane of a DFlash engine.
FramesAgree(en) == en.backend = "dflash" => en.lanes = 1

Errors ==
    /\ err \subseteq {"unmapped"}
    /\ FramesAgree(engine) => "unmapped" \notin err

BInv ==
    /\ engine \in Engines /\ frame \in Lanes
    /\ seq \in [Lanes -> SequenceRecords] /\ req \in [Lanes -> RequestRecords]
    /\ kv \in [Lanes -> Bundles]
    /\ \A l \in Lanes : LaneOK(engine, seq[l], req[l], kv[l])
    /\ Alone /\ PagesFit /\ Errors

-----------------------------------------------------------------------------
(***************************************************************************)
(* Numbers, pages and entitlements.                                        *)
(***************************************************************************)

LEMMA TwoNumbers ==
    ASSUME NEW a \in Int, NEW b \in Int
    PROVE  /\ Min({a, b}) = IF a <= b THEN a ELSE b
           /\ Max({a, b}) = IF a <= b THEN b ELSE a
  <1>1. \E x \in {a, b} : \A y \in {a, b} : x <= y
    OBVIOUS
  <1>2. Min({a, b}) \in {a, b} /\ \A y \in {a, b} : Min({a, b}) <= y
    BY <1>1 DEF Min
  <1>3. \E x \in {a, b} : \A y \in {a, b} : x >= y
    OBVIOUS
  <1>4. Max({a, b}) \in {a, b} /\ \A y \in {a, b} : Max({a, b}) >= y
    BY <1>3 DEF Max
  <1> QED BY <1>2, <1>4

LEMMA LeastOfThree ==
    ASSUME NEW a \in Int, NEW b \in Int, NEW c \in Int
    PROVE  Min({a, b, c}) \in {a, b, c} /\ \A y \in {a, b, c} : Min({a, b, c}) <= y
  <1>1. \E x \in {a, b, c} : \A y \in {a, b, c} : x <= y
    OBVIOUS
  <1> QED BY <1>1 DEF Min

\* Quotients.
LEMMA Quotient ==
    ASSUME NEW a \in Nat, NEW d \in Nat \ {0}
    PROVE  /\ a \div d \in Nat
           /\ d * (a \div d) <= a /\ a < d * (a \div d) + d
  OBVIOUS

LEMMA QuotientMonotone ==
    ASSUME NEW a \in Nat, NEW b \in Nat, NEW d \in Nat \ {0}, a <= b
    PROVE  /\ a \div d <= b \div d
           /\ a + d <= b => 1 + a \div d <= b \div d
  <1>1. /\ a \div d \in Nat /\ d * (a \div d) <= a /\ a < d * (a \div d) + d
        /\ b \div d \in Nat /\ d * (b \div d) <= b /\ b < d * (b \div d) + d
    BY Quotient
  <1> DEFINE p == a \div d
             q == b \div d
  <1>2. p \in Nat /\ q \in Nat /\ d * p <= b /\ b < d * q + d
    BY <1>1
  <1>3. a + d <= b => d * p + d <= b
    BY <1>1
  <1> HIDE DEF p, q
  <1>4. p <= q
    <2> SUFFICES ASSUME q + 1 <= p PROVE FALSE
      BY <1>2
    <2>1. d * (q + 1) <= d * p
      BY <1>2
    <2>2. d * (q + 1) = d * q + d
      BY <1>2
    <2> QED BY <1>2, <2>1, <2>2
  <1>5. ASSUME a + d <= b PROVE 1 + p <= q
    <2> SUFFICES ASSUME q <= p PROVE FALSE
      BY <1>2
    <2>1. d * q <= d * p
      BY <1>2
    <2> QED BY <1>2, <1>3, <1>5, <2>1
  <1> QED BY <1>4, <1>5 DEF p, q

\* The pages of n columns hold them, and more columns take no fewer pages.
LEMMA PagesFacts ==
    /\ \A n \in Nat : PagesForTokens(n) \in Nat /\ n <= PagesForTokens(n) * PageSize
    /\ \A m, n \in Nat : m <= n => PagesForTokens(m) <= PagesForTokens(n)
    /\ PagesForTokens(0) = 0
  <1>0. PageSize \in Nat \ {0}
    BY PlanAssumption
  <1>1. ASSUME NEW n \in Nat
        PROVE  PagesForTokens(n) \in Nat /\ n <= PagesForTokens(n) * PageSize
    <2>1. n + PageSize - 1 \in Nat
      BY <1>0
    <2> DEFINE q == (n + PageSize - 1) \div PageSize
    <2>2. q \in Nat /\ n + PageSize - 1 < PageSize * q + PageSize
      BY <1>0, <2>1, Quotient
    <2> HIDE DEF q
    <2>3. PageSize * q = q * PageSize /\ PageSize * q \in Nat
      BY <1>0, <2>2
    <2>4. n <= q * PageSize
      BY <1>0, <2>2, <2>3
    <2> QED BY <2>2, <2>4 DEF q, PagesForTokens
  <1>2. ASSUME NEW m \in Nat, NEW n \in Nat, m <= n
        PROVE  PagesForTokens(m) <= PagesForTokens(n)
    BY <1>0, <1>2, QuotientMonotone DEF PagesForTokens
  <1>3. PagesForTokens(0) = 0
    <2>1. PageSize - 1 \in Nat
      BY <1>0
    <2> DEFINE q == (PageSize - 1) \div PageSize
    <2>2. q \in Nat /\ PageSize * q <= PageSize - 1
      BY <1>0, <2>1, Quotient
    <2> HIDE DEF q
    <2>3. q >= 1 => PageSize <= PageSize * q
      BY <1>0, <2>2
    <2>4. q = 0
      BY <1>0, <2>2, <2>3
    <2> QED BY <1>0, <2>4 DEF q, PagesForTokens
  <1> QED BY <1>1, <1>2, <1>3

LEMMA PagesSuffice ==
    ASSUME NEW m \in Nat, NEW n \in Nat, m <= n, NEW pages \in Nat, PagesForTokens(n) <= pages
    PROVE  PagesForTokens(m) <= pages
  <1>1. PagesForTokens(m) \in Nat /\ PagesForTokens(n) \in Nat
        /\ PagesForTokens(m) <= PagesForTokens(n)
    BY PagesFacts
  <1> QED BY <1>1

\* More mapped pages hold more columns.
LEMMA MappedFacts ==
    ASSUME NEW n \in Nat, NEW k \in PageCounts, PagesForTokens(n) <= k.map
    PROVE  n <= Mapped(k)
  <1>1. PageSize \in Nat \ {0} /\ PagesForTokens(n) \in Nat /\ n <= PagesForTokens(n) * PageSize
        /\ k.map \in Nat
    BY PlanAssumption, PagesFacts DEF PageCounts
  <1>2. PagesForTokens(n) * PageSize <= k.map * PageSize
    <2> DEFINE q == PagesForTokens(n)
    <2> HIDE DEF q
    <2>1. q \in Nat /\ q <= k.map
      BY <1>1 DEF q
    <2>2. q * PageSize <= k.map * PageSize
      BY <1>1, <2>1
    <2> QED BY <2>2 DEF q
  <1>3. PagesForTokens(n) * PageSize \in Nat /\ k.map * PageSize \in Nat
    BY <1>1
  <1> QED BY <1>1, <1>2, <1>3 DEF Mapped

-----------------------------------------------------------------------------
(***************************************************************************)
(* The plan of a request.                                                  *)
(***************************************************************************)

\* What a plan needs of the sequence of a lane: nothing, or a retained one.
Restable(en, s) ==
    /\ s \in SequenceRecords
    /\ s.retained => /\ s.E >= 1 /\ s.E <= en.capacity /\ s.textValid = s.E
                     /\ (en.backend # "none" => Behind(en, s) = s.E)
                     /\ s.tailValid /\ s.ckpt.at <= s.E
    /\ ~s.retained => s.ckpt = NoCkpt

LEMMA EngineFacts ==
    ASSUME engine \in Engines
    PROVE  /\ Capacity \in Nat \ {0} /\ Chunk \in Nat \ {0} /\ Window \in Nat
           /\ Backend \in {"none", "mtp", "dflash"} /\ (Window = 0 <=> Backend = "none")
           /\ engine.lanes \in Nat \ {0} /\ TextPages \in Nat /\ BackendPages \in Nat
           /\ Tokens \subseteq STRING
           /\ \A p \in Prompts : p \in PromptRecords /\ Accepted(engine, p)
           /\ Capacity = engine.capacity /\ Chunk = engine.chunk /\ Window = engine.window
           /\ Backend = engine.backend
  BY PlanAssumption, ProgramAssumption
     DEF Capacity, Chunk, Window, Backend, TextPages, BackendPages, Tokens, Prompts

LEMMA PromptFacts ==
    ASSUME engine \in Engines, NEW p \in Prompts
    PROVE  /\ p \in PromptRecords /\ p.ids \in Seq(STRING) /\ p.pos \in Seq(Int)
           /\ p.items \in Seq(Items) /\ p.delta \in Int
           /\ Len(p.ids) \in Nat /\ Len(p.ids) >= 1 /\ Len(p.ids) <= Capacity
           /\ Len(p.pos) = Len(p.ids)
           /\ p.ckpt \in Checkpoints /\ p.ckpt.at \in Nat /\ p.ckpt.at <= Len(p.ids)
           /\ (p.ckpt # NoCkpt => p.ckpt.at >= 1 /\ p.ckpt.kind \in CheckpointKinds)
           /\ p.out \in Nat \ {0}
  <1>1. p \in PromptRecords /\ Accepted(engine, p)
    BY EngineFacts
  <1>2. p.ckpt \in Checkpoints /\ p.ids \in Seq(STRING)
    BY <1>1 DEF PromptRecords
  <1>3. p.ckpt = NoCkpt \/ p.ckpt \in [kind : CheckpointKinds, at : Nat \ {0}]
    BY <1>2 DEF Checkpoints
  <1>4. p.ckpt.at \in Nat /\ (p.ckpt # NoCkpt => p.ckpt.at >= 1 /\ p.ckpt.kind \in CheckpointKinds)
    BY <1>3 DEF NoCkpt
  <1>5. /\ p.pos \in Seq(Int) /\ p.items \in Seq(Items) /\ p.delta \in Int
        /\ p.out \in Nat \ {0}
    BY <1>1 DEF PromptRecords
  <1>6. /\ Len(p.ids) \in 1 .. Capacity /\ Len(p.pos) = Len(p.ids)
        /\ p.ckpt.at <= Len(p.ids) /\ Capacity \in Nat
    BY <1>1, EngineFacts DEF Accepted
  <1> QED BY <1>1, <1>2, <1>4, <1>5, <1>6

LEMMA OutputFacts ==
    ASSUME engine \in Engines, NEW p \in Prompts
    PROVE  /\ EffectiveOutput(p) \in Nat /\ EffectiveOutput(p) >= 1
           /\ ReservedTokens(p) = Len(p.ids) + EffectiveOutput(p) - 1
           /\ ReservedTokens(p) \in Nat /\ ReservedTokens(p) <= Capacity
           /\ BackendEntitlement(p) = BackendShare(engine, ReservedTokens(p))
  <1>1. Capacity \in Nat /\ p.out \in Nat \ {0} /\ Len(p.ids) \in Nat /\ Len(p.ids) >= 1
        /\ Len(p.ids) <= Capacity
    BY EngineFacts, PromptFacts
  <1> DEFINE a == p.out
             b == Capacity - Len(p.ids) + 1
  <1>2. a \in Int /\ b \in Int /\ a >= 1 /\ b >= 1
    BY <1>1
  <1>3. EffectiveOutput(p) = Min({a, b})
    BY DEF EffectiveOutput
  <1> HIDE DEF a, b
  <1>4. EffectiveOutput(p) \in Nat /\ EffectiveOutput(p) >= 1 /\ EffectiveOutput(p) <= b
    BY <1>2, <1>3, TwoNumbers
  <1>5. BackendEntitlement(p) = BackendShare(engine, ReservedTokens(p))
    BY EngineFacts DEF BackendEntitlement, BackendShare
  <1>6. ReservedTokens(p) = Len(p.ids) + EffectiveOutput(p) - 1
    BY DEF ReservedTokens
  <1>7. EffectiveOutput(p) <= Capacity - Len(p.ids) + 1
    BY <1>4 DEF b
  <1>8. ReservedTokens(p) \in Nat /\ ReservedTokens(p) <= Capacity
    <2> DEFINE n == Len(p.ids)
               o == EffectiveOutput(p)
               c == Capacity
    <2>1. /\ n \in Nat /\ n >= 1 /\ c \in Nat /\ o \in Nat /\ o >= 1
          /\ o <= c - n + 1 /\ ReservedTokens(p) = n + o - 1
      BY <1>1, <1>4, <1>6, <1>7
    <2> HIDE DEF n, o, c
    <2>2. n + o - 1 \in Nat /\ n + o - 1 <= c
      BY <2>1
    <2> QED BY <2>1, <2>2 DEF c
  <1> QED BY <1>4, <1>5, <1>6, <1>8

Paths == {"full", "append"} \cup CheckpointKinds

LEMMA ReuseFacts ==
    ASSUME engine \in Engines, NEW p \in Prompts, NEW s, Restable(engine, s)
    PROVE  LET c == ReuseFor(p, s)
           IN /\ c.reuse \in Paths /\ c.base \in Nat /\ c.base <= Len(p.ids)
              /\ c.reuse = "full" => c.base = 0
              /\ c.reuse # "full" => s.retained /\ c.base >= 1
              /\ c.reuse = "append" => c.base = s.E
              /\ IsRestore(c.reuse) => c.base = s.ckpt.at
  <1> DEFINE c == Candidate(p, s)
             none == [reuse |-> "full", base |-> 0]
  <1>1. s.E \in Nat /\ s.ckpt \in Checkpoints /\ s.retained \in BOOLEAN
    BY DEF Restable, SequenceRecords
  <1>2. /\ s.ckpt.at \in Nat
        /\ s.ckpt.at # 0 => s.ckpt.kind \in CheckpointKinds
    BY <1>1 DEF Checkpoints, NoCkpt
  <1>3. /\ c.reuse \in Paths /\ c.base \in Nat /\ c.base <= Len(p.ids)
        /\ c.reuse = "full" => c.base = 0
        /\ c.reuse # "full" => s.retained /\ c.base >= 1
        /\ c.reuse = "append" => c.base = s.E
        /\ IsRestore(c.reuse) => c.base = s.ckpt.at
    <2>1. CASE c = none
      BY <2>1, PromptFacts DEF Paths, IsRestore, CheckpointKinds
    <2>2. CASE /\ s.retained /\ AppendMatches(p, s) /\ c = [reuse |-> "append", base |-> s.E]
      <3>1. s.E >= 1 /\ s.E <= Len(p.ids)
        BY <1>1, <2>2 DEF AppendMatches, PrefixMatches
      <3> QED BY <1>1, <2>2, <3>1 DEF Paths, IsRestore, CheckpointKinds
    <2>3. CASE /\ s.retained /\ CheckpointMatches(p, s)
               /\ c = [reuse |-> s.ckpt.kind, base |-> s.ckpt.at]
      <3>1. s.ckpt.at >= 1 /\ s.ckpt.at <= Len(p.ids) /\ s.ckpt.kind \in CheckpointKinds
        BY <1>2, <2>3 DEF CheckpointMatches
      <3> QED BY <1>2, <2>3, <3>1 DEF Paths, IsRestore, CheckpointKinds
    <2> QED BY <2>1, <2>2, <2>3 DEF Candidate
  <1>4. ReuseFor(p, s) = c \/ ReuseFor(p, s) = none
    BY DEF ReuseFor
  <1> HIDE DEF c
  <1>5. CASE ReuseFor(p, s) = none
    BY <1>5, PromptFacts DEF Paths, IsRestore, CheckpointKinds
  <1> QED BY <1>3, <1>4, <1>5

\* The backend's cache reaches the frontier that is reused.
LEMMA ReuseReaches ==
    ASSUME engine \in Engines, NEW p \in Prompts, NEW s, Restable(engine, s)
    PROVE  LET c == ReuseFor(p, s)
           IN /\ c.reuse # "full" /\ Backend = "mtp" => s.mtpValid >= c.base - 1
              /\ c.reuse = "append" /\ Backend = "dflash" => s.dctx = c.base
              /\ c.reuse # "full" /\ Backend = "dflash" => s.dctx >= c.base
              /\ c.reuse # "full" => s.textValid >= c.base /\ s.tailValid
  <1> DEFINE c == ReuseFor(p, s)
  <1>1. /\ c.reuse \in Paths /\ c.base \in Nat
        /\ c.reuse # "full" => s.retained /\ c.base >= 1
        /\ c.reuse = "append" => c.base = s.E
        /\ IsRestore(c.reuse) => c.base = s.ckpt.at
    BY ReuseFacts
  <1> HIDE DEF c
  <1>2. s.E \in Nat /\ s.ckpt \in Checkpoints /\ s.mtpValid \in Nat /\ s.dctx \in Nat
    BY DEF Restable, SequenceRecords
  <1>3. s.ckpt.at \in Nat
    BY <1>2 DEF Checkpoints, NoCkpt
  <1>4. c.reuse # "full" => c.base <= s.E /\ s.retained
    BY <1>1, <1>2, <1>3 DEF Paths, IsRestore, Restable
  <1>5. s.retained => /\ s.textValid = s.E /\ s.tailValid
                      /\ (Backend = "mtp" => s.mtpValid = s.E)
                      /\ (Backend = "dflash" => s.dctx = s.E)
    BY EngineFacts DEF Restable, Behind
  <1>6. c.reuse = "append" => c.base = s.E
    BY <1>1
  <1> QED BY <1>1, <1>2, <1>4, <1>5, <1>6 DEF c

\* What the rest of the Program relies on in a plan for a lane whose sequence is s.
PlanOK(p, s, plan) ==
    LET n == Len(p.ids)
        ckpt == CheckpointAtStart(p, s, plan.action)
    IN /\ plan.reuse \in Paths /\ plan.base \in Nat /\ plan.base <= n
       /\ plan.reuse = "full" <=> plan.base = 0
       /\ plan.reuse # "full" =>
             /\ s.retained /\ s.textValid >= plan.base /\ s.tailValid
             /\ Backend = "mtp" => s.mtpValid >= plan.base - 1
             /\ Backend = "dflash" => s.dctx >= plan.base
       /\ plan.reuse = "append" /\ Backend = "dflash" => s.dctx = plan.base
       /\ plan.capture \in Checkpoints /\ plan.capture.at <= n
       /\ ckpt \in Checkpoints /\ ckpt.at <= plan.base
       /\ plan.bridge \in {"none", "before", "after"}
       /\ plan.bridge = "before" => Backend = "mtp"
       /\ Backend = "mtp" /\ plan.base = n => plan.bridge = "after"
       /\ plan.uses = VisionUses(p, plan.base)
       /\ plan.output \in Nat /\ plan.output >= 1 /\ n + plan.output - 1 <= Capacity
       /\ plan.text = PagesForTokens(n + plan.output - 1)
       /\ plan.backend = BackendShare(engine, n + plan.output - 1)
       /\ plan.work = ProjectedServiceWork(p, plan.base,
              Cardinality(plan.uses) + (IF plan.capture.at \in 1 .. n - 1 THEN 1 ELSE 0))
       /\ plan.output = EffectiveOutput(p)

LEMMA PlanFacts ==
    ASSUME engine \in Engines, NEW p \in Prompts, NEW s, Restable(engine, s)
    PROVE  PlanOK(p, s, PlanRequestForLane(p, s))
  <1> DEFINE c == ReuseFor(p, s)
             plan == PlanRequestForLane(p, s)
             n == Len(p.ids)
             action == CheckpointAction(p, s, c)
             ckpt == CheckpointAtStart(p, s, action)
  <1>1. /\ plan.reuse = c.reuse /\ plan.base = c.base /\ plan.action = action
        /\ plan.capture = IF action = "capture" THEN p.ckpt ELSE NoCkpt
        /\ plan.uses = VisionUses(p, c.base)
        /\ plan.text = TextEntitlement(p) /\ plan.backend = BackendEntitlement(p)
        /\ plan.output = EffectiveOutput(p)
    BY DEF PlanRequestForLane
  <1>2. plan.bridge = CASE Backend # "mtp" \/ c.reuse = "full" -> "none"
                        [] Backend = "mtp" /\ c.reuse # "full" /\ c.base < Len(p.ids) -> "before"
                        [] OTHER -> "after"
    BY DEF PlanRequestForLane
  <1>3. plan.work = ProjectedServiceWork(p, plan.base,
              Cardinality(plan.uses) + (IF plan.capture.at \in 1 .. n - 1 THEN 1 ELSE 0))
    BY DEF PlanRequestForLane
  <1>4. /\ c.reuse \in Paths /\ c.base \in Nat /\ c.base <= n
        /\ c.reuse = "full" => c.base = 0
        /\ c.reuse # "full" => s.retained /\ c.base >= 1
        /\ c.reuse = "append" => c.base = s.E
        /\ IsRestore(c.reuse) => c.base = s.ckpt.at
    BY ReuseFacts
  <1>5. /\ c.reuse # "full" /\ Backend = "mtp" => s.mtpValid >= c.base - 1
        /\ c.reuse = "append" /\ Backend = "dflash" => s.dctx = c.base
        /\ c.reuse # "full" /\ Backend = "dflash" => s.dctx >= c.base
        /\ c.reuse # "full" => s.textValid >= c.base /\ s.tailValid
    BY ReuseReaches
  <1>6. /\ n \in Nat /\ n >= 1 /\ p.ckpt \in Checkpoints /\ p.ckpt.at \in Nat /\ p.ckpt.at <= n
        /\ p.ckpt # NoCkpt => p.ckpt.at >= 1 /\ p.ckpt.kind \in CheckpointKinds
    BY PromptFacts
  <1>7. s.ckpt \in Checkpoints /\ s.E \in Nat
    BY DEF Restable, SequenceRecords
  <1>8. s.ckpt.at \in Nat /\ (s.ckpt.at # 0 => s.ckpt \in [kind : CheckpointKinds, at : Nat \ {0}])
    BY <1>7 DEF Checkpoints, NoCkpt
  <1>9. /\ action \in {"drop", "keep", "reclassify", "capture", "defer"}
        /\ action \in {"keep", "reclassify"} =>
              c.reuse # "full" /\ p.ckpt # NoCkpt /\ s.ckpt.at = p.ckpt.at
        /\ action = "defer" => p.ckpt # NoCkpt /\ ~(p.ckpt.at > c.base)
    BY DEF CheckpointAction
  <1>10. NoCkpt \in Checkpoints /\ NoCkpt.at = 0
    BY DEF Checkpoints, NoCkpt
  <1>11. plan.capture \in Checkpoints /\ plan.capture.at <= n
    BY <1>1, <1>6, <1>10
  <1> HIDE DEF c, plan, n, action
  <1>12. ckpt \in Checkpoints /\ ckpt.at <= c.base
    <2>1. CASE action \in {"drop", "capture"}
      <3>1. ckpt = NoCkpt
        BY <2>1 DEF CheckpointAtStart
      <3> QED BY <1>4, <1>10, <3>1
    <2>2. CASE action \notin {"drop", "capture"}
      <3>1. c.reuse # "full"
        BY <1>4, <1>6, <1>9, <2>2
      <3>2. s.ckpt.at <= c.base
        BY <1>4, <1>7, <1>8, <3>1 DEF Restable, Paths, IsRestore
      <3>3. CASE action = "reclassify"
        <4>1. ckpt = [s.ckpt EXCEPT !.kind = p.ckpt.kind]
          BY <3>3 DEF CheckpointAtStart
        <4>2. s.ckpt \in [kind : CheckpointKinds, at : Nat \ {0}] /\ p.ckpt.kind \in CheckpointKinds
          BY <1>6, <1>8, <1>9, <3>3
        <4> QED BY <3>2, <4>1, <4>2 DEF Checkpoints
      <3>4. CASE action # "reclassify"
        <4>1. ckpt = s.ckpt
          BY <2>2, <3>4 DEF CheckpointAtStart
        <4> QED BY <1>7, <3>2, <4>1
      <3> QED BY <3>3, <3>4
    <2> QED BY <2>1, <2>2
  <1>13. /\ plan.output \in Nat /\ plan.output >= 1 /\ n + plan.output - 1 <= Capacity
         /\ plan.text = PagesForTokens(n + plan.output - 1)
         /\ plan.backend = BackendShare(engine, n + plan.output - 1)
    BY <1>1, OutputFacts DEF TextEntitlement, n
  <1>14. /\ plan.bridge \in {"none", "before", "after"}
         /\ plan.bridge = "before" => Backend = "mtp"
         /\ Backend = "mtp" /\ c.base = n => plan.bridge = "after"
    BY <1>2, <1>4, <1>6 DEF n
  <1>15. c.reuse = "full" <=> c.base = 0
    BY <1>4
  <1> QED BY <1>1, <1>3, <1>4, <1>5, <1>11, <1>12, <1>13, <1>14, <1>15 DEF PlanOK, n, plan

-----------------------------------------------------------------------------
(***************************************************************************)
(* Lanes as views, bundles entry by entry, and the resolution of a step.   *)
(***************************************************************************)

\* A view is a record of a sequence, a bundle, device contents and what went wrong.
ViewFields == {"seq", "kv", "dev", "bad"}
IsView(x) == DOMAIN x = ViewFields /\ x = [f \in ViewFields |-> x[f]]

\* Only the device contents differ.
SameBooks(x, y) == IsView(y) /\ y.seq = x.seq /\ y.kv = x.kv /\ y.bad = x.bad

\* The bundle of a lane, entry by entry.
BundleIs(k, held, bound, te, tm, be, bm) ==
    /\ k \in Bundles /\ k.held = held /\ k.bound = bound
    /\ k.text.ent = te /\ k.text.map = tm /\ k.backend.ent = be /\ k.backend.map = bm

LEMMA WriteFacts ==
    ASSUME NEW x, IsView(x), NEW last, NEW cells
    PROVE  /\ last <= Mapped(x.kv.text) => SameBooks(x, WriteText(x, last, cells))
           /\ last <= Mapped(x.kv.backend) => SameBooks(x, WriteMtp(x, last, cells))
           /\ last <= Mapped(x.kv.backend) => SameBooks(x, AppendContext(x, last, cells))
  <1>1. ASSUME last <= Mapped(x.kv.text)
        PROVE  SameBooks(x, WriteText(x, last, cells))
    <2> DEFINE y == [x EXCEPT !.dev.kv = Over(@, cells)]
    <2>1. IsView(y) /\ y.seq = x.seq /\ y.kv = x.kv /\ y.bad = x.bad
      BY DEF IsView, ViewFields
    <2>2. WriteText(x, last, cells) = y
      BY <1>1, <2>1 DEF WriteText, NeedMapped
    <2> QED BY <2>1, <2>2 DEF SameBooks
  <1>2. ASSUME last <= Mapped(x.kv.backend)
        PROVE  SameBooks(x, WriteMtp(x, last, cells))
    <2> DEFINE y == [x EXCEPT !.dev.mtp = Over(@, cells)]
    <2>1. IsView(y) /\ y.seq = x.seq /\ y.kv = x.kv /\ y.bad = x.bad
      BY DEF IsView, ViewFields
    <2>2. WriteMtp(x, last, cells) = y
      BY <1>2, <2>1 DEF WriteMtp, NeedMapped
    <2> QED BY <2>1, <2>2 DEF SameBooks
  <1>3. ASSUME last <= Mapped(x.kv.backend)
        PROVE  SameBooks(x, AppendContext(x, last, cells))
    <2> DEFINE newest(c) == {i \in DOMAIN cells : LocalSlot(i) = c}
               y == [x EXCEPT
                       !.dev.full = Over(@, cells),
                       !.dev.local = [c \in DOMAIN @ |-> IF newest(c) = {} THEN @[c]
                                                         ELSE cells[Max(newest(c))]]]
    <2>1. IsView(y) /\ y.seq = x.seq /\ y.kv = x.kv /\ y.bad = x.bad
      BY DEF IsView, ViewFields
    <2>2. AppendContext(x, last, cells) = NeedMapped(y, "backend", last)
      BY DEF AppendContext
    <2> HIDE DEF y
    <2>3. NeedMapped(y, "backend", last) = y
      BY <1>3, <2>1 DEF NeedMapped
    <2> QED BY <2>1, <2>2, <2>3 DEF SameBooks
  <1> QED BY <1>1, <1>2, <1>3

LEMMA BundleFacts ==
    ASSUME NEW k \in Bundles
    PROVE  /\ k.held \in BOOLEAN /\ k.bound \in BOOLEAN
           /\ k.text.ent \in Nat /\ k.text.map \in Nat
           /\ k.backend.ent \in Nat /\ k.backend.map \in Nat
           /\ k.text \in PageCounts /\ k.backend \in PageCounts
  BY DEF Bundles, PageCounts

LEMMA PageUpdates ==
    ASSUME NEW k \in Bundles, NEW a \in Nat, NEW b \in Nat
    PROVE  /\ BundleIs([k EXCEPT !.text.map = a, !.backend.map = b],
                       k.held, k.bound, k.text.ent, a, k.backend.ent, b)
           /\ BundleIs([k EXCEPT !.held = TRUE, !.text.ent = a, !.backend.ent = b],
                       TRUE, k.bound, a, k.text.map, b, k.backend.map)
           /\ BundleIs([k EXCEPT !.text.ent = a, !.backend.ent = b, !.bound = FALSE],
                       k.held, FALSE, a, k.text.map, b, k.backend.map)
  BY DEF BundleIs, Bundles, PageCounts

LEMMA BoundUpdate ==
    ASSUME NEW k \in Bundles
    PROVE  BundleIs([k EXCEPT !.bound = TRUE],
                    k.held, TRUE, k.text.ent, k.text.map, k.backend.ent, k.backend.map)
  BY DEF BundleIs, Bundles, PageCounts

LEMMA TrimFacts ==
    ASSUME NEW x, IsView(x), x.kv \in Bundles, x.kv.held,
           NEW n \in Nat, NEW b \in Nat, n <= Capacity, b <= n,
           PagesForTokens(n) <= x.kv.text.map, PagesForTokens(b) <= x.kv.backend.map
    PROVE  LET y == Trim(x, n, b)
           IN /\ IsView(y) /\ y.seq = x.seq /\ y.bad = x.bad
              /\ BundleIs(y.kv, TRUE, x.kv.bound, x.kv.text.ent, PagesForTokens(n),
                          x.kv.backend.ent, PagesForTokens(b))
  <1> DEFINE k == [x.kv EXCEPT !.text.map = PagesForTokens(n), !.backend.map = PagesForTokens(b)]
             y == [x EXCEPT !.kv = k, !.dev = WithPages(@, k)]
  <1>1. BundleIs(k, TRUE, x.kv.bound, x.kv.text.ent, PagesForTokens(n),
                 x.kv.backend.ent, PagesForTokens(b))
    <2>1. PagesForTokens(n) \in Nat /\ PagesForTokens(b) \in Nat
      BY PagesFacts
    <2>2. BundleIs(k, x.kv.held, x.kv.bound, x.kv.text.ent, PagesForTokens(n),
                   x.kv.backend.ent, PagesForTokens(b))
      BY <2>1, PageUpdates
    <2>3. x.kv.held = TRUE
      BY BundleFacts
    <2> QED BY <2>2, <2>3
  <1>4. Trim(x, n, b) = Require(y, /\ x.kv.held /\ n <= Capacity /\ b <= n
                                   /\ k.text.map <= x.kv.text.map
                                   /\ k.backend.map <= x.kv.backend.map)
    BY DEF Trim
  <1> HIDE DEF k
  <1>2. IsView(y) /\ y.seq = x.seq /\ y.bad = x.bad /\ y.kv = k
    BY DEF IsView, ViewFields
  <1>3. k.text.map <= x.kv.text.map /\ k.backend.map <= x.kv.backend.map
    BY <1>1 DEF BundleIs
  <1> HIDE DEF y
  <1>5. Trim(x, n, b) = y
    BY <1>3, <1>4 DEF Require
  <1> QED BY <1>1, <1>2, <1>5

LEMMA LargerOfTwo ==
    ASSUME NEW a \in Nat, NEW b \in Nat, NEW c \in Nat, a <= c, b <= c
    PROVE  Max({a, b}) \in Nat /\ Max({a, b}) <= c /\ a <= Max({a, b}) /\ b <= Max({a, b})
  <1>1. Max({a, b}) = IF a <= b THEN b ELSE a
    BY TwoNumbers, a \in Int, b \in Int
  <1> QED BY <1>1

LEMMA MaterializeFacts ==
    ASSUME NEW x, IsView(x), x.kv \in Bundles, x.kv.held,
           NEW n \in Nat, NEW b \in Nat, n <= Capacity, b <= Capacity,
           PagesForTokens(n) <= x.kv.text.ent, PagesForTokens(b) <= x.kv.backend.ent,
           x.kv.text.map <= x.kv.text.ent, x.kv.backend.map <= x.kv.backend.ent
    PROVE  LET y == Materialize(x, n, b)
           IN /\ IsView(y) /\ y.seq = x.seq /\ y.dev = x.dev /\ y.bad = x.bad
              /\ y.kv \in Bundles /\ y.kv.held /\ y.kv.bound = x.kv.bound
              /\ y.kv.text.ent = x.kv.text.ent /\ y.kv.backend.ent = x.kv.backend.ent
              /\ y.kv.text.map <= x.kv.text.ent /\ y.kv.backend.map <= x.kv.backend.ent
              /\ PagesForTokens(n) <= y.kv.text.map /\ x.kv.text.map <= y.kv.text.map
              /\ PagesForTokens(b) <= y.kv.backend.map /\ x.kv.backend.map <= y.kv.backend.map
  <1> DEFINE text == Max({x.kv.text.map, PagesForTokens(n)})
             backend == Max({x.kv.backend.map, PagesForTokens(b)})
             y == [x EXCEPT !.kv = [@ EXCEPT !.text.map = text, !.backend.map = backend]]
  <1>1. /\ x.kv.text.map \in Nat /\ x.kv.backend.map \in Nat
        /\ x.kv.text.ent \in Nat /\ x.kv.backend.ent \in Nat
        /\ PagesForTokens(n) \in Nat /\ PagesForTokens(b) \in Nat
    BY BundleFacts, PagesFacts
  <1>2. /\ text \in Nat /\ text <= x.kv.text.ent
        /\ PagesForTokens(n) <= text /\ x.kv.text.map <= text
    BY <1>1, LargerOfTwo
  <1>3. /\ backend \in Nat /\ backend <= x.kv.backend.ent
        /\ PagesForTokens(b) <= backend /\ x.kv.backend.map <= backend
    BY <1>1, LargerOfTwo
  <1>4. Materialize(x, n, b) = Require(y, /\ x.kv.held /\ n <= Capacity /\ b <= Capacity
                                          /\ text <= x.kv.text.ent /\ backend <= x.kv.backend.ent)
    BY DEF Materialize
  <1> HIDE DEF text, backend
  <1>6. /\ IsView(y) /\ y.seq = x.seq /\ y.dev = x.dev /\ y.bad = x.bad
        /\ y.kv = [x.kv EXCEPT !.text.map = text, !.backend.map = backend]
    BY DEF IsView, ViewFields
  <1> HIDE DEF y
  <1>5. Materialize(x, n, b) = y
    BY <1>2, <1>3, <1>4 DEF Require
  <1>7. BundleIs(y.kv, x.kv.held, x.kv.bound, x.kv.text.ent, text, x.kv.backend.ent, backend)
    BY <1>2, <1>3, <1>6, PageUpdates
  <1> QED BY <1>2, <1>3, <1>5, <1>6, <1>7 DEF BundleIs

LEMMA EntitledFacts ==
    ASSUME NEW x, IsView(x), x.kv \in Bundles, NEW l, NEW plan, CanAdmitWith(kv, l, plan),
           plan.text \in Nat, plan.backend \in Nat,
           x.kv.text.map <= plan.text, x.kv.backend.map <= plan.backend
    PROVE  LET y == Entitled(x, l, plan)
           IN /\ IsView(y) /\ y.seq = x.seq /\ y.dev = x.dev /\ y.bad = x.bad
              /\ BundleIs(y.kv, TRUE, x.kv.bound, plan.text, x.kv.text.map,
                          plan.backend, x.kv.backend.map)
  <1> DEFINE y == [x EXCEPT !.kv = [@ EXCEPT !.held = TRUE, !.text.ent = plan.text,
                                             !.backend.ent = plan.backend]]
  <1>1. /\ IsView(y) /\ y.seq = x.seq /\ y.dev = x.dev /\ y.bad = x.bad
        /\ y.kv = [x.kv EXCEPT !.held = TRUE, !.text.ent = plan.text,
                               !.backend.ent = plan.backend]
    BY DEF IsView, ViewFields
  <1>3. Entitled(x, l, plan) =
            Require(y, /\ CanAdmitWith(kv, l, plan)
                       /\ y.kv.text.map <= plan.text /\ y.kv.backend.map <= plan.backend)
    BY DEF Entitled
  <1> HIDE DEF y
  <1>2. BundleIs(y.kv, TRUE, x.kv.bound, plan.text, x.kv.text.map, plan.backend, x.kv.backend.map)
    BY <1>1, PageUpdates
  <1>4. Entitled(x, l, plan) = y
    BY <1>2, <1>3 DEF Require, BundleIs
  <1> QED BY <1>1, <1>2, <1>4

LEMMA BindFacts ==
    ASSUME NEW x, IsView(x), x.kv \in Bundles, x.kv.held, ~x.kv.bound
    PROVE  LET y == Bind(x)
           IN /\ IsView(y) /\ y.seq = x.seq /\ y.dev = x.dev /\ y.bad = x.bad
              /\ BundleIs(y.kv, TRUE, TRUE, x.kv.text.ent, x.kv.text.map,
                          x.kv.backend.ent, x.kv.backend.map)
  <1> DEFINE y == [x EXCEPT !.kv.bound = TRUE]
  <1>1. /\ IsView(y) /\ y.seq = x.seq /\ y.dev = x.dev /\ y.bad = x.bad
        /\ y.kv = [x.kv EXCEPT !.bound = TRUE]
    BY DEF IsView, ViewFields
  <1>2. BundleIs(y.kv, x.kv.held, TRUE, x.kv.text.ent, x.kv.text.map,
                 x.kv.backend.ent, x.kv.backend.map)
    BY <1>1, BoundUpdate
  <1>3. Bind(x) = y
    BY DEF Bind, Require
  <1>4. x.kv.held = TRUE
    BY BundleFacts
  <1> HIDE DEF y
  <1> QED BY <1>1, <1>2, <1>3, <1>4

LEMMA RetainFacts ==
    ASSUME NEW x, IsView(x), x.kv \in Bundles, x.seq \in SequenceRecords
    PROVE  LET y == Retain(x)
           IN /\ IsView(y) /\ y.bad = x.bad
              /\ y.seq = [x.seq EXCEPT !.retained = TRUE, !.drafts = 0]
              /\ BundleIs(y.kv, x.kv.held, FALSE, x.kv.text.map, x.kv.text.map,
                          x.kv.backend.map, x.kv.backend.map)
  <1> DEFINE y == Retain(x)
  <1>1. /\ IsView(y) /\ y.dev = x.dev /\ y.bad = x.bad
        /\ y.seq = [x.seq EXCEPT !.retained = TRUE, !.drafts = 0]
        /\ y.kv = [x.kv EXCEPT !.text.ent = x.kv.text.map, !.backend.ent = x.kv.backend.map,
                               !.bound = FALSE]
    BY DEF IsView, ViewFields, Retain
  <1> HIDE DEF y
  <1>2. x.kv.text.map \in Nat /\ x.kv.backend.map \in Nat
    BY BundleFacts
  <1>3. BundleIs(y.kv, x.kv.held, FALSE, x.kv.text.map, x.kv.text.map,
                 x.kv.backend.map, x.kv.backend.map)
    <2> DEFINE k == x.kv
               a == k.text.map
               b == k.backend.map
    <2>1. /\ k \in Bundles /\ a \in Nat /\ b \in Nat
          /\ y.kv = [k EXCEPT !.text.ent = a, !.backend.ent = b, !.bound = FALSE]
      BY <1>1, <1>2
    <2> HIDE DEF k, a, b
    <2>2. BundleIs([k EXCEPT !.text.ent = a, !.backend.ent = b, !.bound = FALSE],
                   k.held, FALSE, a, k.text.map, b, k.backend.map)
      BY <2>1, PageUpdates, Zenon
    <2>3. BundleIs(y.kv, k.held, FALSE, a, k.text.map, b, k.backend.map)
      BY <2>1, <2>2, Zenon
    <2> QED BY <2>3 DEF a, b, k
  <1> QED BY <1>1, <1>3 DEF y

LEMMA ClearedFacts ==
    ASSUME NEW x, IsView(x)
    PROVE  Cleared(x).seq = NoSequence /\ Cleared(x).kv = NoBundle
  BY DEF IsView, ViewFields, Cleared

-----------------------------------------------------------------------------
(***************************************************************************)
(* The end of a round or of a request.                                     *)
(***************************************************************************)

\* A sequence of e computed columns and one token that is not computed.
Committed(en, s, e) ==
    /\ s \in SequenceRecords /\ s.E = e /\ s.S = e + 1
    /\ Len(s.ledger) = e + 1 /\ Len(s.pos) = e + 1
    /\ s.textValid = e /\ s.tailValid /\ ~s.retained
    /\ s.ckpt.at <= e /\ s.drafts <= en.window
    /\ en.backend = "mtp" => s.mtpValid = e
    /\ en.backend = "dflash" => s.dctx <= e /\ e <= s.dctx + en.window + 1

\* The pages of a request that reserves so many columns and has computed e.
Paged(en, s, k, reserved, e) ==
    /\ k \in Bundles /\ Holding(en, s, k, reserved)
    /\ PagesForTokens(e) <= k.text.map /\ PagesForTokens(Behind(en, s)) <= k.backend.map

LEMMA BehindFacts ==
    ASSUME engine \in Engines, NEW s \in SequenceRecords
    PROVE  /\ Behind(engine, s) \in Nat /\ BackendValid(s) = Behind(engine, s)
           /\ Backend = "mtp" => Behind(engine, s) = s.mtpValid
           /\ Backend = "dflash" => Behind(engine, s) = s.dctx
           /\ Backend = "none" => Behind(engine, s) = 0
  <1>1. s.mtpValid \in Nat /\ s.dctx \in Nat
    BY DEF SequenceRecords
  <1>2. Backend \in {"none", "mtp", "dflash"} /\ Backend = engine.backend
    BY EngineFacts
  <1> QED BY <1>1, <1>2 DEF Behind, BackendValid

LEMMA CommittedFacts ==
    ASSUME engine \in Engines, NEW s, NEW e \in Nat, e >= 1, Committed(engine, s, e)
    PROVE  Behind(engine, s) \in Nat /\ Behind(engine, s) <= e
  BY BehindFacts, EngineFacts DEF Committed

LEMMA TrimSettles ==
    ASSUME engine \in Engines, NEW x, IsView(x), NEW e \in Nat, e >= 1,
           Committed(engine, x.seq, e), NEW reserved \in Nat, e <= reserved,
           Paged(engine, x.seq, x.kv, reserved, e)
    PROVE  LET y == TrimToValid(x)
           IN /\ IsView(y) /\ y.seq = x.seq /\ y.bad = x.bad
              /\ BundleIs(y.kv, TRUE, TRUE, PagesForTokens(reserved), PagesForTokens(e),
                     BackendShare(engine, reserved), PagesForTokens(Behind(engine, x.seq)))
              /\ PagesForTokens(e) <= PagesForTokens(reserved)
              /\ PagesForTokens(Behind(engine, x.seq)) <= BackendShare(engine, reserved)
  <1> DEFINE b == Behind(engine, x.seq)
  <1>1. b \in Nat /\ b <= e /\ BackendValid(x.seq) = b
    BY CommittedFacts, BehindFacts DEF Committed
  <1>2. e <= Capacity
    BY EngineFacts DEF Paged, Holding
  <1>3. /\ x.kv \in Bundles /\ x.kv.held /\ x.kv.bound
        /\ PagesForTokens(e) <= x.kv.text.map /\ PagesForTokens(b) <= x.kv.backend.map
        /\ x.kv.text.ent = PagesForTokens(reserved)
        /\ x.kv.backend.ent = BackendShare(engine, reserved)
        /\ x.kv.text.map <= x.kv.text.ent /\ x.kv.backend.map <= x.kv.backend.ent
    BY DEF Paged, Holding
  <1>4. TrimToValid(x) = Trim(x, e, b)
    BY <1>1 DEF TrimToValid, Committed
  <1>5. x.kv.bound = TRUE
    BY <1>3, BundleFacts
  <1> HIDE DEF b
  <1>6. /\ IsView(Trim(x, e, b)) /\ Trim(x, e, b).seq = x.seq /\ Trim(x, e, b).bad = x.bad
        /\ BundleIs(Trim(x, e, b).kv, TRUE, x.kv.bound, x.kv.text.ent, PagesForTokens(e),
                    x.kv.backend.ent, PagesForTokens(b))
    BY <1>1, <1>2, <1>3, TrimFacts
  <1>7. PagesForTokens(e) <= PagesForTokens(reserved)
    BY PagesFacts
  <1>8. PagesForTokens(b) <= BackendShare(engine, reserved)
    <2>1. PagesForTokens(b) \in Nat /\ x.kv.backend.map \in Nat /\ x.kv.backend.ent \in Nat
      BY <1>1, <1>3, PagesFacts, BundleFacts
    <2> QED BY <1>3, <2>1
  <1>9. BundleIs(Trim(x, e, b).kv, TRUE, TRUE, PagesForTokens(reserved), PagesForTokens(e),
                    BackendShare(engine, reserved), PagesForTokens(b))
    BY <1>3, <1>5, <1>6
  <1> QED BY <1>4, <1>6, <1>7, <1>8, <1>9 DEF b

\* The request goes on.
LEMMA SettledLane ==
    ASSUME engine \in Engines, NEW x, IsView(x), NEW e \in Nat, e >= 1,
           Committed(engine, x.seq, e), NEW reserved \in Nat, e <= reserved,
           Paged(engine, x.seq, x.kv, reserved, e),
           NEW r \in RequestRecords, r.life = "Active", r.budget >= 1,
           r.budget = reserved - e, r.work >= r.budget
    PROVE  LET y == TrimToValid(x)
           IN IsView(y) /\ y.bad = x.bad /\ LaneOK(engine, y.seq, r, y.kv)
  <1> DEFINE y == TrimToValid(x)
             b == Behind(engine, x.seq)
  <1>1. /\ IsView(y) /\ y.seq = x.seq /\ y.bad = x.bad
        /\ BundleIs(y.kv, TRUE, TRUE, PagesForTokens(reserved), PagesForTokens(e),
                    BackendShare(engine, reserved), PagesForTokens(b))
        /\ PagesForTokens(e) <= PagesForTokens(reserved)
        /\ PagesForTokens(b) <= BackendShare(engine, reserved)
    BY TrimSettles
  <1> HIDE DEF y, b
  <1>2. reserved <= engine.capacity /\ ~x.seq.retained
    BY DEF Paged, Holding
  <1>3. x.seq \in SequenceRecords
    BY DEF Committed
  <1>4. e + r.budget = reserved
    BY DEF RequestRecords
  <1>5. Holding(engine, y.seq, y.kv, e + r.budget)
    BY <1>1, <1>2, <1>4 DEF Holding, BundleIs
  <1>6. PagesForTokens(e) <= y.kv.text.map /\ PagesForTokens(b) <= y.kv.backend.map
    <2>1. PagesForTokens(e) \in Nat /\ y.kv.backend.map \in Nat
      BY <1>1, PagesFacts, BundleFacts DEF BundleIs
    <2> QED BY <1>1, <2>1 DEF BundleIs
  <1>7. Ready(engine, y.seq, r, y.kv)
    BY <1>1, <1>5, <1>6 DEF Ready, Committed, b
  <1>8. y.kv \in Bundles
    BY <1>1 DEF BundleIs
  <1> QED BY <1>1, <1>3, <1>7, <1>8 DEF LaneOK, y

\* The request has ended and the lane is retained.
LEMMA RetainedLane ==
    ASSUME engine \in Engines, NEW x, IsView(x), NEW e \in Nat, e >= 1,
           Committed(engine, x.seq, e), NEW reserved \in Nat, e <= reserved,
           Paged(engine, x.seq, x.kv, reserved, e),
           Backend = "dflash" => x.seq.dctx = e,
           NEW r \in RequestRecords, r.life = "Complete", r.work >= 0
    PROVE  LET y == Retain(TrimToValid(x))
           IN /\ IsView(y) /\ y.bad = x.bad /\ LaneOK(engine, y.seq, r, y.kv)
              /\ y.kv.text.ent <= x.kv.text.ent /\ y.kv.backend.ent <= x.kv.backend.ent
  <1> DEFINE t == TrimToValid(x)
             y == Retain(t)
             b == Behind(engine, x.seq)
             s == [x.seq EXCEPT !.retained = TRUE, !.drafts = 0]
  <1>1. /\ IsView(t) /\ t.seq = x.seq /\ t.bad = x.bad
        /\ BundleIs(t.kv, TRUE, TRUE, PagesForTokens(reserved), PagesForTokens(e),
                    BackendShare(engine, reserved), PagesForTokens(b))
        /\ PagesForTokens(e) <= PagesForTokens(reserved)
        /\ PagesForTokens(b) <= BackendShare(engine, reserved)
    BY TrimSettles
  <1>2. x.seq \in SequenceRecords
    BY DEF Committed
  <1>3. /\ x.kv.text.ent = PagesForTokens(reserved)
        /\ x.kv.backend.ent = BackendShare(engine, reserved) /\ reserved <= engine.capacity
    BY DEF Paged, Holding
  <1> HIDE DEF t, b
  <1>4. /\ IsView(y) /\ y.bad = t.bad /\ y.seq = s
        /\ BundleIs(y.kv, t.kv.held, FALSE, t.kv.text.map, t.kv.text.map,
                    t.kv.backend.map, t.kv.backend.map)
    <2>1. t.kv \in Bundles /\ t.seq \in SequenceRecords
      BY <1>1, <1>2 DEF BundleIs
    <2>2. /\ IsView(y) /\ y.bad = t.bad
          /\ y.seq = [t.seq EXCEPT !.retained = TRUE, !.drafts = 0]
          /\ BundleIs(y.kv, t.kv.held, FALSE, t.kv.text.map, t.kv.text.map,
                      t.kv.backend.map, t.kv.backend.map)
      BY <1>1, <2>1, RetainFacts, Zenon
    <2> QED BY <1>1, <2>2, Zenon
  <1>5. BundleIs(y.kv, TRUE, FALSE, PagesForTokens(e), PagesForTokens(e),
                 PagesForTokens(b), PagesForTokens(b))
    BY <1>1, <1>4 DEF BundleIs
  <1>6. /\ s \in SequenceRecords /\ s.retained /\ s.E = e /\ s.textValid = e
        /\ s.ledger = x.seq.ledger /\ s.pos = x.seq.pos /\ s.tailValid /\ s.ckpt = x.seq.ckpt
        /\ s.mtpValid = x.seq.mtpValid /\ s.dctx = x.seq.dctx
    BY <1>2 DEF SequenceRecords, Committed
  <1> HIDE DEF s, y
  <1>7. Behind(engine, s) = b /\ (engine.backend # "none" => b = e)
    BY <1>2, <1>6, BehindFacts, EngineFacts DEF b, Committed
  <1>8. /\ y.kv.text = [ent |-> PagesForTokens(e), map |-> PagesForTokens(e)]
        /\ y.kv.backend = [ent |-> PagesForTokens(b), map |-> PagesForTokens(b)]
    BY <1>5 DEF BundleIs, Bundles, PageCounts
  <1>9. e <= engine.capacity
    BY <1>3, EngineFacts
  <1>10. PagesForTokens(e) <= y.kv.text.map /\ PagesForTokens(b) <= y.kv.backend.map
    <2>1. y.kv.text.map \in Nat /\ y.kv.backend.map \in Nat
      BY <1>5, BundleFacts DEF BundleIs
    <2> QED BY <1>5, <2>1 DEF BundleIs
  <1>11. Rested(engine, s, r, y.kv)
    BY <1>5, <1>6, <1>7, <1>8, <1>9, <1>10 DEF Rested, Caught, Committed, BundleIs
  <1>12. LaneOK(engine, s, r, y.kv)
    BY <1>5, <1>6, <1>11 DEF LaneOK, BundleIs
  <1>13. y.kv.text.ent <= x.kv.text.ent /\ y.kv.backend.ent <= x.kv.backend.ent
    BY <1>1, <1>3, <1>5 DEF BundleIs
  <1>14. IsView(y) /\ y.bad = x.bad /\ LaneOK(engine, y.seq, r, y.kv)
    BY <1>1, <1>4, <1>12
  <1> QED BY <1>13, <1>14 DEF y, t

-----------------------------------------------------------------------------
(***************************************************************************)
(* Resolution.                                                             *)
(***************************************************************************)

\* What a step leaves in lane l, with the request r: no more pages than before.
Kept(l, x, r) ==
    /\ IsView(x) /\ x.bad = {} /\ LaneOK(engine, x.seq, r, x.kv)
    /\ x.kv.text.ent <= kv[l].text.ent /\ x.kv.backend.ent <= kv[l].backend.ent

LEMMA ViewFacts ==
    ASSUME NEW l
    PROVE  /\ IsView(View(l)) /\ View(l).seq = seq[l] /\ View(l).kv = kv[l]
           /\ View(l).dev = dev[l] /\ View(l).bad = {}
  BY DEF View, IsView, ViewFields

LEMMA DecisionFacts ==
    ASSUME NEW l, req[l] \in RequestRecords, NEW d \in Decisions(l)
    PROVE  /\ d.how \in {"stop", "go", "cancel"} /\ d.n \in Nat
           /\ d.how = "stop" => 1 <= d.n /\ d.n <= Len(req[l].pending.tokens)
           /\ d.how = "go" => /\ d.n = Len(req[l].pending.tokens)
                              /\ d.n < req[l].budget
  <1>1. Len(req[l].pending.tokens) \in Nat
    <2>1. req[l].pending \in PendingRecords
      BY DEF RequestRecords
    <2>2. req[l].pending.tokens \in Seq(STRING)
      BY <2>1 DEF PendingRecords
    <2> QED BY <2>2
  <1> DEFINE m == Len(req[l].pending.tokens)
  <1>2. \/ \E n \in 1 .. m : d = [how |-> "stop", n |-> n]
        \/ m < req[l].budget /\ d = [how |-> "go", n |-> m]
        \/ d = [how |-> "cancel", n |-> 0]
    BY DEF Decisions
  <1> HIDE DEF m
  <1>3. m \in Nat
    BY <1>1 DEF m
  <1>4. CASE \E n \in 1 .. m : d = [how |-> "stop", n |-> n]
    BY <1>3, <1>4 DEF m
  <1>5. CASE m < req[l].budget /\ d = [how |-> "go", n |-> m]
    BY <1>3, <1>5 DEF m
  <1>6. CASE d = [how |-> "cancel", n |-> 0]
    BY <1>3, <1>6 DEF m
  <1> QED BY <1>2, <1>4, <1>5, <1>6

LEMMA NoPendingTyped == NoPending \in PendingRecords /\ NoPending.kind = "none"
  BY EmptySeq DEF NoPending, PendingRecords

LEMMA NoRequestTyped ==
    NoRequest \in RequestRecords /\ NoRequest.life = "Empty" /\ NoRequest.work = 0
  BY NoPendingTyped DEF NoRequest, RequestRecords

LEMMA ResolvedFacts ==
    ASSUME NEW q \in RequestRecords, NEW d, d.n \in Nat, NEW work \in Nat
    PROVE  LET r == ResolvedRequest(q, d, work)
           IN /\ d.how = "stop" => /\ r \in RequestRecords /\ r.life = "Complete"
                                   /\ r.work = q.work - work
              /\ d.how = "go" /\ d.n < q.budget =>
                    /\ r \in RequestRecords /\ r.life = "Active"
                    /\ r.work = q.work - work /\ r.budget = q.budget - d.n
              /\ d.how = "cancel" => r = NoRequest
  <1>1. q.work \in Int /\ q.budget \in Nat
    BY DEF RequestRecords
  <1>2. q.work - work \in Int
    BY <1>1
  <1>3. ASSUME d.how = "stop"
        PROVE  LET r == ResolvedRequest(q, d, work)
               IN r \in RequestRecords /\ r.life = "Complete" /\ r.work = q.work - work
    <2> DEFINE w == q.work - work
    <2>1. ResolvedRequest(q, d, work) =
              [q EXCEPT !.life = "Complete", !.pending = NoPending, !.work = w, !.budget = 0]
      BY <1>3 DEF ResolvedRequest
    <2> HIDE DEF w
    <2>2. w \in Int
      BY <1>2 DEF w
    <2>3. [q EXCEPT !.life = "Complete", !.pending = NoPending, !.work = w, !.budget = 0]
              \in RequestRecords
      BY <2>2, NoPendingTyped DEF RequestRecords
    <2>4. /\ [q EXCEPT !.life = "Complete", !.pending = NoPending, !.work = w, !.budget = 0].life
                = "Complete"
          /\ [q EXCEPT !.life = "Complete", !.pending = NoPending, !.work = w, !.budget = 0].work
                = w
      BY DEF RequestRecords
    <2> QED BY <2>1, <2>3, <2>4 DEF w
  <1>4. ASSUME d.how = "go", d.n < q.budget
        PROVE  LET r == ResolvedRequest(q, d, work)
               IN /\ r \in RequestRecords /\ r.life = "Active"
                  /\ r.work = q.work - work /\ r.budget = q.budget - d.n
    <2> DEFINE w == q.work - work
               b == q.budget - d.n
               r == [q EXCEPT !.life = "Active", !.pending = NoPending, !.work = w, !.budget = b]
    <2>1. ResolvedRequest(q, d, work) = r
      BY <1>4 DEF ResolvedRequest
    <2>2. w \in Int /\ b \in Nat
      BY <1>1, <1>2, <1>4
    <2> HIDE DEF w, b
    <2>3. r \in RequestRecords
      BY <2>2, NoPendingTyped DEF RequestRecords
    <2>4. r.life = "Active" /\ r.work = w /\ r.budget = b
      BY DEF RequestRecords
    <2> QED BY <2>1, <2>3, <2>4 DEF w, b
  <1>5. d.how = "cancel" => ResolvedRequest(q, d, work) = NoRequest
    BY DEF ResolvedRequest
  <1> QED BY <1>3, <1>4, <1>5

\* A cleared lane.
LEMMA ClearedLane ==
    ASSUME NEW x, IsView(x)
    PROVE  LaneOK(engine, Cleared(x).seq, NoRequest, Cleared(x).kv)
  <1>1. NoSequence \in SequenceRecords
    BY EmptySeq DEF NoSequence, SequenceRecords, Checkpoints, NoCkpt
  <1>2. NoBundle \in Bundles
    BY DEF NoBundle, NoPages, Bundles, PageCounts
  <1> QED BY <1>1, <1>2, ClearedFacts, NoRequestTyped DEF LaneOK

\* From a committed view to the lane that the decision leaves.
Decidable(l, x, e, reserved) ==
    /\ IsView(x) /\ x.bad = {}
    /\ e \in Nat /\ e >= 1 /\ Committed(engine, x.seq, e)
    /\ reserved \in Nat /\ e <= reserved
    /\ Paged(engine, x.seq, x.kv, reserved, e)
    /\ x.kv.text.ent = kv[l].text.ent /\ x.kv.backend.ent = kv[l].backend.ent

LEMMA StopDecided ==
    ASSUME engine \in Engines, NEW l, NEW x, NEW e, NEW reserved, Decidable(l, x, e, reserved),
           NEW r \in RequestRecords, r.life = "Complete", r.work >= 0,
           Backend = "dflash" => x.seq.dctx = e
    PROVE  Kept(l, Retain(TrimToValid(x)), r)
  <1> DEFINE y == Retain(TrimToValid(x))
  <1>1. /\ IsView(y) /\ y.bad = x.bad /\ LaneOK(engine, y.seq, r, y.kv)
        /\ y.kv.text.ent <= x.kv.text.ent /\ y.kv.backend.ent <= x.kv.backend.ent
    BY RetainedLane DEF Decidable
  <1> HIDE DEF y
  <1>2. Kept(l, y, r)
    BY <1>1 DEF Kept, Decidable
  <1> QED BY <1>2 DEF y

LEMMA GoDecided ==
    ASSUME engine \in Engines, NEW l, NEW x, NEW e, NEW reserved, Decidable(l, x, e, reserved),
           NEW r \in RequestRecords, r.life = "Active", r.budget >= 1, r.budget = reserved - e,
           r.work >= r.budget
    PROVE  Kept(l, TrimToValid(x), r)
  <1> DEFINE y == TrimToValid(x)
  <1>1. IsView(y) /\ y.bad = x.bad /\ LaneOK(engine, y.seq, r, y.kv)
    BY SettledLane DEF Decidable
  <1>2. BundleIs(y.kv, TRUE, TRUE, PagesForTokens(reserved), PagesForTokens(e),
                 BackendShare(engine, reserved), PagesForTokens(Behind(engine, x.seq)))
    BY TrimSettles DEF Decidable
  <1>3. /\ x.kv \in Bundles /\ x.kv.text.ent = PagesForTokens(reserved)
        /\ x.kv.backend.ent = BackendShare(engine, reserved)
    BY DEF Paged, Holding, Decidable
  <1> HIDE DEF y
  <1>4. y.kv.text.ent <= kv[l].text.ent /\ y.kv.backend.ent <= kv[l].backend.ent
    <2>1. y.kv.text.ent \in Nat /\ y.kv.backend.ent \in Nat
      BY <1>2, BundleFacts DEF BundleIs
    <2> QED BY <1>2, <1>3, <2>1 DEF BundleIs, Decidable
  <1>5. Kept(l, y, r)
    BY <1>1, <1>4 DEF Kept, Decidable
  <1> QED BY <1>5 DEF y

LEMMA ResolveOrdinaryKeeps ==
    ASSUME engine \in Engines, NEW l, LaneOK(engine, seq[l], req[l], kv[l]),
           req[l].life = "Pending", NEW d \in Decisions(l), d.how # "cancel", NEW work,
           \/ req[l].pending.kind = "begin" /\ work = 0
           \/ req[l].pending.kind # "begin" /\ Backend = "none" /\ work = d.n
    PROVE  Kept(l, ResolveOrdinaryRow(l, d.how = "stop"), ResolvedRequest(req[l], d, work))
  <1> DEFINE s == seq[l]
             k == kv[l]
             q == req[l]
             e == IF q.pending.kind = "begin" THEN q.pending.baseE ELSE q.pending.baseE + 1
             x == [View(l) EXCEPT !.seq.E = e, !.seq.S = e + 1]
             r == ResolvedRequest(q, d, work)
             reserved == e + q.budget - 1
  <1>1. /\ s \in SequenceRecords /\ q \in RequestRecords /\ k \in Bundles
        /\ q.pending \in PendingRecords /\ q.budget \in Nat /\ q.work \in Int
    BY DEF LaneOK, RequestRecords
  <1>2. /\ q.pending.baseE \in Nat /\ q.pending.tokens \in Seq(STRING)
        /\ Len(q.pending.tokens) \in Nat
    BY <1>1 DEF PendingRecords
  <1>3. /\ IsView(x) /\ x.bad = {} /\ x.kv = k
        /\ x.seq = [s EXCEPT !.E = e, !.S = e + 1]
    BY ViewFacts DEF IsView, ViewFields
  <1>16. /\ d.how \in {"stop", "go"} /\ d.n \in Nat
         /\ d.how = "stop" => 1 <= d.n /\ d.n <= Len(q.pending.tokens)
         /\ d.how = "go" => d.n = Len(q.pending.tokens) /\ d.n < q.budget
    BY <1>1, DecisionFacts
  <1>17. /\ q.pending.kind = "begin" => work = 0 /\ Begun(engine, s, q, k)
         /\ q.pending.kind # "begin" =>
               work = d.n /\ engine.backend = "none" /\ Rounded(engine, s, q, k)
    BY EngineFacts DEF LaneOK
  <1>18. ResolveOrdinaryRow(l, d.how = "stop")
            = LET y == TrimToValid(Require(x, Len(s.ledger) = e + 1 /\ Len(s.pos) = e + 1))
              IN IF d.how = "stop" THEN Retain(y) ELSE y
    BY DEF ResolveOrdinaryRow
  <1>19. x.kv.text.ent = kv[l].text.ent /\ x.kv.backend.ent = kv[l].backend.ent
    BY <1>3
  <1> HIDE DEF s, k, q
  <1>4. /\ Len(q.pending.tokens) = 1 /\ q.budget >= 1
        /\ e \in Nat /\ e >= 1
        /\ Len(s.ledger) = e + 1 /\ Len(s.pos) = e + 1
        /\ s.textValid = e /\ s.tailValid /\ ~s.retained
        /\ s.ckpt.at <= e /\ s.drafts <= engine.window
        /\ engine.backend = "mtp" => s.mtpValid = e
        /\ engine.backend = "dflash" => s.dctx = e
        /\ Holding(engine, s, k, reserved)
        /\ PagesForTokens(e) <= k.text.map /\ PagesForTokens(Behind(engine, s)) <= k.backend.map
        /\ q.work >= q.budget - 1 + work
    <2>1. CASE q.pending.kind = "begin"
      <3>1. Begun(engine, s, q, k)
        BY <1>17, <2>1
      <3>2. e = q.pending.baseE /\ work = 0
        BY <1>17, <2>1
      <3> HIDE DEF e
      <3>3. e \in Nat /\ Holding(engine, s, k, reserved) /\ Caught(engine, s, k, e)
        BY <1>2, <3>1, <3>2 DEF Begun
      <3>4. /\ Len(q.pending.tokens) = 1 /\ q.budget >= 1 /\ e >= 1
            /\ Len(s.ledger) = e + 1 /\ Len(s.pos) = e + 1
            /\ s.tailValid /\ s.ckpt.at <= e /\ s.drafts <= engine.window
        BY <3>1, <3>2 DEF Begun
      <3>5. q.work >= q.budget - 1 + work
        BY <1>1, <3>1, <3>2 DEF Begun
      <3>6. /\ s.textValid = e /\ PagesForTokens(e) <= k.text.map
            /\ PagesForTokens(Behind(engine, s)) <= k.backend.map
            /\ engine.backend = "mtp" => s.mtpValid = e
            /\ engine.backend = "dflash" => s.dctx = e
        BY <3>3 DEF Caught, Behind
      <3>7. ~s.retained
        BY <3>3 DEF Holding
      <3> QED BY <3>3, <3>4, <3>5, <3>6, <3>7
    <2>2. CASE q.pending.kind # "begin"
      <3>1. Rounded(engine, s, q, k)
        BY <1>17, <2>2
      <3>2. e = q.pending.baseE + 1 /\ Backend = "none" /\ engine.window = 0 /\ work = d.n
        BY <1>17, <2>2, EngineFacts
      <3>3. s.E \in Nat /\ s.E >= 1 /\ q.pending.baseE = s.E /\ s.S = s.E + 1
        BY <1>1, <3>1 DEF Rounded, SequenceRecords
      <3>4. Len(q.pending.tokens) = 1 /\ d.n = 1
        <4>1. Len(q.pending.tokens) >= 1 /\ Len(q.pending.tokens) <= 0 + 1
          BY <3>1, <3>2 DEF Rounded
        <4> DEFINE m == Len(q.pending.tokens)
        <4>2. /\ m \in Nat /\ m >= 1 /\ m <= 0 + 1 /\ d.n \in Nat
              /\ d.how = "stop" => 1 <= d.n /\ d.n <= m
              /\ d.how = "go" => d.n = m
          BY <1>2, <1>16, <4>1
        <4> HIDE DEF m
        <4>3. m = 1 /\ d.n = 1
          BY <1>16, <4>2
        <4> QED BY <4>3 DEF m
      <3> HIDE DEF e
      <3>5. Behind(engine, s) = 0 /\ PagesForTokens(0) = 0 /\ k.backend.map \in Nat
        BY <1>1, <3>2, BehindFacts, PagesFacts, BundleFacts
      <3>6. s.E + q.budget = reserved
        BY <1>1, <3>2, <3>3
      <3>7. s.ckpt.at \in Nat
        BY <1>1 DEF SequenceRecords, Checkpoints, NoCkpt
      <3>8. s.E + 1 = e
        BY <3>2, <3>3
      <3>9. Holding(engine, s, k, reserved) /\ PagesForTokens(e) <= k.text.map
        BY <3>1, <3>4, <3>6, <3>8 DEF Rounded
      <3>10. /\ Len(s.ledger) = e + 1 /\ Len(s.pos) = e + 1 /\ s.textValid = e
             /\ s.tailValid /\ s.ckpt.at <= e /\ s.drafts <= engine.window
             /\ q.budget >= 1 /\ q.work >= q.budget
        BY <1>1, <3>1, <3>2, <3>3, <3>4, <3>7, <3>8, EngineFacts DEF Rounded
      <3>11. ~s.retained /\ engine.backend = "none" /\ e \in Nat /\ e >= 1
             /\ q.work >= q.budget - 1 + work
        BY <1>1, <1>17, <2>2, <3>2, <3>3, <3>4, <3>8, <3>9, <3>10 DEF Holding
      <3> QED BY <3>4, <3>5, <3>9, <3>10, <3>11
    <2> QED BY <2>1, <2>2
  <1> HIDE DEF e
  <1>5. /\ x.seq \in SequenceRecords /\ x.seq.E = e /\ x.seq.S = e + 1
        /\ x.seq.ledger = s.ledger /\ x.seq.pos = s.pos /\ x.seq.textValid = s.textValid
        /\ x.seq.tailValid = s.tailValid /\ x.seq.retained = s.retained
        /\ x.seq.ckpt = s.ckpt /\ x.seq.drafts = s.drafts
        /\ x.seq.mtpValid = s.mtpValid /\ x.seq.dctx = s.dctx
    <2> DEFINE f == e + 1
    <2>1. e \in Nat /\ f \in Nat
      BY <1>4
    <2>2. x.seq = [s EXCEPT !.E = e, !.S = f]
      BY <1>3
    <2> HIDE DEF f, x
    <2>3. /\ x.seq \in SequenceRecords /\ x.seq.E = e /\ x.seq.S = f
          /\ x.seq.ledger = s.ledger /\ x.seq.pos = s.pos /\ x.seq.textValid = s.textValid
          /\ x.seq.tailValid = s.tailValid /\ x.seq.retained = s.retained
          /\ x.seq.ckpt = s.ckpt /\ x.seq.drafts = s.drafts
          /\ x.seq.mtpValid = s.mtpValid /\ x.seq.dctx = s.dctx
      BY <1>1, <2>1, <2>2 DEF SequenceRecords
    <2> QED BY <2>3 DEF f
  <1> HIDE DEF x
  <1>6. Committed(engine, x.seq, e)
    BY <1>4, <1>5, EngineFacts DEF Committed
  <1>7. Behind(engine, x.seq) = Behind(engine, s)
    BY <1>5 DEF Behind
  <1>8. reserved \in Nat /\ e <= reserved
    BY <1>1, <1>4
  <1>9. Paged(engine, x.seq, x.kv, reserved, e)
    BY <1>1, <1>3, <1>4, <1>5, <1>7 DEF Paged, Holding
  <1>10. d.how \in {"stop", "go"} /\ d.n = 1 /\ (d.how = "go" => d.n < q.budget) /\ work \in Nat
    BY <1>4, <1>16, <1>17
  <1>11. /\ d.how = "stop" => /\ r \in RequestRecords /\ r.life = "Complete"
                              /\ r.work = q.work - work
         /\ d.how = "go" => /\ r \in RequestRecords /\ r.life = "Active"
                            /\ r.work = q.work - work /\ r.budget = q.budget - 1
    BY <1>1, <1>10, ResolvedFacts
  <1>12. ResolveOrdinaryRow(l, d.how = "stop")
            = IF d.how = "stop" THEN Retain(TrimToValid(x)) ELSE TrimToValid(x)
    <2>1. Require(x, Len(s.ledger) = e + 1 /\ Len(s.pos) = e + 1) = x
      BY <1>4 DEF Require
    <2> QED BY <1>18, <2>1
  <1> HIDE DEF r, reserved
  <1>13. Decidable(l, x, e, reserved)
    BY <1>3, <1>4, <1>6, <1>8, <1>9, <1>19 DEF Decidable
  <1>14. CASE d.how = "stop"
    <2>1. r \in RequestRecords /\ r.life = "Complete" /\ r.work >= 0
      BY <1>1, <1>4, <1>10, <1>11, <1>14
    <2>2. Backend = "dflash" => x.seq.dctx = e
      BY <1>4, <1>5, EngineFacts
    <2>3. Kept(l, Retain(TrimToValid(x)), r)
      BY <1>13, <2>1, <2>2, StopDecided
    <2> QED BY <1>12, <1>14, <2>3 DEF r, q
  <1>15. CASE d.how = "go"
    <2>1. /\ r \in RequestRecords /\ r.life = "Active" /\ r.budget >= 1
          /\ r.budget = reserved - e /\ r.work >= r.budget
      BY <1>1, <1>4, <1>10, <1>11, <1>15 DEF reserved
    <2>2. Kept(l, TrimToValid(x), r)
      BY <1>13, <2>1, GoDecided
    <2> QED BY <1>12, <1>15, <2>2 DEF r, q
  <1> QED BY <1>10, <1>14, <1>15

\* The context of a finished DFlash request is brought up to its frontier.
LEMMA TailAppended ==
    ASSUME engine \in Engines, Backend = "dflash", NEW x, IsView(x), NEW s \in SequenceRecords,
           x.seq = s, NEW n \in Nat, NEW reserved \in Nat, s.E + n <= reserved,
           s.textValid = s.E, x.kv \in Bundles, Holding(engine, s, x.kv, reserved)
    PROVE  LET y == DFlashTail(x, s, n)
           IN /\ IsView(y) /\ y.bad = x.bad /\ y.seq = [s EXCEPT !.dctx = s.E + n]
              /\ y.kv \in Bundles /\ Holding(engine, s, y.kv, reserved)
              /\ y.kv.text.ent = x.kv.text.ent /\ y.kv.backend.ent = x.kv.backend.ent
              /\ x.kv.text.map <= y.kv.text.map
              /\ PagesForTokens(s.E + n) <= y.kv.backend.map
  <1> DEFINE e == s.E + n
             m == Materialize(x, e, e)
             new == [i \in s.E + 1 .. s.E + n |-> x.dev.features[i - s.E]]
             a == AppendContext(m, e, new)
  <1>1. s.E \in Nat /\ s.textValid \in Nat /\ e \in Nat /\ e <= reserved
    BY DEF SequenceRecords
  <1>2. Max({s.textValid, s.E + n}) = e
    <2> DEFINE t == s.E
    <2>1. t \in Nat /\ e = t + n /\ s.textValid = t
      BY <1>1
    <2> HIDE DEF t, e
    <2>2. t \in Int /\ e \in Int /\ t <= e
      BY <2>1
    <2>3. Max({t, e}) = e
      BY <2>2, TwoNumbers
    <2> QED BY <2>1, <2>3 DEF t, e
  <1>3. DFlashTail(x, s, n) = [a EXCEPT !.seq.dctx = e]
    BY <1>2 DEF DFlashTail
  <1> HIDE DEF e, m, new, a
  <1>4. /\ reserved <= Capacity /\ x.kv.held /\ x.kv.bound
        /\ x.kv.text.ent = PagesForTokens(reserved)
        /\ x.kv.backend.ent = BackendShare(engine, reserved)
        /\ x.kv.text.map <= x.kv.text.ent /\ x.kv.backend.map <= x.kv.backend.ent
    BY EngineFacts DEF Holding
  <1>5. BackendShare(engine, reserved) = PagesForTokens(reserved) /\ e <= Capacity
    BY <1>1, <1>4, EngineFacts DEF BackendShare
  <1>6. PagesForTokens(e) <= PagesForTokens(reserved)
    BY <1>1, PagesFacts
  <1>7. /\ IsView(m) /\ m.seq = x.seq /\ m.dev = x.dev /\ m.bad = x.bad
        /\ m.kv \in Bundles /\ m.kv.held /\ m.kv.bound = x.kv.bound
        /\ m.kv.text.ent = x.kv.text.ent /\ m.kv.backend.ent = x.kv.backend.ent
        /\ m.kv.text.map <= x.kv.text.ent /\ m.kv.backend.map <= x.kv.backend.ent
        /\ PagesForTokens(e) <= m.kv.text.map /\ x.kv.text.map <= m.kv.text.map
        /\ PagesForTokens(e) <= m.kv.backend.map
    <2>1. /\ PagesForTokens(e) <= x.kv.text.ent /\ PagesForTokens(e) <= x.kv.backend.ent
          /\ x.kv \in Bundles /\ x.kv.held /\ e \in Nat /\ e <= Capacity
          /\ x.kv.text.map <= x.kv.text.ent /\ x.kv.backend.map <= x.kv.backend.ent
      BY <1>1, <1>4, <1>5, <1>6
    <2> QED BY <2>1, MaterializeFacts DEF m
  <1>8. e <= Mapped(m.kv.backend)
    BY <1>1, <1>7, MappedFacts, BundleFacts
  <1>9. IsView(a) /\ a.seq = s /\ a.kv = m.kv /\ a.bad = x.bad
    BY <1>7, <1>8, WriteFacts DEF a, SameBooks
  <1> DEFINE y == [a EXCEPT !.seq.dctx = e]
  <1>10. IsView(y) /\ y.bad = a.bad /\ y.kv = a.kv /\ y.seq = [a.seq EXCEPT !.dctx = e]
    BY <1>9 DEF IsView, ViewFields
  <1> HIDE DEF y
  <1>11. Holding(engine, s, y.kv, reserved)
    BY <1>4, <1>7, <1>9, <1>10, EngineFacts DEF Holding
  <1> QED BY <1>3, <1>7, <1>9, <1>10, <1>11 DEF y, e

LEMMA Joined ==
    ASSUME NEW T, NEW a \in Seq(T), NEW b \in Seq(T)
    PROVE  a \o b \in Seq(T) /\ Len(a \o b) = Len(a) + Len(b)
  OBVIOUS

\* A round or a part of it is committed.
Extended(s, ledger, pos, E, S, mtp, drafts) ==
    [s EXCEPT !.ledger = ledger, !.pos = pos, !.E = E, !.S = S, !.textValid = E,
              !.mtpValid = mtp, !.drafts = drafts, !.tailValid = TRUE]

\* The stages of the resolution of a speculative round: the recurrent state is
\* advanced, the DFlash context completed, the tokens committed.
FoldedView(l, n) ==
    [View(l) EXCEPT
        !.dev.lin = ReplayFold(@, req[l].pending.columns, n),
        !.dev.tail = TailAt(View(l), req[l].pending.columns, n, Len(req[l].pending.tokens))]
ContextView(l, d) ==
    IF Backend = "dflash" /\ d.how = "stop" THEN DFlashTail(FoldedView(l, d.n), seq[l], d.n)
    ELSE FoldedView(l, d.n)
CommittedView(l, d) ==
    [ContextView(l, d) EXCEPT
        !.seq.ledger = @ \o SubSeq(req[l].pending.tokens, 1, d.n),
        !.seq.pos = @ \o [j \in 1 .. d.n |-> seq[l].S + j - 1 + seq[l].delta],
        !.seq.E = seq[l].E + d.n, !.seq.S = seq[l].S + d.n, !.seq.textValid = seq[l].E + d.n,
        !.seq.mtpValid = IF Backend = "mtp" THEN seq[l].E + d.n ELSE @,
        !.seq.drafts = req[l].pending.next, !.seq.tailValid = TRUE]

LEMMA CommittedRow ==
    ASSUME engine \in Engines, NEW l, LaneOK(engine, seq[l], req[l], kv[l]),
           req[l].life = "Pending", req[l].pending.kind # "begin", Backend # "none",
           NEW d \in Decisions(l), d.how # "cancel"
    PROVE  LET s == seq[l]
               q == req[l]
               m == Len(q.pending.tokens)
               x == CommittedView(l, d)
           IN /\ Decidable(l, x, s.E + d.n, s.E + q.budget)
              /\ ResolveSpeculativeRow(l, d)
                   = IF d.how = "stop" THEN Retain(TrimToValid(x)) ELSE TrimToValid(x)
              /\ IsView(ContextView(l, d)) /\ x.dev = ContextView(l, d).dev
              /\ x.seq.ledger = s.ledger \o SubSeq(q.pending.tokens, 1, d.n)
              /\ x.seq.items = s.items /\ x.seq.ckpt = s.ckpt
              /\ Backend = "dflash" => x.seq.dctx = IF d.how = "stop" THEN s.E + d.n ELSE s.E
              /\ d.n \in 1 .. m /\ m \in Nat /\ m <= q.budget
              /\ s.E + q.budget <= Capacity /\ Len(s.ledger) = s.E + 1 /\ s.E >= 1
  <1> DEFINE s == seq[l]
             k == kv[l]
             q == req[l]
             n == d.n
             e == s.E + n
             tail == TailAt(View(l), q.pending.columns, n, Len(q.pending.tokens))
             f == [View(l) EXCEPT !.dev.lin = ReplayFold(@, q.pending.columns, n), !.dev.tail = tail]
             c == IF Backend = "dflash" /\ d.how = "stop" THEN DFlashTail(f, s, n) ELSE f
             ledger == c.seq.ledger \o SubSeq(q.pending.tokens, 1, n)
             pos == c.seq.pos \o [j \in 1 .. n |-> s.S + j - 1 + s.delta]
             mtp == IF Backend = "mtp" THEN e ELSE c.seq.mtpValid
             x == [c EXCEPT !.seq.ledger = ledger, !.seq.pos = pos, !.seq.E = e,
                            !.seq.S = s.S + n, !.seq.textValid = e, !.seq.mtpValid = mtp,
                            !.seq.drafts = q.pending.next, !.seq.tailValid = TRUE]
             reserved == s.E + q.budget
             m == Len(q.pending.tokens)
             E == s.E
             budget == q.budget
             window == engine.window
  <1>0. c = ContextView(l, d) /\ x = CommittedView(l, d)
    BY DEF FoldedView, ContextView, CommittedView
  <1>1. /\ s \in SequenceRecords /\ q \in RequestRecords /\ k \in Bundles
        /\ q.pending \in PendingRecords /\ q.budget \in Nat /\ q.work \in Int
    BY DEF LaneOK, RequestRecords
  <1>2. /\ q.pending.tokens \in Seq(STRING) /\ m \in Nat /\ q.pending.next \in Nat
    BY <1>1 DEF PendingRecords
  <1>3. Rounded(engine, s, q, k)
    BY DEF LaneOK
  <1>4. /\ d.how \in {"stop", "go"} /\ n \in Nat
        /\ d.how = "stop" => 1 <= n /\ n <= m
        /\ d.how = "go" => n = m /\ n < q.budget
    BY <1>1, DecisionFacts
  <1>5. IsView(f) /\ f.seq = s /\ f.kv = k /\ f.bad = {}
    BY ViewFacts DEF IsView, ViewFields
  <1>6. ResolveSpeculativeRow(l, d)
          = LET y == TrimToValid(Require(x,
                        /\ s.E = q.pending.baseE /\ s.S = q.pending.baseS /\ Len(s.ledger) = s.S
                        /\ s.textValid = s.E /\ BackendValid(s) = s.E))
            IN IF d.how = "stop" THEN Retain(y) ELSE y
    BY DEF ResolveSpeculativeRow, FoldRound, CommitRound
  <1>7. f.kv.text.ent = kv[l].text.ent /\ f.kv.backend.ent = kv[l].backend.ent
    BY <1>5
  <1> HIDE DEF s, k, q, n, tail, f, m
  <1>8. /\ s.E \in Nat /\ s.S \in Nat /\ s.delta \in Int /\ s.mtpValid \in Nat /\ s.dctx \in Nat
        /\ s.ledger \in Seq(STRING) /\ s.pos \in Seq(Int) /\ s.ckpt \in Checkpoints
        /\ Len(s.ledger) \in Nat /\ Len(s.pos) \in Nat
    BY <1>1 DEF SequenceRecords
  <1>9. s.ckpt.at \in Nat
    BY <1>8 DEF Checkpoints, NoCkpt
  <1>10. /\ s.E >= 1 /\ s.S = s.E + 1 /\ q.pending.baseE = s.E /\ q.pending.baseS = s.S
         /\ 1 <= m /\ m <= q.budget /\ m <= engine.window + 1
         /\ Holding(engine, s, k, reserved)
         /\ PagesForTokens(s.E + m) <= k.text.map
         /\ s.textValid = s.E /\ Behind(engine, s) = s.E
         /\ Len(s.ledger) = s.S /\ Len(s.pos) = s.S
         /\ PagesForTokens(s.E) <= k.backend.map
         /\ engine.backend = "mtp" => PagesForTokens(s.E + m) <= k.backend.map
         /\ q.pending.next <= engine.window /\ s.ckpt.at <= s.E /\ q.work >= q.budget
    BY <1>3, EngineFacts DEF Rounded, m
  <1>11. /\ n >= 1 /\ n <= m /\ n <= q.budget /\ e \in Nat /\ e >= 1 /\ reserved \in Nat
         /\ e <= reserved /\ s.E <= e /\ e <= s.E + m /\ n <= engine.window + 1
    <2>1. /\ n \in Nat /\ m \in Nat /\ E \in Nat /\ E >= 1 /\ budget \in Nat /\ window \in Nat
          /\ m <= budget /\ m <= window + 1 /\ 1 <= m
          /\ (1 <= n /\ n <= m) \/ n = m
          /\ e = E + n /\ reserved = E + budget
      BY <1>1, <1>2, <1>4, <1>8, <1>10, EngineFacts
    <2> HIDE DEF E, budget, window, e, reserved
    <2>2. /\ n >= 1 /\ n <= m /\ n <= budget /\ e \in Nat /\ e >= 1 /\ reserved \in Nat
          /\ e <= reserved /\ E <= e /\ e <= E + m /\ n <= window + 1
      BY <2>1
    <2> QED BY <2>2 DEF E, budget, window
  <1>12. BackendValid(s) = s.E
    BY <1>1, <1>10, BehindFacts
  <1>13. /\ IsView(c) /\ c.bad = {} /\ c.kv \in Bundles /\ Holding(engine, s, c.kv, reserved)
         /\ c.kv.text.ent = f.kv.text.ent /\ c.kv.backend.ent = f.kv.backend.ent
         /\ k.text.map <= c.kv.text.map
         /\ IF Backend = "dflash" /\ d.how = "stop"
              THEN c.seq = [s EXCEPT !.dctx = e] /\ PagesForTokens(e) <= c.kv.backend.map
              ELSE c.seq = s /\ c.kv = k
    <2>1. CASE Backend = "dflash" /\ d.how = "stop"
      <3>1. c = DFlashTail(f, s, n)
        BY <2>1
      <3>2. Holding(engine, s, f.kv, reserved) /\ f.kv \in Bundles /\ s.E + n <= reserved
        BY <1>1, <1>5, <1>10, <1>11
      <3> HIDE DEF c, reserved
      <3> QED BY <1>1, <1>4, <1>5, <1>10, <1>11, <2>1, <3>1, <3>2, TailAppended
    <2>2. CASE ~(Backend = "dflash" /\ d.how = "stop")
      <3>1. c = f
        BY <2>2
      <3>2. k.text.map \in Nat
        BY <1>1, BundleFacts
      <3> HIDE DEF c
      <3> QED BY <1>1, <1>5, <1>10, <2>2, <3>1, <3>2
    <2> QED BY <2>1, <2>2
  <1> HIDE DEF c, e, reserved
  <1>14. /\ c.seq \in SequenceRecords /\ c.seq.ledger = s.ledger /\ c.seq.pos = s.pos
         /\ c.seq.ckpt = s.ckpt /\ c.seq.retained = s.retained /\ c.seq.mtpValid = s.mtpValid
         /\ c.seq.items = s.items
         /\ c.seq.dctx = IF Backend = "dflash" /\ d.how = "stop" THEN e ELSE s.dctx
    BY <1>1, <1>11, <1>13 DEF SequenceRecords
  <1>15. ledger \in Seq(STRING) /\ Len(ledger) = e + 1
    <2>1. SubSeq(q.pending.tokens, 1, n) \in Seq(STRING)
          /\ Len(SubSeq(q.pending.tokens, 1, n)) = n
      BY <1>2, <1>4, <1>11 DEF m
    <2>2. Len(ledger) = Len(s.ledger) + n /\ ledger \in Seq(STRING)
      <3> DEFINE b == SubSeq(q.pending.tokens, 1, n)
      <3> HIDE DEF b
      <3>1. b \in Seq(STRING) /\ Len(b) = n
        BY <2>1 DEF b
      <3>2. s.ledger \o b \in Seq(STRING) /\ Len(s.ledger \o b) = Len(s.ledger) + Len(b)
        BY <1>8, <3>1, Joined
      <3> QED BY <1>14, <3>1, <3>2 DEF b
    <2> HIDE DEF ledger
    <2>3. Len(ledger) = s.E + 1 + n
      BY <1>10, <2>2
    <2>4. s.E \in Nat /\ n \in Nat
      BY <1>4, <1>8
    <2>5. s.E + 1 + n = e + 1
      BY <2>4 DEF e
    <2> QED BY <2>2, <2>3, <2>5
  <1>16. pos \in Seq(Int) /\ Len(pos) = e + 1
    <2> DEFINE new == [j \in 1 .. n |-> s.S + j - 1 + s.delta]
    <2>1. new \in Seq(Int) /\ Len(new) = n
      <3> DEFINE a == s.S
                 b == s.delta
                 w == [j \in 1 .. n |-> a + j - 1 + b]
      <3>1. a \in Int /\ b \in Int /\ n \in Nat /\ new = w
        BY <1>4, <1>8
      <3> HIDE DEF a, b, new
      <3>2. w \in [1 .. n -> Int]
        BY <3>1
      <3> HIDE DEF w
      <3>3. w \in Seq(Int) /\ Len(w) = n
        BY <3>1, <3>2
      <3> QED BY <3>1, <3>3
    <2> HIDE DEF new
    <2>2. Len(s.pos \o new) = Len(s.pos) + n /\ s.pos \o new \in Seq(Int)
      BY <1>8, <2>1, Joined
    <2>3. pos = s.pos \o new
      BY <1>14, Zenon DEF new
    <2> HIDE DEF pos
    <2>4. Len(pos) = s.E + 1 + n
      BY <1>10, <2>2, <2>3
    <2> QED BY <1>4, <1>8, <2>2, <2>3, <2>4 DEF e
  <1>17. /\ IsView(x) /\ x.bad = {} /\ x.kv = c.kv /\ x.dev = c.dev
         /\ x.seq = [c.seq EXCEPT !.ledger = ledger, !.pos = pos, !.E = e,
                        !.S = s.S + n, !.textValid = e, !.mtpValid = mtp,
                        !.drafts = q.pending.next, !.tailValid = TRUE]
    <2> HIDE DEF ledger, pos, mtp
    <2> QED BY <1>13 DEF IsView, ViewFields
  <1>18. mtp \in Nat /\ (Backend = "mtp" => mtp = e)
    BY <1>8, <1>11, <1>14
  <1>19. s.S + n = e + 1
    BY <1>4, <1>8, <1>10 DEF e
  <1> HIDE DEF ledger, pos, mtp, x
  <1>20. /\ x.seq \in SequenceRecords /\ x.seq.E = e /\ x.seq.S = e + 1
         /\ x.seq.ledger = ledger /\ x.seq.pos = pos /\ x.seq.textValid = e
         /\ x.seq.mtpValid = mtp /\ x.seq.drafts = q.pending.next /\ x.seq.tailValid
         /\ x.seq.dctx = c.seq.dctx /\ x.seq.ckpt = c.seq.ckpt
         /\ x.seq.retained = c.seq.retained /\ x.seq.items = c.seq.items
    <2> DEFINE g == e + 1
               w == q.pending.next
    <2>1. e \in Nat /\ g \in Nat /\ w \in Nat
      BY <1>2, <1>11
    <2>2. x.seq = Extended(c.seq, ledger, pos, e, g, mtp, w)
      <3>1. x.seq = [c.seq EXCEPT !.ledger = ledger, !.pos = pos, !.E = e,
                        !.S = g, !.textValid = e, !.mtpValid = mtp,
                        !.drafts = w, !.tailValid = TRUE]
        BY <1>17, <1>19
      <3> HIDE DEF g, w
      <3> QED BY <3>1, Zenon DEF Extended
    <2> HIDE DEF g, w
    <2>3. /\ x.seq \in SequenceRecords /\ x.seq.E = e /\ x.seq.S = g
          /\ x.seq.ledger = ledger /\ x.seq.pos = pos /\ x.seq.textValid = e
          /\ x.seq.mtpValid = mtp /\ x.seq.drafts = w /\ x.seq.tailValid
          /\ x.seq.dctx = c.seq.dctx /\ x.seq.ckpt = c.seq.ckpt
          /\ x.seq.retained = c.seq.retained /\ x.seq.items = c.seq.items
      <3> DEFINE t == c.seq
                 y == Extended(t, ledger, pos, e, g, mtp, w)
      <3>1. /\ t \in SequenceRecords /\ ledger \in Seq(STRING) /\ pos \in Seq(Int)
            /\ e \in Nat /\ g \in Nat /\ mtp \in Nat /\ w \in Nat
        BY <1>14, <1>15, <1>16, <1>18, <2>1
      <3> HIDE DEF t
      <3>2. /\ y \in SequenceRecords
            /\ y.E = e /\ y.S = g /\ y.ledger = ledger /\ y.pos = pos /\ y.textValid = e
            /\ y.mtpValid = mtp /\ y.drafts = w /\ y.tailValid
            /\ y.dctx = t.dctx /\ y.ckpt = t.ckpt /\ y.retained = t.retained /\ y.items = t.items
        <4>1. y \in SequenceRecords
          BY <3>1 DEF SequenceRecords, Extended
        <4>2. /\ y.E = e /\ y.S = g /\ y.ledger = ledger /\ y.pos = pos /\ y.textValid = e
              /\ y.mtpValid = mtp /\ y.drafts = w /\ y.tailValid
          BY <3>1 DEF SequenceRecords, Extended
        <4>3. y.dctx = t.dctx /\ y.ckpt = t.ckpt /\ y.retained = t.retained /\ y.items = t.items
          BY <3>1 DEF SequenceRecords, Extended
        <4> QED BY <4>1, <4>2, <4>3
      <3>3. x.seq = y
        BY <2>2 DEF t
      <3> HIDE DEF y
      <3> QED BY <3>2, <3>3 DEF t
    <2> QED BY <2>3 DEF g, w
  <1>21. /\ Backend = "dflash" /\ d.how = "stop" => x.seq.dctx = e
         /\ Backend = "dflash" /\ d.how # "stop" => x.seq.dctx = s.E
    BY <1>1, <1>10, <1>14, <1>20, BehindFacts
  <1>22. Committed(engine, x.seq, e)
    <2>1. engine.backend = "dflash" => x.seq.dctx <= e /\ e <= x.seq.dctx + engine.window + 1
      <3>1. /\ n \in Nat /\ E \in Nat /\ window \in Nat /\ n <= window + 1 /\ e = E + n
            /\ engine.backend = "dflash" => x.seq.dctx = e \/ x.seq.dctx = E
        BY <1>4, <1>8, <1>11, <1>21, EngineFacts DEF e
      <3> HIDE DEF E, window
      <3>2. e <= E + window + 1 /\ E <= e /\ e <= e + window + 1 /\ e <= e
        BY <3>1
      <3> QED BY <3>1, <3>2 DEF window
    <2>2. x.seq.ckpt.at <= e /\ ~x.seq.retained
      BY <1>8, <1>9, <1>10, <1>11, <1>14, <1>20 DEF Holding
    <2> QED BY <1>10, <1>15, <1>16, <1>18, <1>20, <2>1, <2>2, EngineFacts DEF Committed
  <1>23. Paged(engine, x.seq, x.kv, reserved, e)
    <2>1. Holding(engine, x.seq, x.kv, reserved)
      BY <1>13, <1>14, <1>17, <1>20 DEF Holding
    <2>2. PagesForTokens(e) <= PagesForTokens(s.E + m) /\ PagesForTokens(e) \in Nat
          /\ PagesForTokens(s.E + m) \in Nat
      <3>1. s.E + m \in Nat /\ e \in Nat /\ e <= s.E + m
        BY <1>2, <1>8, <1>11
      <3> QED BY <3>1, PagesFacts
    <2>3. k.text.map \in Nat /\ c.kv.text.map \in Nat /\ k.backend.map \in Nat
      BY <1>1, <1>13, BundleFacts
    <2>4. PagesForTokens(e) <= x.kv.text.map
      BY <1>10, <1>13, <1>17, <2>2, <2>3
    <2>5. PagesForTokens(Behind(engine, x.seq)) <= x.kv.backend.map
      <3>1. CASE Backend = "mtp"
        <4>1. Behind(engine, x.seq) = e /\ x.kv = k
          BY <1>13, <1>17, <1>18, <1>20, <3>1, BehindFacts
        <4> QED BY <1>10, <2>2, <2>3, <3>1, <4>1, EngineFacts
      <3>2. CASE Backend = "dflash" /\ d.how = "stop"
        <4>1. Behind(engine, x.seq) = e
          BY <1>20, <1>21, <3>2, BehindFacts
        <4> QED BY <1>13, <1>17, <3>2, <4>1
      <3>3. CASE Backend = "dflash" /\ d.how # "stop"
        <4>1. Behind(engine, x.seq) = s.E /\ x.kv = k
          BY <1>13, <1>17, <1>20, <1>21, <3>3, BehindFacts
        <4> QED BY <1>10, <4>1
      <3> QED BY <3>1, <3>2, <3>3, EngineFacts
    <2> QED BY <1>13, <1>17, <2>1, <2>4, <2>5 DEF Paged
  <1>24. x.kv.text.ent = kv[l].text.ent /\ x.kv.backend.ent = kv[l].backend.ent
    BY <1>7, <1>13, <1>17
  <1>25. Decidable(l, x, e, reserved)
    BY <1>11, <1>17, <1>22, <1>23, <1>24 DEF Decidable
  <1>26. ResolveSpeculativeRow(l, d)
            = IF d.how = "stop" THEN Retain(TrimToValid(x)) ELSE TrimToValid(x)
    BY <1>6, <1>10, <1>12 DEF Require
  <1>27. n \in 1 .. m /\ E + q.budget <= Capacity /\ Capacity \in Nat
    <2>1. E + q.budget <= Capacity /\ Capacity \in Nat
      BY <1>10, EngineFacts DEF Holding, reserved
    <2> QED BY <1>2, <1>4, <1>11, <2>1
  <1>28. /\ x.seq.ledger = s.ledger \o SubSeq(q.pending.tokens, 1, n)
         /\ x.seq.items = s.items /\ x.seq.ckpt = s.ckpt
    BY <1>14, <1>20 DEF ledger
  <1> QED BY <1>0, <1>2, <1>10, <1>13, <1>17, <1>21, <1>25, <1>26, <1>27, <1>28
          DEF s, q, n, m, e, reserved

LEMMA ResolveSpeculativeKeeps ==
    ASSUME engine \in Engines, NEW l, LaneOK(engine, seq[l], req[l], kv[l]),
           req[l].life = "Pending", req[l].pending.kind # "begin", Backend # "none",
           NEW d \in Decisions(l), d.how # "cancel"
    PROVE  Kept(l, ResolveSpeculativeRow(l, d), ResolvedRequest(req[l], d, d.n))
  <1> DEFINE s == seq[l]
             q == req[l]
             n == d.n
             e == s.E + n
             r == ResolvedRequest(q, d, n)
             reserved == s.E + q.budget
             m == Len(q.pending.tokens)
             E == s.E
             budget == q.budget
             x == CommittedView(l, d)
  <1>1. /\ s \in SequenceRecords /\ q \in RequestRecords
        /\ q.pending \in PendingRecords /\ q.budget \in Nat /\ q.work \in Int /\ s.E \in Nat
    BY DEF LaneOK, RequestRecords, SequenceRecords
  <1>2. q.work >= q.budget /\ m \in Nat
    BY <1>1, EngineFacts DEF LaneOK, Rounded, PendingRecords
  <1>3. /\ d.how \in {"stop", "go"} /\ n \in Nat
        /\ d.how = "stop" => 1 <= n /\ n <= m
        /\ d.how = "go" => n = m /\ n < q.budget
    BY <1>1, DecisionFacts
  <1>4. /\ Decidable(l, x, e, reserved)
        /\ ResolveSpeculativeRow(l, d)
              = IF d.how = "stop" THEN Retain(TrimToValid(x)) ELSE TrimToValid(x)
        /\ Backend = "dflash" => x.seq.dctx = IF d.how = "stop" THEN e ELSE s.E
        /\ n \in 1 .. m /\ m <= q.budget
    <2>1. d.n \in 1 .. m /\ m <= q.budget
      BY CommittedRow
    <2>2. /\ Decidable(l, x, e, reserved)
          /\ ResolveSpeculativeRow(l, d)
               = IF d.how = "stop" THEN Retain(TrimToValid(x)) ELSE TrimToValid(x)
      BY CommittedRow, Zenon
    <2>3. Backend = "dflash" => x.seq.dctx = IF d.how = "stop" THEN e ELSE s.E
      BY CommittedRow, Zenon
    <2> QED BY <2>1, <2>2, <2>3
  <1> HIDE DEF s, q, n, e, reserved, m, x
  <1>5. /\ d.how = "stop" => /\ r \in RequestRecords /\ r.life = "Complete"
                             /\ r.work = q.work - n
        /\ d.how = "go" => /\ r \in RequestRecords /\ r.life = "Active"
                           /\ r.work = q.work - n /\ r.budget = q.budget - n
    BY <1>1, <1>3, ResolvedFacts DEF n
  <1> HIDE DEF r
  <1>6. CASE d.how = "stop"
    <2>1. /\ q.work \in Int /\ budget \in Nat /\ m \in Nat /\ n \in Nat /\ n <= m
          /\ m <= budget /\ q.work >= budget /\ r.work = q.work - n
      BY <1>1, <1>2, <1>3, <1>4, <1>5, <1>6
    <2> HIDE DEF budget
    <2>2. r.work >= 0
      BY <2>1
    <2>3. Kept(l, Retain(TrimToValid(x)), r)
      BY <1>4, <1>5, <1>6, <2>2, StopDecided
    <2> QED BY <1>4, <1>6, <2>3 DEF r, q, n
  <1>7. CASE d.how = "go"
    <2>1. /\ r \in RequestRecords /\ r.life = "Active" /\ r.budget >= 1
          /\ r.budget = reserved - e /\ r.work >= r.budget
      <3>1. /\ n \in Nat /\ E \in Nat /\ budget \in Nat /\ n < budget /\ q.work \in Int
            /\ q.work >= budget /\ e = E + n /\ reserved = E + budget
            /\ r.work = q.work - n /\ r.budget = budget - n
        BY <1>1, <1>2, <1>3, <1>5, <1>7 DEF reserved, e
      <3> HIDE DEF E, budget
      <3>2. r.budget >= 1 /\ r.budget = reserved - e /\ r.work >= r.budget
        BY <3>1
      <3> QED BY <1>5, <1>7, <3>2
    <2>2. Kept(l, TrimToValid(x), r)
      BY <1>4, <2>1, GoDecided
    <2> QED BY <1>4, <1>7, <2>2 DEF r, q, n
  <1> QED BY <1>3, <1>6, <1>7

-----------------------------------------------------------------------------
(***************************************************************************)
(* A round of decoding.                                                    *)
(***************************************************************************)

\* The numbers of a lane that is decode-ready.
LEMMA ReadyNumbers ==
    ASSUME engine \in Engines, NEW s \in SequenceRecords, NEW q \in RequestRecords, NEW k,
           Ready(engine, s, q, k)
    PROVE  /\ s.E \in Nat /\ s.E >= 1 /\ q.budget \in Nat /\ q.budget >= 1
           /\ Window \in Nat /\ Capacity \in Nat /\ s.E + q.budget <= Capacity
           /\ s.drafts \in Nat /\ s.drafts <= Window
           /\ Backend # "none" => Window >= 1
  <1>1. s.E \in Nat /\ q.budget \in Nat /\ s.drafts \in Nat
    BY DEF SequenceRecords, RequestRecords
  <1>2. Window \in Nat /\ Capacity \in Nat /\ (Backend # "none" => Window >= 1)
    BY EngineFacts
  <1>3. s.E >= 1 /\ q.budget >= 1 /\ s.E + q.budget <= Capacity /\ s.drafts <= Window
    BY EngineFacts DEF Ready, Holding
  <1> QED BY <1>1, <1>2, <1>3

\* The drafts that a round verifies.
LEMMA ExtentFacts ==
    ASSUME engine \in Engines, NEW l, seq[l] \in SequenceRecords, req[l] \in RequestRecords,
           Ready(engine, seq[l], req[l], kv[l])
    PROVE  /\ Extent(l) \in Nat /\ Extent(l) <= Window /\ Extent(l) + 1 <= req[l].budget
           /\ seq[l].E + Extent(l) + 1 <= Capacity
  <1> DEFINE E == seq[l].E
             budget == req[l].budget
             drafts == seq[l].drafts
             x == Extent(l)
             c == Capacity - E - 1
             w == Window
             b == budget - 1
  <1>1. /\ E \in Nat /\ budget \in Nat /\ budget >= 1 /\ w \in Nat /\ Capacity \in Nat
        /\ E + budget <= Capacity /\ drafts \in Nat
    BY ReadyNumbers
  <1>2. /\ x = CASE Backend = "none" -> 0
                 [] Backend = "mtp" -> Min({drafts, w, b, c})
                 [] Backend = "dflash" -> Min({w, b, c})
    BY DEF Extent
  <1>3. Backend \in {"none", "mtp", "dflash"}
    BY EngineFacts
  <1> HIDE DEF E, budget, drafts, x, w
  <1>4. b \in Nat /\ c \in Nat
    BY <1>1
  <1> HIDE DEF b, c
  <1>7. drafts \in Int /\ w \in Int /\ b \in Int /\ c \in Int
    BY <1>1, <1>4
  <1>5. x \in Nat /\ x <= w /\ x <= b
    <2>1. CASE Backend = "none"
      BY <1>1, <1>2, <1>4, <2>1
    <2>2. CASE Backend = "mtp"
      <3> DEFINE y == Min({drafts, w, b, c})
      <3>1. y \in {drafts, w, b, c} /\ \A z \in {drafts, w, b, c} : y <= z
        <4>1. \E v \in {drafts, w, b, c} : \A z \in {drafts, w, b, c} : v <= z
          BY <1>7
        <4> QED BY <4>1 DEF Min
      <3> HIDE DEF y
      <3>2. y \in Nat /\ y <= w /\ y <= b
        BY <1>1, <1>4, <3>1
      <3> QED BY <1>2, <2>2, <3>2 DEF y
    <2>3. CASE Backend = "dflash"
      <3> DEFINE y == Min({w, b, c})
      <3>1. y \in {w, b, c} /\ \A z \in {w, b, c} : y <= z
        BY <1>7, LeastOfThree
      <3> HIDE DEF y
      <3>2. y \in Nat /\ y <= w /\ y <= b
        BY <1>1, <1>4, <3>1
      <3> QED BY <1>2, <2>3, <3>2 DEF y
    <2> QED BY <1>3, <2>1, <2>2, <2>3
  <1>6. x + 1 <= budget /\ E + x + 1 <= Capacity
    BY <1>1, <1>5 DEF b
  <1> QED BY <1>5, <1>6 DEF E, budget, x, w

\* The tokens that a round licenses.
LEMMA LicensedFacts ==
    ASSUME engine \in Engines, NEW l, Extent(l) \in Nat, NEW tokens \in LicensedRows(l)
    PROVE  /\ tokens \in Seq(STRING) /\ Len(tokens) \in Nat
           /\ 1 <= Len(tokens) /\ Len(tokens) <= Extent(l) + 1
  <1> DEFINE x == Extent(l)
  <1>1. PICK a \in 0 .. x : tokens \in [1 .. a + 1 -> Tokens]
    BY DEF LicensedRows
  <1> HIDE DEF x
  <1>2. Tokens \subseteq STRING
    BY EngineFacts
  <1>3. x \in Nat /\ a \in Nat /\ a <= x
    BY DEF x
  <1>4. tokens \in [1 .. a + 1 -> STRING]
    BY <1>1, <1>2
  <1>5. tokens \in Seq(STRING) /\ Len(tokens) = a + 1
    BY <1>3, <1>4
  <1>6. a + 1 >= 1 /\ a + 1 <= x + 1 /\ a + 1 \in Nat
    BY <1>3
  <1> QED BY <1>5, <1>6 DEF x

\* The inputs of the verified columns.
LEMMA InputFacts ==
    ASSUME engine \in Engines, NEW l, seq[l] \in SequenceRecords, Extent(l) \in Nat,
           seq[l].S >= 1, Len(seq[l].ledger) = seq[l].S, NEW tokens \in Seq(STRING)
    PROVE  VerifyInputs(l, tokens) \in Seq(Inputs) /\ Len(VerifyInputs(l, tokens)) = Extent(l) + 1
  <1> DEFINE s == seq[l]
             n == Extent(l) + 1
             v == VerifyInputs(l, tokens)
             in(j) == CASE j = 1 -> s.ledger[s.S]
                        [] j > 1 /\ j <= Len(tokens) -> tokens[j - 1]
                        [] OTHER -> Rejected
  <1>1. v = [j \in 1 .. n |-> in(j)]
    BY DEF VerifyInputs
  <1>2. s.ledger \in Seq(STRING) /\ s.S \in Nat /\ s.S >= 1 /\ s.S \in 1 .. Len(s.ledger)
    BY DEF SequenceRecords
  <1>3. s.ledger[s.S] \in STRING
    BY <1>2
  <1>4. \A j \in 1 .. n : in(j) \in Inputs
    <2> SUFFICES ASSUME NEW j \in 1 .. n PROVE in(j) \in Inputs
      OBVIOUS
    <2>1. CASE j = 1
      BY <1>3, <2>1 DEF Inputs
    <2>2. CASE j > 1 /\ j <= Len(tokens)
      <3>1. n \in Nat /\ j \in Nat
        OBVIOUS
      <3> HIDE DEF n
      <3>2. j - 1 \in 1 .. Len(tokens)
        BY <2>2, <3>1
      <3>3. tokens[j - 1] \in STRING
        BY <3>2
      <3>4. j # 1
        BY <2>2, <3>1
      <3>5. in(j) = tokens[j - 1]
        BY <2>2, <3>4
      <3> QED BY <3>3, <3>5 DEF Inputs
    <2>3. CASE j # 1 /\ ~(j > 1 /\ j <= Len(tokens))
      <3>1. in(j) = Rejected
        BY <2>3
      <3> QED BY <3>1 DEF Inputs
    <2> QED BY <2>1, <2>2, <2>3
  <1>5. n \in Nat
    OBVIOUS
  <1> HIDE DEF n, in, v
  <1>6. v \in [1 .. n -> Inputs]
    BY <1>1, <1>4
  <1>7. v \in Seq(Inputs) /\ Len(v) = n
    BY <1>5, <1>6
  <1> QED BY <1>7 DEF v, n

\* The drafts of the next round, and how far the MTP head writes.
LEMMA NextDrafts ==
    ASSUME engine \in Engines, NEW l, seq[l] \in SequenceRecords, req[l] \in RequestRecords,
           Ready(engine, seq[l], req[l], kv[l]), NEW m \in Nat, m <= Extent(l) + 1
    PROVE  LET next == NextExtent(l, m)
               end == seq[l].E + m
           IN /\ next \in Nat /\ next <= Window
              /\ Backend # "none" =>
                    /\ MtpReach(l) \in Nat /\ MtpReach(l) <= Capacity
                    /\ MtpReach(l) <= seq[l].E + Extent(l) + Window
                    /\ end <= MtpReach(l)
                    /\ end + Max({0, next - 1}) \in Nat
                    /\ end + Max({0, next - 1}) <= MtpReach(l)
  <1> DEFINE E == seq[l].E
             budget == req[l].budget
             x == Extent(l)
             w == Window
             C == Capacity
             a == Max({0, budget - m - 1})
             b == C - (E + m) - 1
             y == Min({w, a, b})
             next == NextExtent(l, m)
             end == E + m
             reach == MtpReach(l)
  <1>1. /\ E \in Nat /\ budget \in Nat /\ budget >= 1 /\ w \in Nat /\ C \in Nat
        /\ E + budget <= C /\ (Backend # "none" => w >= 1)
    BY ReadyNumbers
  <1>2. x \in Nat /\ x <= w /\ x + 1 <= budget /\ E + x + 1 <= C /\ m <= x + 1
    BY ExtentFacts
  <1>3. next = Max({0, y})
    BY DEF NextExtent
  <1>4. reach = Min({C, E + x + w})
    BY DEF MtpReach
  <1> HIDE DEF E, budget, x, w, C, next, reach
  <1>5. budget - m - 1 \in Int /\ b \in Int /\ 0 \in Int /\ E + x + w \in Int /\ C \in Int
    BY <1>1, <1>2
  <1>6. a \in Nat
    <2> DEFINE z == budget - m - 1
    <2> HIDE DEF z
    <2>1. z \in Int
      BY <1>5 DEF z
    <2>2. Max({0, z}) = IF 0 <= z THEN z ELSE 0
      BY <2>1, TwoNumbers
    <2>3. Max({0, z}) \in Nat
      BY <2>1, <2>2
    <2> QED BY <2>3 DEF z
  <1> HIDE DEF a
  <1>7. y \in Int /\ y <= w /\ y <= b
    <2> HIDE DEF b
    <2>1. w \in Int /\ a \in Int /\ b \in Int
      BY <1>1, <1>5, <1>6
    <2>2. y \in {w, a, b} /\ \A z \in {w, a, b} : y <= z
      BY <2>1, LeastOfThree
    <2> HIDE DEF y
    <2> QED BY <2>1, <2>2
  <1> HIDE DEF y
  <1>8. next = IF 0 <= y THEN y ELSE 0
    BY <1>3, <1>5, <1>7, TwoNumbers
  <1>9. next \in Nat /\ next <= w /\ (next # 0 => next <= b)
    BY <1>1, <1>7, <1>8
  <1>10. ASSUME Backend # "none"
         PROVE  /\ reach \in Nat /\ reach <= C /\ reach <= E + x + w
                /\ end <= reach /\ end + Max({0, next - 1}) \in Nat
                /\ end + Max({0, next - 1}) <= reach
    <2>1. reach = IF C <= E + x + w THEN C ELSE E + x + w
      <3> DEFINE z == E + x + w
      <3> HIDE DEF z
      <3>1. z \in Int
        BY <1>5 DEF z
      <3>2. Min({C, z}) = IF C <= z THEN C ELSE z
        BY <1>5, <3>1, TwoNumbers
      <3> QED BY <1>4, <3>2 DEF z
    <2>2. reach \in Nat /\ reach <= C /\ reach <= E + x + w /\ (reach = C \/ reach = E + x + w)
      BY <1>1, <1>2, <2>1
    <2>3. end \in Nat /\ end <= C /\ end <= E + x + w
      BY <1>1, <1>2, <1>10
    <2>4. Max({0, next - 1}) = IF next = 0 THEN 0 ELSE next - 1
      <3> DEFINE z == next - 1
      <3>1. z \in Int /\ (0 <= z <=> next # 0)
        BY <1>9
      <3> HIDE DEF z
      <3>2. Max({0, z}) = IF 0 <= z THEN z ELSE 0
        BY <3>1, TwoNumbers
      <3> QED BY <3>1, <3>2 DEF z
    <2> DEFINE g == Max({0, next - 1})
    <2> HIDE DEF g
    <2>5. g = IF next = 0 THEN 0 ELSE next - 1
      BY <2>4 DEF g
    <2>6. end + g \in Nat /\ end + g <= C /\ end + g <= E + x + w
      <3>1. CASE next = 0
        BY <2>3, <2>5, <3>1
      <3>2. CASE next # 0
        <4>1. g = next - 1 /\ next <= C - (E + m) - 1 /\ next <= w
          BY <1>9, <2>5, <3>2
        <4> QED BY <1>1, <1>2, <1>9, <3>2, <4>1
      <3> QED BY <3>1, <3>2
    <2> QED BY <2>2, <2>3, <2>6 DEF g
  <1> QED BY <1>9, <1>10 DEF E, x, w, C, next, reach

\* The bundle of a running lane has grown to n columns and b columns of the backend.
Grown(l, y, reserved, n, b) ==
    /\ IsView(y) /\ y.seq = seq[l] /\ y.bad = {}
    /\ y.kv \in Bundles /\ Holding(engine, seq[l], y.kv, reserved)
    /\ y.kv.text.ent = kv[l].text.ent /\ y.kv.backend.ent = kv[l].backend.ent
    /\ PagesForTokens(n) <= y.kv.text.map /\ PagesForTokens(b) <= y.kv.backend.map
    /\ kv[l].backend.map <= y.kv.backend.map

LEMMA GrowLane ==
    ASSUME engine \in Engines, NEW l, kv[l] \in Bundles, NEW reserved \in Nat,
           Holding(engine, seq[l], kv[l], reserved),
           NEW n \in Nat, n <= reserved, NEW b \in Nat, b <= Capacity,
           PagesForTokens(b) <= BackendShare(engine, reserved)
    PROVE  Grown(l, Materialize(View(l), n, b), reserved, n, b)
  <1> DEFINE x == View(l)
             y == Materialize(x, n, b)
             k == kv[l]
  <1>1. IsView(x) /\ x.seq = seq[l] /\ x.kv = k /\ x.bad = {}
    BY ViewFacts
  <1>2. /\ reserved <= Capacity /\ k.held /\ k.bound /\ ~seq[l].retained
        /\ k.text.ent = PagesForTokens(reserved) /\ k.backend.ent = BackendShare(engine, reserved)
        /\ k.text.map <= k.text.ent /\ k.backend.map <= k.backend.ent
    BY EngineFacts DEF Holding
  <1>3. PagesForTokens(n) <= PagesForTokens(reserved) /\ n <= Capacity
    BY <1>2, PagesFacts, EngineFacts
  <1> HIDE DEF x, k
  <1>4. /\ x.kv \in Bundles /\ x.kv.held /\ PagesForTokens(n) <= x.kv.text.ent
        /\ PagesForTokens(b) <= x.kv.backend.ent
        /\ x.kv.text.map <= x.kv.text.ent /\ x.kv.backend.map <= x.kv.backend.ent
    BY <1>1, <1>2, <1>3 DEF k
  <1>5. /\ IsView(y) /\ y.seq = x.seq /\ y.dev = x.dev /\ y.bad = x.bad
        /\ y.kv \in Bundles /\ y.kv.held /\ y.kv.bound = x.kv.bound
        /\ y.kv.text.ent = x.kv.text.ent /\ y.kv.backend.ent = x.kv.backend.ent
        /\ y.kv.text.map <= x.kv.text.ent /\ y.kv.backend.map <= x.kv.backend.ent
        /\ PagesForTokens(n) <= y.kv.text.map
        /\ PagesForTokens(b) <= y.kv.backend.map /\ x.kv.backend.map <= y.kv.backend.map
    BY <1>1, <1>3, <1>4, MaterializeFacts
  <1> HIDE DEF y
  <1>6. Holding(engine, seq[l], y.kv, reserved)
    BY <1>1, <1>2, <1>5, EngineFacts DEF Holding
  <1>7. Grown(l, y, reserved, n, b)
    BY <1>1, <1>5, <1>6 DEF Grown, k
  <1> QED BY <1>7 DEF x, y

\* A write to columns that are there changes no books.
LEMMA GrownWrite ==
    ASSUME NEW l, NEW y, NEW reserved, NEW n \in Nat, NEW b \in Nat, Grown(l, y, reserved, n, b),
           NEW last \in Nat, NEW cells
    PROVE  /\ last <= n => Grown(l, WriteText(y, last, cells), reserved, n, b)
           /\ last <= b => Grown(l, WriteMtp(y, last, cells), reserved, n, b)
           /\ last <= b => Grown(l, AppendContext(y, last, cells), reserved, n, b)
  <1>1. /\ IsView(y) /\ y.kv \in Bundles /\ y.kv.text \in PageCounts /\ y.kv.backend \in PageCounts
        /\ PagesForTokens(n) <= y.kv.text.map /\ PagesForTokens(b) <= y.kv.backend.map
        /\ y.kv.text.map \in Nat /\ y.kv.backend.map \in Nat
    BY BundleFacts DEF Grown
  <1>2. last <= n => last <= Mapped(y.kv.text)
    <2>1. last <= n => PagesForTokens(last) <= y.kv.text.map
      BY <1>1, PagesFacts
    <2> QED BY <1>1, <2>1, MappedFacts
  <1>3. last <= b => last <= Mapped(y.kv.backend)
    <2>1. last <= b => PagesForTokens(last) <= y.kv.backend.map
      BY <1>1, PagesFacts
    <2> QED BY <1>1, <2>1, MappedFacts
  <1>4. ASSUME NEW z, SameBooks(y, z) PROVE Grown(l, z, reserved, n, b)
    BY <1>4 DEF Grown, SameBooks
  <1>5. last <= n => SameBooks(y, WriteText(y, last, cells))
    BY <1>1, <1>2, WriteFacts
  <1>6. last <= b => /\ SameBooks(y, WriteMtp(y, last, cells))
                     /\ SameBooks(y, AppendContext(y, last, cells))
    BY <1>1, <1>3, WriteFacts
  <1> QED BY <1>4, <1>5, <1>6

\* What a round leaves in the lane.
LEMMA RoundedLane ==
    ASSUME engine \in Engines, NEW l, LaneOK(engine, seq[l], req[l], kv[l]),
           req[l].life = "Active", NEW tokens \in LicensedRows(l),
           NEW y, IsView(y), y.bad = {}, y.seq \in SequenceRecords, y.kv \in Bundles,
           Holding(engine, y.seq, y.kv, seq[l].E + req[l].budget),
           y.kv.text.ent = kv[l].text.ent, y.kv.backend.ent = kv[l].backend.ent,
           PagesForTokens(seq[l].E + Len(tokens)) <= y.kv.text.map,
           y.seq.E = seq[l].E, y.seq.S = seq[l].S, y.seq.ckpt = seq[l].ckpt,
           y.seq.drafts = seq[l].drafts,
           IF Backend = "none"
             THEN /\ y.seq.textValid = seq[l].E + 1 /\ y.seq.tailValid
                  /\ Len(y.seq.ledger) = seq[l].S + 1 /\ Len(y.seq.pos) = seq[l].S + 1
             ELSE /\ y.seq.textValid = seq[l].E /\ Behind(engine, y.seq) = seq[l].E
                  /\ y.seq.ledger = seq[l].ledger /\ y.seq.pos = seq[l].pos
                  /\ PagesForTokens(seq[l].E) <= y.kv.backend.map
                  /\ Backend = "mtp" => PagesForTokens(seq[l].E + Len(tokens)) <= y.kv.backend.map
    PROVE  Kept(l, y, [req[l] EXCEPT !.life = "Pending", !.pending = PendingRow(l, tokens)])
  <1> DEFINE s == seq[l]
             q == req[l]
             k == kv[l]
             row == PendingRow(l, tokens)
             r == [q EXCEPT !.life = "Pending", !.pending = row]
             m == Len(tokens)
  <1>1. /\ s \in SequenceRecords /\ q \in RequestRecords /\ k \in Bundles
        /\ Ready(engine, s, q, k)
    BY DEF LaneOK
  <1>2. /\ s.E \in Nat /\ s.E >= 1 /\ q.budget \in Nat /\ q.budget >= 1 /\ Window \in Nat
    BY <1>1, ReadyNumbers
  <1>3. Extent(l) \in Nat /\ Extent(l) <= Window /\ Extent(l) + 1 <= q.budget
    BY <1>1, ExtentFacts
  <1>4. tokens \in Seq(STRING) /\ m \in Nat /\ 1 <= m /\ m <= Extent(l) + 1
    BY <1>3, LicensedFacts
  <1>5. m <= q.budget /\ m <= engine.window + 1
    BY <1>2, <1>3, <1>4, EngineFacts
  <1>6. NextExtent(l, m) \in Nat /\ NextExtent(l, m) <= Window
    BY <1>1, <1>4, NextDrafts
  <1>7. /\ s.S = s.E + 1 /\ Len(s.ledger) = s.S /\ Len(s.pos) = s.S /\ s.S \in Nat
        /\ s.drafts <= engine.window /\ s.ckpt.at <= s.E /\ q.work >= q.budget
    BY <1>1 DEF Ready, SequenceRecords
  <1>8. VerifyInputs(l, tokens) \in Seq(Inputs)
    BY <1>1, <1>2, <1>3, <1>4, <1>7, InputFacts
  <1>9. /\ row.kind = (IF Backend = "none" THEN "ordinary" ELSE "speculative")
        /\ row.baseE = s.E /\ row.baseS = s.S /\ row.tokens = tokens
        /\ row.next \in Nat /\ row.next <= engine.window
        /\ row \in PendingRecords
    <2> DEFINE v == VerifyInputs(l, tokens)
               next == IF Backend = "mtp" THEN NextExtent(l, m) ELSE 0
               kind == IF Backend = "none" THEN "ordinary" ELSE "speculative"
    <2>1. row = [kind |-> kind, baseE |-> s.E, baseS |-> s.S, tokens |-> tokens,
                 columns |-> v, next |-> next]
      BY DEF PendingRow
    <2>2. next \in Nat /\ next <= engine.window
      BY <1>2, <1>6, EngineFacts
    <2>3. kind \in {"none", "begin", "ordinary", "speculative"}
      OBVIOUS
    <2> HIDE DEF v, next, kind, row
    <2>4. row \in PendingRecords
      BY <1>2, <1>4, <1>7, <1>8, <2>1, <2>2, <2>3 DEF PendingRecords, v
    <2>5. /\ row.kind = kind /\ row.baseE = s.E /\ row.baseS = s.S /\ row.tokens = tokens
          /\ row.next = next
      BY <2>1
    <2> QED BY <2>2, <2>4, <2>5 DEF kind
  <1> HIDE DEF row, s, q, k
  <1>10. r \in RequestRecords /\ r.life = "Pending" /\ r.pending = row /\ r.budget = q.budget
         /\ r.work = q.work
    BY <1>1, <1>9 DEF RequestRecords
  <1> HIDE DEF r
  <1>11. r.pending.kind # "begin"
    BY <1>9, <1>10
  <1>12. Rounded(engine, y.seq, r, y.kv)
    <2>1. Holding(engine, y.seq, y.kv, y.seq.E + r.budget)
      BY <1>10 DEF s, q
    <2>2. Len(r.pending.tokens) = m /\ r.pending.baseE = y.seq.E /\ r.pending.baseS = y.seq.S
      BY <1>9, <1>10 DEF s
    <2>3. 1 <= m /\ m <= r.budget /\ m <= engine.window + 1
      BY <1>4, <1>5, <1>10
    <2>4. PagesForTokens(y.seq.E + m) <= y.kv.text.map
      BY DEF s
    <2>5. CASE Backend = "none"
      <3>1. /\ r.pending.kind = "ordinary" /\ engine.backend = "none"
        BY <1>9, <1>10, <2>5, EngineFacts
      <3>2. /\ y.seq.textValid = y.seq.E + 1 /\ y.seq.tailValid
            /\ Len(y.seq.ledger) = y.seq.S + 1 /\ Len(y.seq.pos) = y.seq.S + 1
        BY <2>5
      <3> HIDE DEF m
      <3> QED BY <1>2, <1>7, <1>9, <1>10, <2>1, <2>2, <2>3, <2>4, <3>1, <3>2 DEF Rounded, s
    <2>6. CASE Backend # "none"
      <3>1. /\ r.pending.kind = "speculative" /\ engine.backend # "none"
            /\ engine.backend = Backend
        BY <1>9, <1>10, <2>6, EngineFacts
      <3>2. /\ y.seq.textValid = y.seq.E /\ Behind(engine, y.seq) = y.seq.E
            /\ Len(y.seq.ledger) = y.seq.S /\ Len(y.seq.pos) = y.seq.S
            /\ PagesForTokens(y.seq.E) <= y.kv.backend.map
            /\ Backend = "mtp" => PagesForTokens(y.seq.E + m) <= y.kv.backend.map
        BY <1>7, <2>6 DEF s
      <3> HIDE DEF m
      <3> QED BY <1>2, <1>7, <1>9, <1>10, <2>1, <2>2, <2>3, <2>4, <3>1, <3>2 DEF Rounded, s
    <2> QED BY <2>5, <2>6
  <1>13. LaneOK(engine, y.seq, r, y.kv)
    BY <1>10, <1>11, <1>12 DEF LaneOK
  <1>14. y.kv.text.ent <= kv[l].text.ent /\ y.kv.backend.ent <= kv[l].backend.ent
    BY BundleFacts
  <1> QED BY <1>13, <1>14 DEF Kept, r, q, row

LEMMA DecodeNumbers ==
    ASSUME engine \in Engines, NEW l, LaneOK(engine, seq[l], req[l], kv[l]),
           req[l].life = "Active", NEW tokens \in LicensedRows(l)
    PROVE  LET E == seq[l].E
               x == Extent(l)
               reserved == E + req[l].budget
           IN /\ seq[l] \in SequenceRecords /\ req[l] \in RequestRecords /\ kv[l] \in Bundles
              /\ Ready(engine, seq[l], req[l], kv[l])
              /\ E \in Nat /\ E >= 1 /\ x \in Nat /\ E + x + 1 \in Nat /\ E + x + 1 <= reserved
              /\ reserved \in Nat /\ reserved <= Capacity
              /\ Holding(engine, seq[l], kv[l], reserved)
              /\ tokens \in Seq(STRING) /\ Len(tokens) \in Nat /\ Len(tokens) >= 1
              /\ E + Len(tokens) \in Nat /\ E + Len(tokens) <= E + x + 1
              /\ Len(tokens) <= x + 1
              /\ PagesForTokens(E + Len(tokens)) <= PagesForTokens(E + x + 1)
              /\ PagesForTokens(E + x + 1) \in Nat
  <1> DEFINE E == seq[l].E
             x == Extent(l)
             b == req[l].budget
             m == Len(tokens)
  <1>1. /\ seq[l] \in SequenceRecords /\ req[l] \in RequestRecords /\ kv[l] \in Bundles
        /\ Ready(engine, seq[l], req[l], kv[l])
    BY DEF LaneOK
  <1>2. E \in Nat /\ E >= 1 /\ b \in Nat /\ b >= 1 /\ E + b <= Capacity
    BY <1>1, ReadyNumbers
  <1>3. x \in Nat /\ x + 1 <= b
    BY <1>1, ExtentFacts
  <1>4. tokens \in Seq(STRING) /\ m \in Nat /\ 1 <= m /\ m <= x + 1
    BY <1>3, LicensedFacts
  <1>5. Holding(engine, seq[l], kv[l], E + b)
    BY <1>1 DEF Ready
  <1> HIDE DEF E, x, b, m
  <1>6. /\ E + x + 1 \in Nat /\ E + x + 1 <= E + b /\ E + b \in Nat
        /\ E + m \in Nat /\ E + m <= E + x + 1
    BY <1>2, <1>3, <1>4
  <1>7. PagesForTokens(E + m) <= PagesForTokens(E + x + 1) /\ PagesForTokens(E + x + 1) \in Nat
    BY <1>6, PagesFacts
  <1> QED BY <1>1, <1>2, <1>3, <1>4, <1>5, <1>6, <1>7 DEF E, x, b, m

LEMMA OrdinaryRow ==
    ASSUME engine \in Engines, NEW l, LaneOK(engine, seq[l], req[l], kv[l]),
           req[l].life = "Active", NEW tokens \in LicensedRows(l), Backend = "none"
    PROVE  Kept(l, DecodeRow(l, tokens),
                [req[l] EXCEPT !.life = "Pending", !.pending = PendingRow(l, tokens)])
  <1> DEFINE s == seq[l]
             E == s.E
             reserved == E + req[l].budget
             inputs == VerifyInputs(l, tokens)
             g == Materialize(View(l), E + 1, 0)
             x == WriteText(g, E + 1, VerifyCells(l, inputs))
             lin == x.dev.lin \o inputs
             ledger == Append(x.seq.ledger, tokens[1])
             pos == Append(x.seq.pos, s.S + s.delta)
             y == [x EXCEPT !.dev.lin = lin, !.dev.tail = lin,
                            !.seq.textValid = E + 1, !.seq.tailValid = TRUE,
                            !.seq.ledger = ledger, !.seq.pos = pos]
  <1>1. /\ s \in SequenceRecords /\ kv[l] \in Bundles /\ Ready(engine, s, req[l], kv[l])
        /\ E \in Nat /\ Extent(l) \in Nat /\ E + Extent(l) + 1 <= reserved
        /\ reserved \in Nat /\ reserved <= Capacity /\ Holding(engine, s, kv[l], reserved)
        /\ tokens \in Seq(STRING) /\ Len(tokens) \in Nat /\ Len(tokens) >= 1
        /\ Len(tokens) <= Extent(l) + 1
    BY DecodeNumbers
  <1>2. Extent(l) = 0
    BY DEF Extent
  <1>3. DecodeRow(l, tokens) = y
    BY DEF DecodeRow, DecodeOrdinaryRow
  <1>4. /\ s.S = E + 1 /\ Len(s.ledger) = s.S /\ Len(s.pos) = s.S
    BY <1>1 DEF Ready
  <1> HIDE DEF s, inputs, g, x, lin, ledger, pos, y, reserved
  <1>5. E + 1 \in Nat /\ E + 1 <= reserved /\ Len(tokens) = 1
    <2> DEFINE x0 == Extent(l)
               m == Len(tokens)
    <2>1. /\ E \in Nat /\ x0 = 0 /\ E + x0 + 1 <= reserved /\ reserved \in Nat
          /\ m \in Nat /\ m >= 1 /\ m <= x0 + 1
      BY <1>1, <1>2
    <2> HIDE DEF E, x0, m
    <2>2. E + 1 \in Nat /\ E + 1 <= reserved /\ m = 1
      BY <2>1
    <2> QED BY <2>2 DEF m
  <1>6. Grown(l, g, reserved, E + 1, 0)
    <2>1. BackendShare(engine, reserved) = 0 /\ PagesForTokens(0) = 0
      BY PagesFacts, EngineFacts DEF BackendShare
    <2>2. 0 \in Nat /\ 0 <= Capacity /\ PagesForTokens(0) <= BackendShare(engine, reserved)
      BY <2>1, EngineFacts
    <2> HIDE DEF E
    <2> QED BY <1>1, <1>5, <2>2, GrowLane DEF g, s
  <1>7. Grown(l, x, reserved, E + 1, 0)
    BY <1>5, <1>6, GrownWrite DEF x
  <1>8. /\ IsView(x) /\ x.seq = s /\ x.bad = {} /\ x.kv \in Bundles
        /\ Holding(engine, s, x.kv, reserved)
        /\ x.kv.text.ent = kv[l].text.ent /\ x.kv.backend.ent = kv[l].backend.ent
        /\ PagesForTokens(E + 1) <= x.kv.text.map
    BY <1>7 DEF Grown, s
  <1>9. /\ s.ledger \in Seq(STRING) /\ s.pos \in Seq(Int) /\ s.S \in Nat /\ s.delta \in Int
    BY <1>1 DEF SequenceRecords
  <1>10. ledger \in Seq(STRING) /\ Len(ledger) = s.S + 1
    <2>1. tokens[1] \in STRING
      <3>1. tokens \in Seq(STRING) /\ 1 \in 1 .. Len(tokens)
        BY <1>1, <1>5
      <3> QED BY <3>1
    <2>2. ledger = Append(s.ledger, tokens[1])
      BY <1>8 DEF ledger
    <2> QED BY <1>4, <1>9, <2>1, <2>2
  <1>11. pos \in Seq(Int) /\ Len(pos) = s.S + 1
    <2>1. s.S + s.delta \in Int
      BY <1>9
    <2>2. pos = Append(s.pos, s.S + s.delta)
      BY <1>8 DEF pos
    <2> QED BY <1>4, <1>9, <2>1, <2>2
  <1>12. /\ IsView(y) /\ y.bad = {} /\ y.kv = x.kv
         /\ y.seq = [x.seq EXCEPT !.textValid = E + 1, !.tailValid = TRUE,
                                  !.ledger = ledger, !.pos = pos]
    BY <1>8 DEF y, IsView, ViewFields
  <1>13. /\ y.seq \in SequenceRecords /\ y.seq.E = E /\ y.seq.S = s.S /\ y.seq.ckpt = s.ckpt
         /\ y.seq.drafts = s.drafts /\ y.seq.textValid = E + 1 /\ y.seq.tailValid
         /\ y.seq.ledger = ledger /\ y.seq.pos = pos /\ y.seq.retained = s.retained
    <2> DEFINE n == E + 1
    <2>1. y.seq = [s EXCEPT !.textValid = n, !.tailValid = TRUE, !.ledger = ledger, !.pos = pos]
      BY <1>8, <1>12
    <2>2. n \in Nat
      BY <1>5
    <2> HIDE DEF n
    <2>3. y.seq \in SequenceRecords
      BY <1>1, <1>10, <1>11, <2>1, <2>2 DEF SequenceRecords
    <2>4. /\ y.seq.E = E /\ y.seq.S = s.S /\ y.seq.ckpt = s.ckpt
          /\ y.seq.drafts = s.drafts /\ y.seq.textValid = n /\ y.seq.tailValid
          /\ y.seq.ledger = ledger /\ y.seq.pos = pos /\ y.seq.retained = s.retained
      BY <1>1, <2>1 DEF SequenceRecords
    <2> QED BY <2>3, <2>4 DEF n
  <1>14. Holding(engine, y.seq, y.kv, reserved)
    BY <1>8, <1>12, <1>13 DEF Holding
  <1>15. Kept(l, y, [req[l] EXCEPT !.life = "Pending", !.pending = PendingRow(l, tokens)])
    <2>1. /\ y.kv \in Bundles /\ y.kv.text.ent = kv[l].text.ent
          /\ y.kv.backend.ent = kv[l].backend.ent
          /\ PagesForTokens(seq[l].E + Len(tokens)) <= y.kv.text.map
      BY <1>5, <1>8, <1>12 DEF s
    <2>2. /\ y.seq.E = seq[l].E /\ y.seq.S = seq[l].S /\ y.seq.ckpt = seq[l].ckpt
          /\ y.seq.drafts = seq[l].drafts
          /\ y.seq.textValid = seq[l].E + 1 /\ y.seq.tailValid
          /\ Len(y.seq.ledger) = seq[l].S + 1 /\ Len(y.seq.pos) = seq[l].S + 1
      BY <1>10, <1>11, <1>13 DEF s
    <2>3. Holding(engine, y.seq, y.kv, seq[l].E + req[l].budget)
      BY <1>14 DEF reserved, s
    <2> QED BY <1>12, <1>13, <2>1, <2>2, <2>3, RoundedLane
  <1> QED BY <1>3, <1>15

LEMMA MtpRow ==
    ASSUME engine \in Engines, NEW l, LaneOK(engine, seq[l], req[l], kv[l]),
           req[l].life = "Active", NEW tokens \in LicensedRows(l), Backend = "mtp"
    PROVE  Kept(l, DecodeRow(l, tokens),
                [req[l] EXCEPT !.life = "Pending", !.pending = PendingRow(l, tokens)])
  <1> DEFINE s == seq[l]
             E == s.E
             n == E + Extent(l) + 1
             reach == MtpReach(l)
             reserved == E + req[l].budget
             inputs == VerifyInputs(l, tokens)
             g == Materialize(View(l), n, reach)
             x == WriteText(g, n, VerifyCells(l, inputs))
             end == E + Len(tokens)
             cells == [i \in E + 1 .. end |->
                          MtpCell(Feature(i, inputs[i - E]), tokens[i - E])]
             a == WriteMtp(x, end, cells)
             next == NextExtent(l, Len(tokens))
             last == end + Max({0, next - 1})
             drafts == [i \in end + 1 .. last |-> MtpCell(LostFeature, Rejected)]
             w == WriteMtp(a, last, drafts)
             tail == x.dev.lin \o SubSeq(inputs, 1, Len(tokens))
             y == [w EXCEPT !.dev.tail = tail]
  <1>1. /\ s \in SequenceRecords /\ req[l] \in RequestRecords /\ kv[l] \in Bundles
        /\ Ready(engine, s, req[l], kv[l])
        /\ E \in Nat /\ Extent(l) \in Nat /\ n \in Nat /\ n <= reserved
        /\ reserved \in Nat /\ reserved <= Capacity /\ Holding(engine, s, kv[l], reserved)
        /\ tokens \in Seq(STRING) /\ Len(tokens) \in Nat /\ Len(tokens) <= Extent(l) + 1
        /\ end \in Nat /\ end <= n /\ PagesForTokens(end) <= PagesForTokens(n)
        /\ PagesForTokens(n) \in Nat
    BY DecodeNumbers
  <1>2. /\ reach \in Nat /\ reach <= Capacity /\ reach <= E + Extent(l) + Window
        /\ end <= reach /\ last \in Nat /\ last <= reach
    BY <1>1, NextDrafts
  <1>3. DecodeRow(l, tokens) = y
    BY DEF DecodeRow, DecodeMtpRow, WriteDrafts
  <1>4. s.textValid = E /\ s.mtpValid = E /\ PagesForTokens(Behind(engine, s)) <= kv[l].backend.map
    BY <1>1, EngineFacts DEF Ready
  <1>5. PagesForTokens(reach) <= BackendShare(engine, reserved)
    <2> DEFINE z == reserved + engine.window - 1
               e == Extent(l)
               b == req[l].budget
    <2>1. /\ engine.window \in Nat /\ engine.window >= 1 /\ Window = engine.window
          /\ Capacity = engine.capacity /\ Capacity \in Nat
      BY EngineFacts
    <2>2. e + 1 <= b /\ b \in Nat /\ e \in Nat
      BY <1>1, ExtentFacts DEF RequestRecords
    <2>3. /\ reach \in Nat /\ reach <= Capacity /\ reach <= E + e + engine.window
          /\ z = E + b + engine.window - 1 /\ E \in Nat
      BY <1>1, <1>2, <2>1
    <2>4. BackendShare(engine, reserved) = PagesForTokens(Min({Capacity, z}))
      BY <2>1, EngineFacts DEF BackendShare
    <2> HIDE DEF z, e, b, E, reach
    <2>5. z \in Int /\ Capacity \in Int /\ z \in Nat /\ reach <= z
      BY <2>1, <2>2, <2>3
    <2>6. Min({Capacity, z}) = IF Capacity <= z THEN Capacity ELSE z
      BY <2>5, TwoNumbers
    <2> DEFINE c == Min({Capacity, z})
    <2> HIDE DEF c
    <2>7. c \in Nat /\ reach <= c
      BY <2>1, <2>3, <2>5, <2>6 DEF c
    <2>8. PagesForTokens(reach) <= PagesForTokens(c)
      BY <2>3, <2>7, PagesFacts
    <2> QED BY <2>4, <2>8 DEF c
  <1> HIDE DEF s, n, reach, reserved, inputs, g, x, end, cells, a, next, last, drafts, w, tail, y
  <1>6. Grown(l, g, reserved, n, reach)
    BY <1>1, <1>2, <1>5, GrowLane DEF g, s
  <1>7. Grown(l, x, reserved, n, reach)
    BY <1>1, <1>2, <1>6, GrownWrite DEF x
  <1>8. Grown(l, a, reserved, n, reach)
    BY <1>1, <1>2, <1>7, GrownWrite DEF a
  <1>9. Grown(l, w, reserved, n, reach)
    BY <1>1, <1>2, <1>8, GrownWrite DEF w
  <1>10. /\ IsView(w) /\ w.seq = s /\ w.bad = {} /\ w.kv \in Bundles
         /\ Holding(engine, s, w.kv, reserved)
         /\ w.kv.text.ent = kv[l].text.ent /\ w.kv.backend.ent = kv[l].backend.ent
         /\ PagesForTokens(n) <= w.kv.text.map /\ PagesForTokens(reach) <= w.kv.backend.map
         /\ kv[l].backend.map <= w.kv.backend.map
    BY <1>9 DEF Grown, s
  <1>11. IsView(y) /\ y.bad = {} /\ y.kv = w.kv /\ y.seq = s
    BY <1>10 DEF y, IsView, ViewFields
  <1>12. /\ PagesForTokens(end) <= y.kv.text.map /\ PagesForTokens(end) <= y.kv.backend.map
         /\ PagesForTokens(E) <= y.kv.backend.map
    <2>1. E \in Nat /\ E <= end
      <3> HIDE DEF E
      <3> QED BY <1>1 DEF end
    <2>2. E <= reach
      BY <1>1, <1>2, <2>1
    <2>3. w.kv.text.map \in Nat /\ w.kv.backend.map \in Nat
      BY <1>10, BundleFacts
    <2>4. PagesForTokens(end) <= w.kv.text.map
      BY <1>1, <1>10, <2>3, PagesSuffice
    <2>5. PagesForTokens(end) <= w.kv.backend.map
      BY <1>1, <1>2, <1>10, <2>3, PagesSuffice
    <2>6. PagesForTokens(E) <= w.kv.backend.map
      BY <1>2, <1>10, <2>1, <2>2, <2>3, PagesSuffice
    <2> QED BY <1>11, <2>4, <2>5, <2>6
  <1>13. Behind(engine, y.seq) = E
    BY <1>1, <1>4, <1>11, BehindFacts
  <1>14. Kept(l, y, [req[l] EXCEPT !.life = "Pending", !.pending = PendingRow(l, tokens)])
    <2>1. /\ y.kv \in Bundles /\ y.kv.text.ent = kv[l].text.ent
          /\ y.kv.backend.ent = kv[l].backend.ent
          /\ PagesForTokens(seq[l].E + Len(tokens)) <= y.kv.text.map
          /\ PagesForTokens(seq[l].E) <= y.kv.backend.map
          /\ PagesForTokens(seq[l].E + Len(tokens)) <= y.kv.backend.map
      BY <1>10, <1>11, <1>12 DEF s, end
    <2>2. /\ y.seq.E = seq[l].E /\ y.seq.S = seq[l].S /\ y.seq.ckpt = seq[l].ckpt
          /\ y.seq.drafts = seq[l].drafts /\ y.seq \in SequenceRecords
          /\ y.seq.textValid = seq[l].E /\ Behind(engine, y.seq) = seq[l].E
          /\ y.seq.ledger = seq[l].ledger /\ y.seq.pos = seq[l].pos
      BY <1>1, <1>4, <1>11, <1>13 DEF s
    <2>3. Holding(engine, y.seq, y.kv, seq[l].E + req[l].budget)
      BY <1>10, <1>11 DEF reserved, s
    <2> QED BY <1>11, <2>1, <2>2, <2>3, RoundedLane
  <1> QED BY <1>3, <1>14

LEMMA DFlashRow ==
    ASSUME engine \in Engines, NEW l, LaneOK(engine, seq[l], req[l], kv[l]),
           req[l].life = "Active", NEW tokens \in LicensedRows(l), Backend = "dflash"
    PROVE  Kept(l, DecodeRow(l, tokens),
                [req[l] EXCEPT !.life = "Pending", !.pending = PendingRow(l, tokens)])
  <1> DEFINE s == seq[l]
             E == s.E
             n == E + Extent(l) + 1
             reserved == E + req[l].budget
             inputs == VerifyInputs(l, tokens)
             g == Materialize(View(l), n, E)
             old == [i \in s.dctx + 1 .. E |-> g.dev.features[i - s.dctx]]
             a == AppendContext(g, E, old)
             w == WriteText(a, n, VerifyCells(l, inputs))
             tail == g.dev.lin \o SubSeq(inputs, 1, Len(tokens))
             new == [j \in DOMAIN inputs |-> Feature(E + j, inputs[j])]
             y == [w EXCEPT !.dev.tail = tail, !.dev.features = new, !.seq.dctx = E]
             end == E + Len(tokens)
  <1>1. /\ s \in SequenceRecords /\ kv[l] \in Bundles /\ Ready(engine, s, req[l], kv[l])
        /\ E \in Nat /\ Extent(l) \in Nat /\ n \in Nat /\ n <= reserved
        /\ reserved \in Nat /\ reserved <= Capacity /\ Holding(engine, s, kv[l], reserved)
        /\ tokens \in Seq(STRING) /\ Len(tokens) \in Nat /\ Len(tokens) <= Extent(l) + 1
        /\ end \in Nat /\ end <= n
    BY DecodeNumbers
  <1>2. E <= reserved /\ E <= Capacity
    <2> DEFINE x == Extent(l)
    <2>1. E \in Nat /\ x \in Nat /\ E + x + 1 <= reserved /\ reserved \in Nat
          /\ reserved <= Capacity /\ Capacity \in Nat
      BY <1>1, EngineFacts
    <2> HIDE DEF E, x, reserved
    <2> QED BY <2>1
  <1>3. DecodeRow(l, tokens) = y
    BY DEF DecodeRow, DecodeDFlashRow
  <1>4. s.textValid = E
    BY <1>1 DEF Ready
  <1> HIDE DEF s, n, reserved, inputs, g, old, a, w, tail, new, y, end
  <1>5. PagesForTokens(E) <= BackendShare(engine, reserved)
    <2>1. BackendShare(engine, reserved) = PagesForTokens(reserved)
      BY EngineFacts DEF BackendShare
    <2> QED BY <1>1, <1>2, <2>1, PagesFacts
  <1>6. Grown(l, g, reserved, n, E)
    BY <1>1, <1>2, <1>5, GrowLane DEF g, s
  <1>7. Grown(l, a, reserved, n, E)
    BY <1>1, <1>6, GrownWrite DEF a
  <1>8. Grown(l, w, reserved, n, E)
    BY <1>1, <1>7, GrownWrite DEF w
  <1>9. /\ IsView(w) /\ w.seq = s /\ w.bad = {} /\ w.kv \in Bundles
        /\ Holding(engine, s, w.kv, reserved)
        /\ w.kv.text.ent = kv[l].text.ent /\ w.kv.backend.ent = kv[l].backend.ent
        /\ PagesForTokens(n) <= w.kv.text.map /\ PagesForTokens(E) <= w.kv.backend.map
    BY <1>8 DEF Grown, s
  <1>10. IsView(y) /\ y.bad = {} /\ y.kv = w.kv /\ y.seq = [s EXCEPT !.dctx = E]
    BY <1>9 DEF y, IsView, ViewFields
  <1>11. /\ y.seq \in SequenceRecords /\ y.seq.E = E /\ y.seq.S = s.S /\ y.seq.ckpt = s.ckpt
         /\ y.seq.drafts = s.drafts /\ y.seq.textValid = s.textValid /\ y.seq.dctx = E
         /\ y.seq.ledger = s.ledger /\ y.seq.pos = s.pos /\ y.seq.retained = s.retained
    BY <1>1, <1>10 DEF SequenceRecords
  <1>12. PagesForTokens(end) <= y.kv.text.map
    <2>1. w.kv.text.map \in Nat
      BY <1>9, BundleFacts
    <2> QED BY <1>1, <1>9, <1>10, <2>1, PagesSuffice
  <1>13. Behind(engine, y.seq) = E
    BY <1>11, BehindFacts
  <1>14. Kept(l, y, [req[l] EXCEPT !.life = "Pending", !.pending = PendingRow(l, tokens)])
    <2>1. /\ y.kv \in Bundles /\ y.kv.text.ent = kv[l].text.ent
          /\ y.kv.backend.ent = kv[l].backend.ent
          /\ PagesForTokens(seq[l].E + Len(tokens)) <= y.kv.text.map
          /\ PagesForTokens(seq[l].E) <= y.kv.backend.map
      BY <1>9, <1>10, <1>12 DEF s, end
    <2>2. /\ y.seq.E = seq[l].E /\ y.seq.S = seq[l].S /\ y.seq.ckpt = seq[l].ckpt
          /\ y.seq.drafts = seq[l].drafts /\ y.seq \in SequenceRecords
          /\ y.seq.textValid = seq[l].E /\ Behind(engine, y.seq) = seq[l].E
          /\ y.seq.ledger = seq[l].ledger /\ y.seq.pos = seq[l].pos
      BY <1>4, <1>11, <1>13 DEF s
    <2>3. Holding(engine, y.seq, y.kv, seq[l].E + req[l].budget)
      BY <1>9, <1>10, <1>11 DEF reserved, s, Holding
    <2> QED BY <1>10, <2>1, <2>2, <2>3, RoundedLane
  <1> QED BY <1>3, <1>14

\* A decode-ready lane passes the checks of a round.
LEMMA RowIsReady ==
    ASSUME engine \in Engines, NEW l, LaneOK(engine, seq[l], req[l], kv[l]),
           req[l].life = "Active", NEW tokens
    PROVE  Require(DecodeRow(l, tokens), RowReady(l)) = DecodeRow(l, tokens)
  <1>1. /\ seq[l] \in SequenceRecords /\ req[l] \in RequestRecords
        /\ Ready(engine, seq[l], req[l], kv[l])
    BY DEF LaneOK
  <1>2. RowReady(l)
    <2> DEFINE s == seq[l]
               E == s.E
               b == req[l].budget
               w == Window
    <2>1. /\ E \in Nat /\ b \in Nat /\ b >= 1 /\ w \in Nat /\ Capacity \in Nat
          /\ E + b <= Capacity /\ w = engine.window /\ Backend = engine.backend
      BY <1>1, ReadyNumbers, EngineFacts
    <2>2. /\ b >= 1 /\ kv[l].held /\ kv[l].bound
          /\ s.S = E + 1 /\ Len(s.ledger) = s.S /\ Len(s.pos) = s.S
          /\ s.textValid = E /\ s.drafts <= w
          /\ Backend = "mtp" => s.mtpValid = E
          /\ Backend = "dflash" => s.dctx <= E /\ E <= s.dctx + w + 1
      BY <1>1, <2>1 DEF Ready, Holding
    <2>3. s.dctx \in Nat
      BY <1>1 DEF SequenceRecords
    <2> HIDE DEF E, b, w
    <2>4. b > 0 /\ E < Capacity
      BY <2>1
    <2>5. Backend = "dflash" => s.dctx \in E - w - 1 .. E
      BY <2>1, <2>2, <2>3
    <2> QED BY <2>2, <2>4, <2>5 DEF RowReady, E, b, w
  <1>3. Require(DecodeRow(l, tokens), RowReady(l)) = DecodeRow(l, tokens)
    BY <1>2 DEF Require
  <1> QED BY <1>3

\* A round of a decode-ready lane passes its checks and leaves a round to resolve.
LEMMA DecodeKeeps ==
    ASSUME engine \in Engines, NEW l, LaneOK(engine, seq[l], req[l], kv[l]),
           req[l].life = "Active", NEW tokens \in LicensedRows(l)
    PROVE  Kept(l, Require(DecodeRow(l, tokens), RowReady(l)),
                [req[l] EXCEPT !.life = "Pending", !.pending = PendingRow(l, tokens)])
  <1>1. Require(DecodeRow(l, tokens), RowReady(l)) = DecodeRow(l, tokens)
    BY RowIsReady
  <1>2. Backend \in {"none", "mtp", "dflash"}
    BY EngineFacts
  <1> QED BY <1>1, <1>2, OrdinaryRow, MtpRow, DFlashRow
=============================================================================
