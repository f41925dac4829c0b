------------------------------- MODULE Program -------------------------------
(***************************************************************************)
(* The lanes of the Qwen3.6 Program                                        *)
(* (src/targets/qwen3_6/impl/runtime/program_impl.h): the sequence each    *)
(* lane holds, on the host and on the device, while requests are           *)
(* prefilled chunk by chunk, decoded in batches with or without            *)
(* speculation, cut short, cancelled, retained and continued by a later    *)
(* prompt that shares a prefix.                                            *)
(*                                                                         *)
(* Device tensors are represented by what they were computed from.  A      *)
(* cell of the text KV cache is the input of its column and the rotary     *)
(* position it was written at; the recurrent (GDN) state and a hidden      *)
(* vector are the sequence of inputs they summarise; a cell of the MTP     *)
(* cache is a hidden vector and the input that follows it; a cell of the   *)
(* DFlash context is the feature of its column.  The content of a page     *)
(* that went back to its pool is lost.                                     *)
(*                                                                         *)
(* The executor (module Executor) stages one prefill at a time, puts every *)
(* decode-ready lane into each round and resolves a round before it does   *)
(* anything else.                                                          *)
(***************************************************************************)
EXTENDS RequestPlan

CONSTANTS
    LocalCapacity,  \* columns of the cyclic DFlash local context
    MayCancel       \* whether callers cancel

ASSUME ProgramAssumption ==
    /\ LocalCapacity \in Nat \ {0} /\ MayCancel \in BOOLEAN
    /\ \A e \in Engines :
          /\ e.lanes \in Nat \ {0} /\ e.textPages \in Nat \ {0} /\ e.backendPages \in Nat
          /\ e.requests \in Nat /\ e.tokens \subseteq STRING

Lanes == 0 .. engine.lanes - 1       \* max_concurrency lanes
TextPages == engine.textPages        \* page groups of the text KV pool
BackendPages == engine.backendPages  \* page groups of the MTP or DFlash full-context pool
Prompts == engine.prompts            \* the prompts that may be submitted
Tokens == engine.tokens              \* the tokens the model may sample
MaxRequests == engine.requests       \* bound on the number of requests started

VARIABLES
    seq,      \* SequenceState of each lane
    req,      \* RequestControl of each lane, with the executor's budget for it
    kv,       \* the lane's KV bundle: entitled and mapped pages of both pools
    dev,      \* what the device holds for the lane
    frame,    \* io.dflash_decode->lanes[0] and dflash_host_ingress->lanes[0]
    started,  \* requests started so far
    err       \* what went wrong: "check" a check threw, "unmapped" a write had no page

vars == <<engine, seq, req, kv, dev, frame, started, err>>

-----------------------------------------------------------------------------
(* State.                                                                  *)

Rejected == "rejected"  \* a draft the target did not accept

\* The content of a page that was given back.
LostCell == [in |-> "lost", pos |-> -1]
LostFeature == <<0, "lost">>
LostMtp == [hidden |-> LostFeature, next |-> "lost"]

NoPages == [ent |-> 0, map |-> 0]
NoBundle == [held |-> FALSE, bound |-> FALSE, text |-> NoPages, backend |-> NoPages]

NoSequence ==
    [E |-> 0, S |-> 0, ledger |-> <<>>, pos |-> <<>>, items |-> <<>>, delta |-> 0,
     textValid |-> 0, mtpValid |-> 0, dctx |-> 0, drafts |-> 0, tailValid |-> FALSE,
     retained |-> FALSE, ckpt |-> NoCkpt]

NoPending == [kind |-> "none", baseE |-> 0, baseS |-> 0, tokens |-> <<>>,
              columns |-> <<>>, next |-> 0]
NoPrefill == [base |-> 0, cursor |-> 0]
NoRequest == [life |-> "Empty", pending |-> NoPending, prefill |-> NoPrefill,
              budget |-> 0, work |-> 0]

Blank == [kv |-> [i \in 1 .. Capacity |-> LostCell], lin |-> <<>>, tail |-> <<>>,
          ckLin |-> <<>>, ckHid |-> <<>>,
          mtp |-> [i \in 1 .. Capacity |-> LostMtp],
          full |-> [i \in 1 .. Capacity |-> LostFeature],
          local |-> [c \in 0 .. LocalCapacity - 1 |-> LostFeature],
          ckLocal |-> [c \in 0 .. LocalCapacity - 1 |-> LostFeature],
          features |-> <<>>]

Init ==
    /\ engine \in Engines
    /\ seq = [l \in Lanes |-> NoSequence]
    /\ req = [l \in Lanes |-> NoRequest]
    /\ kv = [l \in Lanes |-> NoBundle]
    /\ dev = [l \in Lanes |-> Blank]
    /\ frame = 0 /\ started = 0 /\ err = {}

Free(l) == req[l].life \in {"Empty", "Complete"}
Quiet == \A l \in Lanes : req[l].life # "Pending"

\* The value that stands for a hidden vector of column i or for the features the
\* target layers produce there.
Feature(i, input) == <<i, input>>
HiddenOf(history) == Feature(Len(history), history[Len(history)])

Column(s, i) == Meaning(s.ledger, s.items, i)
History(s, n) == [i \in 1 .. n |-> Column(s, i)]

\* A lane as the code's helpers see it. "bad" collects what went wrong.
View(l) == [seq |-> seq[l], kv |-> kv[l], dev |-> dev[l], bad |-> {}]

Require(x, condition) == IF condition THEN x ELSE [x EXCEPT !.bad = @ \cup {"check"}]
Mapped(pages) == pages.map * PageSize

\* backend_kv_valid
BackendValid(s) == CASE Backend = "mtp" -> s.mtpValid
                     [] Backend = "dflash" -> s.dctx
                     [] OTHER -> 0

\* clear_lane; the bundle's pages go back to their pools. (rope_delta, which
\* the code leaves, is assigned before it is read again.)
LostAfter(cells, n, lost) == [i \in 1 .. Capacity |-> IF i <= n THEN cells[i] ELSE lost]
WithPages(d, k) == [d EXCEPT !.kv = LostAfter(@, Mapped(k.text), LostCell),
                             !.mtp = LostAfter(@, Mapped(k.backend), LostMtp),
                             !.full = LostAfter(@, Mapped(k.backend), LostFeature)]
Cleared(x) == [x EXCEPT !.seq = NoSequence, !.kv = NoBundle, !.dev = WithPages(@, NoBundle)]

-----------------------------------------------------------------------------
(* The KV bundle of a lane: reserve, resize, bind, materialize, trim,      *)
(* release of the growth entitlement, unbind.                              *)

\* Mutant: only the pages in use are counted.
MappedElsewhere(k, l, pool) ==
    LET map == [m \in Lanes |-> k[m][pool].map]
    IN MapThenSumSet(LAMBDA m : map[m], Lanes \ {l})

Entitlements(k, pool) == [m \in Lanes |-> k[m][pool].ent]
EntitledElsewhere(k, l, pool) ==
    MapThenSumSet(LAMBDA m : Entitlements(k, pool)[m], Lanes \ {l})
PoolPages(pool) == IF pool = "text" THEN TextPages ELSE BackendPages

\* can_replace for one pool
Fits(k, l, pool, pages) == EntitledElsewhere(k, l, pool) + pages <= PoolPages(pool)

CanAdmitWith(k, l, plan) ==
    /\ Fits(k, l, "text", plan.text)
    /\ IF Backend = "none" THEN plan.backend = 0 ELSE Fits(k, l, "backend", plan.backend)

\* can_admit_lane
CanAdmitLane(l, plan) == Free(l) /\ CanAdmitWith(kv, l, plan)

\* can_admit_lane_after_retained_eviction
CanAdmitLaneAfterRetainedEviction(l, plan) ==
    /\ Free(l)
    /\ CanAdmitWith([m \in Lanes |-> IF m # l /\ seq[m].retained THEN NoBundle ELSE kv[m]],
                    l, plan)

Entitled(x, l, plan) ==
    LET y == [x EXCEPT !.kv = [@ EXCEPT !.held = TRUE, !.text.ent = plan.text,
                                        !.backend.ent = plan.backend]]
    IN Require(y, /\ CanAdmitWith(kv, l, plan)
                  /\ y.kv.text.map <= plan.text /\ y.kv.backend.map <= plan.backend)

\* bind_sequence_kv
Bind(x) == Require([x EXCEPT !.kv.bound = TRUE], x.kv.held /\ ~x.kv.bound)

\* materialize_sequence_kv
Materialize(x, n, b) ==
    LET text == Max({x.kv.text.map, PagesForTokens(n)})
        backend == Max({x.kv.backend.map, PagesForTokens(b)})
    IN Require([x EXCEPT !.kv = [@ EXCEPT !.text.map = text, !.backend.map = backend]],
               /\ x.kv.held /\ n <= Capacity /\ b <= Capacity
               /\ text <= x.kv.text.ent /\ backend <= x.kv.backend.ent)

\* trim_sequence_kv
Trim(x, n, b) ==
    LET k == [x.kv EXCEPT !.text.map = PagesForTokens(n), !.backend.map = PagesForTokens(b)]
    IN Require([x EXCEPT !.kv = k, !.dev = WithPages(@, k)],
               /\ x.kv.held /\ n <= Capacity /\ b <= n
               /\ k.text.map <= x.kv.text.map /\ k.backend.map <= x.kv.backend.map)

TrimToValid(x) == Trim(x, x.seq.textValid, BackendValid(x.seq))

\* release_sequence_growth_entitlement, unbind_sequence_kv, and the lane is retained
Retain(x) ==
    [x EXCEPT !.kv = [@ EXCEPT !.text.ent = x.kv.text.map, !.backend.ent = x.kv.backend.map,
                               !.bound = FALSE],
              !.seq = [@ EXCEPT !.retained = TRUE, !.drafts = 0]]

-----------------------------------------------------------------------------
(* Device writes.                                                          *)

\* New values for some of the cells.
Over(cells, new) ==
    [i \in 1 .. Capacity |-> IF i \in DOMAIN new THEN new[i] ELSE cells[i]]

NeedMapped(x, pool, n) ==
    IF n <= Mapped(x.kv[pool]) THEN x ELSE [x EXCEPT !.bad = @ \cup {"unmapped"}]

\* Writes to the columns up to last.
WriteText(x, last, cells) == NeedMapped([x EXCEPT !.dev.kv = Over(@, cells)], "text", last)
WriteMtp(x, last, cells) == NeedMapped([x EXCEPT !.dev.mtp = Over(@, cells)], "backend", last)

MtpCell(hidden, next) == [hidden |-> hidden, next |-> next]

\* The MTP head's own drafts are fed back to it: cells that no one may read.
WriteDrafts(x, first, last) ==
    WriteMtp(x, last, [i \in first .. last |-> MtpCell(LostFeature, Rejected)])

\* append_context: the full context grows, the local one is cyclic.
LocalSlot(i) == (i - 1) % LocalCapacity
AppendContext(x, last, features) ==
    LET newest(c) == {i \in DOMAIN features : LocalSlot(i) = c}
    IN NeedMapped([x EXCEPT
           !.dev.full = Over(@, features),
           !.dev.local = [c \in DOMAIN @ |-> IF newest(c) = {} THEN @[c]
                                             ELSE features[Max(newest(c))]]],
           "backend", last)

-----------------------------------------------------------------------------
(* start_prefill_lane: what happens before the first chunk.                *)

\* The MTP columns that survive a reuse: the last one also read the next token.
MtpBase(base) == IF base = 0 THEN 0 ELSE base - 1

\* How many tokens the MTP head proposes with the first token.
InitialMtpExtent(p, plan) ==
    IF Backend # "mtp" THEN 0
    ELSE Min({Window, Max({0, plan.output - 2}), Max({0, Capacity - Len(p.ids) - 1})})

FullReset(x, l, plan) ==
    LET y == [x EXCEPT !.kv = NoBundle, !.dev = [WithPages(@, NoBundle) EXCEPT !.lin = <<>>],
                       !.seq.textValid = 0, !.seq.mtpValid = 0, !.seq.dctx = 0]
    IN Entitled(y, l, plan)

AppendAtFrontier(x, l, plan) ==
    LET s == x.seq
        y == [x EXCEPT !.seq.textValid = plan.base,
                       !.seq.mtpValid = IF Backend = "mtp" THEN MtpBase(plan.base) ELSE @]
    IN Entitled(TrimToValid(Require(y,
           /\ s.textValid >= plan.base
           /\ Backend = "mtp" => s.mtpValid >= MtpBase(plan.base)
           /\ Backend = "dflash" => s.dctx = plan.base)), l, plan)

RestoreCheckpoint(x, l, plan) ==
    LET s == x.seq
        y == [x EXCEPT !.seq.textValid = plan.base,
                       !.seq.mtpValid = IF Backend = "mtp" THEN MtpBase(plan.base) ELSE @,
                       !.seq.dctx = IF Backend = "dflash" THEN plan.base ELSE @,
                       !.dev.local = IF Backend = "dflash" THEN x.dev.ckLocal ELSE @,
                       !.dev.lin = x.dev.ckLin]
    IN Entitled(TrimToValid(Require(y,
           /\ s.textValid >= plan.base
           /\ Backend = "mtp" => s.mtpValid >= MtpBase(plan.base)
           /\ Backend = "dflash" => s.dctx >= plan.base)), l, plan)

\* The continuation state of the chosen frontier, and the lane's tail hidden if
\* nothing of the prompt is left to compute.
Positioned(x, l, p, plan) ==
    LET y == CASE plan.reuse = "full" -> FullReset(x, l, plan)
               [] plan.reuse = "append" -> AppendAtFrontier(x, l, plan)
               [] OTHER -> RestoreCheckpoint(x, l, plan)
        exact == plan.base = Len(p.ids)
    IN IF exact /\ IsRestore(plan.reuse)
       THEN [y EXCEPT !.dev.tail = x.dev.ckHid, !.seq.tailValid = TRUE]
       ELSE [y EXCEPT !.seq.tailValid = exact /\ @]

\* The checkpoint the lane has from here on: capturing invalidates the old one.
CheckpointAtStart(p, s, action) ==
    CASE action \in {"drop", "capture"} -> NoCkpt
      [] action = "reclassify" -> [s.ckpt EXCEPT !.kind = p.ckpt.kind]
      [] OTHER -> s.ckpt

Prepared(l, p, plan) ==
    LET extent == InitialMtpExtent(p, plan)
        n == Len(p.ids)
        backend == CASE Backend = "mtp" -> Min({Capacity, n + Max({0, extent - 1})})
                     [] Backend = "dflash" -> n
                     [] OTHER -> 0
        x == [View(l) EXCEPT !.seq.retained = FALSE]
        y == Materialize(Bind(TrimToValid(Positioned(x, l, p, plan))), n, backend)
    IN [y EXCEPT !.seq.ledger = p.ids, !.seq.pos = p.pos, !.seq.items = p.items,
                 !.seq.delta = p.delta, !.seq.drafts = 0,
                 !.seq.ckpt = CheckpointAtStart(p, x.seq, plan.action)]

Staged(p, plan) ==
    [base |-> plan.base, cursor |-> plan.base, prompt |-> p, capture |-> plan.capture,
     uses |-> plan.uses, encoded |-> 0, bridge |-> plan.bridge, reuse |-> plan.reuse,
     extent |-> InitialMtpExtent(p, plan)]

-----------------------------------------------------------------------------
(* advance_prefill: one chunk.                                             *)

\* VisionPrefillSession::prepare_chunk: the uses that a chunk of the columns
\* b + 1 .. e touches. Only the first is encoded; the chunk ends before the next.
UsesOf(st, b, e) ==
    {k \in st.uses : /\ st.prompt.items[k].last > b
                     /\ UseBegin(Backend, st.prompt.items[k]) < e}
ActiveItem(st, b, e) == IF UsesOf(st, b, e) = {} THEN 0 ELSE Min(UsesOf(st, b, e))

CutAtNextUse(st, b, e) ==
    LET later == UsesOf(st, b, e) \ {ActiveItem(st, b, e)}
    IN IF later = {} THEN e
       ELSE Min({e, UseBegin(Backend, st.prompt.items[Min(later)])})

\* prefill_impl cuts a chunk at the frontier whose state must be captured.
ChunkLimit(st) ==
    LET nominal == Min({st.cursor + Chunk, Len(st.prompt.ids)})
    IN IF st.capture.at \in st.cursor + 1 .. nominal THEN st.capture.at ELSE nominal

ChunkEnd(st) == CutAtNextUse(st, st.cursor, ChunkLimit(st))

\* The embedding that column i reads when the given item is encoded.
Embedded(p, item, i) ==
    IF item # 0 /\ Covers(p.items[item], i) THEN p.items[item].content ELSE p.ids[i]

\* Only a multimodal chunk uses the prompt's positions: a text chunk continues
\* at the scalar index, because the TextContext of each step starts with a
\* rope_delta_ of zero and only the multimodal entry assigns it.
RopePosition(st, i) == IF st.uses = {} THEN i - 1 ELSE st.prompt.pos[i]

\* Encoding an item needs the items in order: an encoded item's patches are gone.
InOrder(st, item) == item = 0 \/ item >= st.encoded

\* mtp_bridge before the suffix: the last reused MTP column is computed again
\* with the first token of the suffix, from the hidden vector of the frontier.
BridgeBeforeSuffix(x, st) ==
    LET hidden == IF IsRestore(st.reuse) THEN x.dev.ckHid ELSE x.dev.tail
        item == ActiveItem(st, st.base, st.base + 1)
        next == Embedded(st.prompt, item, st.base + 1)
    IN [WriteMtp(x, st.base, [i \in {st.base} |-> MtpCell(HiddenOf(hidden), next)])
           EXCEPT !.seq.mtpValid = st.base]

\* The rewrite checkpoint is captured by the chunk that ends at its frontier.
Capture(x, st, e) ==
    IF st.capture.at # e THEN x
    ELSE [x EXCEPT !.dev.ckHid = x.dev.lin, !.dev.ckLin = x.dev.lin]

\* prefill_text_chunk or prefill_multimodal_chunk; token is what the last chunk
\* samples. The MTP column i pairs the hidden vector of i with the input of i + 1.
ComputeChunk(x, st, e, token) ==
    LET p == st.prompt
        n == Len(p.ids)
        item == ActiveItem(st, st.cursor, ChunkLimit(st))
        columns == st.cursor + 1 .. e
        input(i) == Embedded(p, item, i)
        shifted(i) == IF i = n THEN token ELSE Embedded(p, item, i + 1)
        cells == [i \in columns |-> [in |-> input(i), pos |-> RopePosition(st, i)]]
        mtp == [i \in columns |-> MtpCell(Feature(i, input(i)), shifted(i))]
        text == WriteText(Require(x, e > st.cursor /\ InOrder(st, item)), e, cells)
        drafted == IF e = n /\ st.extent # 0
                   THEN WriteDrafts(WriteMtp(text, e, mtp), n + 1, n + st.extent - 1)
                   ELSE WriteMtp(text, e, mtp)
        done == [IF Backend = "mtp" THEN drafted ELSE text EXCEPT
                    !.dev.lin = @ \o [j \in 1 .. e - st.cursor |-> input(st.cursor + j)],
                    !.seq.textValid = e,
                    !.seq.mtpValid = IF Backend = "mtp" THEN e ELSE @,
                    !.seq.dctx = IF Backend = "dflash" THEN e ELSE @]
    IN Capture(done, st, e)

ChunkFeatures(st, e) == [i \in st.cursor + 1 .. e |-> Feature(i, st.prompt.ids[i])]

\* The prompt was found whole: sample from the retained hidden vector and let the
\* MTP head read the new token after it.
SampleFromTail(x, st, token) ==
    LET n == Len(st.prompt.ids)
        y == WriteMtp(Require(x, st.bridge = "after"), n,
                      [i \in {n} |-> MtpCell(HiddenOf(x.dev.tail), token)])
        z == IF st.extent = 0 THEN y ELSE WriteDrafts(y, n + 1, n + st.extent - 1)
    IN Require(IF Backend = "mtp" THEN [z EXCEPT !.seq.mtpValid = n] ELSE x, x.seq.tailValid)

\* The sampled token becomes a pending candidate of the lane.
FinishPrefill(x, st, token) ==
    LET n == Len(st.prompt.ids)
    IN Require([x EXCEPT !.seq.ledger = Append(@, token), !.seq.pos = Append(@, n + x.seq.delta),
                         !.seq.textValid = n,
                         !.seq.drafts = IF Backend = "mtp" THEN st.extent ELSE @,
                         !.seq.tailValid = TRUE,
                         !.seq.ckpt = IF st.capture = NoCkpt THEN @ ELSE st.capture],
               /\ Len(x.seq.ledger) = n
               /\ Backend = "mtp" => x.seq.mtpValid = n
               /\ Backend = "dflash" => x.seq.dctx = n
               /\ x.seq.textValid >= st.capture.at)

\* Mutant: the suffix starts without the bridge.
AfterNoBridge(x, st) == x

AfterBridge(x, st) == IF st.bridge = "before" THEN BridgeBeforeSuffix(x, st) ELSE x

Advanced(x, st, token) ==
    LET n == Len(st.prompt.ids)
        e == ChunkEnd(st)
        y == AfterBridge(x, st)
        computed == ComputeChunk(y, st, e, token)
        tailed == [computed EXCEPT !.dev.tail = computed.dev.lin]
    IN CASE st.cursor = n -> FinishPrefill(SampleFromTail(x, st, token), st, token)
         [] st.cursor < n /\ e = n -> FinishPrefill(tailed, st, token)
         [] OTHER -> computed

NextPrefill(st) ==
    LET e == ChunkEnd(st)
        item == ActiveItem(st, st.cursor, ChunkLimit(st))
    IN [st EXCEPT !.cursor = e, !.encoded = IF item = 0 THEN @ ELSE item,
                  !.bridge = "none"]

AdvancedRequest(r, st, token) ==
    IF st.cursor = Len(st.prompt.ids) \/ ChunkEnd(st) = Len(st.prompt.ids)
    THEN [r EXCEPT !.life = "Pending", !.prefill = NoPrefill, !.work = @ - 1,
                   !.pending = [NoPending EXCEPT !.kind = "begin",
                                                 !.baseE = Len(st.prompt.ids),
                                                 !.tokens = <<token>>]]
    ELSE [r EXCEPT !.life = "Prefilling", !.prefill = NextPrefill(st), !.work = @ - 1]

\* A step of lane l produced x; g is the lane in the DFlash frame.
Apply(l, x, r, g, st) ==
    LET ok == x.bad = {}
        e == ChunkEnd(st)
        chunk == ok /\ Backend = "dflash" /\ e > st.cursor
        target == [seq |-> seq[g], dev |-> IF g = l THEN x.dev ELSE dev[g],
                   kv |-> IF g = l THEN x.kv ELSE kv[g], bad |-> {}]
        appended == AppendContext(target, e, ChunkFeatures(st, e))
        saved == IF st.capture.at = e
                 THEN [appended EXCEPT !.dev.ckLocal = appended.dev.local] ELSE appended
        y == IF ok THEN x ELSE Cleared(x)
        d == [dev EXCEPT ![l] = y.dev]
    IN /\ seq' = [seq EXCEPT ![l] = y.seq]
       /\ kv' = [kv EXCEPT ![l] = y.kv]
       /\ dev' = IF chunk THEN [d EXCEPT ![g] = saved.dev] ELSE d
       /\ req' = [req EXCEPT ![l] = IF ok THEN r ELSE NoRequest]
       /\ err' = err \cup x.bad \cup (IF chunk THEN saved.bad ELSE {})

StartPrefillLane(l, p, token) ==
    LET plan == PlanRequestForLane(p, seq[l])
        st == Staged(p, plan)
        r == [req[l] EXCEPT !.budget = plan.output, !.work = plan.work, !.pending = NoPending]
    IN /\ Quiet /\ started < MaxRequests
       /\ \A m \in Lanes : req[m].life # "Prefilling"
       /\ CanAdmitLane(l, plan)
       /\ Apply(l, Advanced(Prepared(l, p, plan), st, token), AdvancedRequest(r, st, token), l, st)
       /\ frame' = IF Backend = "dflash" THEN l ELSE frame
       /\ started' = started + 1
       /\ UNCHANGED engine

\* The features of a later chunk go to the lane and the table row that the decode
\* frame names, which is where the last upload of the frame left them.
AdvancePrefillLane(l, token) ==
    LET st == req[l].prefill
    IN /\ Quiet /\ req[l].life = "Prefilling"
       /\ Apply(l, Advanced(View(l), st, token), AdvancedRequest(req[l], st, token), frame, st)
       /\ UNCHANGED <<engine, frame, started>>

-----------------------------------------------------------------------------
(* decode_batch: one round over all decode-ready lanes.                    *)

ActiveLanes == {l \in Lanes : req[l].life = "Active"}

\* How many drafts of the lane are verified in this round.
Extent(l) ==
    LET byBudget == req[l].budget - 1
        byContext == Capacity - seq[l].E - 1
    IN CASE Backend = "none" -> 0
         [] Backend = "mtp" -> Min({seq[l].drafts, Window, byBudget, byContext})
         [] Backend = "dflash" -> Min({Window, byBudget, byContext})

\* The target accepts some of the drafts and adds a token of its own.
LicensedRows(l) == UNION {[1 .. a + 1 -> Tokens] : a \in 0 .. Extent(l)}

\* A row is decode-ready.
RowReady(l) ==
    LET s == seq[l]
    IN /\ req[l].budget > 0 /\ kv[l].held /\ kv[l].bound /\ s.E < Capacity
       /\ s.S = s.E + 1 /\ Len(s.ledger) = s.S /\ Len(s.pos) = s.S
       /\ Backend = "mtp" => s.mtpValid = s.E /\ s.drafts <= Window
       /\ Backend = "dflash" => s.textValid = s.E /\ s.dctx \in s.E - Window - 1 .. s.E

\* mtp_prepare_next_round: the drafts of the next round.
NextExtent(l, licensed) ==
    Max({0, Min({Window, Max({0, req[l].budget - licensed - 1}),
                 Capacity - (seq[l].E + licensed) - 1})})

\* The target forward of a row: it reads the anchor and the drafts, of which the
\* first Len(tokens) - 1 are accepted.
VerifyInputs(l, tokens) ==
    [j \in 1 .. Extent(l) + 1 |-> CASE j = 1 -> seq[l].ledger[seq[l].S]
                                    [] j > 1 /\ j <= Len(tokens) -> tokens[j - 1]
                                    [] OTHER -> Rejected]

VerifyCells(l, inputs) ==
    [i \in seq[l].E + 1 .. seq[l].E + Len(inputs) |->
        [in |-> inputs[i - seq[l].E], pos |-> i - 1 + seq[l].delta]]

DecodeOrdinaryRow(l, tokens) ==
    LET s == seq[l]
        inputs == VerifyInputs(l, tokens)
        x == WriteText(Materialize(View(l), s.E + 1, 0), s.E + 1, VerifyCells(l, inputs))
        lin == x.dev.lin \o inputs
    IN [x EXCEPT !.dev.lin = lin, !.dev.tail = lin,
                 !.seq.textValid = s.E + 1, !.seq.tailValid = TRUE,
                 !.seq.ledger = Append(@, tokens[1]), !.seq.pos = Append(@, s.S + s.delta)]

\* Mutant: the column of the anchor and those of the next drafts have no page.
MtpColumnsOfDrafts(l) == seq[l].E + Extent(l)

\* How far the MTP head may write in a round.
MtpReach(l) == Min({Capacity, seq[l].E + Extent(l) + Window})

\* Verify, then align the MTP head with what was licensed and let it propose the
\* next drafts.
DecodeMtpRow(l, tokens) ==
    LET s == seq[l]
        inputs == VerifyInputs(l, tokens)
        x == WriteText(Materialize(View(l), s.E + Extent(l) + 1, MtpReach(l)),
                       s.E + Extent(l) + 1, VerifyCells(l, inputs))
        end == s.E + Len(tokens)
        aligned == WriteMtp(x, end, [i \in s.E + 1 .. end |->
                       MtpCell(Feature(i, inputs[i - s.E]), tokens[i - s.E])])
        next == NextExtent(l, Len(tokens))
    IN [WriteDrafts(aligned, end + 1, end + Max({0, next - 1})) EXCEPT
            !.dev.tail = x.dev.lin \o SubSeq(inputs, 1, Len(tokens))]

\* Bring the DFlash context up to the frontier, propose from it, verify, and keep
\* the features of the verified columns for the next round.
DecodeDFlashRow(l, tokens) ==
    LET s == seq[l]
        inputs == VerifyInputs(l, tokens)
        x == Materialize(View(l), s.E + Extent(l) + 1, s.E)
        extended == AppendContext(x, s.E, [i \in s.dctx + 1 .. s.E |->
                                            x.dev.features[i - s.dctx]])
        verified == WriteText(extended, s.E + Extent(l) + 1, VerifyCells(l, inputs))
    IN [verified EXCEPT !.dev.tail = x.dev.lin \o SubSeq(inputs, 1, Len(tokens)),
                        !.dev.features = [j \in DOMAIN inputs |-> Feature(s.E + j, inputs[j])],
                        !.seq.dctx = s.E]

DecodeRow(l, tokens) ==
    CASE Backend = "none" -> DecodeOrdinaryRow(l, tokens)
      [] Backend = "mtp" -> DecodeMtpRow(l, tokens)
      [] Backend = "dflash" -> DecodeDFlashRow(l, tokens)

\* The verified columns and the licensed tokens stay in the round's buffers, row
\* by row, until the round is resolved.
PendingRow(l, tokens) ==
    [kind |-> IF Backend = "none" THEN "ordinary" ELSE "speculative",
     baseE |-> seq[l].E, baseS |-> seq[l].S, tokens |-> tokens,
     columns |-> VerifyInputs(l, tokens),
     next |-> IF Backend = "mtp" THEN NextExtent(l, Len(tokens)) ELSE 0]

\* A failure of one row clears every lane of the batch.
ApplyBatch(rows, x, r) ==
    LET bad == UNION {x[l].bad : l \in rows}
        y == [l \in rows |-> IF bad = {} THEN x[l] ELSE Cleared(x[l])]
    IN /\ seq' = [l \in Lanes |-> IF l \in rows THEN y[l].seq ELSE seq[l]]
       /\ kv' = [l \in Lanes |-> IF l \in rows THEN y[l].kv ELSE kv[l]]
       /\ dev' = [l \in Lanes |-> IF l \in rows THEN y[l].dev ELSE dev[l]]
       /\ req' = [l \in Lanes |-> CASE l \notin rows -> req[l]
                                    [] l \in rows /\ bad = {} -> r[l]
                                    [] OTHER -> NoRequest]
       /\ err' = err \cup bad

DecodeBatch ==
    /\ Quiet /\ ActiveLanes # {}
    /\ \E tokens \in [ActiveLanes -> UNION {LicensedRows(l) : l \in ActiveLanes}] :
          /\ \A l \in ActiveLanes : tokens[l] \in LicensedRows(l)
          /\ ApplyBatch(ActiveLanes,
                 [l \in ActiveLanes |-> Require(DecodeRow(l, tokens[l]), RowReady(l))],
                 [l \in ActiveLanes |-> [req[l] EXCEPT !.life = "Pending",
                                                       !.pending = PendingRow(l, tokens[l])]])
    /\ frame' = IF Backend = "dflash" THEN Min(ActiveLanes) ELSE frame
    /\ UNCHANGED <<engine, started>>

-----------------------------------------------------------------------------
(* Resolution: how much of a round the output policy keeps.                *)

PendingLanes == {l \in Lanes : req[l].life = "Pending"}

\* What the executor may decide about a row: cancel it, go on with all of it, or
\* end the request after n tokens (a stop, or the budget is used up).
Decisions(l) ==
    LET produced == Len(req[l].pending.tokens)
    IN {[how |-> "stop", n |-> n] : n \in 1 .. produced}
       \cup (IF produced < req[l].budget THEN {[how |-> "go", n |-> produced]} ELSE {})
       \cup (IF MayCancel THEN {[how |-> "cancel", n |-> 0]} ELSE {})

\* gdn_replay_fold: the recurrent state advances by exactly the committed columns.
ReplayFold(lin, columns, n) == lin \o SubSeq(columns, 1, n)

\* A row that ends inside the round keeps the hidden vector of its last column.
TailAt(x, columns, n, produced) ==
    IF n < produced THEN x.dev.lin \o SubSeq(columns, 1, n) ELSE x.dev.tail

\* Mutant: the context of a finished request is only counted, not appended.
DFlashTailCounted(x, s, n) == [x EXCEPT !.seq.dctx = s.E + n]

\* The context of a finished request is brought up to its frontier; a continuing
\* one is extended at the start of its next round.
DFlashTail(x, s, n) ==
    [AppendContext(Materialize(x, Max({s.textValid, s.E + n}), s.E + n), s.E + n,
                   [i \in s.E + 1 .. s.E + n |-> x.dev.features[i - s.E]])
        EXCEPT !.seq.dctx = s.E + n]

\* The first n columns of the round join the recurrent state ...
FoldRound(x, pending, n) ==
    [x EXCEPT !.dev.lin = ReplayFold(@, pending.columns, n),
              !.dev.tail = TailAt(x, pending.columns, n, Len(pending.tokens))]

\* ... and its first n tokens the sequence.
CommitRound(x, s, pending, n) ==
    [x EXCEPT
        !.seq.ledger = @ \o SubSeq(pending.tokens, 1, n),
        !.seq.pos = @ \o [j \in 1 .. n |-> s.S + j - 1 + s.delta],
        !.seq.E = s.E + n, !.seq.S = s.S + n, !.seq.textValid = s.E + n,
        !.seq.mtpValid = IF Backend = "mtp" THEN s.E + n ELSE @,
        !.seq.drafts = pending.next, !.seq.tailValid = TRUE]

ResolveSpeculativeRow(l, decision) ==
    LET s == seq[l]
        pending == req[l].pending
        n == decision.n
        terminal == decision.how = "stop"
        folded == FoldRound(View(l), pending, n)
        context == IF Backend = "dflash" /\ terminal THEN DFlashTail(folded, s, n) ELSE folded
        committed == CommitRound(context, s, pending, n)
        trimmed == TrimToValid(Require(committed,
            /\ s.E = pending.baseE /\ s.S = pending.baseS /\ Len(s.ledger) = s.S
            /\ s.textValid = s.E /\ BackendValid(s) = s.E))
    IN IF terminal THEN Retain(trimmed) ELSE trimmed

\* resolve_non_speculative_pending, for the first token and for ordinary rounds
ResolveOrdinaryRow(l, terminal) ==
    LET pending == req[l].pending
        s == seq[l]
        E == IF pending.kind = "begin" THEN pending.baseE ELSE pending.baseE + 1
        x == [View(l) EXCEPT !.seq.E = E, !.seq.S = E + 1]
        y == TrimToValid(Require(x, Len(s.ledger) = E + 1 /\ Len(s.pos) = E + 1))
    IN IF terminal THEN Retain(y) ELSE y

ResolvedRequest(r, decision, work) ==
    CASE decision.how = "cancel" -> NoRequest
      [] decision.how = "stop" ->
            [r EXCEPT !.life = "Complete", !.pending = NoPending, !.work = @ - work,
                      !.budget = 0]
      [] decision.how = "go" ->
            [r EXCEPT !.life = "Active", !.pending = NoPending, !.work = @ - work,
                      !.budget = @ - decision.n]

ResolveRow(l, decision) ==
    CASE decision.how = "cancel" -> Cleared(View(l))
      [] decision.how # "cancel" /\ Backend = "none" ->
            ResolveOrdinaryRow(l, decision.how = "stop")
      [] OTHER -> ResolveSpeculativeRow(l, decision)

\* resolve_prefill_lane: the first token was paid by the prefill step.
ResolvePrefillLane(l) ==
    /\ req[l].life = "Pending" /\ req[l].pending.kind = "begin"
    /\ \E decision \in {d \in Decisions(l) : d.how # "cancel"} :
          ApplyBatch({l}, [m \in {l} |-> ResolveOrdinaryRow(l, decision.how = "stop")],
                     [m \in {l} |-> ResolvedRequest(req[l], decision, 0)])
    /\ UNCHANGED <<engine, frame, started>>

\* resolve_pending_batch
ResolvePendingBatch ==
    /\ \E l \in PendingLanes : req[l].pending.kind # "begin"
    /\ \E decision \in [PendingLanes -> UNION {Decisions(l) : l \in PendingLanes}] :
          /\ \A l \in PendingLanes : decision[l] \in Decisions(l)
          /\ ApplyBatch(PendingLanes,
                 [l \in PendingLanes |-> ResolveRow(l, decision[l])],
                 [l \in PendingLanes |-> ResolvedRequest(req[l], decision[l], decision[l].n)])
          /\ LET ended == {l \in PendingLanes : decision[l].how = "stop"}
             IN frame' = IF Backend = "dflash" /\ ended # {} THEN Min(ended) ELSE frame
    /\ UNCHANGED <<engine, started>>

\* abort_lane: a cancellation seen between two units, or after the last prefill
\* step of the lane.
AbortLane(l) ==
    /\ MayCancel
    /\ \/ Quiet /\ req[l].life \in {"Prefilling", "Active"}
       \/ req[l].life = "Pending" /\ req[l].pending.kind = "begin"
    /\ ApplyBatch({l}, [m \in {l} |-> Cleared(View(l))], [m \in {l} |-> NoRequest])
    /\ UNCHANGED <<engine, frame, started>>

\* evict_retained_lane, when another lane needs the pages for some prompt.
EvictRetainedLane(l) ==
    /\ Quiet /\ seq[l].retained /\ started < MaxRequests
    /\ \A m \in Lanes : req[m].life # "Prefilling"
    /\ \E m \in Lanes \ {l}, p \in Prompts :
          LET plan == PlanRequestForLane(p, seq[m])
          IN Free(m) /\ ~CanAdmitLane(m, plan) /\ CanAdmitLaneAfterRetainedEviction(m, plan)
    /\ ApplyBatch({l}, [m \in {l} |-> Cleared(View(l))], [m \in {l} |-> NoRequest])
    /\ UNCHANGED <<engine, frame, started>>

Next ==
    \/ \E l \in Lanes, p \in Prompts, t \in Tokens : StartPrefillLane(l, p, t)
    \/ \E l \in Lanes, t \in Tokens : AdvancePrefillLane(l, t)
    \/ \E l \in Lanes : ResolvePrefillLane(l) \/ AbortLane(l) \/ EvictRetainedLane(l)
    \/ DecodeBatch
    \/ ResolvePendingBatch

Spec == Init /\ [][Next]_vars

-----------------------------------------------------------------------------
(* Properties.                                                             *)

\* The number of columns the lane has computed, between two units.
Frontier(l) == IF req[l].life = "Prefilling" THEN req[l].prefill.cursor ELSE seq[l].E
Settled(l) == req[l].life \in {"Prefilling", "Active", "Complete"}

\* Continuation state is sound: whatever was prefilled in chunks, accepted,
\* rejected, cut short, retained, restored or appended to, the text KV cells, the
\* recurrent state and the tail hidden vector of a lane are those of exactly the
\* tokens and the media of its ledger, up to its frontier.
ContinuationSound ==
    \A l \in Lanes : Settled(l) =>
        LET n == Frontier(l)
        IN /\ n = seq[l].textValid /\ n <= Mapped(kv[l].text)
           /\ \A i \in 1 .. n : dev[l].kv[i].in = Column(seq[l], i)
           /\ dev[l].lin = History(seq[l], n)
           /\ (seq[l].tailValid /\ req[l].life # "Prefilling") =>
                 dev[l].tail = History(seq[l], n)

\* A rewrite checkpoint that the lane calls valid is the state at its frontier of
\* the prefix the ledger still holds, with the KV cells and the MTP columns that a
\* restore needs.
CheckpointSound ==
    \A l \in Lanes : (Settled(l) /\ seq[l].ckpt.at # 0) =>
        LET at == seq[l].ckpt.at
        IN /\ at <= seq[l].textValid
           /\ dev[l].ckLin = History(seq[l], at) /\ dev[l].ckHid = History(seq[l], at)
           /\ Backend = "mtp" => seq[l].mtpValid >= at - 1
           /\ Backend = "dflash" => seq[l].dctx >= at \/ req[l].life = "Active"

\* The MTP cache is sound: every column the lane counts as valid pairs the target's
\* hidden vector there with the input that really follows it, across bridges,
\* rejected drafts and requests that end inside a round.
MtpSound ==
    \A l \in Lanes : (Backend = "mtp" /\ Settled(l)) =>
        /\ seq[l].mtpValid <= Mapped(kv[l].backend)
        /\ \A i \in 1 .. seq[l].mtpValid :
              dev[l].mtp[i] = MtpCell(Feature(i, Column(seq[l], i)), Column(seq[l], i + 1))

Recent(n) == {i \in 1 .. n : i > n - LocalCapacity}

\* The DFlash context is sound: the full and the local context of a lane hold the
\* features of its own committed columns, and what is still missing up to the
\* frontier waits in the lane's pending features.
DFlashSound ==
    \A l \in Lanes : (Backend = "dflash" /\ Settled(l)) =>
        LET s == seq[l]
            feature(i) == Feature(i, Column(s, i))
        IN /\ s.dctx <= Mapped(kv[l].backend)
           /\ \A i \in 1 .. s.dctx : dev[l].full[i] = feature(i)
           /\ \A i \in Recent(s.dctx) : dev[l].local[LocalSlot(i)] = feature(i)
           /\ \A i \in s.dctx + 1 .. Frontier(l) : dev[l].features[i - s.dctx] = feature(i)
           /\ s.ckpt.at # 0 => \A i \in Recent(s.ckpt.at) :
                 dev[l].ckLocal[LocalSlot(i)] = feature(i)

\* Every text KV cell was rotated at the MRoPE position that the prefix identity
\* records for its column and that decoding continues from.
RotaryPositions ==
    \A l \in Lanes : Settled(l) =>
        \A i \in 1 .. Frontier(l) : dev[l].kv[i].pos = seq[l].pos[i]

\* No internal check of the Program ever throws: frontiers, ledgers and bundles
\* agree wherever the code asks, and no growth leaves the admitted entitlement.
ChecksHold == "check" \notin err

\* No kernel writes a KV or context cell whose page is not mapped.
WritesMapped == "unmapped" \notin err

\* The projected service work covers what the request really takes: a request that
\* is still running has work left, however its prefill was cut by media items and
\* the checkpoint frontier.
WorkCovers ==
    \A l \in Lanes : /\ req[l].work >= 0
                     /\ req[l].life \in {"Prefilling", "Active"} => req[l].work >= 1

\* A retained lane keeps only what its sequence needs: no entitlement beyond the
\* pages of its frontier, no table row, and nothing that a later prompt may
\* continue from but the committed tokens and the one that was never computed.
RetainedExact(l) ==
    /\ req[l].life = "Complete" /\ ~kv[l].bound
    /\ kv[l].text.ent = PagesForTokens(seq[l].E)
    /\ kv[l].backend.ent = PagesForTokens(BackendValid(seq[l]))
    /\ Len(seq[l].ledger) = seq[l].E + 1

\* The pages are accounted for over a long sequence of requests: what is entitled
\* to all lanes, retained ones included, fits the pools, no lane maps more than it
\* is entitled to, and a retained lane gives back what its sequence does not need.
PagesAccounted ==
    /\ \A pool \in {"text", "backend"} :
          /\ MapThenSumSet(LAMBDA l : Entitlements(kv, pool)[l], Lanes) <= PoolPages(pool)
          /\ \A l \in Lanes : kv[l][pool].map <= kv[l][pool].ent
    /\ \A l \in Lanes : seq[l].retained => RetainedExact(l)
=============================================================================
