----------------------------- MODULE RequestPlan -----------------------------
(***************************************************************************)
(* What the Program decides about a request before it touches a lane       *)
(* (src/targets/qwen3_6/impl/runtime/request_plan_impl.h and               *)
(* prefix_identity.cpp): how much of the prompt the lane's retained        *)
(* sequence already holds and along which path it is reused, what happens  *)
(* to the lane's rewrite checkpoint, the pages and the service work the    *)
(* request is charged for, and the media items that must be encoded.       *)
(*                                                                         *)
(* A prompt is a record                                                    *)
(*   ids       the token ids,                                              *)
(*   items     its media items in order, each the interval first..last of  *)
(*             the columns that consume it and the digest of its content,  *)
(*   pos       the MRoPE position of every column,                         *)
(*   delta     rope_delta,                                                 *)
(*   ckpt      the rewrite checkpoint it asks for ([kind, at]) or NoCkpt,  *)
(*   out       requested_output_tokens,                                    *)
(*   reusable  identity.reusable and the request's allow_prefix_reuse.     *)
(* Columns are numbered from 1; column i is position i - 1 of the code. A  *)
(* frontier is a number of columns.                                        *)
(***************************************************************************)
EXTENDS Integers, Sequences, FiniteSets, FiniteSetsExt

CONSTANTS
    Engines,    \* the options an engine may be opened with, as records
    PageSize    \* kPagedKVPageSize

VARIABLE engine  \* the options of the engine that is open

Capacity == engine.capacity  \* tokens one sequence may hold (max_context)
Chunk == engine.chunk        \* prefill_chunk
Window == engine.window      \* draft_window
Backend == engine.backend    \* speculative_backend

NoCkpt == [kind |-> "none", at |-> 0]
CheckpointKinds == {"turn", "response"}

\* What prompts are made of; tokens and contents are names.
Checkpoints == {NoCkpt} \cup [kind : CheckpointKinds, at : Nat \ {0}]
Items == [first : Nat \ {0}, last : Nat \ {0}, content : STRING]
PromptRecords == [ids : Seq(STRING), items : Seq(Items), pos : Seq(Int), delta : Int,
                  ckpt : Checkpoints, out : Nat \ {0}, reusable : BOOLEAN]

\* The position of the first column that needs the item encoded: the MTP head reads
\* the column after its own.
UseBegin(backend, item) ==
    Max({0, item.first - 1 - (IF backend = "mtp" THEN 1 ELSE 0)})

\* The prompts that plan_request_base accepts. (A DFlash engine has no vision.)
Accepted(e, p) ==
    /\ Len(p.ids) \in 1 .. e.capacity /\ Len(p.pos) = Len(p.ids)
    /\ p.ckpt.at <= Len(p.ids)
    /\ p.items # <<>> => e.backend # "dflash"
    /\ \A k \in DOMAIN p.items :
          /\ p.items[k].first <= p.items[k].last /\ p.items[k].last <= Len(p.ids)
          /\ k > 1 => UseBegin(e.backend, p.items[k]) >= p.items[k - 1].last

ASSUME PlanAssumption ==
    /\ PageSize \in Nat \ {0}
    /\ \A e \in Engines :
          /\ e.capacity \in Nat \ {0} /\ e.chunk \in Nat \ {0} /\ e.window \in Nat
          /\ e.backend \in {"none", "mtp", "dflash"}
          /\ (e.window = 0) <=> (e.backend = "none")
          /\ \A p \in e.prompts : p \in PromptRecords /\ Accepted(e, p)

\* The page groups that hold n tokens.
PagesForTokens(n) == (n + PageSize - 1) \div PageSize

-----------------------------------------------------------------------------
(* Identity of a prefix.                                                   *)

Covers(item, i) == item.first <= i /\ i <= item.last
Visual(items, i) == \E k \in DOMAIN items : Covers(items[k], i)

\* What column i of a sequence stands for: the media content that replaces the
\* placeholder's embedding, or the token itself.
Meaning(ids, items, i) ==
    IF Visual(items, i)
    THEN items[CHOOSE k \in DOMAIN items : Covers(items[k], i)].content
    ELSE ids[i]

\* prefix_item_count fails: a reusable frontier may not divide an item.
SplitsAnItem(items, n) ==
    \E k \in DOMAIN items : items[k].first <= n /\ n < items[k].last

ItemsWithin(items, n) == {k \in DOMAIN items : items[k].last <= n}

\* Mutant: the media items of the prefix are not compared.
PrefixMatchesByTokens(p, s, n) ==
    /\ n <= Len(p.ids) /\ n <= Len(s.ledger)
    /\ \A i \in 1 .. n : p.ids[i] = s.ledger[i]

\* prefix_matches: the first n columns of the prompt are the first n of the
\* resident sequence, token by token, position by position, item by item.
PrefixMatches(p, s, n) ==
    /\ n <= Len(p.ids) /\ n <= Len(s.ledger) /\ n <= Len(s.pos)
    /\ \A i \in 1 .. n : /\ p.ids[i] = s.ledger[i] /\ p.pos[i] = s.pos[i]
                         /\ Visual(p.items, i) = Visual(s.items, i)
    /\ ~SplitsAnItem(p.items, n) /\ ~SplitsAnItem(s.items, n)
    /\ ItemsWithin(p.items, n) = ItemsWithin(s.items, n)
    /\ \A k \in ItemsWithin(p.items, n) : p.items[k] = s.items[k]

-----------------------------------------------------------------------------
(* plan_request_base.                                                      *)

\* A sequence may still sample one token when its last column is computed.
EffectiveOutput(p) == Min({p.out, Capacity - Len(p.ids) + 1})

\* The last token of an output is never computed, so it needs no column.
ReservedTokens(p) == Len(p.ids) + EffectiveOutput(p) - 1

TextEntitlement(p) == PagesForTokens(ReservedTokens(p))

\* Mutant: the drafts that the MTP head writes past the frontier are not counted.
BackendEntitlementWithoutDrafts(p) ==
    IF Backend = "none" THEN 0 ELSE PagesForTokens(ReservedTokens(p))

BackendEntitlement(p) ==
    CASE Backend = "none" -> 0
      [] Backend = "mtp" -> PagesForTokens(Min({Capacity, ReservedTokens(p) + Window - 1}))
      [] Backend = "dflash" -> PagesForTokens(ReservedTokens(p))

-----------------------------------------------------------------------------
(* plan_request_for_lane.                                                  *)

IsRestore(reuse) == reuse \in CheckpointKinds

AppendMatches(p, s) ==
    /\ s.E # 0
    /\ Backend = "dflash" => s.dctx = s.E
    /\ PrefixMatches(p, s, s.E)

CheckpointMatches(p, s) ==
    /\ s.ckpt.at # 0 /\ s.ckpt.at <= Len(p.ids)
    /\ PrefixMatches(p, s, s.ckpt.at)

\* The frontier the prefix allows, before the backend is asked: the path is
\* "append", or the kind of the checkpoint that is restored, or "full".
Candidate(p, s) ==
    CASE ~(p.reusable /\ s.retained) -> [reuse |-> "full", base |-> 0]
      [] p.reusable /\ s.retained /\ AppendMatches(p, s)
            -> [reuse |-> "append", base |-> s.E]
      [] p.reusable /\ s.retained /\ ~AppendMatches(p, s) /\ CheckpointMatches(p, s)
            -> [reuse |-> s.ckpt.kind, base |-> s.ckpt.at]
      [] OTHER -> [reuse |-> "full", base |-> 0]

\* Whether the backend's own state reaches the frontier too. The MTP head is one
\* column behind: its column i also reads token i + 1, which may now differ.
BackendReaches(s, c) ==
    CASE Backend = "mtp" ->
            /\ c.reuse = "append" => s.tailValid
            /\ s.mtpValid >= c.base - 1
      [] Backend = "dflash" -> IsRestore(c.reuse) => s.dctx >= c.base
      [] OTHER -> TRUE

ReuseFor(p, s) ==
    LET c == Candidate(p, s)
    IN IF BackendReaches(s, c) THEN c ELSE [reuse |-> "full", base |-> 0]

\* Mutant: a retained checkpoint at the wanted frontier is kept without asking
\* whether the prompt still matches it.
CheckpointActionAtSameFrontier(p, s, r) ==
    CASE p.ckpt = NoCkpt -> "drop"
      [] p.ckpt # NoCkpt /\ s.ckpt.at = p.ckpt.at -> "keep"
      [] p.ckpt # NoCkpt /\ s.ckpt.at # p.ckpt.at /\ p.ckpt.at > r.base -> "capture"
      [] OTHER -> "defer"

CheckpointAction(p, s, r) ==
    LET matches == /\ r.reuse # "full" /\ s.ckpt.at = p.ckpt.at
                   /\ PrefixMatches(p, s, p.ckpt.at)
    IN CASE p.ckpt = NoCkpt -> "drop"
         [] p.ckpt # NoCkpt /\ matches ->
                IF s.ckpt.kind = p.ckpt.kind THEN "keep" ELSE "reclassify"
         [] p.ckpt # NoCkpt /\ ~matches /\ p.ckpt.at > r.base -> "capture"
         [] OTHER -> "defer"

\* The items that the suffix consumes.
VisionUses(p, base) == {k \in DOMAIN p.items : p.items[k].last > base}

\* Mutant: the cut at the checkpoint frontier is not projected.
ProjectedServiceWorkWithoutSplits(p, base, splits) ==
    (IF Len(p.ids) = base THEN 1 ELSE 1 + (Len(p.ids) - base - 1) \div Chunk)
    + EffectiveOutput(p) - 1

\* projected_service_work: prefill steps, each cut adding at most one, and tokens.
ProjectedServiceWork(p, base, splits) ==
    (IF Len(p.ids) = base THEN 1 ELSE 1 + (Len(p.ids) - base - 1) \div Chunk + splits)
    + EffectiveOutput(p) - 1

PlanRequestForLane(p, s) ==
    LET r == ReuseFor(p, s)
        action == CheckpointAction(p, s, r)
        capture == IF action = "capture" THEN p.ckpt ELSE NoCkpt
        uses == VisionUses(p, r.base)
        splits == Cardinality(uses) + (IF capture.at \in 1 .. Len(p.ids) - 1 THEN 1 ELSE 0)
    IN [reuse |-> r.reuse, base |-> r.base, action |-> action, capture |-> capture,
        bridge |-> CASE Backend # "mtp" \/ r.reuse = "full" -> "none"
                     [] Backend = "mtp" /\ r.reuse # "full" /\ r.base < Len(p.ids) -> "before"
                     [] OTHER -> "after",
        uses |-> uses,
        text |-> TextEntitlement(p), backend |-> BackendEntitlement(p),
        output |-> EffectiveOutput(p),
        work |-> ProjectedServiceWork(p, r.base, splits)]
=============================================================================
