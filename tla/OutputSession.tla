---------------------------- MODULE OutputSession ----------------------------
(***************************************************************************)
(* The output sessions of the requests of a decode batch: bytes of committed *)
(* tokens become reasoning and content, published as soon as it is certain  *)
(* (src/src/targets/qwen3_6/impl/frontend/frontend.cpp), under the rounds    *)
(* of the executor, which previews every row before it commits any.         *)
(*                                                                         *)
(* A byte is a symbol: "L" is the lead and "C" the continuation byte of one *)
(* two-byte code point, " " white space, "R" the replacement character; the *)
(* marker that closes the reasoning is two symbols long.                    *)
(***************************************************************************)
EXTENDS TextSearch

CONSTANTS
    Requests,
    Policies,           \* the output policies a model may be served with, as records
    TokenBytes,         \* token -> its bytes (none for a hidden special token)
    StopStrings         \* sequence of [text, channel, include], as declared

ASSUME OutputAssumption ==
    /\ \A t \in DOMAIN TokenBytes : TokenBytes[t] \in Seq({"x", "y", " ", "<", "/", "L", "C"})
    /\ \A i \in DOMAIN StopStrings : StopStrings[i].text # <<>>
    /\ \A p \in Policies :
          /\ p.tokens \subseteq DOMAIN TokenBytes /\ p.stopTokens \subseteq p.tokens
          /\ {p.publishStopToken, p.startsInReasoning} \subseteq BOOLEAN
          /\ p.maxTokens \in Nat \ {0} /\ p.maxRound \in Nat \ {0}

VARIABLES
    policy,     \* the policy of the sessions
    decoder,    \* DecoderState of a request
    published,  \* what it has published, per channel
    tokens,     \* the tokens committed for it
    finish      \* its finish reason, "none" while active, "failed"

vars == <<policy, decoder, published, tokens, finish>>

Tokens == policy.tokens                        \* the vocabulary
StopTokens == policy.stopTokens                \* stop token ids of the merged policy
PublishStopToken == policy.publishStopToken
StartsInReasoning == policy.startsInReasoning
MaxTokens == policy.maxTokens                  \* output budget of a request
MaxRound == policy.maxRound                    \* most tokens one round licenses

ThinkClose == <<"<", "/">>
Channels == {"reasoning", "content"}
Nothing == [c \in Channels |-> <<>>]

-----------------------------------------------------------------------------
(* Bytes to text.                                                          *)

(* The bytes are complete code points, possibly but for the last lead.     *)
ValidUtf8(bytes) ==
    \A i \in DOMAIN bytes :
        /\ bytes[i] = "C" => i > 1 /\ bytes[i - 1] = "L"
        /\ bytes[i] = "L" => i = Len(bytes) \/ bytes[i + 1] = "C"

ValidUtf8Prefix(bytes) ==
    IF bytes # <<>> /\ bytes[Len(bytes)] = "L" THEN Len(bytes) - 1 ELSE Len(bytes)

-----------------------------------------------------------------------------
(* One token through the decoder.  s is [dec, out, match]: the decoder, the *)
(* output of the round so far, and the best stop match of this token.       *)

NoMatch == [found |-> FALSE, cut |-> 0, order |-> 0, out |-> Nothing]

NewDecoder == [utf8 |-> <<>>, think |-> <<>>, stop |-> Nothing,
               inReasoning |-> StartsInReasoning, strip |-> FALSE,
               decoded |-> 0, reasoningTokens |-> 0, terminal |-> FALSE]

Emit(out, c, text) == [out EXCEPT ![c] = @ \o text]

(* An earlier cut wins, then the stop string declared first.               *)
MatchPrecedes(cut, order, best) ==
    \/ ~best.found
    \/ cut < best.cut
    \/ cut = best.cut /\ order < best.order

\* Mutant: the first stop string decides how much is held back.
StopHoldFirst(text, c) ==
    LET i == CHOOSE j \in DOMAIN StopStrings : StopStrings[j].channel = c
    IN  IF \E j \in DOMAIN StopStrings : StopStrings[j].channel = c
        THEN LongestSuffixPrefix(text, StopStrings[i].text, FALSE) ELSE 0

StopHold(text, c) ==
    Max({0} \cup {LongestSuffixPrefix(text, StopStrings[i].text, FALSE) :
                      i \in {j \in DOMAIN StopStrings : StopStrings[j].channel = c}})

(* The best match in the pending end of the channel and the new text.      *)
MatchIn(s, c, combined, start) ==
    FoldLeft(LAMBDA best, i :
                LET stop == StopStrings[i]
                    at   == Find(combined, stop.text, 1)
                    cut  == start + at - 1
                    text == SubSeq(combined, 1, at - 1)
                                \o (IF stop.include THEN stop.text ELSE <<>>)
                IN  IF stop.channel = c /\ at # 0 /\ MatchPrecedes(cut, i, best)
                    THEN [found |-> TRUE, cut |-> cut, order |-> i,
                          out |-> Emit(s.out, c, text)]
                    ELSE best,
             s.match, [i \in DOMAIN StopStrings |-> i])

FeedChannel(s, c, text, matching) ==
    LET pending  == s.dec.stop[c]
        combined == pending \o text
        keep     == Len(combined) - StopHold(combined, c)
    IN  IF text = <<>> THEN s
        ELSE [dec |-> [s.dec EXCEPT !.stop[c] = SubSeq(combined, keep + 1, Len(combined)),
                                    !.decoded = @ + Len(text)],
              out |-> Emit(s.out, c, SubSeq(combined, 1, keep)),
              match |-> IF matching
                        THEN MatchIn(s, c, combined, s.dec.decoded - Len(pending))
                        ELSE s.match]

\* Mutant: what a channel still holds back is dropped.
CloseChannelDropping(s, c) == [s EXCEPT !.dec.stop[c] = <<>>]

CloseChannel(s, c) ==
    [s EXCEPT !.out = Emit(@, c, s.dec.stop[c]), !.dec.stop[c] = <<>>]

(* White space after the reasoning is dropped until content begins.        *)
FeedContent(s, text, matching) ==
    LET begin == IF s.dec.strip
                 THEN Min({Len(text) + 1} \cup {i \in DOMAIN text : text[i] # " "}) ELSE 1
        rest  == SubSeq(text, begin, Len(text))
    IN  FeedChannel([s EXCEPT !.dec.strip = @ /\ rest = <<>>], "content", rest, matching)

(* Until the marker appears its possible beginning is not reasoning yet.   *)
ThinkHold(text) == LongestSuffixPrefix(text, ThinkClose, TRUE)

FeedDecodedText(s, text, matching) ==
    LET think  == s.dec.think \o text
        marker == Find(think, ThinkClose, 1)
        safe   == Len(think) - ThinkHold(think)
        before == CloseChannel(
                      FeedChannel(s, "reasoning", SubSeq(think, 1, marker - 1), matching),
                      "reasoning")
    IN  IF ~s.dec.inReasoning THEN FeedContent(s, text, matching)
        ELSE IF marker # 0
        THEN FeedContent([before EXCEPT !.dec.think = <<>>, !.dec.inReasoning = FALSE,
                                        !.dec.strip = TRUE],
                         SubSeq(think, marker + Len(ThinkClose), Len(think)), matching)
        ELSE FeedChannel([s EXCEPT !.dec.think = SubSeq(think, safe + 1, Len(think))],
                         "reasoning", SubSeq(think, 1, safe), matching)

FeedTokenBytes(s, bytes) ==
    LET pending == s.dec.utf8 \o bytes
        valid   == ValidUtf8Prefix(pending)
        held    == [s EXCEPT !.dec.utf8 = SubSeq(pending, valid + 1, Len(pending))]
    IN  IF valid = 0 THEN [s EXCEPT !.dec.utf8 = pending]
        ELSE FeedDecodedText(held, SubSeq(pending, 1, valid), TRUE)

(* The end of the output: what was withheld is published after all, and a   *)
(* split code point as the replacement character.                          *)
Terminalize(s) ==
    LET whole == IF s.dec.utf8 = <<>> THEN s
                 ELSE FeedDecodedText([s EXCEPT !.dec.utf8 = <<>>], <<"R">>, FALSE)
        fed   == FeedChannel([whole EXCEPT !.dec.think = <<>>], "reasoning",
                             whole.dec.think, FALSE)
        shut  == IF whole.dec.inReasoning THEN CloseChannel(fed, "reasoning")
                 ELSE CloseChannel(whole, "content")
    IN  [shut EXCEPT !.dec.stop = Nothing, !.dec.terminal = TRUE]

(* A stop string match discards everything that was withheld.              *)
TerminalState(s) ==
    [s EXCEPT !.out = s.match.out, !.dec.utf8 = <<>>, !.dec.think = <<>>,
              !.dec.stop = Nothing, !.dec.terminal = TRUE]

-----------------------------------------------------------------------------
(* preview: a round of tokens against a copy of the state.  It accepts the  *)
(* tokens up to the first that ends the output.                             *)

Decision(s, accepted, reason) ==
    [dec |-> s.dec, out |-> s.out, accepted |-> accepted, reason |-> reason]

(* The reasoning count includes the token that closes it.                  *)
CountReasoning(s, fed) ==
    [fed EXCEPT !.dec.reasoningTokens = @ + (IF s.dec.inReasoning THEN 1 ELSE 0)]

PreviewToken(d, token) ==
    IF d.reason # "none" THEN d
    ELSE LET s       == [dec |-> d.dec, out |-> d.out, match |-> NoMatch]
             pending == d.dec.utf8 \o TokenBytes[token]
             fed     == CountReasoning(s, FeedTokenBytes(s, TokenBytes[token]))
             hidden  == CountReasoning(s, s)
             n       == d.accepted + 1
         IN  IF ~ValidUtf8(pending) THEN Decision(s, d.accepted, "throws")
             ELSE IF fed.match.found THEN Decision(TerminalState(fed), n, "stop_string")
             ELSE IF token \in StopTokens
             THEN Decision(IF PublishStopToken THEN fed ELSE hidden, n, "stop_token")
             ELSE Decision(fed, n, "none")

(* A stop token, or the last token of the budget, ends the output.         *)
PreviewEnd(d, budget) ==
    LET reason == IF d.reason = "none" /\ d.accepted = budget THEN "limit" ELSE d.reason
    IN  IF reason \in {"stop_token", "limit"}
        THEN Decision(Terminalize([dec |-> d.dec, out |-> d.out, match |-> NoMatch]),
                      d.accepted, reason)
        ELSE d

EndOfRound == "end of round"

Preview(dec, round, budget) ==
    FoldLeft(LAMBDA d, token : IF token = EndOfRound THEN PreviewEnd(d, budget)
                               ELSE PreviewToken(d, token),
             [dec |-> dec, out |-> Nothing, accepted |-> 0, reason |-> "none"],
             Append(round, EndOfRound))

(* preview_terminal: the request is cancelled between two rounds.          *)
PreviewTerminal(dec) ==
    Decision(Terminalize([dec |-> dec, out |-> Nothing, match |-> NoMatch]), 0, "cancelled")

-----------------------------------------------------------------------------
Init ==
    /\ policy \in Policies
    /\ decoder = [r \in Requests |-> NewDecoder]
    /\ published = [r \in Requests |-> Nothing]
    /\ tokens = [r \in Requests |-> <<>>]
    /\ finish = [r \in Requests |-> "none"]

Active == {r \in Requests : finish[r] = "none"}
Budget(r) == MaxTokens - Len(tokens[r])
Rounds == UNION {[1 .. n -> Tokens] : n \in 1 .. MaxRound}

(* commit_preview: the preview becomes the state, its output is published. *)
Commit(batch, decision, round) ==
    /\ decoder' = [r \in Requests |-> IF r \in batch THEN decision[r].dec ELSE decoder[r]]
    /\ published' = [r \in Requests |->
                        IF r \in batch
                        THEN [c \in Channels |-> published[r][c] \o decision[r].out[c]]
                        ELSE published[r]]
    /\ tokens' = [r \in Requests |->
                     IF r \in batch
                     THEN tokens[r] \o SubSeq(round[r], 1, decision[r].accepted)
                     ELSE tokens[r]]
    /\ finish' = [r \in Requests |-> IF r \in batch THEN decision[r].reason ELSE finish[r]]
    /\ UNCHANGED policy

(* run_decode_round: every row is previewed before any is committed.  A     *)
(* preview that throws leaves the worker loop, whose fail_all ends every    *)
(* request of the engine.                                                   *)
DecodeRound ==
    /\ Active # {}
    /\ \E round \in [Active -> Rounds] :
         /\ \A r \in Active : Len(round[r]) <= Budget(r)
         /\ \E decision \in {[r \in Active |-> Preview(decoder[r], round[r], Budget(r))]} :
              IF \E r \in Active : decision[r].reason = "throws"
              THEN /\ finish' = [r \in Requests |->
                                    IF r \in Active THEN "failed" ELSE finish[r]]
                   /\ UNCHANGED <<policy, decoder, published, tokens>>
              ELSE Commit(Active, decision, round)

Cancel(r) ==
    /\ r \in Active
    /\ \E decision \in {[q \in {r} |-> PreviewTerminal(decoder[q])]} :
          Commit({r}, decision, [q \in {r} |-> <<>>])

Ended == Active = {} /\ UNCHANGED vars

Next == DecodeRound \/ (\E r \in Requests : Cancel(r)) \/ Ended

Spec == Init /\ [][Next]_vars

-----------------------------------------------------------------------------
(* The reference: the output of a token sequence, decoded all at once.      *)

Bytes(ts) == FlattenSeq([i \in DOMAIN ts |-> TokenBytes[ts[i]]])

WholeText(bytes) == IF bytes # <<>> /\ Last(bytes) = "L" THEN Front(bytes) ELSE bytes

(* Reasoning and content of a whole text.  While the marker may still be    *)
(* completing, its beginning belongs to neither channel (settled).          *)
Split(text, settled) ==
    LET marker == Find(text, ThinkClose, 1)
        after  == SubSeq(text, marker + Len(ThinkClose), Len(text))
        begin  == Min({Len(after) + 1} \cup {i \in DOMAIN after : after[i] # " "})
        open   == IF settled THEN Len(text)
                  ELSE Len(text) - LongestSuffixPrefix(text, ThinkClose, FALSE)
    IN  IF ~StartsInReasoning THEN [reasoning |-> <<>>, content |-> text]
        ELSE IF marker = 0 THEN [reasoning |-> SubSeq(text, 1, open), content |-> <<>>]
        ELSE [reasoning |-> SubSeq(text, 1, marker - 1),
              content |-> SubSeq(after, begin, Len(after))]

Shown(ts) == Split(WholeText(Bytes(ts)), FALSE)

(* The first stop string of a channel of a whole text, by position and then *)
(* by declaration.                                                          *)
Stops(text, c) ==
    {<<Find(text, StopStrings[i].text, 1), i>> :
        i \in {j \in DOMAIN StopStrings :
                  StopStrings[j].channel = c /\ Find(text, StopStrings[j].text, 1) # 0}}

FirstStop(text, c) ==
    CHOOSE m \in Stops(text, c) :
        \A o \in Stops(text, c) : m[1] < o[1] \/ (m[1] = o[1] /\ m[2] <= o[2])

Stopped(ts) == \E c \in Channels : Stops(Shown(ts)[c], c) # {}

CutAtStop(text, c) ==
    LET m == FirstStop(text, c)
    IN  SubSeq(text, 1, m[1] - 1)
            \o (IF StopStrings[m[2]].include THEN StopStrings[m[2]].text ELSE <<>>)

(* The output of ts when the request ends for the given reason.            *)
Reference(ts, reason) ==
    LET hidden == reason = "stop_token" /\ ~PublishStopToken
        bytes  == Bytes(IF hidden THEN SubSeq(ts, 1, Len(ts) - 1) ELSE ts)
        text   == WholeText(bytes)
        ended  == Split(IF text = bytes THEN text ELSE Append(text, "R"), TRUE)
        shown  == Shown(ts)
        early  == Stops(shown.reasoning, "reasoning") # {}
    IN  IF reason # "stop_string" THEN ended
        ELSE [reasoning |-> IF early THEN CutAtStop(shown.reasoning, "reasoning")
                            ELSE shown.reasoning,
              content |-> IF early THEN <<>> ELSE CutAtStop(shown.content, "content")]

-----------------------------------------------------------------------------
(* Properties.                                                             *)

Done(r) == finish[r] \notin {"none", "failed"}

EndedExact(r) ==
    \A c \in Channels : published[r][c] = Reference(tokens[r], finish[r])[c]

BeginningPublished(r) ==
    \A c \in Channels :
        LET shown == Shown(tokens[r])[c]
            over  == c = "reasoning" /\ ~decoder[r].inReasoning
        IN  /\ IsPrefix(published[r][c], shown)
            /\ Len(shown) - Len(published[r][c]) = IF over THEN 0 ELSE StopHold(shown, c)

ReasoningCounted(r) ==
    decoder[r].reasoningTokens =
        Cardinality({n \in DOMAIN tokens[r] :
            /\ StartsInReasoning
            /\ Find(WholeText(Bytes(SubSeq(tokens[r], 1, n - 1))), ThinkClose, 1) = 0})

(* What is published piece by piece is the output of the tokens decoded all *)
(* at once, whatever the rounds.  When a request has ended it is exactly    *)
(* that: no byte withheld for a stop string, the marker or a split code     *)
(* point is lost, published twice or attributed to the other channel.       *)
(* Before, or when the batch failed, it is a beginning of it, short by no   *)
(* more than a stop string or the marker could need.  The reasoning tokens  *)
(* reported are those up to the one that completes the marker.              *)
OutputExact ==
    \A r \in Requests :
        /\ IF Done(r) THEN EndedExact(r) ELSE BeginningPublished(r)
        /\ ReasoningCounted(r)

(* A request ends at the first token that completes a stop string or is a   *)
(* stop token, even in the middle of a round, and never runs past one.      *)
StopsAtFirst ==
    \A r \in Requests :
        /\ \A n \in 1 .. Len(tokens[r]) - 1 :
              /\ ~Stopped(SubSeq(tokens[r], 1, n))
              /\ tokens[r][n] \notin StopTokens
        /\ finish[r] = "none" => ~Stopped(tokens[r])
        /\ finish[r] = "stop_string" => Stopped(tokens[r])
=============================================================================
