------------------------------ MODULE ToolCalls ------------------------------
(***************************************************************************)
(* Tool-call markup in generated text: the parser of the whole text and the *)
(* filter of its stream (src/src/serve/tool_call_parser).  A text is a      *)
(* sequence of symbols.  The markers are two symbols long and share their   *)
(* first one, as "<tool_call>" and "</tool_call>" share "<"; "f" stands for *)
(* one well-formed function element and " " for white space.               *)
(***************************************************************************)
EXTENDS TextSearch

Open == <<"<", "t">>
Close == <<"<", "/">>
Blank == {" "}

(* Position of the first symbol at or after from that is not white space.  *)
SkipWs(text, from) ==
    Min({Len(text) + 1} \cup {i \in from .. Len(text) : text[i] \notin Blank})

(* Length of text without its trailing white space.                        *)
TrimmedLen(text) == Max({0} \cup {i \in 1 .. Len(text) : text[i] \notin Blank})

Rtrim(text) == SubSeq(text, 1, TrimmedLen(text))

(* A block between the markers holds exactly one function element.         *)
WellFormed(block) ==
    LET begin == SkipWs(block, 1)
    IN  begin <= Len(block) /\ SubSeq(block, begin, TrimmedLen(block)) = <<"f">>

(* The number of calls from position pos to the end, or -1 when the text   *)
(* there is anything but calls separated by white space.                   *)
Calls(text) ==
    LET n == Len(text)
        From[at \in 1 .. n + 1] ==
            LET pos   == SkipWs(text, at)
                inner == pos + Len(Open)
                close == Find(text, Close, inner)
                rest  == From[close + Len(Close)]
            IN  IF pos > n THEN 0
                ELSE IF ~StartsWithAt(text, pos, Open) THEN -1
                ELSE IF close = 0 THEN -1
                ELSE IF ~WellFormed(SubSeq(text, inner, close - 1)) THEN -1
                ELSE IF rest < 0 THEN -1 ELSE 1 + rest
    IN  [first |-> Find(text, Open, 1), From |-> From]

(* parse_qwen_tool_call_output: the visible content and the calls; text    *)
(* that is not entirely well formed after its first marker is all content. *)
ParseOutput(text) ==
    LET calls == Calls(text)
        count == IF calls.first = 0 THEN -1 ELSE calls.From[calls.first]
    IN  IF count <= 0 THEN [content |-> text, calls |-> 0]
        ELSE [content |-> Rtrim(SubSeq(text, 1, calls.first - 1)), calls |-> count]

-----------------------------------------------------------------------------
(* ToolCallStreamFilter: what may be shown before the text is complete.    *)

NewFilter == [pending |-> <<>>, region |-> <<>>, saw |-> FALSE]

\* Mutant: white space before a possible marker is released.
SafeEndIgnoringSpace(pending) == Len(pending) - LongestSuffixPrefix(pending, Open, FALSE)

(* What feed may release of the text pending without a marker: not the     *)
(* possible beginning of one, nor the white space in front of it.          *)
SafeEnd(pending) ==
    TrimmedLen(SubSeq(pending, 1, Len(pending) - LongestSuffixPrefix(pending, Open, FALSE)))

Feed(filter, text) ==
    LET pending == filter.pending \o text
        marker  == Find(pending, Open, 1)
        end     == IF marker = 0 THEN SafeEnd(pending)
                   ELSE TrimmedLen(SubSeq(pending, 1, marker - 1))
        held    == SubSeq(pending, end + 1, Len(pending))
    IN  IF filter.saw
        THEN [filter |-> [filter EXCEPT !.region = @ \o text], visible |-> <<>>]
        ELSE [filter |-> IF marker = 0
                         THEN [filter EXCEPT !.pending = held]
                         ELSE [pending |-> <<>>, region |-> held, saw |-> TRUE],
              visible |-> SubSeq(pending, 1, end)]

(* finish: text that turned out to be no call is flushed after all.        *)
FinishFilter(filter, isToolCall) ==
    IF isToolCall THEN <<>> ELSE filter.pending \o filter.region
=============================================================================
