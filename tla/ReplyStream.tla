----------------------------- MODULE ReplyStream -----------------------------
(***************************************************************************)
(* One streamed reply, from the deltas the engine publishes to the events   *)
(* the client assembles: the output sink of GenerationService::run with its  *)
(* tool-call filter, and the three encoders (ResponsesEventStream, the      *)
(* content blocks of /v1/messages, the chunks of /v1/chat/completions).     *)
(*                                                                         *)
(* The client's side is a view: the items announced so far, by output       *)
(* index, each with the text its deltas add up to.  An event that does not  *)
(* fit the view (an index out of order, a delta for an item that is not     *)
(* open) breaks it.                                                         *)
(***************************************************************************)
EXTENDS ToolCalls

CONSTANTS
    Texts,          \* the content a generation may produce
    Reasonings,     \* the reasoning it may produce
    Apis            \* the encoders checked: "responses", "messages", "chat"

VARIABLES
    api,            \* the endpoint of the request
    toolCapable,    \* PreparedRequest::tool_capable
    text,           \* content the generation will have produced
    reasoning,      \* reasoning it will have produced
    told,           \* how much of reasoning and of text is published
    filter,         \* ToolCallStreamFilter
    streamed,       \* content handed to on_content (its size: content_bytes_)
    enc,            \* the encoder's own state
    view,           \* what the client has assembled
    phase           \* "streaming", the finish reason, or "threw" a logic_error

(* A stop token or string, or the output limit: what statuses tell apart.  *)
FinishReasons == {"stop", "limit"}

vars == <<api, toolCapable, text, reasoning, told, filter, streamed, enc, view, phase>>

-----------------------------------------------------------------------------
(* Events and the client's view of them.                                   *)

Broken == <<[kind |-> "broken", text |-> <<>>, status |-> "broken"]>>

Added(kind, index) == [type |-> "added", kind |-> kind, index |-> index]
Delta(index, t) == [type |-> "delta", index |-> index, text |-> t]
Done(index, t, status) == [type |-> "done", index |-> index, text |-> t, status |-> status]

OpenAt(v, index) == index + 1 \in DOMAIN v /\ v[index + 1].status = "in_progress"

(* Assemble one event.  The terminal text of an item must be the text its   *)
(* deltas have built; a messages block ends without repeating its text.     *)
Assemble(v, event) ==
    IF v = Broken THEN Broken
    ELSE CASE event.type = "added" ->
                IF event.index # Len(v) THEN Broken
                ELSE Append(v, [kind |-> event.kind, text |-> <<>>, status |-> "in_progress"])
           [] event.type = "delta" ->
                IF ~OpenAt(v, event.index) THEN Broken
                ELSE [v EXCEPT ![event.index + 1].text = @ \o event.text]
           [] event.type = "done" ->
                IF ~OpenAt(v, event.index) \/ v[event.index + 1].text # event.text THEN Broken
                ELSE [v EXCEPT ![event.index + 1].status = event.status]

Receive(events) == view' = FoldLeft(Assemble, view, events)

-----------------------------------------------------------------------------
(* The Responses encoder.  Indices are handed out when an item is announced; *)
(* -1 is an item that was not.                                              *)

NewEncoder == [next |-> 0, rIndex |-> -1, rText |-> <<>>, rDone |-> FALSE,
               mIndex |-> -1, mText |-> <<>>, mDone |-> FALSE]

(* An encoder step is the new encoder with the events it emits.            *)
Emits(e, events) == [e |-> e, events |-> events]
Then(s, Step(_)) == LET t == Step(s.e) IN Emits(t.e, s.events \o t.events)

EnsureReasoning(e) ==
    IF e.rIndex >= 0 THEN Emits(e, <<>>)
    ELSE Emits([e EXCEPT !.rIndex = e.next, !.next = @ + 1], <<Added("reasoning", e.next)>>)

\* Mutant: the reasoning item is closed by the first content and again at the end.
CloseReasoningTwice(e, final, status) ==
    IF e.rIndex < 0 THEN Emits(e, <<>>)
    ELSE Emits([e EXCEPT !.rDone = TRUE, !.rText = final], <<Done(e.rIndex, final, status)>>)

CloseReasoning(e, final, status) ==
    IF e.rIndex < 0 \/ e.rDone THEN Emits(e, <<>>)
    ELSE Emits([e EXCEPT !.rDone = TRUE, !.rText = final], <<Done(e.rIndex, final, status)>>)

EnsureMessage(e) ==
    IF e.mIndex >= 0 THEN Emits(e, <<>>)
    ELSE Emits([e EXCEPT !.mIndex = e.next, !.next = @ + 1], <<Added("message", e.next)>>)

CloseMessage(e, final, status) ==
    IF e.mIndex < 0 \/ e.mDone THEN Emits(e, <<>>)
    ELSE Emits([e EXCEPT !.mDone = TRUE, !.mText = final], <<Done(e.mIndex, final, status)>>)

AddReasoning(e, t) ==
    Emits([e EXCEPT !.rText = @ \o t], <<Delta(e.rIndex, t)>>)

AddMessage(e, t) ==
    IF t = <<>> THEN Emits(e, <<>>)
    ELSE Emits([e EXCEPT !.mText = @ \o t], <<Delta(e.mIndex, t)>>)

ReasoningDelta(e, t) == Then(EnsureReasoning(e), LAMBDA x : AddReasoning(x, t))

ContentDelta(e, t) ==
    Then(Then(CloseReasoning(e, e.rText, "completed"), EnsureMessage),
         LAMBDA x : AddMessage(x, t))

(* One function call: announced, its arguments, done.                      *)
CallItem(e) ==
    Emits([e EXCEPT !.next = @ + 1],
          <<Added("function_call", e.next), Delta(e.next, <<"f">>),
            Done(e.next, <<"f">>, "completed")>>)

CallItems(s, calls) == FoldLeft(LAMBDA acc, i : Then(acc, CallItem), s, [i \in 1 .. calls |-> i])

ItemStatus(reason) == IF reason = "stop" THEN "completed" ELSE "incomplete"

(* The reasoning item is complete once anything followed it.               *)
ReasoningStatus(outcome) ==
    IF outcome.content # <<>> \/ outcome.calls > 0 THEN "completed"
    ELSE ItemStatus(outcome.reason)

NeedsMessage(outcome) == outcome.content # <<>> \/ outcome.calls = 0

ContentMismatch(e, outcome) ==
    NeedsMessage(outcome) /\ ~IsPrefix(e.mText, outcome.content)

(* finish: the events before the terminal one.                             *)
ResponsesFinish(e, outcome) ==
    LET Late(x)    == IF outcome.reasoning # <<>> /\ x.rIndex < 0
                      THEN ReasoningDelta(x, outcome.reasoning)
                      ELSE Emits(x, <<>>)
        Shut(x)    == CloseReasoning(x, outcome.reasoning, ReasoningStatus(outcome))
        Rest(x)    == AddMessage(x, SubSeq(outcome.content, Len(x.mText) + 1,
                                           Len(outcome.content)))
        Message(x) == IF NeedsMessage(outcome)
                      THEN Then(Then(EnsureMessage(x), Rest),
                                LAMBDA y : CloseMessage(y, outcome.content,
                                                        ItemStatus(outcome.reason)))
                      ELSE Emits(x, <<>>)
    IN  CallItems(Then(Then(Late(e), Shut), Message), outcome.calls)

(* build_response: the output of the terminal object.                      *)
ResponseOutput(outcome) ==
    LET Item(kind, t, status) == [kind |-> kind, text |-> t, status |-> status]
    IN  (IF outcome.reasoning = <<>> THEN <<>>
         ELSE <<Item("reasoning", outcome.reasoning, ReasoningStatus(outcome))>>)
        \o (IF NeedsMessage(outcome)
            THEN <<Item("message", outcome.content, ItemStatus(outcome.reason))>> ELSE <<>>)
        \o [i \in 1 .. outcome.calls |-> Item("function_call", <<"f">>, "completed")]

-----------------------------------------------------------------------------
(* The content blocks of /v1/messages; a block's stop carries no text.     *)

(* rDone and mDone are "not open": thinking_open and text_open inverted.   *)
StopThinking(e) == CloseReasoning(e, e.rText, "completed")
StopText(e) == CloseMessage(e, e.mText, "completed")

Thinking(e, t) ==
    LET opened == IF e.rIndex >= 0 /\ ~e.rDone THEN Emits(e, <<>>)
                  ELSE Emits([e EXCEPT !.rIndex = e.next, !.next = @ + 1, !.rDone = FALSE],
                             <<Added("reasoning", e.next)>>)
    IN  Then(opened, LAMBDA x : AddReasoning(x, t))

TextBlock(e, t) ==
    Then(Then(StopThinking(e), EnsureMessage), LAMBDA x : AddMessage(x, t))

(* A block that is announced, filled and stopped at once.                  *)
WholeText(e, t) ==
    Emits([e EXCEPT !.next = @ + 1],
          <<Added("message", e.next)>> \o (IF t = <<>> THEN <<>> ELSE <<Delta(e.next, t)>>)
              \o <<Done(e.next, t, "completed")>>)

MessagesFinish(e, outcome, remaining) ==
    LET Rest(x)  == IF toolCapable /\ remaining # <<>> THEN WholeText(x, remaining)
                    ELSE Emits(x, <<>>)
        Empty(x) == IF x.next = 0 THEN WholeText(x, <<>>) ELSE Emits(x, <<>>)
        tools    == CallItems(Then(Then(StopThinking(e), StopText), Rest), outcome.calls)
    IN  Then(tools, Empty)

-----------------------------------------------------------------------------
(* The chunks of /v1/chat/completions: one message, no indices.  Both       *)
(* channels and the calls are fields of it, kept here as three items.      *)

ChatDelta(e, index, t) == Emits(e, <<Delta(index, t)>>)

ChatFinish(e, outcome, remaining) ==
    Emits(e, (IF (outcome.calls > 0 \/ toolCapable) /\ remaining # <<>>
              THEN <<Delta(1, remaining)>> ELSE <<>>)
             \o [i \in 1 .. outcome.calls |-> Delta(2, <<"f">>)])

ChatView == [i \in 1 .. 3 |-> [kind |-> <<"reasoning", "message", "function_call">>[i],
                               text |-> <<>>, status |-> "in_progress"]]

-----------------------------------------------------------------------------
(* The stream.                                                             *)

Init ==
    /\ api \in Apis
    /\ toolCapable \in BOOLEAN
    /\ text \in Texts
    /\ reasoning \in Reasonings
    /\ told = [reasoning |-> 0, text |-> 0]
    /\ filter = NewFilter
    /\ streamed = <<>>
    /\ enc = NewEncoder
    /\ view = IF api = "chat" THEN ChatView ELSE <<>>
    /\ phase = "streaming"

OnReasoning(e, t) ==
    CASE api = "responses" -> ReasoningDelta(e, t)
      [] api = "messages" -> Thinking(e, t)
      [] api = "chat" -> ChatDelta(e, 0, t)

(* publish_content skips an empty delta.                                   *)
OnContent(e, t) ==
    IF t = <<>> THEN Emits(e, <<>>)
    ELSE CASE api = "responses" -> ContentDelta(e, t)
           [] api = "messages" -> TextBlock(e, t)
           [] api = "chat" -> ChatDelta(e, 1, t)

(* The output session publishes the reasoning before any content.          *)
PublishReasoning(n) ==
    LET to == told.reasoning + n
        s  == OnReasoning(enc, SubSeq(reasoning, told.reasoning + 1, to))
    IN  /\ phase = "streaming"
        /\ to <= Len(reasoning)
        /\ told' = [told EXCEPT !.reasoning = to]
        /\ enc' = s.e
        /\ Receive(s.events)
        /\ UNCHANGED <<api, toolCapable, text, reasoning, filter, streamed, phase>>

PublishContent(n) ==
    LET to    == told.text + n
        delta == SubSeq(text, told.text + 1, to)
        fed   == IF toolCapable THEN Feed(filter, delta)
                 ELSE [filter |-> filter, visible |-> delta]
        s     == OnContent(enc, fed.visible)
    IN  /\ phase = "streaming"
        /\ told.reasoning = Len(reasoning)
        /\ to <= Len(text)
        /\ told' = [told EXCEPT !.text = to]
        /\ filter' = fed.filter
        /\ streamed' = streamed \o fed.visible
        /\ enc' = s.e
        /\ Receive(s.events)
        /\ UNCHANGED <<api, toolCapable, text, reasoning, phase>>

Outcome(reason) ==
    LET parsed == IF toolCapable THEN ParseOutput(text) ELSE [content |-> text, calls |-> 0]
    IN  [content |-> parsed.content, calls |-> parsed.calls,
         reasoning |-> reasoning, reason |-> reason]

(* streamed_content_bytes: what the sink has published, the flush included. *)
CountedBytes(tail) == Len(streamed) + Len(tail)

(* The end of run flushes the filter; the encoder then closes the reply.   *)
(* unstreamed_content and finish throw when the stream and the outcome      *)
(* disagree.                                                                *)
Finish(reason) ==
    LET outcome   == Outcome(reason)
        tail      == IF toolCapable THEN FinishFilter(filter, outcome.calls > 0) ELSE <<>>
        flushed   == OnContent(enc, tail)
        counted   == CountedBytes(tail)
        remaining == SubSeq(outcome.content, counted + 1, Len(outcome.content))
        throws    == IF api = "responses" THEN ContentMismatch(flushed.e, outcome)
                     ELSE counted > Len(outcome.content)
        closed    == CASE api = "responses" -> Then(flushed, LAMBDA x : ResponsesFinish(x, outcome))
                       [] api = "messages" ->
                            Then(flushed, LAMBDA x : MessagesFinish(x, outcome, remaining))
                       [] api = "chat" ->
                            Then(flushed, LAMBDA x : ChatFinish(x, outcome, remaining))
        step      == IF throws THEN flushed ELSE closed
    IN  /\ phase = "streaming"
        /\ told = [reasoning |-> Len(reasoning), text |-> Len(text)]
        /\ streamed' = streamed \o tail
        /\ enc' = step.e
        /\ Receive(step.events)
        /\ phase' = IF throws THEN "threw" ELSE reason
        /\ UNCHANGED <<api, toolCapable, text, reasoning, told, filter>>

Terminated == phase # "streaming" /\ UNCHANGED vars

Next ==
    \/ \E n \in 1 .. Len(reasoning) : PublishReasoning(n)
    \/ \E n \in 1 .. Len(text) : PublishContent(n)
    \/ \E reason \in FinishReasons : Finish(reason)
    \/ Terminated

Spec == Init /\ [][Next]_vars

-----------------------------------------------------------------------------
(* Properties.                                                             *)

(* What has been shown to the client stays true: whatever the split into    *)
(* deltas, the streamed content is a beginning of the content the complete  *)
(* text parses to, so no part of a tool call and no white space in front of *)
(* one leaks into the stream, and the two logic_error checks that compare   *)
(* the stream with the outcome never fire.                                  *)
NeverRetracted == phase # "threw" /\ IsPrefix(streamed, Outcome("stop").content)

(* What the texts of the items of a kind add up to.                        *)
Joined(kind) ==
    FoldLeft(LAMBDA t, item : IF item.kind = kind THEN t \o item.text ELSE t, <<>>, view)

(* A client that applies the events gets the outcome.  The items assembled  *)
(* from a Responses stream are the output of the terminal object: same      *)
(* order, indices, texts and statuses.  The blocks or chunks of the other   *)
(* two endpoints add up to the outcome, every block was stopped, and a      *)
(* messages reply never has no block.                                       *)
RepliesAssembled ==
    /\ view # Broken
    /\ phase \in FinishReasons =>
          IF api = "responses" THEN view = ResponseOutput(Outcome(phase))
          ELSE /\ Joined("message") = Outcome("stop").content
               /\ Joined("reasoning") = reasoning
               /\ Len(Joined("function_call")) = Outcome("stop").calls
               /\ api = "messages" =>
                     view # <<>> /\ \A i \in DOMAIN view : view[i].status = "completed"
=============================================================================
