------------------------------- MODULE Serving -------------------------------
(***************************************************************************)
(* The HTTP handlers that generate text: /v1/chat/completions,             *)
(* /v1/messages and /v1/responses (src/src/serve), each request on a thread *)
(* of the server's pool, sharing the request capacity and the response      *)
(* store.  The client may leave at any moment.                             *)
(*                                                                         *)
(* A request and the response it produces share one id.  What the engine   *)
(* does between submit and the end of run is the Executor's model; here     *)
(* run publishes some deltas and then returns an outcome or throws.         *)
(* Rendering of events is left out: an event is its kind.                  *)
(***************************************************************************)
EXTENDS ResponseStore

CONSTANTS
    Shapes,         \* [api, stream, store, continues] a client may send
    MaxActive,      \* max_concurrency + max_pending_requests
    MaxOthers,      \* bound: requests whose response is not stored
    MaxDeltas,      \* bound: deltas published by one generation
    MaxLookups,     \* bound: GET, DELETE, input_items and cancel requests
    MaxDepartures   \* bound: clients that leave before their answer

None == "none"

ASSUME ServingAssumption ==
    /\ None \notin Ids
    /\ MaxActive \in Nat \ {0}
    /\ MaxOthers \in Nat
    /\ MaxDeltas \in Nat
    /\ MaxLookups \in Nat
    /\ MaxDepartures \in Nat

VARIABLES
    pc,         \* where the handler of a request stands
    req,        \* the request: its shape and previous_response_id
    connected,  \* whether the client is still there
    context,    \* previous_context, read once by the handler
    outcome,    \* the finish reason run returned
    started,    \* streams whose content provider was called
    holds,      \* requests whose RequestLifetime is alive
    active,     \* RequestCapacity::active
    log,        \* request log records of the request, in order
    seen,       \* events (or the body) the client received, in order
    lookups,    \* requests to the resource endpoints so far
    stopping,   \* HttpServer::stop was called
    used,       \* history: ids ever stored, most recently used first
    removed     \* history: ids that were stored and are not any more

handlerVars == <<pc, req, connected, context, outcome, started, holds, active, log, seen>>
serverVars == <<lookups, stopping>>
history == <<used, removed>>
vars == <<storeVars, handlerVars, serverVars, history>>

(* "completed" stands for every finish reason but a cancellation: no action  *)
(* tells a stop from the length limit, which /v1/responses calls incomplete. *)
Terminals == {"completed", "cancelled", "failed"}
NoRequest == [api |-> "chat", stream |-> FALSE, store |-> FALSE, previous |-> None]

Init ==
    /\ StoreInit
    /\ pc = [r \in Ids |-> "idle"]
    /\ req = [r \in Ids |-> NoRequest]
    /\ connected = [r \in Ids |-> TRUE]
    /\ context = [r \in Ids |-> <<>>]
    /\ outcome = [r \in Ids |-> None]
    /\ started = {}
    /\ holds = {}
    /\ active = 0
    /\ log = [r \in Ids |-> <<>>]
    /\ seen = [r \in Ids |-> <<>>]
    /\ lookups = 0
    /\ stopping = FALSE
    /\ used = <<>>
    /\ removed = {}

Goto(r, step) == pc' = [pc EXCEPT ![r] = step]
Record(r, entry) == log' = [log EXCEPT ![r] = Append(@, entry)]
Deliver(r, event) == seen' = [seen EXCEPT ![r] = Append(@, event)]

(* A client can name the responses whose id it was told.                   *)
Issued == {r \in Ids : seen[r] # <<>>}

Streams(r) == req[r].stream
Stores(r) == req[r].api = "responses" /\ req[r].store

-----------------------------------------------------------------------------
(* The lifetime of a request: its share of the capacity.                   *)

DropLifetime(r) ==
    /\ holds' = holds \ {r}
    /\ active' = IF r \in holds THEN active - 1 ELSE active

KeepLifetime(r) == UNCHANGED <<holds, active>>

-----------------------------------------------------------------------------
(* What has arrived that is not to be stored, for the bound.               *)
Others == {r \in Ids : pc[r] # "idle" /\ ~Stores(r)}

(* A request arrives; the client then may leave before it is answered.     *)
Arrive(r) ==
    /\ pc[r] = "idle"
    /\ r = CHOOSE q \in Ids : pc[q] = "idle"
    /\ \E shape \in Shapes :
         /\ (shape.api = "responses" /\ shape.store) \/ Cardinality(Others) < MaxOthers
         /\ \E previous \in IF shape.continues THEN Issued ELSE {None} :
              req' = [req EXCEPT ![r] = [api |-> shape.api, stream |-> shape.stream,
                                         store |-> shape.store, previous |-> previous]]
    /\ Goto(r, "parse")
    /\ UNCHANGED <<storeVars, connected, context, outcome, started, holds, active, log, seen,
                   serverVars, history>>

Disconnect(r) ==
    /\ pc[r] \notin {"idle", "end"}
    /\ connected[r]
    /\ Cardinality({s \in Ids : ~connected[s]}) < MaxDepartures
    /\ connected' = [connected EXCEPT ![r] = FALSE]
    /\ UNCHANGED <<storeVars, pc, req, context, outcome, started, holds, active, log, seen,
                   serverVars, history>>

(* The previous response is looked up once; its record is shared, so what  *)
(* happens to the store afterwards does not change this conversation.      *)
ReadPrevious(r) ==
    LET previous == req[r].previous
    IN  /\ pc[r] = "parse"
        /\ IF previous = None
           THEN /\ Goto(r, "acquire")
                /\ UNCHANGED <<storeVars, context, history>>
           ELSE /\ Touch(previous)
                /\ IF Found(previous)
                   THEN /\ context' = [context EXCEPT ![r] = records[previous]]
                        /\ used' = <<previous>> \o Without(used, previous)
                        /\ Goto(r, "acquire")
                   ELSE /\ Goto(r, "end")
                        /\ UNCHANGED <<context, used>>
                /\ UNCHANGED removed
        /\ UNCHANGED <<req, connected, outcome, started, holds, active, log, seen, serverVars>>

Full == active >= MaxActive

(* The beginning of prepare: a request that the server cannot serve is      *)
(* refused before the capacity is asked for, and any request when it is     *)
(* taken (acquire_request_lifetime).                                        *)
Acquire(r) ==
    /\ pc[r] = "acquire"
    /\ \/ /\ Record(r, "rejected")
          /\ Goto(r, "end")
          /\ UNCHANGED <<holds, active>>
       \/ /\ ~Full
          /\ holds' = holds \cup {r}
          /\ active' = active + 1
          /\ Goto(r, "prepare")
          /\ UNCHANGED log
    /\ UNCHANGED <<storeVars, req, connected, context, outcome, started, seen, serverVars, history>>

\* Mutant: the lifetime is dropped without returning its unit.
PrepareFailsHolding(r) ==
    /\ pc[r] = "prepare"
    /\ holds' = holds \ {r}
    /\ UNCHANGED active
    /\ Record(r, "rejected")
    /\ Goto(r, "end")
    /\ UNCHANGED <<storeVars, req, connected, context, outcome, started, seen, serverVars, history>>

(* The rest of prepare and the submission.  Media that cannot be fetched,  *)
(* a deadline, a client that left or a full queue throws; the unwinding     *)
(* destroys the lifetime with the half-built PreparedRequest.               *)
PrepareFails(r) ==
    /\ pc[r] = "prepare"
    /\ DropLifetime(r)
    /\ Record(r, "rejected")
    /\ Goto(r, "end")
    /\ UNCHANGED <<storeVars, req, connected, context, outcome, started, seen, serverVars, history>>

PrepareSucceeds(r) ==
    /\ pc[r] = "prepare"
    /\ Record(r, "start")
    /\ Goto(r, IF Streams(r) THEN "start" ELSE "run")
    /\ UNCHANGED <<storeVars, req, connected, context, outcome, started, holds, active, seen,
                   serverVars, history>>

-----------------------------------------------------------------------------
(* Writing an event.  write_stream_item throws ClientDisconnected for a     *)
(* client that left: the provider logs the error and gives up.              *)

\* Mutant: a client that left is not logged.
WriteUnlogged(r, event, next) ==
    /\ IF connected[r]
       THEN Deliver(r, event) /\ Goto(r, next)
       ELSE Goto(r, "release") /\ UNCHANGED seen
    /\ UNCHANGED log

(* A write may still be accepted after the peer left (the kernel buffers    *)
(* it); it is then not received.                                            *)
Write(r, event, next) ==
    \/ /\ connected[r]
       /\ Deliver(r, event)
       /\ Goto(r, next)
       /\ UNCHANGED log
    \/ /\ ~connected[r]
       /\ Goto(r, next)
       /\ UNCHANGED <<log, seen>>
    \/ /\ ~connected[r]
       /\ Record(r, "error")
       /\ Goto(r, "release")
       /\ UNCHANGED seen

(* httplib asks whether the server stops and the socket is alive before it  *)
(* calls the provider.  When it does not call it, nothing is sent, and the  *)
(* releaser logs nothing: the request stays open in the log.                *)
SkipProvider(r) ==
    /\ pc[r] = "start"
    /\ stopping \/ ~connected[r]
    /\ Goto(r, "release")
    /\ UNCHANGED <<storeVars, req, connected, context, outcome, started, holds, active, log,
                   seen, serverVars, history>>

(* The provider is called; a departure may still be unnoticed.             *)
WriteStart(r) ==
    /\ pc[r] = "start"
    /\ ~stopping
    /\ started' = started \cup {r}
    /\ Write(r, "created", "run")
    /\ UNCHANGED <<storeVars, req, connected, context, outcome, holds, active, serverVars,
                   history>>

(* A published delta, the tool filter's flush at the end of run included.  *)
WriteDelta(r) ==
    /\ pc[r] = "run"
    /\ Streams(r)
    /\ Len(seen[r]) <= MaxDeltas
    /\ Write(r, "delta", "run")
    /\ UNCHANGED <<storeVars, req, connected, context, outcome, started, holds, active, serverVars,
                   history>>

(* run returns.  A cancelled generation returns like a finished one; only  *)
(* a client that left cancels.                                             *)
Returned(r) == IF connected[r] THEN {"completed"} ELSE {"completed", "cancelled"}

\* Mutant: the terminal event is sent without storing the response.
AfterRunUnstored(r) ==
    /\ Goto(r, "events")
    /\ IF req[r].api = "responses" THEN UNCHANGED log ELSE Record(r, "done")

(* After run: /v1/responses stores first (its finish builds the terminal    *)
(* object); the other two log the end at once.                              *)
AfterRun(r) ==
    IF req[r].api = "responses"
    THEN /\ Goto(r, IF Stores(r) THEN "put" ELSE "events")
         /\ UNCHANGED log
    ELSE /\ Record(r, "done")
         /\ Goto(r, "events")

RunReturns(r) ==
    /\ pc[r] = "run"
    /\ \E reason \in Returned(r) : outcome' = [outcome EXCEPT ![r] = reason]
    /\ AfterRun(r)
    /\ UNCHANGED <<storeVars, req, connected, context, started, holds, active, seen,
                   serverVars, history>>

(* The engine fails the request: a queue timeout, or the worker failed.    *)
RunThrows(r) ==
    /\ pc[r] = "run"
    /\ Record(r, "error")
    /\ Goto(r, "fail")
    /\ IF Streams(r) THEN KeepLifetime(r) ELSE DropLifetime(r)
    /\ UNCHANGED <<storeVars, req, connected, context, outcome, started, seen, serverVars, history>>

-----------------------------------------------------------------------------
(* Storing the response, before its terminal event or body is sent.        *)

\* Mutant: the previous response is looked up again when the new one is stored.
PutContextReread(r) ==
    AppendResponseContext(
        IF Found(req[r].previous) THEN records[req[r].previous] ELSE <<>>, r)

PutContext(r) == AppendResponseContext(context[r], r)

Stored(r) ==
    /\ FitsAlone(r, PutContext(r))
    /\ Insert(r, PutContext(r))
    /\ used' = <<r>> \o used
    /\ removed' = removed \cup (DOMAIN records \ DOMAIN records')
    /\ Goto(r, "events")
    /\ UNCHANGED <<log, holds, active>>

(* put throws: the request fails instead of pretending to be stored.       *)
TooLarge(r) ==
    /\ ~FitsAlone(r, PutContext(r))
    /\ Record(r, "error")
    /\ Goto(r, "fail")
    /\ IF Streams(r) THEN KeepLifetime(r) ELSE DropLifetime(r)
    /\ UNCHANGED <<storeVars, history>>

Put(r) ==
    /\ pc[r] = "put"
    /\ Stored(r) \/ TooLarge(r)
    /\ UNCHANGED <<req, connected, context, outcome, started, seen, serverVars>>

-----------------------------------------------------------------------------
(* The end of a response.                                                  *)

(* The events between the last delta and the terminal one; /v1/responses    *)
(* logs the end after them, immediately before its terminal event.          *)
FinishEvents(r) ==
    /\ pc[r] = "events"
    /\ Streams(r)
    /\ \/ /\ Goto(r, "terminal")
          /\ IF req[r].api = "responses" THEN Record(r, "done") ELSE UNCHANGED log
       \/ /\ ~connected[r]
          /\ Record(r, "error")
          /\ Goto(r, "release")
    /\ UNCHANGED <<storeVars, req, connected, context, outcome, started, holds, active, seen,
                   serverVars, history>>

(* started is set before the first event, so a second call of the provider  *)
(* writes nothing.                                                          *)
WriteTerminal(r) ==
    /\ pc[r] = "terminal"
    /\ Write(r, outcome[r], "release")
    /\ UNCHANGED <<storeVars, req, connected, context, outcome, started, holds, active, serverVars,
                   history>>

(* A response without a stream: the body takes the lifetime over.          *)
MakeBody(r) ==
    /\ pc[r] = "events"
    /\ ~Streams(r)
    /\ IF req[r].api = "responses" THEN Record(r, "done") ELSE UNCHANGED log
    /\ Goto(r, "body")
    /\ UNCHANGED <<storeVars, req, connected, context, outcome, started, holds, active, seen,
                   serverVars, history>>

SendBody(r) ==
    /\ pc[r] = "body"
    /\ IF connected[r] THEN Deliver(r, outcome[r]) ELSE UNCHANGED seen
    /\ Goto(r, "release")
    /\ UNCHANGED <<storeVars, req, connected, context, outcome, started, holds, active, log,
                   serverVars, history>>

(* The error event of a stream, or the error body.                         *)
SendFailure(r) ==
    /\ pc[r] = "fail"
    /\ IF connected[r] THEN Deliver(r, "failed") ELSE UNCHANGED seen
    /\ Goto(r, "release")
    /\ UNCHANGED <<storeVars, req, connected, context, outcome, started, holds, active, log,
                   serverVars, history>>

(* httplib destroys the response: the releaser runs and the last owner of   *)
(* the lifetime goes.                                                       *)
Release(r) ==
    /\ pc[r] = "release"
    /\ DropLifetime(r)
    /\ Goto(r, "end")
    /\ UNCHANGED <<storeVars, req, connected, context, outcome, started, log, seen, serverVars,
                   history>>

-----------------------------------------------------------------------------
(* The resource endpoints.  GET, input_items and cancel all get the record. *)
GetResponse(id) ==
    /\ lookups < MaxLookups
    /\ id \in Issued
    /\ Touch(id)
    /\ used' = IF Found(id) THEN <<id>> \o Without(used, id) ELSE used
    /\ lookups' = lookups + 1
    /\ UNCHANGED <<handlerVars, stopping, removed>>

DeleteResponse(id) ==
    /\ lookups < MaxLookups
    /\ id \in Issued
    /\ Erase(id)
    /\ removed' = removed \cup {id}
    /\ lookups' = lookups + 1
    /\ UNCHANGED <<handlerVars, stopping, used>>

(* A signal stops the server: what its threads have begun they finish, and  *)
(* connections that were accepted may still bring a request.                *)
Stop ==
    /\ ~stopping
    /\ stopping' = TRUE
    /\ UNCHANGED <<storeVars, handlerVars, lookups, history>>

-----------------------------------------------------------------------------
HandlerStep(r) ==
    \/ ReadPrevious(r) \/ Acquire(r) \/ PrepareFails(r) \/ PrepareSucceeds(r)
    \/ SkipProvider(r) \/ WriteStart(r) \/ WriteDelta(r) \/ RunReturns(r) \/ RunThrows(r)
    \/ Put(r) \/ FinishEvents(r) \/ WriteTerminal(r) \/ MakeBody(r) \/ SendBody(r)
    \/ SendFailure(r) \/ Release(r)

ClientStep(r) ==
    Arrive(r) \/ Disconnect(r) \/ GetResponse(r) \/ DeleteResponse(r)

Finished == /\ \A r \in Ids : pc[r] = "end"
            /\ UNCHANGED vars

Next == (\E r \in Ids : HandlerStep(r) \/ ClientStep(r)) \/ Stop \/ Finished

Spec == Init /\ [][Next]_vars

-----------------------------------------------------------------------------
(* Properties.                                                             *)

(* The capacity counts exactly the requests between a successful           *)
(* acquire_request_lifetime and the destruction of their response, so an    *)
(* error path neither leaks a place nor returns it twice.                  *)
CapacityExact ==
    /\ active = Cardinality(holds) /\ active <= MaxActive
    /\ \A r \in Ids : pc[r] \in {"start", "run", "put", "events", "terminal", "body"}
                         => r \in holds
    /\ \A r \in Ids : pc[r] \in {"idle", "parse", "acquire", "end"} => r \notin holds

EndedWith(r, events) == seen[r] # <<>> /\ seen[r][Len(seen[r])] \in events
Succeeded(r) == EndedWith(r, Terminals \ {"failed"})

(* What a client was told of a response agrees with the store and the log.  *)
(* Having received the terminal event (or body) of a response it asked to   *)
(* store, it can retrieve it, unless it was deleted or evicted since; what  *)
(* it was told failed was never stored nor logged as done (the handlers put *)
(* before they log, and log before they write).                             *)
StoredBeforeTerminal ==
    \A r \in Ids :
        /\ Stores(r) /\ Succeeded(r) => r \in DOMAIN records \cup removed
        /\ EndedWith(r, {"failed"}) => /\ r \notin DOMAIN records \cup removed
                                       /\ "done" \notin Range(log[r])

(* The records of a request whose handler is through.  A start is closed    *)
(* by one record; a stream whose client left may have a second, for the     *)
(* write that failed after the generation was done, and a stream has none   *)
(* if its provider was never called.                                        *)
LogClosed(r) ==
    \/ log[r] = <<>> /\ req[r].previous # None
    \/ log[r] = <<"rejected">>
    \/ log[r] \in {<<"start", "done">>, <<"start", "error">>}
    \/ log[r] = <<"start", "done", "error">> /\ Streams(r) /\ ~connected[r]
    \/ /\ log[r] = <<"start">> /\ Streams(r) /\ r \notin started
       /\ stopping \/ ~connected[r]

(* The stream a client receives starts with its created event and holds at *)
(* most one terminal event, the last; a success it receives was logged.     *)
(* Wherever the client left and whatever failed, a handler ends with the    *)
(* log of its request closed (log_request_done and log_request_error of the *)
(* handlers), closed twice only after a lost write, and left open only when *)
(* httplib never called the content provider.                               *)
OneTerminal ==
    \A r \in Ids :
        /\ \A i \in DOMAIN seen[r] : seen[r][i] \in Terminals => i = Len(seen[r])
        /\ Streams(r) /\ seen[r] # <<>> => seen[r][1] = "created"
        /\ Succeeded(r) => "done" \in Range(log[r])
        /\ pc[r] \in {"release", "end"} => LogClosed(r)

(* The conversation a request continues, from the requests themselves.     *)
Conversation[r \in Ids] ==
    IF req[r].previous = None THEN <<r>> ELSE Append(Conversation[req[r].previous], r)

(* Every stored conversation is the whole conversation: what was deleted   *)
(* or evicted between the handler's lookup and its put, or after, takes no  *)
(* turn away from the descendants.                                          *)
ContextWhole == \A r \in DOMAIN records : records[r] = Conversation[r]

(* A put evicts only what was used longest ago, and nothing that would      *)
(* have fitted: the most recently used of the victims could not have stayed. *)
EvictsOldest ==
    LET evicted == DOMAIN records \ DOMAIN records'
        Age(id) == CHOOSE i \in DOMAIN used' : used'[i] = id
        youngest == CHOOSE v \in evicted : \A w \in evicted : Age(v) <= Age(w)
        spared == DOMAIN records' \cup {youngest}
        everything == [id \in DOMAIN records \cup DOMAIN records' |->
                          IF id \in DOMAIN records THEN records[id] ELSE records'[id]]
    IN  (evicted # {} /\ DOMAIN records' \ DOMAIN records # {})
            => /\ \A v \in evicted, w \in DOMAIN records' : Age(w) < Age(v)
               /\ \/ Cardinality(spared) > MaxRecords
                  \/ RecomputeBytes(Restrict(everything, spared)) > MaxBytes

EvictionInOrder == [][EvictsOldest]_vars
=============================================================================
