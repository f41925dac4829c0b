------------------------------ MODULE Lifecycle ------------------------------
(***************************************************************************)
(* What the engine promises a caller of submit and wait, without lanes,     *)
(* pages, plans or threads: the executor implements this specification.    *)
(***************************************************************************)
EXTENDS Integers, FiniteSets

CONSTANTS
    Requests,
    MaxPlaces,      \* requests that may hold a place at a time
    MaxRunning      \* requests that may run at a time

VARIABLES
    phase,      \* absent, reserved, queued, running, answered or refused
    answer,     \* what the request was answered with
    asked,      \* requests whose caller asked for cancellation
    left,       \* requests whose caller has gone
    places,     \* requests that hold a place of the engine
    open        \* whether the engine still takes requests

vars == <<phase, answer, asked, left, places, open>>

Waiting == {r \in Requests : phase[r] = "queued"}
Running == {r \in Requests : phase[r] = "running"}

Init ==
    /\ phase = [r \in Requests |-> "absent"]
    /\ answer = [r \in Requests |-> "none"]
    /\ asked = {}
    /\ left = {}
    /\ places = {}
    /\ open = TRUE

Accept(r) ==
    /\ phase[r] = "absent" /\ open
    /\ Cardinality(places) < MaxPlaces
    /\ phase' = [phase EXCEPT ![r] = "reserved"]
    /\ places' = places \cup {r}
    /\ UNCHANGED <<answer, asked, left, open>>

(* A request is refused before or after its place was reserved; it leaves   *)
(* nothing behind.                                                          *)
Refuse(r) ==
    /\ phase[r] \in {"absent", "reserved"}
    /\ phase' = [phase EXCEPT ![r] = "refused"]
    /\ places' = places \ {r}
    /\ UNCHANGED <<answer, asked, left, open>>

Enqueue(r) ==
    /\ phase[r] = "reserved" /\ open
    /\ phase' = [phase EXCEPT ![r] = "queued"]
    /\ UNCHANGED <<answer, asked, left, places, open>>

Start(r) ==
    /\ phase[r] = "queued" /\ open
    /\ Cardinality(Running) < MaxRunning
    /\ phase' = [phase EXCEPT ![r] = "running"]
    /\ UNCHANGED <<answer, asked, left, places, open>>

Ask(r) ==
    /\ phase[r] \in {"queued", "running", "answered"}
    /\ asked' = asked \cup {r}
    /\ UNCHANGED <<phase, answer, left, places, open>>

(* What a request may be answered with: only a running one finishes, only   *)
(* a waiting one expires or is rejected, only one that was asked to is      *)
(* cancelled.                                                               *)
Answers(r) ==
    (IF phase[r] = "running" THEN {"finished"} ELSE {"timeout", "rejected"})
        \cup (IF r \in asked THEN {"cancelled"} ELSE {})

Settle(v) ==
    /\ phase' = [r \in Requests |-> IF r \in DOMAIN v THEN "answered" ELSE phase[r]]
    /\ answer' = [r \in Requests |-> IF r \in DOMAIN v THEN v[r] ELSE answer[r]]

(* One unit of work may answer several requests.                           *)
Answer(S) ==
    /\ S # {} /\ open
    /\ \E v \in [S -> {"finished", "timeout", "rejected", "cancelled"}] :
          /\ \A r \in S : v[r] \in Answers(r)
          /\ Settle(v)
    /\ UNCHANGED <<asked, left, places, open>>

(* The engine stops or fails: everybody it still owes an answer gets one.  *)
Close(outcome) ==
    /\ open
    /\ open' = FALSE
    /\ Settle([r \in Waiting \cup Running |-> outcome])
    /\ UNCHANGED <<asked, left, places>>

(* A caller goes with its answer, unless it asked for cancellation.        *)
Leave(r) ==
    /\ r \notin left
    /\ phase[r] = "answered" \/ (phase[r] \in {"queued", "running"} /\ r \in asked)
    /\ left' = left \cup {r}
    /\ UNCHANGED <<phase, answer, asked, places, open>>

(* The place is free when the request is answered and its caller has gone. *)
Release(r) ==
    /\ r \in places /\ r \in left
    /\ phase[r] = "answered"
    /\ places' = places \ {r}
    /\ UNCHANGED <<phase, answer, asked, left, open>>

Next ==
    \/ \E r \in Requests : \/ Accept(r) \/ Refuse(r) \/ Enqueue(r) \/ Start(r)
                           \/ Ask(r) \/ Leave(r) \/ Release(r)
    \/ \E S \in SUBSET (Waiting \cup Running) : Answer(S)
    \/ \E outcome \in {"unavailable", "error"} : Close(outcome)

Spec == Init /\ [][Next]_vars
=============================================================================
