----------------------------- MODULE MCExecutor -----------------------------
(***************************************************************************)
(* Small instances of the executor for TLC.                                *)
(***************************************************************************)
EXTENDS Executor

(***************************************************************************)
(* Callers against the worker: one lane and one place in the queue, so     *)
(* that a third request finds the executor full.                           *)
(***************************************************************************)
LifeKinds == {"lanes", "pages"}
LifeCapacity == [k \in LifeKinds |-> IF k = "lanes" THEN 1 ELSE 2]
LifeNeed == [r \in Requests |-> [k \in LifeKinds |-> 1]]
LifePrompt == [r \in Requests |-> 1]
LifeOutput == [r \in Requests |-> 2]
LifeReuse == [r \in Requests |-> [s \in Requests \cup {NoRequest} |-> 0]]

(***************************************************************************)
(* Admission: up to four requests, three lanes, five pages.  Request 2     *)
(* cannot run beside request 1; requests 3 and 4 fit beside either of      *)
(* them, but only one of them fits beside request 2 for good.  Request 3   *)
(* and request 4 find their prompts in the sequence of request 1.          *)
(***************************************************************************)
BackKinds == {"lanes", "pages"}
BackCapacity == [k \in BackKinds |-> IF k = "lanes" THEN 3 ELSE 5]
BackNeed == [r \in Requests |-> [k \in BackKinds |->
                IF k = "lanes" THEN 1 ELSE <<3, 4, 1, 1>>[r]]]
BackPrompt == [r \in Requests |-> <<1, 2, 1, 1>>[r]]
BackOutput == [r \in Requests |-> <<6, 1, 3, 4>>[r]]
LiveOutput == [r \in Requests |-> <<3, 1, 2>>[r]]
BackReuse == [r \in Requests |-> [s \in Requests \cup {NoRequest} |->
                IF s = 1 /\ r > 2 THEN 1 ELSE 0]]

\* A state the executor reaches when the worker is slow: every request has been
\* queued, request 1 first and the others in any order, and its caller waits for it
\* or still holds the submission it may drop.
Backlogged ==
    \E order \in {o \in [1 .. Cardinality(Requests) -> Requests] :
                     /\ \A i, j \in DOMAIN o : o[i] = o[j] => i = j
                     /\ o[1] = 1} :
        /\ pending = order
        /\ id = [r \in Requests |-> CHOOSE i \in DOMAIN order : order[i] = r]
        /\ nextId = Len(order) + 1
        /\ outstanding = Len(order)
        /\ caller = [r \in Requests |-> IF r \in MayAbandon THEN "holding" ELSE "waiting"]

BacklogInit ==
    /\ Backlogged
    /\ cancelled = [r \in Requests |-> FALSE]
    /\ expired = [r \in Requests |-> FALSE]
    /\ unread = [r \in Requests |-> FALSE]
    /\ stage = [r \in Requests |-> "open"]
    /\ verdict = [r \in Requests |-> "none"]
    /\ capacityReleased = [r \in Requests |-> FALSE]
    /\ stopping = FALSE
    /\ failed = FALSE
    /\ at = [pc |-> "top"]
    /\ prevDecode = FALSE
    /\ slots = [l \in Lanes |-> NoRequest]
    /\ prefillLane = NoLane
    /\ run = [r \in Requests |-> NotRunning]
    /\ plans = [r \in Requests |-> NoPlans]
    /\ cache = [l \in Lanes |-> Vacant]
    /\ protection = NoProtection
    /\ nextEpoch = 1
    /\ bug = FALSE

BacklogSpec == BacklogInit /\ [][Next]_vars
FairBacklogSpec == BacklogSpec /\ Fairness
=============================================================================
