------------------------------ MODULE Executor ------------------------------
(***************************************************************************)
(* The concurrent executor of the engine                                   *)
(* (src/runtime/engine/concurrent_executor.h): caller threads submit       *)
(* requests, wait for them, cancel or abandon them; one worker thread      *)
(* admits them to lanes, runs prefill steps and decode rounds and          *)
(* completes them.                                                         *)
(*                                                                         *)
(* A step of this module is a critical section of queue_mutex_ or of a     *)
(* request's mutex, or a stretch of the worker between two moments at      *)
(* which it looks at what the callers change (the cancellation flags, the  *)
(* deadlines, the queue).  The Program that the worker drives              *)
(* (src/targets/qwen3_6/impl/runtime) is present through the pages each    *)
(* lane is entitled to and the request whose sequence a lane retains.      *)
(*                                                                         *)
(* Lengths of prompts are in prefill chunks, lengths of outputs in tokens. *)
(***************************************************************************)
EXTENDS AdmissionPolicy, Sequences, TLC

CONSTANTS
    MaxConcurrency,  \* options.max_concurrency
    MaxPending,      \* options.max_pending_requests
    Prompt,          \* Prompt[r]: chunks of r's prompt
    OutTokens,       \* OutTokens[r]: effective_output_tokens of r's plan
    Reusable,        \* Reusable[r][s]: chunks of r's prompt found in s's sequence
    MaxAccept,       \* tokens a decode round can license for one row
    BadPlan,         \* requests for which planning throws
    MayCancel,       \* requests whose caller may ask for cancellation
    MayExpire,       \* requests whose deadline may pass while they wait
    MayAbandon,      \* requests whose Submission may be dropped unwaited
    MayStop,         \* whether the executor may be destroyed
    MayFault         \* whether a device error may end a GPU unit

Lanes == 0 .. MaxConcurrency - 1
NoLane == -1
Stale == -1
PageKinds == Kinds \ {"lanes"}
MaxOutstanding == MaxConcurrency + MaxPending

ASSUME ExecutorAssumption ==
    /\ MaxConcurrency \in Nat \ {0} /\ MaxPending \in Nat \ {0}
    /\ NoRequest \notin Requests /\ Stale \notin Requests
    /\ "lanes" \in Kinds /\ Capacity["lanes"] = MaxConcurrency
    /\ \A r \in Requests : Need[r]["lanes"] = 1
    /\ Prompt \in [Requests -> Nat \ {0}]
    /\ OutTokens \in [Requests -> Nat \ {0}]
    /\ MaxAccept \in Nat \ {0}
    /\ \A r \in Requests : /\ Reusable[r][NoRequest] = 0
                           /\ \A s \in Requests : Reusable[r][s] \in 0 .. Prompt[r]

VARIABLES
    caller,            \* where the thread that owns the request is
    id,                \* request_id, assigned when the capacity is reserved
    nextId,            \* next_request_id_
    outstanding,       \* outstanding_
    pending,           \* pending_
    cancelled,         \* Request::cancelled of each request
    expired,           \* whether the request's deadline has passed
    unread,            \* whether Request::events holds output
    stage,             \* how far the completion of the request is
    verdict,           \* what the worker completed the request with
    capacityReleased,  \* Request::capacity_released
    stopping,          \* stopping_
    failed,            \* failed_
    at,                \* where the worker is, with its local variables
    prevDecode,        \* previous_unit_was_decode
    slots,             \* slots_
    prefillLane,       \* prefill_lane_
    run,               \* the fields of Request that admission sets
    plans,             \* lane_plans with lane_plan_versions
    cache,             \* the sequence that each lane of the Program retains
    protection,        \* protection_
    nextEpoch,         \* next_protection_epoch_
    bug                \* an internal check has thrown

callerVars == <<caller, id, nextId, cancelled, expired, stopping>>
requestVars == <<unread, stage, verdict, capacityReleased, outstanding>>
laneVars == <<slots, prefillLane, run, cache>>
policyVars == <<plans, protection, nextEpoch>>
vars == <<callerVars, requestVars, laneVars, policyVars,
          pending, failed, at, prevDecode, bug>>

-----------------------------------------------------------------------------
(***************************************************************************)
(* States of a request.                                                    *)
(***************************************************************************)
Vacant == [source |-> NoRequest, pages |-> [k \in PageKinds |-> 0]]
NotRunning == [ready |-> FALSE, budget |-> 0, work |-> 0,
               class |-> "none", epoch |-> 0]
NoPlans == [l \in Lanes |-> Stale]

InQueue == {pending[i] : i \in DOMAIN pending}
Active == {slots[l] : l \in Lanes} \ {NoRequest}
LaneOf(r) == CHOOSE l \in Lanes : slots[l] = r
LanesOf(S) == {l \in Lanes : slots[l] \in S}

\* Mutant: nothing is ever erased from the queue.
WithoutNothing(seq, S) == seq

\* Removal from the queue: erase_pending, and the erasures of expire_pending_requests.
\* What is not in S stays, in its order: the k-th entry is the one with k-th rank.
Without(seq, S) ==
    LET kept == {i \in DOMAIN seq : seq[i] \notin S}
        rank(i) == Cardinality({j \in kept : j <= i})
    IN  [k \in 1 .. Cardinality(kept) |-> seq[CHOOSE i \in kept : rank(i) = k]]

\* build_round_membership: the rows of the next decode round.
Members == {r \in Active : run[r].ready}

\* Request::done is set.
Done(r) == stage[r] \in {"done", "freeing", "settled"}

\* The caller has run the first half of release_consumer.
ConsumerReleased(r) == caller[r] \in {"freeing", "gone"}

\* The request has been pushed to the queue at some time.
Submitted(r) ==
    caller[r] \in {"holding", "waiting", "returning", "dropping", "freeing", "gone"}

\* No completion is under way in the worker.
Settled == \A r \in Requests : stage[r] \in {"open", "settled"}

Work == [r \in Requests |-> run[r].work]
EpochOf == [r \in Requests |-> run[r].epoch]
ClassOf == [r \in Requests |-> run[r].class]

-----------------------------------------------------------------------------
Init ==
    /\ caller = [r \in Requests |-> "idle"]
    /\ id = [r \in Requests |-> 0]
    /\ nextId = 1
    /\ outstanding = 0
    /\ pending = <<>>
    /\ cancelled = [r \in Requests |-> FALSE]
    /\ expired = [r \in Requests |-> FALSE]
    /\ unread = [r \in Requests |-> FALSE]
    /\ stage = [r \in Requests |-> "open"]
    /\ verdict = [r \in Requests |-> "none"]
    /\ capacityReleased = [r \in Requests |-> FALSE]
    /\ stopping = FALSE
    /\ failed = FALSE
    /\ at = [pc |-> "top"]
    /\ prevDecode = FALSE
    /\ slots = [l \in Lanes |-> NoRequest]
    /\ prefillLane = NoLane
    /\ run = [r \in Requests |-> NotRunning]
    /\ plans = [r \in Requests |-> NoPlans]
    /\ cache = [l \in Lanes |-> Vacant]
    /\ protection = NoProtection
    /\ nextEpoch = 1
    /\ bug = FALSE

-----------------------------------------------------------------------------
(***************************************************************************)
(* The callers.                                                            *)
(***************************************************************************)
workerVars == <<laneVars, policyVars, failed, at, prevDecode, bug>>

\* Mutant: the bound is off by one.
HasRoomForOneMore == outstanding <= MaxOutstanding

\* The overload check of submit.
HasRoom == outstanding < MaxOutstanding

\* submit, first critical section: capacity and identity are reserved.
Reserve(r) ==
    /\ caller[r] = "idle"
    /\ ~stopping /\ ~failed /\ HasRoom
    /\ outstanding' = outstanding + 1
    /\ id' = [id EXCEPT ![r] = nextId]
    /\ nextId' = nextId + 1
    /\ caller' = [caller EXCEPT ![r] = "building"]
    /\ UNCHANGED <<workerVars, pending, cancelled, expired, stopping,
                   unread, stage, verdict, capacityReleased>>

\* submit throws before it has reserved anything.
Refuse(r) ==
    /\ caller[r] = "idle"
    /\ stopping \/ failed \/ ~HasRoom \/ r \in MayExpire
    /\ caller' = [caller EXCEPT ![r] = "refused"]
    /\ UNCHANGED <<workerVars, requestVars, pending, id, nextId, cancelled,
                   expired, stopping>>

\* submit: the output session or the Request cannot be made.
BuildFails(r) ==
    /\ caller[r] = "building"
    /\ outstanding' = outstanding - 1
    /\ caller' = [caller EXCEPT ![r] = "refused"]
    /\ UNCHANGED <<workerVars, pending, id, nextId, cancelled, expired, stopping,
                   unread, stage, verdict, capacityReleased>>

\* Mutant: a failure of the executor is not looked at again.
MustWithdrawOnStop == stopping

\* submit, second critical section, has to give the capacity back.
MustWithdraw == stopping \/ failed

\* submit, second critical section: the request is queued, unless the executor
\* has stopped in between.
Push(r) ==
    /\ caller[r] = "building"
    /\ IF MustWithdraw
         THEN /\ outstanding' = outstanding - 1
              /\ caller' = [caller EXCEPT ![r] = "refused"]
              /\ UNCHANGED pending
         ELSE /\ pending' = Append(pending, r)
              /\ caller' = [caller EXCEPT ![r] = "holding"]
              /\ UNCHANGED outstanding
    /\ UNCHANGED <<workerVars, id, nextId, cancelled, expired, stopping,
                   unread, stage, verdict, capacityReleased>>

\* Submission::wait enters wait_for_request.
Wait(r) ==
    /\ caller[r] = "holding"
    /\ caller' = [caller EXCEPT ![r] = "waiting"]
    /\ UNCHANGED <<workerVars, requestVars, pending, id, nextId, cancelled,
                   expired, stopping>>

\* Submission::reset: the caller drops the request without waiting for it.
Abandon(r) ==
    /\ r \in MayAbandon
    /\ caller[r] = "holding"
    /\ cancelled' = [cancelled EXCEPT ![r] = TRUE]
    /\ caller' = [caller EXCEPT ![r] = "dropping"]
    /\ UNCHANGED <<workerVars, requestVars, pending, id, nextId, expired, stopping>>

\* Mutant: a cancelled caller does not wait for the worker.
SawDoneOrCancelled(r) == Done(r) \/ cancelled[r]

\* What ends the loop of wait_for_request.
SawDone(r) == Done(r)

\* One turn of the loop of wait_for_request: the events are taken and done is read
\* in one critical section.
Poll(r) ==
    /\ caller[r] = "waiting"
    /\ unread' = [unread EXCEPT ![r] = FALSE]
    /\ caller' = [caller EXCEPT ![r] = IF SawDone(r) THEN "returning" ELSE @]
    /\ UNCHANGED <<workerVars, pending, id, nextId, cancelled, expired, stopping,
                   stage, verdict, capacityReleased, outstanding>>

\* wait_for_request: the sink throws, or the CancellationView asks to stop.
Cancel(r) ==
    /\ r \in MayCancel
    /\ caller[r] = "waiting" /\ ~cancelled[r]
    /\ cancelled' = [cancelled EXCEPT ![r] = TRUE]
    /\ UNCHANGED <<workerVars, requestVars, pending, caller, id, nextId, expired, stopping>>

\* Mutant: the capacity may be returned twice.
ReturnsCapacityAgain(r, other) == other

\* Mutant: nobody returns the capacity of a request that is done.
ReturnsCapacityEarly(r, other) == other /\ ~capacityReleased[r] /\ ~Done(r)

\* release_consumer and mark_completed share one rule: whoever comes second
\* returns the capacity, and only once.
ReturnsCapacity(r, other) == other /\ ~capacityReleased[r]

\* release_consumer, under the request's mutex.
ReleaseConsumer(r) ==
    /\ caller[r] \in {"returning", "dropping"}
    /\ LET release == ReturnsCapacity(r, Done(r))
       IN  /\ capacityReleased' = [capacityReleased EXCEPT ![r] = @ \/ release]
           /\ caller' = [caller EXCEPT ![r] = IF release THEN "freeing" ELSE "gone"]
    /\ UNCHANGED <<workerVars, pending, id, nextId, cancelled, expired, stopping,
                   unread, stage, verdict, outstanding>>

\* release_reserved_capacity, called by release_consumer.
CallerFrees(r) ==
    /\ caller[r] = "freeing"
    /\ outstanding' = IF outstanding # 0 THEN outstanding - 1 ELSE 0
    /\ caller' = [caller EXCEPT ![r] = "gone"]
    /\ UNCHANGED <<workerVars, pending, id, nextId, cancelled, expired, stopping,
                   unread, stage, verdict, capacityReleased>>

\* The deadline of a waiting request passes.
Expire(r) ==
    /\ r \in MayExpire
    /\ r \in InQueue /\ ~expired[r]
    /\ expired' = [expired EXCEPT ![r] = TRUE]
    /\ UNCHANGED <<workerVars, requestVars, pending, caller, id, nextId, cancelled, stopping>>

\* The destructor asks the worker to stop.
Stop ==
    /\ MayStop /\ ~stopping
    /\ stopping' = TRUE
    /\ UNCHANGED <<workerVars, requestVars, pending, caller, id, nextId, cancelled, expired>>

CallerStep ==
    \/ \E r \in Requests :
          \/ Reserve(r) \/ Refuse(r) \/ BuildFails(r) \/ Push(r)
          \/ Wait(r) \/ Abandon(r) \/ Poll(r) \/ Cancel(r)
          \/ ReleaseConsumer(r) \/ CallerFrees(r) \/ Expire(r)
    \/ Stop

-----------------------------------------------------------------------------
(***************************************************************************)
(* How the worker completes requests.                                      *)
(***************************************************************************)

\* complete_success, complete_error and complete_cancelled as far as the mutex of
\* the request: v gives each completed request its verdict, and the output of
\* the requests in published has been appended before.
Decide(v, published) ==
    /\ verdict' = [r \in Requests |-> IF r \in DOMAIN v THEN v[r] ELSE verdict[r]]
    /\ stage' = [r \in Requests |-> IF r \in DOMAIN v THEN "decided" ELSE stage[r]]
    /\ unread' = [r \in Requests |-> unread[r] \/ r \in published]
    /\ UNCHANGED <<capacityReleased, outstanding>>

Verdicts(S, outcome) == [r \in S |-> outcome]

\* The end of complete_success and complete_error: done is set under the
\* request's mutex.
SetDone(r) ==
    /\ stage[r] = "decided"
    /\ stage' = [stage EXCEPT ![r] = "done"]
    /\ UNCHANGED <<callerVars, laneVars, policyVars, pending, failed, at, prevDecode, bug,
                   unread, verdict, capacityReleased, outstanding>>

\* mark_completed, under the request's mutex again.
MarkCompleted(r) ==
    /\ stage[r] = "done"
    /\ LET release == ReturnsCapacity(r, ConsumerReleased(r))
       IN  /\ capacityReleased' = [capacityReleased EXCEPT ![r] = @ \/ release]
           /\ stage' = [stage EXCEPT ![r] = IF release THEN "freeing" ELSE "settled"]
    /\ UNCHANGED <<callerVars, laneVars, policyVars, pending, failed, at, prevDecode, bug,
                   unread, verdict, outstanding>>

\* release_reserved_capacity, called by the worker.
WorkerFrees(r) ==
    /\ stage[r] = "freeing"
    /\ outstanding' = IF outstanding # 0 THEN outstanding - 1 ELSE 0
    /\ stage' = [stage EXCEPT ![r] = "settled"]
    /\ UNCHANGED <<callerVars, laneVars, policyVars, pending, failed, at, prevDecode, bug,
                   unread, verdict, capacityReleased>>

\* Mutant: the version of a lane is not raised.
InvalidatedReleased(p, L, S) ==
    [r \in Requests |-> IF r \in S THEN NoPlans ELSE p[r]]

\* invalidate_lane_plans for the lanes of L, and release_planning_state for the
\* requests of S: their plans are stale, whatever they were.
Invalidated(p, L, S) ==
    [r \in Requests |-> [l \in Lanes |->
        IF l \in L \/ r \in S THEN Stale ELSE p[r][l]]]

\* fail_all, and the worker ends.  It completes what it finds in the queue and in
\* the lanes; a request in lost has been erased from the queue and has no lane.
FailAll(outcome, lost) ==
    LET all == (InQueue \cup Active) \ lost
    IN  /\ failed' = TRUE
        /\ pending' = <<>>
        /\ prefillLane' = NoLane
        /\ protection' = NoProtection
        /\ slots' = [l \in Lanes |-> NoRequest]
        /\ run' = [r \in Requests |-> IF r \in all THEN NotRunning ELSE run[r]]
        /\ plans' = Invalidated(plans, {}, all)
        /\ Decide(Verdicts(all, outcome), {})
        /\ at' = [pc |-> "stopped"]
        /\ UNCHANGED <<callerVars, cache, nextEpoch, prevDecode>>

\* An internal check throws, which ends in fail_all.
ThrowLosing(lost) == FailAll("error", lost) /\ bug' = TRUE
Throw == ThrowLosing({})

\* The worker sees stopping_ at the top of its loop.
StopWorker ==
    /\ at.pc = "top" /\ Settled
    /\ stopping
    /\ FailAll("unavailable", {})
    /\ UNCHANGED bug

\* A GPU unit ends in a device error.
Fault ==
    /\ MayFault
    /\ at.pc \in {"decode", "step"} /\ Settled
    /\ FailAll("error", {})
    /\ UNCHANGED bug

-----------------------------------------------------------------------------
(***************************************************************************)
(* The boundary between two units: cancellations, deadlines and the choice *)
(* of the next unit.                                                       *)
(***************************************************************************)

\* Requests that leave the queue whatever the admission policy says of them.
Overdue == {r \in InQueue : cancelled[r] \/ expired[r]}
OverdueVerdict(r) == IF cancelled[r] THEN "cancelled" ELSE "timeout"

\* Mutant: an admission may start although a prefill is staged.
NextUnitOverlapping(members, owner, waiting) ==
    CASE waiting /\ (members = {} \/ prevDecode) -> [pc |-> "select"]
      [] ~(waiting /\ (members = {} \/ prevDecode)) /\ members # {} -> [pc |-> "decode"]
      [] owner # NoLane /\ members = {} /\ ~waiting -> [pc |-> "step", lane |-> owner]
      [] OTHER -> [pc |-> "top"]

\* worker_loop: what runs next, given the rows that can decode, the owner of
\* the staged prefill and whether anything was waiting at the boundary.
NextUnit(members, owner, waiting) ==
    CASE owner # NoLane /\ members # {} /\ ~prevDecode -> [pc |-> "decode"]
      [] owner # NoLane /\ (members = {} \/ prevDecode) -> [pc |-> "step", lane |-> owner]
      [] owner = NoLane /\ waiting /\ (members = {} \/ prevDecode) -> [pc |-> "select"]
      [] owner = NoLane /\ members # {} /\ ~(waiting /\ prevDecode) -> [pc |-> "decode"]
      [] OTHER -> [pc |-> "top"]

\* Removal of the requests of S from their lanes (remove_completed_slot).
Vacated(S) == [l \in Lanes |-> IF slots[l] \in S THEN NoRequest ELSE slots[l]]
Stopped(S) == [r \in Requests |-> IF r \in S THEN NotRunning ELSE run[r]]
OwnerWithout(S) == IF prefillLane \in LanesOf(S) THEN NoLane ELSE prefillLane

\* expire_pending_requests clears the protection of a head it removes.
ProtectionWithout(S) == IF protection.head \in S THEN NoProtection ELSE protection

\* The top of worker_loop: expire_pending_requests, snapshot_cancellations,
\* cancel_active_requests, build_round_membership and the dispatch.
Boundary ==
    /\ at.pc = "top" /\ Settled
    /\ ~stopping
    /\ pending # <<>> \/ Active # {}
    /\ LET aborted == {r \in Active : cancelled[r]}
           members == {r \in Active \ aborted : run[r].ready}
           owner == OwnerWithout(aborted)
       IN  /\ pending' = Without(pending, Overdue)
           /\ protection' = ProtectionWithout(Overdue)
           /\ slots' = Vacated(aborted)
           /\ run' = Stopped(aborted)
           /\ prefillLane' = owner
           /\ plans' = Invalidated(plans, LanesOf(aborted), Overdue \cup aborted)
           /\ Decide([r \in Overdue \cup aborted |-> OverdueVerdict(r)],
                     {r \in Overdue \cup aborted : cancelled[r]})
           /\ at' = NextUnit(members, owner, pending' # <<>>)
    /\ UNCHANGED <<callerVars, cache, nextEpoch, failed, prevDecode, bug>>

-----------------------------------------------------------------------------
(***************************************************************************)
(* Admission: the pages of the Program, the choice of a lane and the       *)
(* choice of a request.                                                    *)
(***************************************************************************)

\* The pages of kind k that the lanes of L are entitled to, when lane l retains c[l].
Committed(c, L, k) ==
    Cardinality({u \in L \X (1 .. Capacity[k]) :
                    u[2] <= IF slots[u[1]] # NoRequest
                              THEN Need[slots[u[1]]][k] ELSE c[u[1]].pages[k]})

\* can_admit_lane: the lane's entitlement can be replaced by r's.
CanAdmit(c, l, r) ==
    \A k \in PageKinds : Need[r][k] <= Capacity[k] - Committed(c, Lanes \ {l}, k)

RetainedLanes == {l \in Lanes : slots[l] = NoRequest /\ cache[l].source # NoRequest}
Evicted(L) == [l \in Lanes |-> IF l \in L THEN Vacant ELSE cache[l]]

\* can_admit_lane_after_retained_eviction
CanAdmitAfterEviction(l, r) == CanAdmit(Evicted(RetainedLanes \ {l}), l, r)

\* Mutant: the loop ends one lane early.
LanesToEvictShort(l, r) ==
    LET upTo(m) == {x \in RetainedLanes \ {l} : x < m}
        enough == {m \in Lanes : CanAdmit(Evicted(upTo(m + 1)), l, r)}
    IN  IF CanAdmit(cache, l, r) \/ enough = {} THEN {} ELSE upTo(Min(enough))

\* The loop of admit_planned_request that evicts retained lanes, lowest first, until
\* the request fits.
LanesToEvict(l, r) ==
    LET upTo(m) == {x \in RetainedLanes \ {l} : x <= m}
        enough == {m \in Lanes : CanAdmit(Evicted(upTo(m)), l, r)}
    IN  IF CanAdmit(cache, l, r) THEN {}
        ELSE IF enough = {} THEN RetainedLanes \ {l}
        ELSE upTo(Min(enough))

\* ensure_lane_plan on every free lane.  A plan is told by the request whose
\* sequence the lane retained when the plan was made.
LanePlans(r) ==
    [l \in Lanes |-> IF slots[l] = NoRequest /\ plans[r][l] = Stale
                       THEN cache[l].source ELSE plans[r][l]]

\* reusable_prompt_tokens of a plan.
Reuse(r, plan) == Reusable[r][plan]

\* projected_service_work, as the summary of a lane plan holds it.
ServiceWork(r, plan) ==
    LET suffix == Prompt[r] - Reuse(r, plan)
    IN  (IF suffix = 0 THEN 1 ELSE suffix) + (OutTokens[r] - 1)

\* find_admission_lane: most reuse, then the lowest lane; lanes that need an
\* eviction only when no other will do.
FindAdmissionLane(r) ==
    LET free == {l \in Lanes : slots[l] = NoRequest}
        direct == {l \in free : CanAdmit(cache, l, r)}
        after == {l \in free : CanAdmitAfterEviction(l, r)}
        reuse(l) == Reuse(r, LanePlans(r)[l])
        best(S) == CHOOSE l \in S : \A m \in S : \/ reuse(m) < reuse(l)
                                                 \/ reuse(m) = reuse(l) /\ l <= m
    IN  IF direct # {} THEN [lane |-> best(direct), evict |-> FALSE]
        ELSE IF after # {} THEN [lane |-> best(after), evict |-> TRUE]
        ELSE [lane |-> NoLane, evict |-> FALSE]

\* Requests that try_admit_one removes from the queue instead of admitting them.
Inadmissible(r) == cancelled[r] \/ expired[r] \/ r \in BadPlan \/ ~Fits({r})
InadmissibleVerdict(r) ==
    IF cancelled[r] \/ expired[r] THEN OverdueVerdict(r) ELSE "rejected"

\* What the worker does when try_admit_one has run no GPU unit.
Unadmitted == [pc |-> IF Members # {} THEN "decode" ELSE "top"]

AdmitAt(r, class, epoch) ==
    [pc |-> "admit", req |-> r, lane |-> FindAdmissionLane(r).lane,
     evict |-> FindAdmissionLane(r).evict, class |-> class, epoch |-> epoch]

\* try_admit_one forgets the protection of a request that is no longer the head.
HeadProtection(head) == IF protection.head = head THEN protection ELSE NoProtection

\* try_admit_one finds the queue empty.
SelectNothing ==
    /\ at.pc = "select" /\ Settled
    /\ pending = <<>>
    /\ protection' = NoProtection
    /\ at' = Unadmitted
    /\ UNCHANGED <<callerVars, requestVars, laneVars, plans, nextEpoch, pending, failed,
                   prevDecode, bug>>

\* try_admit_one removes a head that cannot be admitted, and looks at the next one.
SelectDropsHead ==
    /\ at.pc = "select" /\ Settled
    /\ pending # <<>> /\ Inadmissible(Head(pending))
    /\ LET head == Head(pending)
       IN  /\ pending' = Tail(pending)
           /\ protection' = NoProtection
           /\ plans' = Invalidated(plans, {}, {head})
           /\ Decide(Verdicts({head}, InadmissibleVerdict(head)),
                     {r \in {head} : cancelled[r]})
    /\ UNCHANGED <<callerVars, laneVars, nextEpoch, failed, at, prevDecode, bug>>

\* try_admit_one finds a lane for the head.
SelectHead ==
    /\ at.pc = "select" /\ Settled
    /\ pending # <<>> /\ ~Inadmissible(Head(pending))
    /\ LET head == Head(pending)
       IN  /\ FindAdmissionLane(head).lane # NoLane
           /\ protection' = HeadProtection(head)
           /\ plans' = [plans EXCEPT ![head] = LanePlans(head)]
           /\ at' = AdmitAt(head, "none", 0)
    /\ UNCHANGED <<callerVars, requestVars, laneVars, nextEpoch, pending, failed,
                   prevDecode, bug>>

\* The class a candidate could be admitted under behind the protected head.
BackfillClass(prot, c) ==
    LET work == ServiceWork(c, LanePlans(c)[FindAdmissionLane(c).lane])
    IN  IF FindAdmissionLane(c).lane = NoLane THEN "none"
        ELSE IF PersistentSafe(prot, Active, EpochOf, ClassOf, c) THEN "persistent"
        ELSE IF work <= FrontierDistance(prot, Active, Work) /\ work <= prot.credit
          THEN "temporal"
        ELSE "none"

\* try_admit_one scans the queue behind a head that has no lane: inadmissible
\* candidates are removed, and the first candidate with a class is admitted.
Scan(prot, head) ==
    LET qualified == {i \in 2 .. Len(pending) :
                          /\ ~Inadmissible(pending[i])
                          /\ BackfillClass(prot, pending[i]) # "none"}
        last == IF qualified = {} THEN Len(pending) ELSE Min(qualified)
        scanned == {pending[i] : i \in 2 .. last}
        dropped == {r \in scanned : Inadmissible(r)}
        chosen == pending[last]
    IN  /\ pending' = Without(pending, dropped)
        /\ plans' = [r \in Requests |->
                       IF r \in dropped THEN NoPlans
                       ELSE IF r \in scanned \cup {head} THEN LanePlans(r)
                       ELSE plans[r]]
        /\ Decide([r \in dropped |-> InadmissibleVerdict(r)],
                  {r \in dropped : cancelled[r]})
        /\ at' = IF qualified = {} THEN Unadmitted
                 ELSE AdmitAt(chosen, BackfillClass(prot, chosen), prot.epoch)

\* try_admit_one protects a head that has no lane, drains, or backfills.
SelectBehindHead ==
    /\ at.pc = "select" /\ Settled
    /\ pending # <<>> /\ ~Inadmissible(Head(pending))
    /\ FindAdmissionLane(Head(pending)).lane = NoLane
    /\ LET head == Head(pending)
           fresh == protection.head # head
           made == IF fresh THEN MakeProtection(nextEpoch, head, Active, Work, id)
                   ELSE protection
           prot == IF SafeWithoutTemporal(made, Active, EpochOf, ClassOf)
                     THEN [made EXCEPT !.drain = TRUE] ELSE made
       IN  IF \/ Active = {}
              \/ \E r \in Active : run[r].work = 0
              \/ fresh /\ ProtectionThrows(head, Active, Work)
             THEN Throw
             ELSE /\ protection' = prot
                  /\ nextEpoch' = IF fresh THEN nextEpoch + 1 ELSE nextEpoch
                  /\ IF prot.drain
                       THEN /\ plans' = [plans EXCEPT ![head] = LanePlans(head)]
                            /\ at' = Unadmitted
                            /\ UNCHANGED <<requestVars, pending>>
                       ELSE Scan(prot, head)
                  /\ UNCHANGED <<callerVars, laneVars, failed, prevDecode, bug>>

\* admit_planned_request looks at the deadline and the flag once more.
AdmitWithdrawn ==
    /\ at.pc = "admit" /\ Settled
    /\ LET r == at.req
       IN  /\ cancelled[r] \/ expired[r]
           /\ pending' = Without(pending, {r})
           /\ protection' = ProtectionWithout({r})
           /\ plans' = Invalidated(plans, {}, {r})
           /\ Decide(Verdicts({r}, IF expired[r] THEN "timeout" ELSE "cancelled"),
                     IF expired[r] THEN {} ELSE {r})
    /\ at' = Unadmitted
    /\ UNCHANGED <<callerVars, laneVars, nextEpoch, failed, prevDecode, bug>>

\* Mutant: the credit is checked but not spent.
CreditUnspent(class, work) == protection

\* A temporal backfill takes its work from the credit of the protection.
CreditAfter(class, work) ==
    IF class = "temporal" THEN [protection EXCEPT !.credit = @ - work] ELSE protection

\* The checks of admit_planned_request and start_prefill_lane that throw.
AdmissionThrows(r, lane, plan, evicted) ==
    \/ plan = Stale
    \/ ~CanAdmit(Evicted(evicted), lane, r)
    \/ Reuse(r, plan) > 0 /\ cache[lane].source # plan

\* The check of the credit, which throws when the request is in no container.
CreditLost(r, plan) ==
    /\ at.class = "temporal" /\ plan # Stale
    /\ \/ protection = NoProtection
       \/ protection.epoch # at.epoch
       \/ ServiceWork(r, plan) > protection.credit

\* admit_planned_request up to the end of the first GPU unit: retained lanes are
\* evicted, the request gets its lane, and the first prefill step is started.
Admit ==
    /\ at.pc = "admit" /\ Settled
    /\ LET r == at.req
           lane == at.lane
           plan == plans[r][lane]
           evicted == IF at.evict THEN LanesToEvict(lane, r) ELSE {}
           paid == CreditAfter(at.class, ServiceWork(r, plan))
       IN  /\ ~cancelled[r] /\ ~expired[r]
           /\ IF CreditLost(r, plan) \/ AdmissionThrows(r, lane, plan, evicted)
                THEN ThrowLosing(IF CreditLost(r, plan) THEN {r} ELSE {})
                ELSE /\ pending' = Without(pending, {r})
                     /\ slots' = [slots EXCEPT ![lane] = r]
                     /\ run' = [run EXCEPT ![r] =
                                  [ready |-> FALSE, budget |-> OutTokens[r],
                                   work |-> ServiceWork(r, plan),
                                   class |-> at.class, epoch |-> at.epoch]]
                     /\ prefillLane' = IF Reuse(r, plan) < Prompt[r] THEN lane
                                       ELSE prefillLane
                     /\ cache' = Evicted(evicted \cup {lane})
                     /\ plans' = Invalidated(plans, evicted \cup {lane}, {r})
                     /\ protection' = IF protection.head = r THEN NoProtection ELSE paid
                     /\ at' = [pc |-> "step", lane |-> lane]
                     /\ UNCHANGED <<callerVars, requestVars, nextEpoch, failed,
                                    prevDecode, bug>>

-----------------------------------------------------------------------------
(***************************************************************************)
(* The GPU units.                                                          *)
(***************************************************************************)

\* The pages a lane may keep when its request ends normally: what has been mapped.
Keepable(r) == {v \in [PageKinds -> 1 .. Max({Need[r][k] : k \in PageKinds})] :
                    \A k \in PageKinds : v[k] <= Need[r][k]}

\* The lanes of the requests that keep[r] gives pages for retain their sequences.
Retaining(keep) ==
    [l \in Lanes |-> IF slots[l] \in DOMAIN keep
                       THEN [source |-> slots[l], pages |-> keep[slots[l]]]
                       ELSE cache[l]]

\* resolve_prefill_step with cancel_at_boundary.
StepCancelled ==
    /\ at.pc = "step" /\ Settled
    /\ cancelled[slots[at.lane]]
    /\ LET r == slots[at.lane]
       IN  IF run[r].work = 0 THEN Throw
           ELSE /\ slots' = Vacated({r})
                /\ run' = Stopped({r})
                /\ prefillLane' = OwnerWithout({r})
                /\ plans' = Invalidated(plans, {at.lane}, {r})
                /\ Decide(Verdicts({r}, "cancelled"), {r})
                /\ at' = [pc |-> "top"]
                /\ prevDecode' = FALSE
                /\ UNCHANGED <<callerVars, cache, protection, nextEpoch, pending, failed, bug>>

\* resolve_prefill_step of a step that is not the last: only the owner of the staged
\* prefill may stop short, and the projection leaves at least one more step for it.
StepPartial ==
    /\ at.pc = "step" /\ Settled
    /\ ~cancelled[slots[at.lane]]
    /\ LET r == slots[at.lane]
       IN  /\ at.lane = prefillLane
           /\ run[r].work > OutTokens[r]
           /\ run' = [run EXCEPT ![r] = [run[r] EXCEPT !.work = @ - 1]]
    /\ at' = [pc |-> "top"]
    /\ prevDecode' = FALSE
    /\ UNCHANGED <<callerVars, requestVars, slots, prefillLane, cache, policyVars,
                   pending, failed, bug>>

\* resolve_prefill_step of the last step, with resolve_round for its token: the
\* request becomes ready to decode, or ends with this token.
StepComplete(stop) ==
    /\ at.pc = "step" /\ Settled
    /\ ~cancelled[slots[at.lane]]
    /\ LET r == slots[at.lane]
           finished == stop \/ run[r].budget = 1
       IN  IF run[r].work = 0 THEN Throw
           ELSE /\ prefillLane' = OwnerWithout({r})
                /\ IF finished
                     THEN /\ slots' = Vacated({r})
                          /\ run' = Stopped({r})
                          /\ \E pages \in Keepable(r) : cache' = Retaining([q \in {r} |-> pages])
                          /\ plans' = Invalidated(plans, {at.lane}, {r})
                          /\ Decide(Verdicts({r}, "finished"), {r})
                     ELSE /\ run' = [run EXCEPT ![r] =
                                       [run[r] EXCEPT !.work = @ - 1, !.budget = @ - 1,
                                                      !.ready = TRUE]]
                          /\ Decide(<<>>, {r})
                          /\ UNCHANGED <<slots, cache, plans>>
                /\ at' = [pc |-> "top"]
                /\ prevDecode' = FALSE
                /\ UNCHANGED <<callerVars, protection, nextEpoch, pending, failed, bug>>

\* run_decode_round: every row accepts some of the tokens it is licensed to, or is
\* aborted because it was cancelled while the round ran.
DecodeRound(accepted, stops) ==
    /\ at.pc = "decode" /\ Settled
    /\ LET rows == {r \in Members : ~cancelled[r]}
           aborted == Members \ rows
           finished == {r \in rows : r \in stops \/ accepted[r] = run[r].budget}
           ended == aborted \cup finished
       IN  /\ stops \subseteq rows
           /\ \A r \in Members : IF r \in rows THEN accepted[r] <= run[r].budget
                                 ELSE accepted[r] = 1
           /\ IF \E r \in rows : accepted[r] > run[r].work
                THEN Throw
                ELSE /\ slots' = Vacated(ended)
                     /\ run' = [r \in Requests |->
                                  IF r \in ended THEN NotRunning
                                  ELSE IF r \in rows
                                    THEN [run[r] EXCEPT !.work = @ - accepted[r],
                                                        !.budget = @ - accepted[r]]
                                  ELSE run[r]]
                     /\ \E keep \in [finished -> UNION {Keepable(r) : r \in finished}] :
                          /\ \A r \in finished : keep[r] \in Keepable(r)
                          /\ cache' = Retaining(keep)
                     /\ plans' = Invalidated(plans, LanesOf(ended), ended)
                     /\ Decide([r \in ended |-> IF r \in aborted THEN "cancelled"
                                                ELSE "finished"], Members)
                     /\ at' = [pc |-> "top"]
                     /\ prevDecode' = TRUE
                     /\ UNCHANGED <<callerVars, prefillLane, protection, nextEpoch, pending,
                                    failed, bug>>

-----------------------------------------------------------------------------
Complete == \E r \in Requests : SetDone(r) \/ MarkCompleted(r) \/ WorkerFrees(r)

Worker ==
    \/ Complete
    \/ StopWorker \/ Boundary
    \/ SelectNothing \/ SelectDropsHead \/ SelectHead \/ SelectBehindHead
    \/ AdmitWithdrawn \/ Admit
    \/ StepCancelled \/ StepPartial
    \/ \E stop \in BOOLEAN : StepComplete(stop)
    \/ \E accepted \in [Members -> 1 .. MaxAccept], stops \in SUBSET Members :
          DecodeRound(accepted, stops)

Next == CallerStep \/ Worker \/ Fault

Spec == Init /\ [][Next]_vars

\* What a thread that has started goes on with: the worker thread, and callers
\* inside submit, wait_for_request and release_consumer.  Nobody has to submit,
\* cancel or stop, and a holder of a Submission waits for it or drops it.
Fairness ==
    /\ WF_vars(Worker)
    /\ \A r \in Requests :
          /\ WF_vars(Push(r)) /\ WF_vars(Wait(r) \/ Abandon(r)) /\ WF_vars(Poll(r))
          /\ WF_vars(ReleaseConsumer(r)) /\ WF_vars(CallerFrees(r))

FairSpec == Spec /\ Fairness

-----------------------------------------------------------------------------
(***************************************************************************)
(* Properties.                                                             *)
(***************************************************************************)

\* The variables keep their shape.
TypeOK ==
    /\ caller \in [Requests -> {"idle", "building", "holding", "waiting", "returning",
                                "dropping", "freeing", "gone", "refused"}]
    /\ id \in [Requests -> 0 .. nextId - 1] /\ nextId \in Nat
    /\ outstanding \in 0 .. MaxOutstanding
    /\ pending \in Seq(Requests)
    /\ stage \in [Requests -> {"open", "decided", "done", "freeing", "settled"}]
    /\ verdict \in [Requests -> {"none", "finished", "cancelled", "timeout", "rejected",
                                 "unavailable", "error"}]
    /\ {cancelled, expired, unread, capacityReleased} \subseteq [Requests -> BOOLEAN]
    /\ {stopping, failed, prevDecode, bug} \subseteq BOOLEAN
    /\ slots \in [Lanes -> Requests \cup {NoRequest}]
    /\ prefillLane \in Lanes \cup {NoLane}
    /\ plans \in [Requests -> [Lanes -> Requests \cup {NoRequest, Stale}]]
    /\ at.pc \in {"top", "select", "admit", "step", "decode", "stopped"}

\* No internal check of the executor or of the policy ever throws: admission
\* accounting, protection, retained eviction, temporal credit, service projection
\* and the reuse of a planned prefix all stay consistent, whatever the callers do.
NoInternalError == ~bug

\* outstanding_ is exact at every moment: one unit for each request that is being
\* built, or has been queued and whose capacity nobody has returned, plus one for
\* each thread between its decision to return a unit and the decrement.
CapacityExact ==
    outstanding =
        Cardinality({r \in Requests : caller[r] = "building"})
        + Cardinality({r \in Requests : Submitted(r) /\ ~capacityReleased[r]})
        + Cardinality({r \in Requests : caller[r] = "freeing"})
        + Cardinality({r \in Requests : stage[r] = "freeing"})

\* A request that was queued is in the queue or in one lane until the worker
\* completes it, and in neither afterwards: none is lost, run twice or completed
\* twice (fail_all, cancellation and expiry included).  When the worker has ended,
\* nobody is left and nobody can get in any more.
RequestPlaced ==
    /\ \A r \in Requests :
          Cardinality({i \in DOMAIN pending : pending[i] = r})
          + Cardinality({l \in Lanes : slots[l] = r})
          = IF Submitted(r) /\ stage[r] = "open" THEN 1 ELSE 0
    /\ at.pc = "stopped" => InQueue = {} /\ Active = {}

\* What the worker planned is true when it acts on it: a cached plan for a free
\* lane was made for the sequence that the lane retains now, the work projected for
\* an active request covers the tokens it may still generate, and the entitlements
\* of the active and the retained sequences stay within the pages of each pool.
PlansHold ==
    /\ \A r \in InQueue, l \in Lanes :
          slots[l] = NoRequest => plans[r][l] \in {Stale, cache[l].source}
    /\ \A r \in Active : run[r].budget > 0 /\ run[r].work >= run[r].budget
    /\ \A k \in PageKinds : Committed(cache, Lanes, k) <= Capacity[k]

\* Withdrawals, evictions and admissions between two steps keep the lanes in order:
\* every request is in one place, and the staged prefill has one owner, which is
\* the only request in a lane that cannot decode yet (a request that reuses its whole prompt is not staged and is
\* between its admission and its first step).
PrefillOwned ==
    /\ RequestPlaced
    /\ \A l \in Lanes :
          slots[l] # NoRequest /\ ~run[slots[l]].ready
              <=> l = prefillLane \/ (at.pc = "step" /\ at.lane = l)

\* The promise behind a protection: the protected request is the first in the
\* queue, everybody in a lane is either a frozen incumbent or was let in under this
\* protection, and when the donors and the temporal borrowers have left, the head
\* fits beside all the others.
HeadProtected ==
    protection # NoProtection =>
        /\ pending # <<>> /\ Head(pending) = protection.head
        /\ \A a \in Active : \/ a \in protection.incumbents
                             \/ /\ run[a].epoch = protection.epoch
                                /\ run[a].class \in {"persistent", "temporal"}
        /\ Fits({protection.head} \cup Survivors(protection, Active, EpochOf, ClassOf))

\* The work that the temporal borrowers of the current protection still have to do.
BorrowedWork ==
    MapThenSumSet(LAMBDA r : Work[r],
                  {a \in Active : /\ run[a].class = "temporal"
                                  /\ run[a].epoch = protection.epoch})

\* Under one protection the credit and the work already lent out never grow
\* together: however many requests are let in before the head on credit, what they
\* still have to do stays within the credit granted when the head was protected.
SameProtection ==
    /\ protection # NoProtection /\ protection' # NoProtection
    /\ protection'.epoch = protection.epoch

CreditNeverGrows ==
    [][SameProtection =>
         protection'.credit + BorrowedWork' <= protection.credit + BorrowedWork]_vars

\* A caller that has returned from wait saw the completed request, and no output
\* of it is left unread behind the result.
ReturnComplete ==
    \A r \in Requests : caller[r] = "returning" => Done(r) /\ ~unread[r]

\* Every request is answered and its capacity comes back: a request that has
\* reserved a unit is refused, or it is admitted and run to its end, cancelled,
\* expired, rejected or failed with the executor, and the unit is returned by
\* whoever is last, the caller (waiting or gone) or the worker.
CapacityComesBack ==
    \A r \in Requests :
        caller[r] = "building" \/ Submitted(r)
            ~> \/ caller[r] = "refused"
               \/ caller[r] = "gone" /\ stage[r] = "settled" /\ capacityReleased[r]

-----------------------------------------------------------------------------
(***************************************************************************)
(* The abstract specification and what its variables are here.             *)
(***************************************************************************)

\* The life of a request, as its caller can tell.
PhaseOf(r) ==
    CASE stage[r] # "open" -> "answered"
      [] stage[r] = "open" /\ r \in Active -> "running"
      [] stage[r] = "open" /\ r \notin Active /\ Submitted(r) -> "queued"
      [] caller[r] = "building" -> "reserved"
      [] caller[r] = "idle" -> "absent"
      [] caller[r] = "refused" -> "refused"

\* A place is free when the counter has been decremented for it.
HoldsPlace(r) ==
    \/ caller[r] \in {"building", "freeing"} \/ stage[r] = "freeing"
    \/ Submitted(r) /\ ~capacityReleased[r]

Life == INSTANCE Lifecycle WITH
    MaxPlaces <- MaxOutstanding,
    MaxRunning <- MaxConcurrency,
    phase <- [r \in Requests |-> PhaseOf(r)],
    answer <- verdict,
    asked <- {r \in Requests : cancelled[r]},
    left <- {r \in Requests : ConsumerReleased(r)},
    places <- {r \in Requests : HoldsPlace(r)},
    open <- ~failed

\* The executor, with its two critical sections of submit, its hand-over of the
\* capacity between caller and worker, its rounds that end several requests and its
\* fail_all, keeps the promise of the abstract specification at every step.
ImplementsLifecycle == Life!Spec
=============================================================================
