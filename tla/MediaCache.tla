----------------------------- MODULE MediaCache -----------------------------
(***************************************************************************)
(* Preparation of the images and videos of a prompt                        *)
(* (src/targets/qwen3_6/impl/frontend/media_cache.cpp, Processor::process  *)
(* in processor.cpp, src/core/host_worker_pool.cpp).                       *)
(*                                                                         *)
(* A request takes a permit, begins all its parts and awaits them in       *)
(* order.  A part whose item is cached is a hit; one that is being built   *)
(* joins that flight; any other is built by a task on the worker pool.     *)
(* Built payloads are counted in the live-byte account until the last      *)
(* reference is dropped: by the cache, by a flight, by the request or by   *)
(* the prompt that was made of it.                                         *)
(*                                                                         *)
(* A flight is named by the part that began it, <<request, index>>, and    *)
(* so is the payload it builds.                                            *)
(***************************************************************************)
EXTENDS Integers, Sequences, FiniteSets, FiniteSetsExt

CONSTANTS
    Requests,        \* the requests with media
    Parts,           \* Parts[r]: the items of r's prompt, in order
    Bytes,           \* Bytes[item]: size of the prepared payload
    Limit,           \* live_capacity_bytes
    CacheCapacity,   \* capacity_bytes of the cache
    MaxRequest,      \* maximum_request_bytes, the budget of one prompt
    Threads,         \* threads of the worker pool
    QueueCapacity,   \* places in the queue of the worker pool
    Broken,          \* items that cannot be decoded
    MayCancel,       \* requests whose client may go away
    MayExpire,       \* requests whose deadline may pass
    MaxStops         \* bound: cancellations and expired deadlines in one behaviour

ASSUME MediaAssumption ==
    /\ IsFiniteSet(Requests)
    /\ MaxRequest \in Nat \ {0} /\ Limit \in Nat /\ MaxRequest <= Limit
    /\ CacheCapacity \in Nat
    /\ Threads \in Nat \ {0} /\ QueueCapacity \in Nat \ {0}
    /\ \A item \in DOMAIN Bytes : Bytes[item] \in Nat \ {0}
    /\ \A r \in Requests : Parts[r] \in Seq(DOMAIN Bytes)

VARIABLES
    at,         \* where Processor::process of each request is
    cancelled,  \* whether the client of the request has gone
    expired,    \* whether its deadline has passed
    stopped,    \* stop_preparation, set together with preparation_error
    pending,    \* pending_items
    next,       \* the pending item that is awaited next
    claimed,    \* ConcurrentMediaBudget of the request, in bytes
    permits,    \* MediaPreparationGate::active
    ready,      \* the cached payloads, most recently used first
    retained,   \* retained_bytes
    inflight,   \* the flights that begin_prepare can find
    phase,      \* how far each flight is
    failed,     \* MediaCacheFlight::error of each flight
    queue,      \* the queue of the worker pool
    alive       \* the payloads that the account counts

callVars == <<cancelled, expired>>
requestVars == <<at, stopped, pending, next, permits>>
cacheVars == <<ready, retained, inflight>>
taskVars == <<phase, failed, queue, claimed>>
vars == <<callVars, requestVars, cacheVars, taskVars, alive>>

-----------------------------------------------------------------------------
Flights == UNION {{r} \X DOMAIN Parts[r] : r \in Requests}
Item(f) == Parts[f[1]][f[2]]
Sizes == [f \in Flights |-> Bytes[Item(f)]]
Size(f) == Sizes[f]
Total(S) == MapThenSumSet(Size, S)
Entries(s) == {s[i] : i \in DOMAIN s}

\* The request is inside process and holds its permit.
Preparing(r) == at[r] \in {"begin", "submit", "withdraw", "await"}

\* The tasks that a thread of the pool runs.
Running == {f \in Flights :
               phase[f] \in {"claim", "alloc", "denied", "build", "publish", "done"}}

\* MediaCacheFlight::done
Done(f) == phase[f] \in {"withdrawn", "done", "over"}

\* check_preparation_control with the caller's control, and with worker_control.
CallerStops(r) == cancelled[r] \/ expired[r]
WorkerStops(r) == stopped[r] \/ expired[r]

\* Somebody holds the payload: the cache, the task or its flight, or a request.
Referenced(p) ==
    \/ p \in Entries(ready)
    \/ phase[p] \in {"build", "publish", "done"} /\ ~failed[p]
    \/ \E r \in Requests : \E i \in DOMAIN pending[r] : pending[r][i].flight = p

\* The deleter of a payload: bytes return to the account with the last reference.
Reclaim(new) == alive' = {p \in alive \cup new : Referenced(p)'}

Init ==
    /\ at = [r \in Requests |-> "start"]
    /\ cancelled = [r \in Requests |-> FALSE]
    /\ expired = [r \in Requests |-> FALSE]
    /\ stopped = [r \in Requests |-> FALSE]
    /\ pending = [r \in Requests |-> <<>>]
    /\ next = [r \in Requests |-> 1]
    /\ claimed = [r \in Requests |-> 0]
    /\ permits = 0
    /\ ready = <<>>
    /\ retained = 0
    /\ inflight = {}
    /\ phase = [f \in Flights |-> "none"]
    /\ failed = [f \in Flights |-> FALSE]
    /\ queue = <<>>
    /\ alive = {}

-----------------------------------------------------------------------------
(***************************************************************************)
(* The thread of a request.                                                *)
(***************************************************************************)

\* The number of permits.
GateMaximum == Limit \div MaxRequest

\* acquire_request
AcquireRequest(r) ==
    /\ at[r] = "start" /\ ~CallerStops(r)
    /\ permits < GateMaximum
    /\ permits' = permits + 1
    /\ at' = [at EXCEPT ![r] = IF Parts[r] = <<>> THEN "await" ELSE "begin"]
    /\ UNCHANGED <<callVars, cacheVars, taskVars, alive, stopped, pending, next>>

\* acquire_request gives up.
GiveUp(r) ==
    /\ at[r] = "start" /\ CallerStops(r)
    /\ at' = [at EXCEPT ![r] = "failed"]
    /\ UNCHANGED <<callVars, cacheVars, taskVars, alive, stopped, pending, next, permits>>

\* The part that is begun next, and where the loop over the parts goes after it.
Beginning(r) == <<r, Len(pending[r]) + 1>>
AfterBeginning(r) ==
    IF Len(pending[r]) + 1 = Len(Parts[r]) THEN "await" ELSE "begin"

\* The loop over the parts finds that the request was cancelled.
StopBeginning(r) ==
    /\ at[r] = "begin" /\ CallerStops(r)
    /\ stopped' = [stopped EXCEPT ![r] = TRUE]
    /\ at' = [at EXCEPT ![r] = "await"]
    /\ UNCHANGED <<callVars, cacheVars, taskVars, alive, pending, next, permits>>

\* The flight of an item that begin_prepare joins.
Flying(item) == {f \in inflight : Item(f) = item}
Cached(item) == {f \in Entries(ready) : Item(f) = item}

\* The entry at place k of the list becomes its first.
ToFront(s, k) ==
    [i \in DOMAIN s |-> IF i = 1 THEN s[k] ELSE IF i <= k THEN s[i - 1] ELSE s[i]]

\* begin_prepare, under the mutex of the cache: hit, waiter or producer.
BeginPrepare(r) ==
    LET f == Beginning(r)
        hold(p, hit) ==
            /\ pending' = [pending EXCEPT ![r] = Append(@, [flight |-> p, hit |-> hit])]
            /\ at' = [at EXCEPT ![r] = AfterBeginning(r)]
    IN  /\ at[r] = "begin" /\ ~CallerStops(r)
        /\ IF Cached(Item(f)) # {}
             THEN \E k \in DOMAIN ready :
                    /\ Item(ready[k]) = Item(f)
                    /\ hold(ready[k], TRUE)
                    /\ ready' = ToFront(ready, k)
                    /\ UNCHANGED inflight
             ELSE IF Flying(Item(f)) # {}
               THEN /\ \E p \in Flying(Item(f)) : hold(p, FALSE)
                    /\ UNCHANGED <<ready, inflight>>
               ELSE /\ inflight' = inflight \cup {f}
                    /\ at' = [at EXCEPT ![r] = "submit"]
                    /\ UNCHANGED <<ready, pending>>
        /\ UNCHANGED <<callVars, taskVars, alive, stopped, next, permits, retained>>

\* The check of HostWorkerPool::enqueue.
QueueHasSpace == Len(queue) < QueueCapacity

\* HostWorkerPool::enqueue finds a place in the queue.
Enqueue(r) ==
    LET f == Beginning(r)
    IN  /\ at[r] = "submit" /\ ~WorkerStops(r)
        /\ QueueHasSpace
        /\ queue' = Append(queue, f)
        /\ phase' = [phase EXCEPT ![f] = "queued"]
        /\ pending' = [pending EXCEPT ![r] = Append(@, [flight |-> f, hit |-> FALSE])]
        /\ at' = [at EXCEPT ![r] = AfterBeginning(r)]
        /\ UNCHANGED <<callVars, cacheVars, alive, failed, claimed, stopped, next, permits>>

\* The checkpoint of enqueue throws: the flight gets the error.
SubmitFails(r) ==
    LET f == Beginning(r)
    IN  /\ at[r] = "submit" /\ WorkerStops(r)
        /\ phase' = [phase EXCEPT ![f] = "withdrawn"]
        /\ failed' = [failed EXCEPT ![f] = TRUE]
        /\ at' = [at EXCEPT ![r] = "withdraw"]
        /\ UNCHANGED <<callVars, cacheVars, alive, queue, claimed, stopped, pending, next,
                       permits>>

\* The flight is erased and the error is thrown on.
Withdraw(r) ==
    LET f == Beginning(r)
    IN  /\ at[r] = "withdraw"
        /\ inflight' = inflight \ {f}
        /\ phase' = [phase EXCEPT ![f] = "over"]
        /\ stopped' = [stopped EXCEPT ![r] = TRUE]
        /\ at' = [at EXCEPT ![r] = "await"]
        /\ UNCHANGED <<callVars, alive, failed, queue, claimed, pending, next, permits,
                       ready, retained>>

\* await notices the cancellation; process goes on to wait without a control.
AwaitStops(r) ==
    /\ at[r] = "await" /\ next[r] <= Len(pending[r])
    /\ CallerStops(r) /\ ~stopped[r]
    /\ stopped' = [stopped EXCEPT ![r] = TRUE]
    /\ UNCHANGED <<callVars, cacheVars, taskVars, alive, at, pending, next, permits>>

\* Mutant: after an error the flights that were begun are not waited for.
AnsweredOrStopped(r) == pending[r][next[r]].hit \/ Done(pending[r][next[r]].flight) \/ stopped[r]

\* await can return for the next pending item.
Answered(r) == pending[r][next[r]].hit \/ Done(pending[r][next[r]].flight)

\* The patches of the items taken so far exceed the budget of a prompt.
OverBudget(r, n) ==
    LET taken == [i \in 1 .. n |-> Size(pending[r][i].flight)]
    IN  MapThenSumSet(LAMBDA i : taken[i], 1 .. n) > MaxRequest

\* One turn of the loop over pending_items.
Await(r) ==
    /\ at[r] = "await" /\ next[r] <= Len(pending[r])
    /\ stopped[r] \/ ~CallerStops(r)
    /\ Answered(r)
    /\ stopped' = [stopped EXCEPT ![r] =
                      @ \/ failed[pending[r][next[r]].flight] \/ OverBudget(r, next[r])]
    /\ next' = [next EXCEPT ![r] = @ + 1]
    /\ UNCHANGED <<callVars, cacheVars, taskVars, alive, at, pending, permits>>

\* Mutant: only a preparation that goes on gives its permit back.
PermitsWithoutFailed(r) == IF stopped[r] THEN permits ELSE permits - 1

\* The destructor of MediaPreparationPermit.
PermitsWithout(r) == permits - 1

\* process ends: with the preparation error, or the permit is released.
EndMedia(r) ==
    /\ at[r] = "await" /\ next[r] > Len(pending[r])
    /\ permits' = PermitsWithout(r)
    /\ IF stopped[r]
         THEN /\ at' = [at EXCEPT ![r] = "failed"]
              /\ pending' = [pending EXCEPT ![r] = <<>>]
         ELSE /\ at' = [at EXCEPT ![r] = "encode"]
              /\ UNCHANGED pending
    /\ UNCHANGED <<callVars, cacheVars, taskVars, stopped, next>>
    /\ Reclaim({})

\* The rest of process: tokenization, with the last checks.
Encode(r) ==
    /\ at[r] = "encode"
    /\ IF CallerStops(r)
         THEN /\ at' = [at EXCEPT ![r] = "failed"]
              /\ pending' = [pending EXCEPT ![r] = <<>>]
         ELSE /\ at' = [at EXCEPT ![r] = "prompt"]
              /\ UNCHANGED pending
    /\ UNCHANGED <<callVars, cacheVars, taskVars, stopped, next, permits>>
    /\ Reclaim({})

\* The prompt gives its payloads back, all at once and at any time after it was built: the
\* engine releases some earlier (unused ones when the prefill starts, encoded ones after
\* their chunk) and the rest when the prefill is through or the request ends.
Consume(r) ==
    /\ at[r] = "prompt"
    /\ at' = [at EXCEPT ![r] = "gone"]
    /\ pending' = [pending EXCEPT ![r] = <<>>]
    /\ UNCHANGED <<callVars, cacheVars, taskVars, stopped, next, permits>>
    /\ Reclaim({})

Process(r) ==
    \/ AcquireRequest(r) \/ GiveUp(r)
    \/ StopBeginning(r) \/ BeginPrepare(r) \/ Enqueue(r) \/ SubmitFails(r) \/ Withdraw(r)
    \/ AwaitStops(r) \/ Await(r) \/ EndMedia(r) \/ Encode(r)

-----------------------------------------------------------------------------
(***************************************************************************)
(* The tasks on the worker pool.                                           *)
(***************************************************************************)

\* worker_loop of the pool takes the next task.
Take ==
    /\ queue # <<>> /\ Cardinality(Running) < Threads
    /\ phase' = [phase EXCEPT ![Head(queue)] = "claim"]
    /\ queue' = Tail(queue)
    /\ UNCHANGED <<callVars, requestVars, cacheVars, alive, failed, claimed>>

\* The builder throws; a payload it has is destroyed.
BuildFails(f) ==
    /\ phase' = [phase EXCEPT ![f] = "publish"]
    /\ failed' = [failed EXCEPT ![f] = TRUE]
    /\ UNCHANGED <<callVars, requestVars, cacheVars, queue>>
    /\ Reclaim({})

\* Mutant: the budget of one request counts what all requests claim.
ClaimOfAll(r, bytes) ==
    MapThenSumSet(LAMBDA s : claimed[s], Requests) + bytes

\* ConcurrentMediaBudget::claim: the new sum, whether it is allowed or not.
Claim(r, bytes) == claimed[r] + bytes

\* prepare_image and prepare_video: decode, then claim the extent.
DecodeAndClaim(f) ==
    LET sum == Claim(f[1], Size(f))
    IN  /\ phase[f] = "claim"
        /\ IF WorkerStops(f[1]) \/ Item(f) \in Broken
             THEN BuildFails(f) /\ UNCHANGED claimed
             ELSE /\ claimed' = [claimed EXCEPT ![f[1]] = sum]
                  /\ IF sum > MaxRequest THEN BuildFails(f)
                     ELSE /\ phase' = [phase EXCEPT ![f] = "alloc"]
                          /\ UNCHANGED <<callVars, requestVars, cacheVars, alive, failed, queue>>

\* Mutant: the new payload itself is not counted.
TryReserveOne(f) == Total(alive) < Limit

\* MemoryAccount::try_reserve
TryReserve(f) == Total(alive) + Size(f) <= Limit

\* allocate_payload: the control is checked and the bytes are asked for.
Allocate(f) ==
    /\ phase[f] = "alloc"
    /\ IF WorkerStops(f[1])
         THEN BuildFails(f)
         ELSE /\ phase' = [phase EXCEPT ![f] = IF TryReserve(f) THEN "build" ELSE "denied"]
              /\ UNCHANGED <<callVars, requestVars, cacheVars, failed, queue>>
              /\ Reclaim(IF TryReserve(f) THEN {f} ELSE {})
    /\ UNCHANGED claimed

\* Mutant: the bytes of an evicted entry stay counted.
EvictedBytesNone(evicted) == 0

\* What evict_one_locked takes off retained_bytes for the entries it evicts.
EvictedBytes(evicted) == Total(evicted)

\* allocate_payload after a refusal: one entry is evicted, or it waits for 10 ms.
EvictOrWait(f) ==
    /\ phase[f] = "denied"
    /\ phase' = [phase EXCEPT ![f] = "alloc"]
    /\ IF ready = <<>> THEN UNCHANGED <<ready, retained>>
       ELSE /\ ready' = SubSeq(ready, 1, Len(ready) - 1)
            /\ retained' = retained - EvictedBytes({ready[Len(ready)]})
    /\ UNCHANGED <<callVars, requestVars, inflight, failed, queue, claimed>>
    /\ Reclaim({})

\* The entries that stay when the task makes room for bytes more: eviction goes on
\* from the least recently used entry until there is room or nothing is left.
Kept(bytes) ==
    Max({0} \cup {n \in 1 .. Len(ready) :
                    retained - EvictedBytes({ready[i] : i \in n + 1 .. Len(ready)})
                        <= CacheCapacity - bytes})

\* The payload is filled, the control is checked for the last time, and the
\* payload enters the cache if it can.
Build(f) ==
    /\ phase[f] = "build"
    /\ IF WorkerStops(f[1])
         THEN BuildFails(f)
         ELSE LET kept == Kept(Size(f))
                  left == retained
                          - EvictedBytes({ready[i] : i \in kept + 1 .. Len(ready)})
              IN  /\ phase' = [phase EXCEPT ![f] = "publish"]
                  /\ IF Size(f) > CacheCapacity THEN UNCHANGED <<ready, retained>>
                     ELSE IF left > CacheCapacity - Size(f)
                       THEN ready' = <<>> /\ retained' = left
                     ELSE /\ ready' = <<f>> \o SubSeq(ready, 1, kept)
                          /\ retained' = left + Size(f)
                  /\ UNCHANGED <<callVars, requestVars, inflight, failed, queue>>
                  /\ Reclaim({})
    /\ UNCHANGED claimed

\* The task sets the flight's result or error and done.
Publish(f) ==
    /\ phase[f] = "publish"
    /\ phase' = [phase EXCEPT ![f] = "done"]
    /\ UNCHANGED <<callVars, requestVars, cacheVars, alive, failed, queue, claimed>>

\* The task erases the flight and ends; its thread is free again.
EndTask(f) ==
    /\ phase[f] = "done"
    /\ inflight' = inflight \ {f}
    /\ phase' = [phase EXCEPT ![f] = "over"]
    /\ UNCHANGED <<callVars, requestVars, ready, retained, failed, queue, claimed>>
    /\ Reclaim({})

Task(f) ==
    \/ DecodeAndClaim(f) \/ Allocate(f) \/ EvictOrWait(f) \/ Build(f)
    \/ Publish(f) \/ EndTask(f)

-----------------------------------------------------------------------------
Stops == Cardinality({r \in Requests : cancelled[r]})
         + Cardinality({r \in Requests : expired[r]})

\* The client goes away.
Cancel(r) ==
    /\ Stops < MaxStops
    /\ r \in MayCancel /\ ~cancelled[r] /\ (at[r] = "start" \/ Preparing(r))
    /\ cancelled' = [cancelled EXCEPT ![r] = TRUE]
    /\ UNCHANGED <<expired, requestVars, cacheVars, taskVars, alive>>

\* The deadline of the request passes.
Expire(r) ==
    /\ Stops < MaxStops
    /\ r \in MayExpire /\ ~expired[r] /\ (at[r] = "start" \/ Preparing(r))
    /\ expired' = [expired EXCEPT ![r] = TRUE]
    /\ UNCHANGED <<cancelled, requestVars, cacheVars, taskVars, alive>>

Next ==
    \/ \E r \in Requests : Process(r) \/ Consume(r) \/ Cancel(r) \/ Expire(r)
    \/ Take
    \/ \E f \in Flights : Task(f)

Spec == Init /\ [][Next]_vars

\* Running threads go on, queued tasks are taken, and the engine ends every request
\* it was given.
Fairness ==
    /\ \A r \in Requests : WF_vars(Process(r)) /\ WF_vars(Consume(r))
    /\ WF_vars(Take)
    /\ \A f \in Flights : WF_vars(Task(f))

FairSpec == Spec /\ Fairness

-----------------------------------------------------------------------------
(***************************************************************************)
(* Properties.                                                             *)
(***************************************************************************)

\* A queued or running builder uses the budget, the policy and the stop flag in the
\* stack frame of process: the frame is still there, whatever was cancelled, failed
\* or joined by others.
FrameOutlivesBuilder ==
    \A f \in Flights :
        phase[f] \in {"queued", "claim", "alloc", "denied", "build"} => Preparing(f[1])

\* The cache is exact whatever order builds, evictions and failures come in: an item
\* is built by one flight at a time and cached once, and retained_bytes is the sum of
\* the cached payloads and within the capacity.
CacheExact ==
    /\ \A f, g \in inflight : Item(f) = Item(g) => f = g
    /\ \A i, j \in DOMAIN ready : Item(ready[i]) = Item(ready[j]) => i = j
    /\ retained = Total(Entries(ready)) /\ retained <= CacheCapacity

\* The payloads that exist stay within the live capacity, and every payload that the
\* cache or a request can still read exists: eviction invalidates no reference.
LiveBounded ==
    /\ Total(alive) <= Limit
    /\ Entries(ready) \subseteq alive
    /\ \A r \in Requests : \A i \in DOMAIN pending[r] :
          LET p == pending[r][i].flight
          IN  ~failed[p] /\ (pending[r][i].hit \/ Done(p)) => p \in alive

\* The sizes of the parts of a prompt.
PartSizes(r) == [i \in DOMAIN Parts[r] |-> Bytes[Parts[r][i]]]
PromptBytes(r) == MapThenSumSet(LAMBDA i : PartSizes(r)[i], DOMAIN Parts[r])

\* Why a preparation may fail: cancellation, an expired deadline, an item that cannot
\* be decoded, or a prompt over the budget.
HasReason(r) ==
    \/ CallerStops(r)
    \/ \E i \in DOMAIN Parts[r] : Parts[r][i] \in Broken
    \/ PromptBytes(r) > MaxRequest

Sharing(r, s) == Entries(Parts[r]) \cap Entries(Parts[s]) # {}

\* A set of requests of which none shares an item with a request outside.
Separate(C) == \A r \in C, s \in Requests : Sharing(r, s) => s \in C

\* A preparation fails for a reason of its own, or for one of a request that it is
\* connected with by shared items: nobody separate from the requests with a reason is
\* affected by a flight that failed, a budget that was exceeded or a stop flag.
Isolation ==
    \A C \in SUBSET Requests :
        Separate(C) /\ (\E r \in C : stopped[r]) => \E s \in C : HasReason(s)

\* A builder that asks for memory gets it or fails: nobody waits for bytes that are
\* never returned.
AllocationEnds ==
    \A f \in Flights : phase[f] = "alloc" ~> phase[f] \notin {"alloc", "denied"}

\* Every preparation ends, whatever the other requests do.
PreparationEnds ==
    \A r \in Requests : at[r] = "start" ~> at[r] \in {"gone", "failed"}
=============================================================================
