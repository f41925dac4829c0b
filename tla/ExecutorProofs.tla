--------------------------- MODULE ExecutorProofs ---------------------------
(***************************************************************************)
(* For every number of lanes, places, requests and resources: the callers  *)
(* and the worker keep the capacity exact, every request is in one place   *)
(* until it is completed, and a caller returns only with the whole result. *)
(* The executor so implements what the engine promises a caller of submit  *)
(* and wait: every step of the callers and of the worker is a step of      *)
(* Lifecycle, or leaves what a caller can tell alone.                      *)
(***************************************************************************)
EXTENDS Executor, DataTheorems

-----------------------------------------------------------------------------
(***************************************************************************)
(* The inductive invariant.                                                *)
(***************************************************************************)

Sources == Requests \cup {NoRequest}

\* Where the worker is, with the locals it carries there.
AtShape ==
    \/ at \in [pc : {"top", "select", "decode", "stopped"}]
    \/ at \in [pc : {"step"}, lane : Lanes]
    \/ at \in [pc : {"admit"}, req : Requests, lane : Lanes, evict : BOOLEAN,
               class : {"none", "persistent", "temporal"}, epoch : Nat]

RunRecord == [ready : BOOLEAN, budget : Int, work : Int,
              class : {"none", "persistent", "temporal"}, epoch : Nat]

\* A protection is a record of make_admission_protection.
ProtectionShape ==
    protection # NoProtection =>
        /\ protection.head \in Requests
        /\ protection.epoch \in Nat
        /\ protection.credit \in Int
        /\ protection = [epoch |-> protection.epoch, head |-> protection.head,
                         incumbents |-> protection.incumbents,
                         donors |-> protection.donors, credit |-> protection.credit,
                         drain |-> protection.drain]

\* The identities are handed out once, to the requests that have reserved a place.
IdsDistinct ==
    /\ nextId >= 1
    /\ \A r \in Requests : caller[r] \notin {"idle", "refused"} => id[r] # 0
    /\ \A r, q \in Requests : id[r] = id[q] /\ id[r] # 0 => r = q

CallerTypes ==
    /\ caller \in [Requests -> {"idle", "building", "holding", "waiting", "returning",
                                "dropping", "freeing", "gone", "refused"}]
    /\ nextId \in Nat
    /\ id \in [Requests -> 0 .. nextId - 1]
    /\ IdsDistinct
    /\ cancelled \in [Requests -> BOOLEAN]
    /\ expired \in [Requests -> BOOLEAN]
    /\ stopping \in BOOLEAN

RequestTypes ==
    /\ unread \in [Requests -> BOOLEAN]
    /\ stage \in [Requests -> {"open", "decided", "done", "freeing", "settled"}]
    /\ verdict \in [Requests -> {"none", "finished", "cancelled", "timeout", "rejected",
                                 "unavailable", "error"}]
    /\ capacityReleased \in [Requests -> BOOLEAN]
    /\ outstanding \in 0 .. MaxOutstanding

WorkerTypes ==
    /\ pending \in Seq(Requests)
    /\ failed \in BOOLEAN /\ prevDecode \in BOOLEAN /\ bug \in BOOLEAN
    /\ slots \in [Lanes -> Sources]
    /\ prefillLane \in Lanes \cup {NoLane}
    /\ plans \in [Requests -> [Lanes -> Sources \cup {Stale}]]
    /\ \A l \in Lanes : cache[l].source \in Sources
    /\ run \in [Requests -> RunRecord]
    /\ nextEpoch \in Nat
    /\ AtShape
    /\ ProtectionShape

\* How far the caller and the worker are with one request: the second to come
\* returns the capacity, and only one of them does.
LifeOf(r) ==
    /\ stage[r] # "open" => Submitted(r)
    /\ capacityReleased[r] => Done(r) /\ ConsumerReleased(r)
    /\ caller[r] = "freeing" => capacityReleased[r] /\ stage[r] # "freeing"
    /\ stage[r] = "freeing" => capacityReleased[r]
    /\ caller[r] = "returning" => Done(r) /\ ~unread[r]
    /\ stage[r] = "open" => verdict[r] = "none"

\* The queue and the lanes hold exactly the requests that wait for completion,
\* each once.
Placement ==
    /\ \A i, j \in DOMAIN pending : pending[i] = pending[j] => i = j
    /\ \A l, m \in Lanes : slots[l] = slots[m] /\ slots[l] # NoRequest => l = m
    /\ InQueue \cap Active = {}
    /\ \A r \in Requests : r \in InQueue \cup Active <=> Submitted(r) /\ stage[r] = "open"

\* The owner of the staged prefill is in its lane and cannot decode yet.
OwnerStaged ==
    prefillLane # NoLane => slots[prefillLane] # NoRequest /\ ~run[slots[prefillLane]].ready

\* What the worker carries from the choice of a request to its admission, and from
\* there to the step, is still so; the credit a backfill was let in on is still there.
WorkerPlace ==
    /\ failed <=> at.pc = "stopped"
    /\ failed => InQueue = {} /\ Active = {}
    /\ OwnerStaged
    /\ at.pc = "step" => slots[at.lane] # NoRequest
    /\ at.pc = "admit" => /\ at.req \in InQueue
                          /\ slots[at.lane] = NoRequest
                          /\ ~CreditLost(at.req, plans[at.req][at.lane])

IInv ==
    /\ CallerTypes /\ RequestTypes /\ WorkerTypes
    /\ \A r \in Requests : LifeOf(r)
    /\ CapacityExact
    /\ Placement
    /\ WorkerPlace

-----------------------------------------------------------------------------
(***************************************************************************)
(* The capacity, as four sets of requests.                                 *)
(***************************************************************************)
Building == {r \in Requests : caller[r] = "building"}
Charged == {r \in Requests : Submitted(r) /\ ~capacityReleased[r]}
CallerReturning == {r \in Requests : caller[r] = "freeing"}
WorkerReturning == {r \in Requests : stage[r] = "freeing"}

\* Every set of requests has a size, and adding or taking one changes it by one.
LEMMA Counting ==
    ASSUME NEW S \in SUBSET Requests, NEW r \in Requests
    PROVE  /\ Cardinality(S) \in Nat
           /\ r \notin S => Cardinality(S \cup {r}) = Cardinality(S) + 1
           /\ r \in S => Cardinality(S \ {r}) = Cardinality(S) - 1 /\ Cardinality(S) >= 1
  <1>1. IsFiniteSet(S)
    BY PolicyAssumption, FS_Subset
  <1>2. Cardinality(S) \in Nat
    BY <1>1, FS_CardinalityType
  <1>3. r \notin S => Cardinality(S \cup {r}) = Cardinality(S) + 1
    BY <1>1, FS_AddElement
  <1>4. r \in S => Cardinality(S \ {r}) = Cardinality(S) - 1
    BY <1>1, FS_RemoveElement
  <1>5. r \in S => Cardinality(S) # 0
    BY <1>1, FS_EmptySet
  <1> QED BY <1>2, <1>3, <1>4, <1>5

\* CapacityExact in terms of the four sets.
CapacityCount == outstanding = Cardinality(Building) + Cardinality(Charged)
                               + Cardinality(CallerReturning)
                               + Cardinality(WorkerReturning)

LEMMA CapacitySets == (CapacityExact <=> CapacityCount) /\ (CapacityExact <=> CapacityCount)'
  BY DEF CapacityExact, CapacityCount, Building, Charged, CallerReturning, WorkerReturning

LEMMA CapacitySizes ==
    /\ Building \in SUBSET Requests /\ Cardinality(Building) \in Nat
    /\ Charged \in SUBSET Requests /\ Cardinality(Charged) \in Nat
    /\ CallerReturning \in SUBSET Requests /\ Cardinality(CallerReturning) \in Nat
    /\ WorkerReturning \in SUBSET Requests /\ Cardinality(WorkerReturning) \in Nat
  <1>1. /\ Building \in SUBSET Requests /\ Charged \in SUBSET Requests
        /\ CallerReturning \in SUBSET Requests /\ WorkerReturning \in SUBSET Requests
    BY DEF Building, Charged, CallerReturning, WorkerReturning
  <1>2. \A S \in SUBSET Requests : Cardinality(S) \in Nat
    BY PolicyAssumption, FS_Subset, FS_CardinalityType
  <1> QED BY <1>1, <1>2

\* What the callers do leaves the worker's part of the invariant alone.
LEMMA WorkerFrame ==
    ASSUME WorkerTypes, WorkerPlace, UNCHANGED <<workerVars, pending>>
    PROVE  WorkerTypes' /\ WorkerPlace'
  <1>1. /\ slots' = slots /\ prefillLane' = prefillLane /\ cache' = cache /\ run' = run
        /\ plans' = plans /\ protection' = protection /\ nextEpoch' = nextEpoch
        /\ failed' = failed /\ at' = at /\ prevDecode' = prevDecode /\ bug' = bug
        /\ pending' = pending
    BY DEF workerVars, laneVars, policyVars
  <1>2. WorkerTypes'
    BY <1>1 DEF WorkerTypes, AtShape, ProtectionShape
  <1>3. InQueue' = InQueue /\ Active' = Active
    BY <1>1 DEF InQueue, Active
  <1>4. CreditLost(at.req, plans[at.req][at.lane])'
          <=> CreditLost(at.req, plans[at.req][at.lane])
    BY <1>1 DEF CreditLost
  <1> QED BY <1>1, <1>2, <1>3, <1>4 DEF WorkerPlace, OwnerStaged

\* A request that the queue and the lanes do not tell from before keeps its place.
LEMMA PlacementFrame ==
    ASSUME Placement, UNCHANGED <<pending, slots>>,
           \A r \in Requests : (Submitted(r) /\ stage[r] = "open")'
                                 <=> (Submitted(r) /\ stage[r] = "open")
    PROVE  Placement'
  BY DEF Placement, InQueue, Active

\* A step that moves no request between the four sets keeps the count.
LEMMA CapacityFrame ==
    ASSUME CapacityExact, outstanding' = outstanding,
           \A r \in Requests :
              /\ (caller[r] = "building")' <=> caller[r] = "building"
              /\ (Submitted(r) /\ ~capacityReleased[r])'
                    <=> Submitted(r) /\ ~capacityReleased[r]
              /\ (caller[r] = "freeing")' <=> caller[r] = "freeing"
              /\ (stage[r] = "freeing")' <=> stage[r] = "freeing"
    PROVE  CapacityExact'
  <1>1. /\ Building' = Building /\ Charged' = Charged
        /\ CallerReturning' = CallerReturning /\ WorkerReturning' = WorkerReturning
    BY DEF Building, Charged, CallerReturning, WorkerReturning
  <1> QED BY <1>1, CapacitySets DEF CapacityCount

LEMMA ReserveStep ==
    ASSUME IInv, NEW r \in Requests, Reserve(r)
    PROVE  IInv'
  <1> USE DEF IInv
  <1>1. WorkerTypes' /\ WorkerPlace'
    BY WorkerFrame DEF Reserve
  <1>2. CallerTypes'
    BY DEF CallerTypes, IdsDistinct, Reserve
  <1>3. RequestTypes'
    BY ExecutorAssumption DEF RequestTypes, Reserve, HasRoom, MaxOutstanding
  <1>4. \A q \in Requests : LifeOf(q)'
    BY DEF CallerTypes, IdsDistinct, LifeOf, Reserve, Submitted, ConsumerReleased, Done
  <1>5. Placement'
    BY PlacementFrame DEF Reserve, Submitted, CallerTypes, workerVars, laneVars
  <1>6. CapacityExact'
    <2>1. Building' = Building \cup {r} /\ r \notin Building
      BY DEF Building, Reserve, CallerTypes
    <2>2. /\ Charged' = Charged
          /\ CallerReturning' = CallerReturning /\ WorkerReturning' = WorkerReturning
      BY DEF Charged, Submitted, CallerReturning, WorkerReturning, Reserve, CallerTypes
    <2>3. Cardinality(Building') = Cardinality(Building) + 1
      BY <2>1, CapacitySizes, Counting
    <2>4. outstanding' = outstanding + 1
      BY DEF Reserve
    <2> QED BY <2>2, <2>3, <2>4, CapacitySizes, CapacitySets DEF CapacityCount
  <1> QED BY <1>1, <1>2, <1>3, <1>4, <1>5, <1>6

LEMMA RefuseStep ==
    ASSUME IInv, NEW r \in Requests, Refuse(r)
    PROVE  IInv'
  <1> USE DEF IInv
  <1>1. WorkerTypes' /\ WorkerPlace'
    BY WorkerFrame DEF Refuse
  <1>2. CallerTypes'
    BY DEF CallerTypes, IdsDistinct, Refuse
  <1>3. RequestTypes'
    BY DEF RequestTypes, requestVars, Refuse
  <1>4. \A q \in Requests : LifeOf(q)'
    BY DEF CallerTypes, IdsDistinct, RequestTypes, LifeOf, Refuse, Submitted, ConsumerReleased, Done, requestVars
  <1>5. Placement'
    BY PlacementFrame DEF Refuse, Submitted, CallerTypes, workerVars, laneVars, requestVars
  <1>6. CapacityExact'
    BY CapacityFrame DEF Refuse, Submitted, CallerTypes, requestVars
  <1> QED BY <1>1, <1>2, <1>3, <1>4, <1>5, <1>6

LEMMA WaitStep ==
    ASSUME IInv, NEW r \in Requests, Wait(r)
    PROVE  IInv'
  <1> USE DEF IInv
  <1>1. WorkerTypes' /\ WorkerPlace'
    BY WorkerFrame DEF Wait
  <1>2. CallerTypes'
    BY DEF CallerTypes, IdsDistinct, Wait
  <1>3. RequestTypes'
    BY DEF RequestTypes, requestVars, Wait
  <1>4. \A q \in Requests : LifeOf(q)'
    BY DEF CallerTypes, IdsDistinct, RequestTypes, LifeOf, Wait, Submitted, ConsumerReleased, Done, requestVars
  <1>5. Placement'
    BY PlacementFrame DEF Wait, Submitted, CallerTypes, workerVars, laneVars, requestVars
  <1>6. CapacityExact'
    BY CapacityFrame DEF Wait, Submitted, CallerTypes, requestVars
  <1> QED BY <1>1, <1>2, <1>3, <1>4, <1>5, <1>6

LEMMA AbandonStep ==
    ASSUME IInv, NEW r \in Requests, Abandon(r)
    PROVE  IInv'
  <1> USE DEF IInv
  <1>1. WorkerTypes' /\ WorkerPlace'
    BY WorkerFrame DEF Abandon
  <1>2. CallerTypes'
    BY DEF CallerTypes, IdsDistinct, Abandon
  <1>3. RequestTypes'
    BY DEF RequestTypes, requestVars, Abandon
  <1>4. \A q \in Requests : LifeOf(q)'
    BY DEF CallerTypes, IdsDistinct, RequestTypes, LifeOf, Abandon, Submitted, ConsumerReleased, Done, requestVars
  <1>5. Placement'
    BY PlacementFrame DEF Abandon, Submitted, CallerTypes, workerVars, laneVars, requestVars
  <1>6. CapacityExact'
    BY CapacityFrame DEF Abandon, Submitted, CallerTypes, requestVars
  <1> QED BY <1>1, <1>2, <1>3, <1>4, <1>5, <1>6

LEMMA PollStep ==
    ASSUME IInv, NEW r \in Requests, Poll(r)
    PROVE  IInv'
  <1> USE DEF IInv
  <1>1. WorkerTypes' /\ WorkerPlace'
    BY WorkerFrame DEF Poll
  <1>2. CallerTypes'
    BY DEF CallerTypes, IdsDistinct, Poll
  <1>3. RequestTypes'
    BY DEF RequestTypes, requestVars, Poll
  <1>4. \A q \in Requests : LifeOf(q)'
    BY DEF CallerTypes, IdsDistinct, RequestTypes, LifeOf, Poll, Submitted, ConsumerReleased, Done, requestVars, SawDone
  <1>5. Placement'
    BY PlacementFrame DEF Poll, Submitted, CallerTypes, workerVars, laneVars, requestVars
  <1>6. CapacityExact'
    BY CapacityFrame DEF Poll, Submitted, CallerTypes, requestVars
  <1> QED BY <1>1, <1>2, <1>3, <1>4, <1>5, <1>6

LEMMA CancelStep ==
    ASSUME IInv, NEW r \in Requests, Cancel(r)
    PROVE  IInv'
  <1> USE DEF IInv
  <1>1. WorkerTypes' /\ WorkerPlace'
    BY WorkerFrame DEF Cancel
  <1>2. CallerTypes'
    BY DEF CallerTypes, IdsDistinct, Cancel
  <1>3. RequestTypes'
    BY DEF RequestTypes, requestVars, Cancel
  <1>4. \A q \in Requests : LifeOf(q)'
    BY DEF CallerTypes, IdsDistinct, RequestTypes, LifeOf, Cancel, Submitted, ConsumerReleased, Done, requestVars
  <1>5. Placement'
    BY PlacementFrame DEF Cancel, Submitted, CallerTypes, workerVars, laneVars, requestVars
  <1>6. CapacityExact'
    BY CapacityFrame DEF Cancel, Submitted, CallerTypes, requestVars
  <1> QED BY <1>1, <1>2, <1>3, <1>4, <1>5, <1>6

LEMMA ExpireStep ==
    ASSUME IInv, NEW r \in Requests, Expire(r)
    PROVE  IInv'
  <1> USE DEF IInv
  <1>1. WorkerTypes' /\ WorkerPlace'
    BY WorkerFrame DEF Expire
  <1>2. CallerTypes'
    BY DEF CallerTypes, IdsDistinct, Expire
  <1>3. RequestTypes'
    BY DEF RequestTypes, requestVars, Expire
  <1>4. \A q \in Requests : LifeOf(q)'
    BY DEF CallerTypes, IdsDistinct, RequestTypes, LifeOf, Expire, Submitted, ConsumerReleased, Done, requestVars
  <1>5. Placement'
    BY PlacementFrame DEF Expire, Submitted, CallerTypes, workerVars, laneVars, requestVars
  <1>6. CapacityExact'
    BY CapacityFrame DEF Expire, Submitted, CallerTypes, requestVars
  <1> QED BY <1>1, <1>2, <1>3, <1>4, <1>5, <1>6

LEMMA StopStep ==
    ASSUME IInv, Stop
    PROVE  IInv'
  <1> USE DEF IInv
  <1>1. WorkerTypes' /\ WorkerPlace'
    BY WorkerFrame DEF Stop
  <1>2. CallerTypes'
    BY DEF CallerTypes, IdsDistinct, Stop
  <1>3. RequestTypes'
    BY DEF RequestTypes, requestVars, Stop
  <1>4. \A q \in Requests : LifeOf(q)'
    BY DEF CallerTypes, IdsDistinct, RequestTypes, LifeOf, Stop, Submitted, ConsumerReleased, Done, requestVars
  <1>5. Placement'
    BY PlacementFrame DEF Stop, Submitted, CallerTypes, workerVars, laneVars, requestVars
  <1>6. CapacityExact'
    BY CapacityFrame DEF Stop, Submitted, CallerTypes, requestVars
  <1> QED BY <1>1, <1>2, <1>3, <1>4, <1>5, <1>6

LEMMA BuildFailsStep ==
    ASSUME IInv, NEW r \in Requests, BuildFails(r)
    PROVE  IInv'
  <1> USE DEF IInv
  <1>1. WorkerTypes' /\ WorkerPlace'
    BY WorkerFrame DEF BuildFails
  <1>2. CallerTypes'
    BY DEF CallerTypes, IdsDistinct, BuildFails
  <1>3. /\ Building' = Building \ {r} /\ r \in Building
        /\ Charged' = Charged
        /\ CallerReturning' = CallerReturning /\ WorkerReturning' = WorkerReturning
    BY DEF Building, Charged, Submitted, CallerReturning, WorkerReturning, BuildFails,
           CallerTypes
  <1>4. Cardinality(Building') = Cardinality(Building) - 1 /\ Cardinality(Building) >= 1
    BY <1>3, CapacitySizes, Counting
  <1>5. outstanding' = outstanding - 1
    BY DEF BuildFails
  <1>6. CapacityExact' /\ outstanding >= 1
    BY <1>3, <1>4, <1>5, CapacitySizes, CapacitySets DEF CapacityCount
  <1>7. RequestTypes'
    BY <1>5, <1>6, ExecutorAssumption DEF RequestTypes, BuildFails, MaxOutstanding
  <1>8. \A q \in Requests : LifeOf(q)'
    BY DEF CallerTypes, IdsDistinct, LifeOf, BuildFails, Submitted, ConsumerReleased, Done
  <1>9. Placement'
    BY PlacementFrame DEF BuildFails, Submitted, CallerTypes, workerVars, laneVars
  <1> QED BY <1>1, <1>2, <1>6, <1>7, <1>8, <1>9

LEMMA CallerFreesStep ==
    ASSUME IInv, NEW r \in Requests, CallerFrees(r)
    PROVE  IInv'
  <1> USE DEF IInv
  <1>1. WorkerTypes' /\ WorkerPlace'
    BY WorkerFrame DEF CallerFrees
  <1>2. CallerTypes'
    BY DEF CallerTypes, IdsDistinct, CallerFrees
  <1>3. /\ CallerReturning' = CallerReturning \ {r} /\ r \in CallerReturning
        /\ Charged' = Charged
        /\ Building' = Building /\ WorkerReturning' = WorkerReturning
    BY DEF Building, Charged, Submitted, CallerReturning, WorkerReturning, CallerFrees,
           CallerTypes
  <1>4. /\ Cardinality(CallerReturning') = Cardinality(CallerReturning) - 1
        /\ Cardinality(CallerReturning) >= 1
    BY <1>3, CapacitySizes, Counting
  <1>5. outstanding >= 1
    BY <1>4, CapacitySizes, CapacitySets DEF CapacityCount
  <1>6. outstanding' = outstanding - 1
    BY <1>5 DEF CallerFrees
  <1>7. CapacityExact'
    BY <1>3, <1>4, <1>6, CapacitySizes, CapacitySets DEF CapacityCount
  <1>8. RequestTypes'
    BY <1>5, <1>6, ExecutorAssumption DEF RequestTypes, CallerFrees, MaxOutstanding
  <1>9. \A q \in Requests : LifeOf(q)'
    BY DEF CallerTypes, IdsDistinct, LifeOf, CallerFrees, Submitted, ConsumerReleased, Done
  <1>10. Placement'
    BY PlacementFrame DEF CallerFrees, Submitted, CallerTypes, workerVars, laneVars
  <1> QED BY <1>1, <1>2, <1>7, <1>8, <1>9, <1>10

LEMMA ReleaseConsumerStep ==
    ASSUME IInv, NEW r \in Requests, ReleaseConsumer(r)
    PROVE  IInv'
  <1> USE DEF IInv
  <1>1. WorkerTypes' /\ WorkerPlace'
    BY WorkerFrame DEF ReleaseConsumer
  <1>2. CallerTypes'
    BY DEF CallerTypes, IdsDistinct, ReleaseConsumer
  <1>3. RequestTypes'
    BY DEF RequestTypes, ReleaseConsumer, ReturnsCapacity, Done
  <1>4. \A q \in Requests : LifeOf(q)'
    BY DEF CallerTypes, IdsDistinct, RequestTypes, LifeOf, ReleaseConsumer, ReturnsCapacity, Submitted,
           ConsumerReleased, Done
  <1>5. Placement'
    BY PlacementFrame DEF ReleaseConsumer, Submitted, CallerTypes, workerVars, laneVars
  <1>6. CASE Done(r) /\ ~capacityReleased[r]
    <2>1. /\ Charged' = Charged \ {r} /\ r \in Charged
          /\ CallerReturning' = CallerReturning \cup {r} /\ r \notin CallerReturning
          /\ Building' = Building /\ WorkerReturning' = WorkerReturning
      BY <1>6 DEF Building, Charged, Submitted, CallerReturning, WorkerReturning,
                  ReleaseConsumer, ReturnsCapacity, CallerTypes, RequestTypes
    <2>2. /\ Cardinality(Charged') = Cardinality(Charged) - 1
          /\ Cardinality(CallerReturning') = Cardinality(CallerReturning) + 1
      BY <2>1, CapacitySizes, Counting
    <2>3. outstanding' = outstanding
      BY DEF ReleaseConsumer
    <2>4. CapacityExact'
      BY <2>1, <2>2, <2>3, CapacitySizes, CapacitySets DEF CapacityCount
    <2> QED BY <1>1, <1>2, <1>3, <1>4, <1>5, <2>4
  <1>7. CASE ~(Done(r) /\ ~capacityReleased[r])
    <2>1. CapacityExact'
      BY <1>7, CapacityFrame DEF ReleaseConsumer, ReturnsCapacity, Submitted, CallerTypes,
                                 RequestTypes
    <2> QED BY <1>1, <1>2, <1>3, <1>4, <1>5, <2>1
  <1> QED BY <1>6, <1>7

LEMMA PushStep ==
    ASSUME IInv, NEW r \in Requests, Push(r)
    PROVE  IInv'
  <1> USE DEF IInv
  <1>1. CallerTypes'
    BY DEF CallerTypes, IdsDistinct, Push
  <1>2. \A q \in Requests : LifeOf(q)'
    BY DEF CallerTypes, IdsDistinct, LifeOf, Push, Submitted, ConsumerReleased, Done
  <1>3. /\ Building' = Building \ {r} /\ r \in Building
        /\ CallerReturning' = CallerReturning /\ WorkerReturning' = WorkerReturning
    BY DEF Building, Submitted, CallerReturning, WorkerReturning, Push, CallerTypes
  <1>4. Cardinality(Building') = Cardinality(Building) - 1 /\ Cardinality(Building) >= 1
    BY <1>3, CapacitySizes, Counting
  <1>5. CASE MustWithdraw
    <2>1. WorkerTypes' /\ WorkerPlace'
      BY <1>5, WorkerFrame DEF Push
    <2>2. Charged' = Charged /\ outstanding' = outstanding - 1
      BY <1>5 DEF Charged, Submitted, Push, CallerTypes
    <2>3. CapacityExact' /\ outstanding >= 1
      BY <1>3, <1>4, <2>2, CapacitySizes, CapacitySets DEF CapacityCount
    <2>4. RequestTypes'
      BY <2>2, <2>3, ExecutorAssumption DEF RequestTypes, Push, MaxOutstanding
    <2>5. Placement'
      BY <1>5, PlacementFrame DEF Push, Submitted, CallerTypes, workerVars, laneVars
    <2> QED BY <1>1, <1>2, <2>1, <2>3, <2>4, <2>5
  <1>6. CASE ~MustWithdraw
    <2>1. /\ pending' = Append(pending, r) /\ outstanding' = outstanding
          /\ caller' = [caller EXCEPT ![r] = "holding"] /\ caller[r] = "building"
          /\ stage' = stage /\ capacityReleased' = capacityReleased
          /\ unread' = unread /\ verdict' = verdict
      BY <1>6 DEF Push
    <2>2. /\ slots' = slots /\ prefillLane' = prefillLane /\ cache' = cache
          /\ plans' = plans /\ protection' = protection /\ nextEpoch' = nextEpoch
          /\ failed' = failed /\ at' = at /\ prevDecode' = prevDecode /\ bug' = bug
          /\ run' = run
      BY DEF Push, workerVars, laneVars, policyVars
    <2>3. pending \in Seq(Requests) /\ pending' \in Seq(Requests)
      BY <2>1 DEF WorkerTypes
    <2>4. InQueue' = InQueue \cup {r} /\ Active' = Active
      <3>1. DOMAIN pending' = DOMAIN pending \cup {Len(pending) + 1}
        BY <2>1, <2>3
      <3>2. /\ \A i \in DOMAIN pending : pending'[i] = pending[i]
            /\ pending'[Len(pending) + 1] = r
        BY <2>1, <2>3
      <3> QED BY <2>2, <3>1, <3>2 DEF InQueue, Active
    <2>5. r \notin InQueue /\ r \notin Active
      BY <2>1 DEF Placement, Submitted
    <2>6. WorkerTypes'
      BY <2>2, <2>3 DEF WorkerTypes, AtShape, ProtectionShape
    <2>7. WorkerPlace'
      <3>1. ~failed
        BY <1>6 DEF MustWithdraw
      <3>2. CreditLost(at.req, plans[at.req][at.lane])'
              <=> CreditLost(at.req, plans[at.req][at.lane])
        BY <2>2 DEF CreditLost
      <3> QED BY <2>2, <2>4, <3>1, <3>2 DEF WorkerPlace, OwnerStaged
    <2>8. Placement'
      <3>1. \A i, j \in DOMAIN pending' : pending'[i] = pending'[j] => i = j
        <4>1. \A i \in DOMAIN pending : pending[i] # r
          BY <2>5 DEF InQueue
        <4> QED BY <2>1, <2>3, <4>1 DEF Placement
      <3>2. \A q \in Requests : q \in InQueue' \cup Active'
                                   <=> (Submitted(q) /\ stage[q] = "open")'
        BY <2>1, <2>4 DEF Placement, Submitted, CallerTypes, LifeOf
      <3> QED BY <2>2, <2>4, <2>5, <3>1, <3>2 DEF Placement
    <2>9. RequestTypes'
      BY <2>1 DEF RequestTypes
    <2>10. Charged' = Charged \cup {r} /\ r \notin Charged
      BY <2>1 DEF Charged, Submitted, CallerTypes, LifeOf, ConsumerReleased
    <2>11. Cardinality(Charged') = Cardinality(Charged) + 1
      BY <2>10, CapacitySizes, Counting
    <2>12. CapacityExact'
      BY <1>3, <1>4, <2>1, <2>11, CapacitySizes, CapacitySets DEF CapacityCount
    <2> QED BY <1>1, <1>2, <2>6, <2>7, <2>8, <2>9, <2>12
  <1> QED BY <1>5, <1>6

-----------------------------------------------------------------------------
(***************************************************************************)
(* The completions.                                                        *)
(***************************************************************************)
LEMMA SetDoneStep ==
    ASSUME IInv, NEW r \in Requests, SetDone(r)
    PROVE  IInv'
  <1> USE DEF IInv
  <1>1. WorkerTypes' /\ WorkerPlace'
    BY WorkerFrame DEF SetDone, workerVars
  <1>2. CallerTypes'
    BY DEF CallerTypes, IdsDistinct, SetDone, callerVars
  <1>3. RequestTypes'
    BY DEF RequestTypes, SetDone
  <1>4. \A q \in Requests : LifeOf(q)'
    BY DEF RequestTypes, LifeOf, SetDone, Submitted, ConsumerReleased, Done, callerVars
  <1>5. Placement'
    BY PlacementFrame DEF SetDone, Submitted, RequestTypes, laneVars, callerVars
  <1>6. CapacityExact'
    BY CapacityFrame DEF SetDone, Submitted, RequestTypes, callerVars
  <1> QED BY <1>1, <1>2, <1>3, <1>4, <1>5, <1>6

LEMMA MarkCompletedStep ==
    ASSUME IInv, NEW r \in Requests, MarkCompleted(r)
    PROVE  IInv'
  <1> USE DEF IInv
  <1>1. WorkerTypes' /\ WorkerPlace'
    BY WorkerFrame DEF MarkCompleted, workerVars
  <1>2. CallerTypes'
    BY DEF CallerTypes, IdsDistinct, MarkCompleted, callerVars
  <1>3. RequestTypes'
    BY DEF RequestTypes, MarkCompleted, ReturnsCapacity, ConsumerReleased
  <1>4. \A q \in Requests : LifeOf(q)'
    BY DEF RequestTypes, LifeOf, MarkCompleted, ReturnsCapacity, Submitted,
           ConsumerReleased, Done, callerVars
  <1>5. Placement'
    BY PlacementFrame DEF MarkCompleted, Submitted, RequestTypes, laneVars, callerVars
  <1>6. CASE ConsumerReleased(r) /\ ~capacityReleased[r]
    <2>1. /\ Charged' = Charged \ {r} /\ r \in Charged
          /\ WorkerReturning' = WorkerReturning \cup {r} /\ r \notin WorkerReturning
          /\ Building' = Building /\ CallerReturning' = CallerReturning
      BY <1>6 DEF Building, Charged, Submitted, CallerReturning, WorkerReturning,
                  MarkCompleted, ReturnsCapacity, RequestTypes, ConsumerReleased, callerVars
    <2>2. /\ Cardinality(Charged') = Cardinality(Charged) - 1
          /\ Cardinality(WorkerReturning') = Cardinality(WorkerReturning) + 1
      BY <2>1, CapacitySizes, Counting
    <2>3. outstanding' = outstanding
      BY DEF MarkCompleted
    <2>4. CapacityExact'
      BY <2>1, <2>2, <2>3, CapacitySizes, CapacitySets DEF CapacityCount
    <2> QED BY <1>1, <1>2, <1>3, <1>4, <1>5, <2>4
  <1>7. CASE ~(ConsumerReleased(r) /\ ~capacityReleased[r])
    <2>1. CapacityExact'
      BY <1>7, CapacityFrame DEF MarkCompleted, ReturnsCapacity, Submitted, RequestTypes,
                                 callerVars
    <2> QED BY <1>1, <1>2, <1>3, <1>4, <1>5, <2>1
  <1> QED BY <1>6, <1>7

LEMMA WorkerFreesStep ==
    ASSUME IInv, NEW r \in Requests, WorkerFrees(r)
    PROVE  IInv'
  <1> USE DEF IInv
  <1>1. WorkerTypes' /\ WorkerPlace'
    BY WorkerFrame DEF WorkerFrees, workerVars
  <1>2. CallerTypes'
    BY DEF CallerTypes, IdsDistinct, WorkerFrees, callerVars
  <1>3. /\ WorkerReturning' = WorkerReturning \ {r} /\ r \in WorkerReturning
        /\ Charged' = Charged
        /\ Building' = Building /\ CallerReturning' = CallerReturning
    BY DEF Building, Charged, Submitted, CallerReturning, WorkerReturning, WorkerFrees,
           RequestTypes, callerVars
  <1>4. /\ Cardinality(WorkerReturning') = Cardinality(WorkerReturning) - 1
        /\ Cardinality(WorkerReturning) >= 1
    BY <1>3, CapacitySizes, Counting
  <1>5. outstanding >= 1
    BY <1>4, CapacitySizes, CapacitySets DEF CapacityCount
  <1>6. outstanding' = outstanding - 1
    BY <1>5 DEF WorkerFrees
  <1>7. CapacityExact'
    BY <1>3, <1>4, <1>6, CapacitySizes, CapacitySets DEF CapacityCount
  <1>8. RequestTypes'
    BY <1>5, <1>6, ExecutorAssumption DEF RequestTypes, WorkerFrees, MaxOutstanding
  <1>9. \A q \in Requests : LifeOf(q)'
    BY DEF RequestTypes, LifeOf, WorkerFrees, Submitted, ConsumerReleased, Done, callerVars
  <1>10. Placement'
    BY PlacementFrame DEF WorkerFrees, Submitted, RequestTypes, laneVars, callerVars
  <1> QED BY <1>1, <1>2, <1>7, <1>8, <1>9, <1>10

-----------------------------------------------------------------------------
(***************************************************************************)
(* What completing some of the requests that wait does to the requests.    *)
(***************************************************************************)
Outcomes == {"finished", "cancelled", "timeout", "rejected", "unavailable", "error"}

LEMMA Decided ==
    ASSUME IInv, callerVars' = callerVars, NEW v, NEW published, Decide(v, published),
           DOMAIN v \subseteq InQueue \cup Active,
           published \subseteq InQueue \cup Active,
           \A r \in DOMAIN v : v[r] \in Outcomes
    PROVE  /\ CallerTypes' /\ RequestTypes' /\ CapacityExact'
           /\ \A r \in Requests : LifeOf(r)'
           /\ \A r \in Requests : (Submitted(r) /\ stage[r] = "open")'
                 <=> r \in (InQueue \cup Active) \ DOMAIN v
  <1> USE DEF IInv
  <1>1. \A r \in Requests : r \in InQueue \cup Active => Submitted(r) /\ stage[r] = "open"
    BY DEF Placement
  <1>2. /\ caller' = caller /\ id' = id /\ nextId' = nextId
        /\ cancelled' = cancelled /\ expired' = expired /\ stopping' = stopping
    BY DEF callerVars
  <1>3. CallerTypes'
    BY <1>2 DEF CallerTypes, IdsDistinct
  <1>4. RequestTypes'
    BY DEF RequestTypes, Decide, Outcomes
  <1>5. \A r \in Requests : /\ stage'[r] = IF r \in DOMAIN v THEN "decided" ELSE stage[r]
                            /\ unread'[r] = (unread[r] \/ r \in published)
                            /\ verdict'[r] = IF r \in DOMAIN v THEN v[r] ELSE verdict[r]
                            /\ capacityReleased'[r] = capacityReleased[r]
    BY DEF Decide
  <1>6. CapacityExact'
    <2>1. outstanding' = outstanding
      BY DEF Decide
    <2> QED BY <1>1, <1>2, <1>5, <2>1, CapacityFrame DEF Submitted
  <1>7. \A r \in Requests : LifeOf(r)'
    BY <1>1, <1>2, <1>5 DEF LifeOf, Submitted, ConsumerReleased, Done
  <1>8. \A r \in Requests : (Submitted(r) /\ stage[r] = "open")'
                 <=> r \in (InQueue \cup Active) \ DOMAIN v
    BY <1>1, <1>2, <1>5 DEF Placement, Submitted
  <1> QED BY <1>3, <1>4, <1>6, <1>7, <1>8

-----------------------------------------------------------------------------
(***************************************************************************)
(* Steps of the worker.                                                    *)
(***************************************************************************)

\* The rest of the invariant after a step that completes the requests of DOMAIN v.
LEMMA WorkerStep ==
    ASSUME IInv, callerVars' = callerVars, NEW v, NEW published, Decide(v, published),
           DOMAIN v \subseteq InQueue \cup Active,
           published \subseteq InQueue \cup Active,
           \A r \in DOMAIN v : v[r] \in Outcomes,
           WorkerTypes', WorkerPlace',
           (\A i, j \in DOMAIN pending : pending[i] = pending[j] => i = j)',
           (\A l, m \in Lanes : slots[l] = slots[m] /\ slots[l] # NoRequest => l = m)',
           InQueue' \cap Active' = {},
           InQueue' \cup Active' = (InQueue \cup Active) \ DOMAIN v
    PROVE  IInv'
  <1>1. /\ CallerTypes' /\ RequestTypes' /\ CapacityExact'
        /\ \A r \in Requests : LifeOf(r)'
        /\ \A r \in Requests : (Submitted(r) /\ stage[r] = "open")'
              <=> r \in (InQueue \cup Active) \ DOMAIN v
    BY Decided
  <1>2. Placement'
    BY <1>1 DEF Placement
  <1> QED BY <1>1, <1>2 DEF IInv

\* A step that completes nobody and moves nobody between queue and lanes.
LEMMA QuietStep ==
    ASSUME IInv, callerVars' = callerVars, requestVars' = requestVars,
           WorkerTypes', WorkerPlace',
           (\A i, j \in DOMAIN pending : pending[i] = pending[j] => i = j)',
           (\A l, m \in Lanes : slots[l] = slots[m] /\ slots[l] # NoRequest => l = m)',
           InQueue' \cap Active' = {},
           InQueue' \cup Active' = InQueue \cup Active
    PROVE  IInv'
  <1> USE DEF IInv
  <1>1. /\ caller' = caller /\ id' = id /\ nextId' = nextId
        /\ cancelled' = cancelled /\ expired' = expired /\ stopping' = stopping
        /\ unread' = unread /\ stage' = stage /\ verdict' = verdict
        /\ capacityReleased' = capacityReleased /\ outstanding' = outstanding
    BY DEF callerVars, requestVars
  <1>2. CallerTypes' /\ RequestTypes'
    BY <1>1 DEF CallerTypes, IdsDistinct, RequestTypes
  <1>3. CapacityExact'
    BY <1>1, CapacityFrame DEF Submitted
  <1>4. \A r \in Requests : LifeOf(r)'
    BY <1>1 DEF LifeOf, Submitted, Done, ConsumerReleased
  <1>5. Placement'
    BY <1>1 DEF Placement, Submitted
  <1> QED BY <1>2, <1>3, <1>4, <1>5

LEMMA QueueType ==
    ASSUME IInv
    PROVE  InQueue \subseteq Requests /\ Active \subseteq Requests
  <1>1. InQueue \subseteq Requests
    BY DEF IInv, WorkerTypes, InQueue
  <1>2. Active \subseteq Requests
    BY DEF IInv, WorkerTypes, Active, Sources
  <1> QED BY <1>1, <1>2

LEMMA LaneNumbers == NoLane \notin Lanes /\ \A l \in Lanes : l \in Nat
  BY ExecutorAssumption DEF NoLane, Lanes

\* What Invalidated leaves has the type of plans.
LEMMA InvalidatedType ==
    ASSUME NEW p \in [Requests -> [Lanes -> Sources \cup {Stale}]], NEW L, NEW S
    PROVE  Invalidated(p, L, S) \in [Requests -> [Lanes -> Sources \cup {Stale}]]
  BY DEF Invalidated

\* fail_all completes everybody when nobody was erased from the queue.
LEMMA FailAllStep ==
    ASSUME IInv, NEW outcome \in {"unavailable", "error"}, FailAll(outcome, {}),
           bug' \in BOOLEAN
    PROVE  IInv'
  <1> DEFINE all == InQueue \cup Active
             v == Verdicts(all, outcome)
  <1>1. /\ failed' = TRUE /\ pending' = <<>> /\ prefillLane' = NoLane
        /\ protection' = NoProtection /\ slots' = [l \in Lanes |-> NoRequest]
        /\ plans' = Invalidated(plans, {}, all) /\ Decide(v, {})
        /\ at' = [pc |-> "stopped"]
        /\ callerVars' = callerVars /\ cache' = cache /\ nextEpoch' = nextEpoch
        /\ prevDecode' = prevDecode
        /\ run' = [r \in Requests |-> IF r \in all THEN NotRunning ELSE run[r]]
    <2>1. (InQueue \cup Active) \ {} = all
      OBVIOUS
    <2> QED BY <2>1 DEF FailAll
  <1>2. DOMAIN v = all /\ \A r \in DOMAIN v : v[r] \in Outcomes
    BY DEF Verdicts, Outcomes
  <1>3. InQueue' = {} /\ Active' = {}
    BY <1>1 DEF InQueue, Active
  <1>4. WorkerTypes'
    <2>1. AtShape' /\ ProtectionShape'
      BY <1>1 DEF AtShape, ProtectionShape
    <2>2. plans' \in [Requests -> [Lanes -> Sources \cup {Stale}]]
      BY <1>1, InvalidatedType DEF IInv, WorkerTypes
    <2>3. pending' \in Seq(Requests) /\ slots' \in [Lanes -> Sources]
      BY <1>1 DEF Sources
    <2>4. run' \in [Requests -> RunRecord]
      BY <1>1 DEF IInv, WorkerTypes, RunRecord, NotRunning
    <2> QED BY <1>1, <2>1, <2>2, <2>3, <2>4 DEF IInv, WorkerTypes
  <1>5. WorkerPlace'
    BY <1>1, <1>3 DEF WorkerPlace, OwnerStaged
  <1>6. (\A i, j \in DOMAIN pending : pending[i] = pending[j] => i = j)'
    BY <1>1
  <1>7. (\A l, m \in Lanes : slots[l] = slots[m] /\ slots[l] # NoRequest => l = m)'
    BY <1>1
  <1> HIDE DEF v
  <1> QED BY <1>1, <1>2, <1>3, <1>4, <1>5, <1>6, <1>7, WorkerStep

\* Taking requests out of their lanes, and out of the queue.
LEMMA VacatedFacts ==
    ASSUME IInv, NEW S \in SUBSET Requests, slots' = Vacated(S)
    PROVE  /\ slots' \in [Lanes -> Sources]
           /\ Active' = Active \ S
           /\ (\A l, m \in Lanes : slots[l] = slots[m] /\ slots[l] # NoRequest => l = m)'
           /\ \A l \in Lanes : slots[l] \notin S => slots'[l] = slots[l]
           /\ OwnerWithout(S) # NoLane =>
                 OwnerWithout(S) \in Lanes /\ slots'[OwnerWithout(S)] # NoRequest
           /\ OwnerWithout(S) \in Lanes \cup {NoLane}
  <1> USE DEF IInv
  <1>1. slots \in [Lanes -> Sources] /\ NoRequest \notin Requests
    BY ExecutorAssumption DEF WorkerTypes
  <1>2. slots' \in [Lanes -> Sources]
    BY <1>1 DEF Vacated, Sources
  <1>3. Active' = Active \ S
    <2>1. \A l \in Lanes : slots'[l] = IF slots[l] \in S THEN NoRequest ELSE slots[l]
      BY DEF Vacated
    <2>2. ASSUME NEW x \in Active' PROVE x \in Active \ S
      BY <2>1 DEF Active
    <2>3. ASSUME NEW x \in Active \ S PROVE x \in Active'
      BY <2>1 DEF Active
    <2> QED BY <2>2, <2>3
  <1>4. (\A l, m \in Lanes : slots[l] = slots[m] /\ slots[l] # NoRequest => l = m)'
    BY <1>1 DEF Vacated, Placement
  <1>5. \A l \in Lanes : slots[l] \notin S => slots'[l] = slots[l]
    BY DEF Vacated
  <1>6. /\ OwnerWithout(S) # NoLane =>
             OwnerWithout(S) \in Lanes /\ slots'[OwnerWithout(S)] # NoRequest
        /\ OwnerWithout(S) \in Lanes \cup {NoLane}
    BY <1>5 DEF OwnerWithout, LanesOf, WorkerPlace, OwnerStaged, WorkerTypes
  <1> QED BY <1>2, <1>3, <1>4, <1>5, <1>6

LEMMA WithoutFacts ==
    ASSUME IInv, NEW S, pending' = Without(pending, S)
    PROVE  /\ pending' \in Seq(Requests)
           /\ InQueue' = InQueue \ S
           /\ (\A i, j \in DOMAIN pending : pending[i] = pending[j] => i = j)'
           /\ pending # <<>> /\ Head(pending) \notin S
                => pending' # <<>> /\ Head(pending') = Head(pending)
  <1>1. pending \in Seq(Requests)
    BY DEF IInv, WorkerTypes
  <1>2. pending' = Remaining(pending, S)
    BY DEF Without, Remaining, Outside, Nth, Rank
  <1>3. \A i, j \in DOMAIN pending : pending[i] = pending[j] => i = j
    BY DEF IInv, Placement
  <1>4. /\ Remaining(pending, S) \in Seq(Requests)
        /\ {Remaining(pending, S)[k] : k \in DOMAIN Remaining(pending, S)}
             = {pending[i] : i \in DOMAIN pending} \ S
        /\ \A i, j \in DOMAIN Remaining(pending, S) :
              Remaining(pending, S)[i] = Remaining(pending, S)[j] => i = j
        /\ pending # <<>> /\ Head(pending) \notin S
             => /\ Remaining(pending, S) # <<>>
                /\ Head(Remaining(pending, S)) = Head(pending)
    <2>1. /\ Remaining(pending, S) \in Seq(Requests)
          /\ {Remaining(pending, S)[k] : k \in DOMAIN Remaining(pending, S)}
               = {pending[i] : i \in DOMAIN pending} \ S
          /\ (\A i, j \in DOMAIN pending : pending[i] = pending[j] => i = j)
               => \A i, j \in DOMAIN Remaining(pending, S) :
                     Remaining(pending, S)[i] = Remaining(pending, S)[j] => i = j
          /\ pending # <<>> /\ Head(pending) \notin S
               => /\ Remaining(pending, S) # <<>>
                  /\ Head(Remaining(pending, S)) = Head(pending)
      BY <1>1, RemainingFacts, Zenon
    <2> QED BY <1>3, <2>1, Zenon
  <1>5. pending' \in Seq(Requests)
    BY <1>2, <1>4
  <1>6. InQueue' = {pending'[k] : k \in DOMAIN pending'}
    BY DEF InQueue
  <1>7. InQueue' = InQueue \ S
    <2>1. InQueue' = {Remaining(pending, S)[k] : k \in DOMAIN Remaining(pending, S)}
      BY <1>2, <1>6
    <2>2. InQueue = {pending[i] : i \in DOMAIN pending}
      BY DEF InQueue
    <2> QED BY <1>4, <2>1, <2>2
  <1>8. (\A i, j \in DOMAIN pending : pending[i] = pending[j] => i = j)'
    BY <1>2, <1>4
  <1>9. pending # <<>> /\ Head(pending) \notin S
           => pending' # <<>> /\ Head(pending') = Head(pending)
    BY <1>2, <1>4
  <1> QED BY <1>5, <1>7, <1>8, <1>9
LEMMA StopWorkerStep ==
    ASSUME IInv, StopWorker
    PROVE  IInv'
  <1>1. bug' \in BOOLEAN
    BY DEF StopWorker, IInv, WorkerTypes
  <1> QED BY <1>1, FailAllStep DEF StopWorker

LEMMA FaultStep ==
    ASSUME IInv, Fault
    PROVE  IInv'
  <1>1. bug' \in BOOLEAN
    BY DEF Fault, IInv, WorkerTypes
  <1> QED BY <1>1, FailAllStep DEF Fault

LEMMA ThrowStep ==
    ASSUME IInv, Throw
    PROVE  IInv'
  <1>1. bug' \in BOOLEAN
    BY DEF Throw, ThrowLosing
  <1> QED BY <1>1, FailAllStep DEF Throw, ThrowLosing

\* The next unit is a step of the owner, or carries nothing.
LEMMA NextUnitShape ==
    ASSUME NEW members, NEW owner, NEW waiting \in BOOLEAN, prevDecode \in BOOLEAN
    PROVE  LET u == NextUnit(members, owner, waiting)
           IN  \/ u = [pc |-> "top"] \/ u = [pc |-> "select"] \/ u = [pc |-> "decode"]
               \/ owner # NoLane /\ u = [pc |-> "step", lane |-> owner]
  BY DEF NextUnit

\* Leaving the lanes leaves a run of the right type.
LEMMA StoppedType ==
    ASSUME IInv, NEW S
    PROVE  Stopped(S) \in [Requests -> RunRecord]
  BY DEF Stopped, IInv, WorkerTypes, RunRecord, NotRunning

LEMMA ProtectionWithoutShape ==
    ASSUME IInv, NEW S, protection' = ProtectionWithout(S)
    PROVE  ProtectionShape'
  BY DEF IInv, WorkerTypes, ProtectionShape, ProtectionWithout

LEMMA BoundaryStep ==
    ASSUME IInv, Boundary
    PROVE  IInv'
  <1> DEFINE aborted == {r \in Active : cancelled[r]}
             members == {r \in Active \ aborted : run[r].ready}
             owner == OwnerWithout(aborted)
             gone == Overdue \cup aborted
             v == [r \in gone |-> OverdueVerdict(r)]
             published == {r \in gone : cancelled[r]}
  <1>1. /\ at.pc = "top"
        /\ pending' = Without(pending, Overdue)
        /\ protection' = ProtectionWithout(Overdue)
        /\ slots' = Vacated(aborted)
        /\ run' = Stopped(aborted)
        /\ prefillLane' = owner
        /\ plans' = Invalidated(plans, LanesOf(aborted), gone)
        /\ Decide(v, published)
        /\ at' = NextUnit(members, owner, pending' # <<>>)
        /\ callerVars' = callerVars /\ cache' = cache /\ nextEpoch' = nextEpoch
        /\ failed' = failed /\ prevDecode' = prevDecode /\ bug' = bug
    BY DEF Boundary
  <1>2. /\ DOMAIN v = gone /\ gone \subseteq InQueue \cup Active
        /\ published \subseteq InQueue \cup Active
        /\ \A r \in DOMAIN v : v[r] \in Outcomes
    BY DEF Overdue, OverdueVerdict, Outcomes
  <1>3. aborted \in SUBSET Requests
    BY QueueType
  <1>4. /\ pending' \in Seq(Requests)
        /\ InQueue' = InQueue \ Overdue
        /\ (\A i, j \in DOMAIN pending : pending[i] = pending[j] => i = j)'
    BY <1>1, WithoutFacts
  <1>5. /\ slots' \in [Lanes -> Sources]
        /\ Active' = Active \ aborted
        /\ (\A l, m \in Lanes : slots[l] = slots[m] /\ slots[l] # NoRequest => l = m)'
        /\ owner # NoLane => owner \in Lanes /\ slots'[owner] # NoRequest
        /\ owner \in Lanes \cup {NoLane}
    BY <1>1, <1>3, VacatedFacts
  <1>6. \/ at' = [pc |-> "top"] \/ at' = [pc |-> "select"] \/ at' = [pc |-> "decode"]
        \/ owner # NoLane /\ at' = [pc |-> "step", lane |-> owner]
    BY <1>1, NextUnitShape DEF IInv, WorkerTypes
  <1>7. Overdue \subseteq InQueue /\ aborted \subseteq Active
    BY DEF Overdue
  <1>8. InQueue \cap Active = {}
    BY DEF IInv, Placement
  <1> HIDE DEF v, published, aborted, owner, members
  <1>9. WorkerTypes'
    <2>1. AtShape'
      BY <1>5, <1>6 DEF AtShape
    <2>2. ProtectionShape'
      BY <1>1, ProtectionWithoutShape
    <2>3. plans' \in [Requests -> [Lanes -> Sources \cup {Stale}]]
      BY <1>1, InvalidatedType DEF IInv, WorkerTypes
    <2>4. run' \in [Requests -> RunRecord]
      BY <1>1, StoppedType
    <2> QED BY <1>1, <1>4, <1>5, <2>1, <2>2, <2>3, <2>4 DEF IInv, WorkerTypes
  <1>10. WorkerPlace'
    <2>1. ~failed
      BY <1>1 DEF IInv, WorkerPlace, OwnerStaged
    <2>2. ~failed' /\ at'.pc # "stopped" /\ at'.pc # "admit"
      BY <1>1, <1>6, <2>1
    <2>3. at'.pc = "step" => slots'[at'.lane] # NoRequest
      BY <1>5, <1>6
    <2>4. OwnerStaged'
      <3>1. owner # NoLane => owner = prefillLane /\ slots[owner] \notin aborted
        BY DEF owner, OwnerWithout, LanesOf, IInv, WorkerTypes
      <3>2. owner # NoLane => slots'[owner] = slots[owner]
        BY <1>1, <1>3, <1>5, <3>1, VacatedFacts
      <3>3. owner # NoLane => slots[owner] \in Requests
        BY <1>5, <3>2 DEF IInv, WorkerTypes, Sources
      <3>4. owner # NoLane => run'[slots[owner]] = run[slots[owner]]
        BY <1>1, <3>1, <3>3 DEF Stopped
      <3> QED BY <1>1, <1>5, <3>1, <3>2, <3>4 DEF IInv, WorkerPlace, OwnerStaged
    <2> QED BY <2>2, <2>3, <2>4 DEF WorkerPlace, OwnerStaged
  <1>11. /\ InQueue' \cap Active' = {}
         /\ InQueue' \cup Active' = (InQueue \cup Active) \ DOMAIN v
    BY <1>2, <1>4, <1>5, <1>7, <1>8
  <1>12. (\A i, j \in DOMAIN pending : pending[i] = pending[j] => i = j)'
    BY <1>4
  <1>13. (\A l, m \in Lanes : slots[l] = slots[m] /\ slots[l] # NoRequest => l = m)'
    BY <1>5
  <1> QED BY <1>1, <1>2, <1>9, <1>10, <1>11, <1>12, <1>13, WorkerStep
-----------------------------------------------------------------------------
(***************************************************************************)
(* The choice of a lane.                                                   *)
(***************************************************************************)
LEMMA FreeLanePlan ==
    ASSUME IInv, NEW r \in Requests
    PROVE  /\ LanePlans(r) \in [Lanes -> Sources \cup {Stale}]
           /\ \A l \in Lanes : slots[l] = NoRequest => LanePlans(r)[l] \in Sources
  <1>1. plans[r] \in [Lanes -> Sources \cup {Stale}]
    BY DEF IInv, WorkerTypes
  <1>2. \A l \in Lanes : cache[l].source \in Sources
    BY DEF IInv, WorkerTypes
  <1> QED BY <1>1, <1>2 DEF LanePlans

\* A plan reuses a part of the prompt, and its work is at least the output.
LEMMA WorkBounds ==
    ASSUME NEW r \in Requests, NEW plan \in Sources
    PROVE  /\ Reuse(r, plan) \in 0 .. Prompt[r]
           /\ ServiceWork(r, plan) \in Nat
           /\ ServiceWork(r, plan) >= OutTokens[r]
           /\ Reuse(r, plan) < Prompt[r] =>
                 ServiceWork(r, plan) = Prompt[r] - Reuse(r, plan) + OutTokens[r] - 1
  <1>1. Prompt[r] \in Nat \ {0} /\ OutTokens[r] \in Nat \ {0}
    BY ExecutorAssumption
  <1>2. Reusable[r][plan] \in 0 .. Prompt[r]
    BY <1>1, ExecutorAssumption DEF Sources
  <1> QED BY <1>1, <1>2 DEF Reuse, ServiceWork

\* A choice of the best lane of a set is in the set.
LEMMA BestLane ==
    ASSUME NEW S \in SUBSET Lanes, S # {}, NEW g, \A l \in S : g[l] \in Nat
    PROVE  \E l \in S : \A m \in S : g[m] < g[l] \/ (g[m] = g[l] /\ l <= m)
  <1> DEFINE R == {p \in S \X S : \/ g[p[2]] < g[p[1]]
                                  \/ g[p[2]] = g[p[1]] /\ p[1] <= p[2]}
  <1>1. IsFiniteSet(S) /\ \A l \in S : l \in Nat
    <2>1. IsFiniteSet(Lanes)
      BY ExecutorAssumption, FS_Interval DEF Lanes
    <2> QED BY <2>1, FS_Subset, LaneNumbers
  <1>2. \A a, b \in S : <<a, b>> \in R <=> g[b] < g[a] \/ (g[b] = g[a] /\ a <= b)
    <2>1. ASSUME NEW a \in S, NEW b \in S
          PROVE  <<a, b>> \in R <=> g[b] < g[a] \/ (g[b] = g[a] /\ a <= b)
      OBVIOUS
    <2> QED BY <2>1
  <1> HIDE DEF R
  <1>3. \A a, b \in S : <<a, b>> \in R \/ <<b, a>> \in R
    <2>1. ASSUME NEW a \in S, NEW b \in S PROVE <<a, b>> \in R \/ <<b, a>> \in R
      <3>1. a \in Nat /\ b \in Nat /\ g[a] \in Nat /\ g[b] \in Nat
        BY <1>1
      <3>2. \/ g[b] < g[a] \/ (g[b] = g[a] /\ a <= b)
            \/ g[a] < g[b] \/ (g[a] = g[b] /\ b <= a)
        BY <3>1
      <3> QED BY <1>2, <3>2, Zenon
    <2> QED BY <2>1
  <1>4. \A a, b, c \in S : <<a, b>> \in R /\ <<b, c>> \in R => <<a, c>> \in R
    <2>1. ASSUME NEW a \in S, NEW b \in S, NEW c \in S, <<a, b>> \in R, <<b, c>> \in R
          PROVE  <<a, c>> \in R
      <3>1. /\ a \in Nat /\ b \in Nat /\ c \in Nat
            /\ g[a] \in Nat /\ g[b] \in Nat /\ g[c] \in Nat
        BY <1>1
      <3>2. /\ g[b] < g[a] \/ (g[b] = g[a] /\ a <= b)
            /\ g[c] < g[b] \/ (g[c] = g[b] /\ b <= c)
        BY <1>2, <2>1
      <3>3. g[c] < g[a] \/ (g[c] = g[a] /\ a <= c)
        BY <3>1, <3>2
      <3> QED BY <1>2, <3>3
    <2> QED BY <2>1
  <1>5. \E a \in S : \A b \in S : <<a, b>> \in R
    BY <1>1, <1>3, <1>4, FirstElement
  <1> QED BY <1>2, <1>5

\* find_admission_lane returns a free lane in which the request fits, or none when
\* there is no such lane.
LEMMA FindAdmissionLaneFacts ==
    ASSUME IInv, NEW r \in Requests
    PROVE  LET f == FindAdmissionLane(r)
           IN  /\ f.evict \in BOOLEAN
               /\ f.lane # NoLane =>
                    /\ f.lane \in Lanes /\ slots[f.lane] = NoRequest
                    /\ IF f.evict THEN CanAdmitAfterEviction(f.lane, r)
                       ELSE CanAdmit(cache, f.lane, r)
               /\ f.lane = NoLane =>
                    \A l \in Lanes : slots[l] = NoRequest => ~CanAdmitAfterEviction(l, r)
  <1> DEFINE free == {l \in Lanes : slots[l] = NoRequest}
             direct == {l \in free : CanAdmit(cache, l, r)}
             after == {l \in free : CanAdmitAfterEviction(l, r)}
             g == [l \in Lanes |-> Reuse(r, LanePlans(r)[l])]
             best(S) == CHOOSE l \in S : \A m \in S :
                            \/ Reuse(r, LanePlans(r)[m]) < Reuse(r, LanePlans(r)[l])
                            \/ Reuse(r, LanePlans(r)[m]) = Reuse(r, LanePlans(r)[l]) /\ l <= m
  <1>1. \A l \in free : g[l] \in Nat /\ g[l] = Reuse(r, LanePlans(r)[l])
    <2>1. \A l \in free : LanePlans(r)[l] \in Sources
      BY FreeLanePlan
    <2> QED BY <2>1, WorkBounds
  <1>2. ASSUME NEW S \in SUBSET free, S # {} PROVE best(S) \in S
    <2>1. \A l \in S : g[l] \in Nat /\ g[l] = Reuse(r, LanePlans(r)[l])
      BY <1>1
    <2> HIDE DEF g
    <2>2. \E l \in S : \A m \in S : g[m] < g[l] \/ (g[m] = g[l] /\ l <= m)
      BY <1>2, <2>1, BestLane
    <2>3. \E l \in S : \A m \in S :
             \/ Reuse(r, LanePlans(r)[m]) < Reuse(r, LanePlans(r)[l])
             \/ Reuse(r, LanePlans(r)[m]) = Reuse(r, LanePlans(r)[l]) /\ l <= m
      BY <2>1, <2>2
    <2> QED BY <2>3
  <1>3. FindAdmissionLane(r) =
          IF direct # {} THEN [lane |-> best(direct), evict |-> FALSE]
          ELSE IF after # {} THEN [lane |-> best(after), evict |-> TRUE]
          ELSE [lane |-> NoLane, evict |-> FALSE]
    BY DEF FindAdmissionLane
  <1>4. direct # {} => best(direct) \in direct
    BY <1>2
  <1>5. after # {} => best(after) \in after
    BY <1>2
  <1> HIDE DEF best
  <1>6. NoLane \notin Lanes
    BY LaneNumbers
  <1> QED BY <1>3, <1>4, <1>5, <1>6
-----------------------------------------------------------------------------
(***************************************************************************)
(* The choice of a request.                                                *)
(***************************************************************************)
LEMMA UnadmittedShape == Unadmitted \in [pc : {"top", "decode"}]
  BY DEF Unadmitted

LEMMA AdmitAtShape ==
    ASSUME IInv, NEW r \in Requests, NEW class \in {"none", "persistent", "temporal"},
           NEW epoch \in Nat, FindAdmissionLane(r).lane # NoLane,
           at' = AdmitAt(r, class, epoch)
    PROVE  /\ AtShape'
           /\ at'.pc = "admit" /\ at'.req = r /\ at'.class = class /\ at'.epoch = epoch
           /\ at'.lane = FindAdmissionLane(r).lane /\ at'.evict = FindAdmissionLane(r).evict
           /\ at'.lane \in Lanes /\ slots[at'.lane] = NoRequest
  <1>1. /\ FindAdmissionLane(r).evict \in BOOLEAN
        /\ FindAdmissionLane(r).lane \in Lanes
        /\ slots[FindAdmissionLane(r).lane] = NoRequest
    BY FindAdmissionLaneFacts
  <1>2. /\ at'.pc = "admit" /\ at'.req = r /\ at'.class = class /\ at'.epoch = epoch
        /\ at'.lane = FindAdmissionLane(r).lane /\ at'.evict = FindAdmissionLane(r).evict
    BY DEF AdmitAt
  <1>3. AtShape'
    BY <1>1 DEF AtShape, AdmitAt
  <1> QED BY <1>1, <1>2, <1>3

LEMMA SelectNothingStep ==
    ASSUME IInv, SelectNothing
    PROVE  IInv'
  <1>1. /\ at.pc = "select" /\ pending' = pending /\ slots' = slots /\ run' = run
        /\ prefillLane' = prefillLane /\ cache' = cache /\ plans' = plans
        /\ nextEpoch' = nextEpoch /\ failed' = failed /\ prevDecode' = prevDecode
        /\ bug' = bug /\ protection' = NoProtection /\ at' = Unadmitted
        /\ callerVars' = callerVars /\ requestVars' = requestVars
    BY DEF SelectNothing, laneVars
  <1>2. InQueue' = InQueue /\ Active' = Active
    BY <1>1 DEF InQueue, Active
  <1>3. at' \in [pc : {"top", "decode"}]
    BY <1>1, UnadmittedShape
  <1>4. WorkerTypes'
    BY <1>1, <1>3 DEF IInv, WorkerTypes, AtShape, ProtectionShape
  <1>5. WorkerPlace'
    BY <1>1, <1>2, <1>3 DEF IInv, WorkerPlace, OwnerStaged
  <1>6. (\A i, j \in DOMAIN pending : pending[i] = pending[j] => i = j)'
    BY <1>1 DEF IInv, Placement
  <1>7. (\A l, m \in Lanes : slots[l] = slots[m] /\ slots[l] # NoRequest => l = m)'
    BY <1>1 DEF IInv, Placement
  <1>8. InQueue' \cap Active' = {} /\ InQueue' \cup Active' = InQueue \cup Active
    BY <1>2 DEF IInv, Placement
  <1> QED BY <1>1, <1>4, <1>5, <1>6, <1>7, <1>8, QuietStep

\* The head of the queue, and what is left without it.
LEMMA HeadFacts ==
    ASSUME IInv, pending # <<>>
    PROVE  /\ Head(pending) \in Requests /\ Head(pending) \in InQueue
           /\ Head(pending) = pending[1] /\ Len(pending) \in Nat /\ Len(pending) >= 1
           /\ DOMAIN pending = 1 .. Len(pending)
           /\ Tail(pending) \in Seq(Requests)
           /\ {Tail(pending)[i] : i \in DOMAIN Tail(pending)} = InQueue \ {Head(pending)}
           /\ \A i, j \in DOMAIN Tail(pending) : Tail(pending)[i] = Tail(pending)[j] => i = j
  <1>1. pending \in Seq(Requests) /\ \A i, j \in DOMAIN pending : pending[i] = pending[j] => i = j
    BY DEF IInv, WorkerTypes, Placement
  <1>2. /\ DOMAIN pending = 1 .. Len(pending) /\ Len(pending) \in Nat /\ Len(pending) >= 1
        /\ \A i \in 1 .. Len(pending) : pending[i] \in Requests
        /\ Head(pending) = pending[1]
    BY <1>1
  <1>3. Head(pending) \in Requests /\ Head(pending) \in InQueue
    BY <1>2 DEF InQueue
  <1>4. /\ Tail(pending) \in Seq(Requests) /\ Len(Tail(pending)) = Len(pending) - 1
        /\ DOMAIN Tail(pending) = 1 .. Len(pending) - 1
        /\ \A i \in 1 .. Len(pending) - 1 : Tail(pending)[i] = pending[i + 1]
    BY <1>1, <1>2
  <1>5. ASSUME NEW x \in {Tail(pending)[i] : i \in DOMAIN Tail(pending)}
        PROVE  x \in InQueue \ {Head(pending)}
    <2>1. PICK i \in 1 .. Len(pending) - 1 : x = pending[i + 1]
      BY <1>4
    <2>2. i + 1 \in DOMAIN pending /\ i + 1 # 1 /\ 1 \in DOMAIN pending
      BY <1>2
    <2> QED BY <1>1, <1>2, <2>1, <2>2 DEF InQueue
  <1>6. ASSUME NEW x \in InQueue \ {Head(pending)}
        PROVE  x \in {Tail(pending)[i] : i \in DOMAIN Tail(pending)}
    <2>1. PICK i \in 1 .. Len(pending) : x = pending[i]
      BY <1>2 DEF InQueue
    <2>2. i # 1
      BY <1>2, <2>1
    <2>3. i - 1 \in 1 .. Len(pending) - 1 /\ (i - 1) + 1 = i
      BY <1>2, <2>2
    <2>4. x = Tail(pending)[i - 1]
      BY <1>4, <2>1, <2>3
    <2> QED BY <1>4, <2>3, <2>4
  <1>7. \A i, j \in DOMAIN Tail(pending) : Tail(pending)[i] = Tail(pending)[j] => i = j
    <2>1. ASSUME NEW i \in DOMAIN Tail(pending), NEW j \in DOMAIN Tail(pending),
                 Tail(pending)[i] = Tail(pending)[j]
          PROVE  i = j
      <3>1. /\ i \in Int /\ j \in Int
            /\ i + 1 \in DOMAIN pending /\ j + 1 \in DOMAIN pending
        BY <1>2, <1>4
      <3>2. pending[i + 1] = pending[j + 1]
        BY <1>4, <2>1
      <3>3. i + 1 = j + 1
        BY <1>1, <3>1, <3>2
      <3> QED BY <3>1, <3>3
    <2> QED BY <2>1
  <1> QED BY <1>2, <1>3, <1>4, <1>5, <1>6, <1>7

LEMMA SelectDropsHeadStep ==
    ASSUME IInv, SelectDropsHead
    PROVE  IInv'
  <1> DEFINE head == Head(pending)
             v == Verdicts({head}, InadmissibleVerdict(head))
             published == {r \in {head} : cancelled[r]}
  <1>1. /\ at.pc = "select" /\ pending # <<>> /\ pending' = Tail(pending)
        /\ protection' = NoProtection /\ plans' = Invalidated(plans, {}, {head})
        /\ Decide(v, published)
        /\ slots' = slots /\ run' = run /\ prefillLane' = prefillLane /\ cache' = cache
        /\ nextEpoch' = nextEpoch /\ failed' = failed /\ prevDecode' = prevDecode
        /\ bug' = bug /\ at' = at /\ callerVars' = callerVars
    BY DEF SelectDropsHead, laneVars
  <1>2. head \in InQueue /\ Tail(pending) \in Seq(Requests)
    BY <1>1, HeadFacts
  <1>3. /\ DOMAIN v = {head} /\ {head} \subseteq InQueue \cup Active
        /\ published \subseteq InQueue \cup Active
        /\ \A r \in DOMAIN v : v[r] \in Outcomes
    BY <1>2 DEF Verdicts, InadmissibleVerdict, OverdueVerdict, Outcomes
  <1>4. InQueue' = InQueue \ {head}
    <2>1. {Tail(pending)[i] : i \in DOMAIN Tail(pending)} = InQueue \ {head}
      BY <1>1, HeadFacts
    <2> QED BY <1>1, <2>1 DEF InQueue
  <1>5. (\A i, j \in DOMAIN pending : pending[i] = pending[j] => i = j)'
    BY <1>1, HeadFacts
  <1>6. Active' = Active
    BY <1>1 DEF Active
  <1> HIDE DEF v, published, head
  <1>7. WorkerTypes'
    <2>1. plans' \in [Requests -> [Lanes -> Sources \cup {Stale}]]
      BY <1>1, InvalidatedType DEF IInv, WorkerTypes
    <2> QED BY <1>1, <1>2, <2>1 DEF IInv, WorkerTypes, AtShape, ProtectionShape
  <1>8. WorkerPlace'
    BY <1>1, <1>4, <1>6 DEF IInv, WorkerPlace, OwnerStaged
  <1>9. (\A l, m \in Lanes : slots[l] = slots[m] /\ slots[l] # NoRequest => l = m)'
    BY <1>1 DEF IInv, Placement
  <1>10. /\ InQueue' \cap Active' = {}
         /\ InQueue' \cup Active' = (InQueue \cup Active) \ DOMAIN v
    BY <1>2, <1>3, <1>4, <1>6 DEF IInv, Placement
  <1> QED BY <1>1, <1>3, <1>5, <1>7, <1>8, <1>9, <1>10, WorkerStep

LEMMA SelectHeadStep ==
    ASSUME IInv, SelectHead
    PROVE  IInv'
  <1> DEFINE head == Head(pending)
  <1>1. /\ at.pc = "select" /\ pending # <<>> /\ pending' = pending
        /\ protection' = HeadProtection(head)
        /\ plans' = [plans EXCEPT ![head] = LanePlans(head)]
        /\ FindAdmissionLane(head).lane # NoLane /\ at' = AdmitAt(head, "none", 0)
        /\ slots' = slots /\ run' = run /\ prefillLane' = prefillLane /\ cache' = cache
        /\ nextEpoch' = nextEpoch /\ failed' = failed /\ prevDecode' = prevDecode
        /\ bug' = bug /\ callerVars' = callerVars /\ requestVars' = requestVars
    BY DEF SelectHead, laneVars
  <1>2. head \in InQueue /\ head \in Requests
    BY <1>1, HeadFacts
  <1> HIDE DEF head
  <1>3. /\ AtShape'
        /\ at'.pc = "admit" /\ at'.req = head /\ at'.class = "none"
        /\ at'.lane \in Lanes /\ slots[at'.lane] = NoRequest
    BY <1>1, <1>2, AdmitAtShape
  <1>4. InQueue' = InQueue /\ Active' = Active
    BY <1>1 DEF InQueue, Active
  <1>5. WorkerTypes'
    <2>1. plans' \in [Requests -> [Lanes -> Sources \cup {Stale}]]
      BY <1>1, <1>2, FreeLanePlan DEF IInv, WorkerTypes
    <2>2. ProtectionShape'
      BY <1>1 DEF IInv, WorkerTypes, ProtectionShape, HeadProtection
    <2> QED BY <1>1, <1>3, <2>1, <2>2 DEF IInv, WorkerTypes
  <1>6. WorkerPlace'
    <2>1. ~CreditLost(at.req, plans[at.req][at.lane])'
      BY <1>3 DEF CreditLost
    <2> QED BY <1>1, <1>2, <1>3, <1>4, <2>1 DEF IInv, WorkerPlace, OwnerStaged
  <1>7. (\A i, j \in DOMAIN pending : pending[i] = pending[j] => i = j)'
    BY <1>1 DEF IInv, Placement
  <1>8. (\A l, m \in Lanes : slots[l] = slots[m] /\ slots[l] # NoRequest => l = m)'
    BY <1>1 DEF IInv, Placement
  <1>9. InQueue' \cap Active' = {} /\ InQueue' \cup Active' = InQueue \cup Active
    BY <1>4 DEF IInv, Placement
  <1> QED BY <1>1, <1>5, <1>6, <1>7, <1>8, <1>9, QuietStep
-----------------------------------------------------------------------------
(***************************************************************************)
(* make_admission_protection: the release order has a shortest prefix that *)
(* lets the head in.                                                       *)
(***************************************************************************)
UpTo(a, active, work, ids) == {b \in active : ReleasesBefore(b, a, work, ids)}

LEMMA LastDonor ==
    ASSUME NEW active, IsFiniteSet(active), active # {}, NEW head, Fits({head}),
           NEW work, NEW ids, NEW epoch,
           \A a \in active : work[a] \in Int /\ ids[a] \in Int,
           \A a, b \in active : ids[a] = ids[b] => a = b
    PROVE  \E last \in active :
              /\ Fits((active \ UpTo(last, active, work, ids)) \cup {head})
              /\ MakeProtection(epoch, head, active, work, ids) =
                    [epoch |-> epoch, head |-> head, incumbents |-> active,
                     donors |-> UpTo(last, active, work, ids), credit |-> work[last],
                     drain |-> FALSE]
  <1> DEFINE before(a, b) == ReleasesBefore(a, b, work, ids)
             upTo(a) == {b \in active : ReleasesBefore(b, a, work, ids)}
             lets(a) == Fits((active \ upTo(a)) \cup {head})
             good == {a \in active : lets(a)}
             R == {p \in active \X active : before(p[1], p[2])}
             Q == {p \in active \X active : before(p[2], p[1])}
  <1>1. \A a, b \in active : before(a, b) \/ before(b, a)
    BY DEF ReleasesBefore
  <1>2. \A a, b, c \in active : before(a, b) /\ before(b, c) => before(a, c)
    BY DEF ReleasesBefore
  <1>3. \A a, b \in active : before(a, b) /\ before(b, a) => a = b
    BY DEF ReleasesBefore
  <1> HIDE DEF before
  <1>4. \A a, b \in active : (<<a, b>> \in R <=> before(a, b)) /\ (<<a, b>> \in Q <=> before(b, a))
    <2>1. ASSUME NEW a \in active, NEW b \in active
          PROVE  (<<a, b>> \in R <=> before(a, b)) /\ (<<a, b>> \in Q <=> before(b, a))
      OBVIOUS
    <2> QED BY <2>1
  <1> HIDE DEF R, Q
  <1>5. PICK z \in active : \A b \in active : before(b, z)
    <2>1. \A a, b \in active : <<a, b>> \in Q \/ <<b, a>> \in Q
      BY <1>1, <1>4
    <2>2. \A a, b, c \in active : <<a, b>> \in Q /\ <<b, c>> \in Q => <<a, c>> \in Q
      BY <1>2, <1>4
    <2>3. \E a \in active : \A b \in active : <<a, b>> \in Q
      BY <2>1, <2>2, FirstElement
    <2> QED BY <1>4, <2>3
  <1>6. upTo(z) = active
    BY <1>5 DEF before
  <1>7. lets(z)
    <2>1. (active \ upTo(z)) \cup {head} = {head}
      BY <1>6
    <2> QED BY <2>1
  <1>8. good # {} /\ good \subseteq active /\ IsFiniteSet(good)
    BY <1>7, FS_Subset
  <1>9. PICK last \in good : \A b \in good : before(last, b)
    <2>1. \A a, b \in good : <<a, b>> \in R \/ <<b, a>> \in R
      BY <1>1, <1>4, <1>8
    <2>2. \A a, b, c \in good : <<a, b>> \in R /\ <<b, c>> \in R => <<a, c>> \in R
      BY <1>2, <1>4, <1>8
    <2> HIDE DEF good
    <2>3. \E a \in good : \A b \in good : <<a, b>> \in R
      BY <1>8, <2>1, <2>2, FirstElement
    <2> QED BY <1>4, <1>8, <2>3
  <1>10. last \in active /\ lets(last) /\ \A b \in upTo(last) \ {last} : ~lets(b)
    <2>1. last \in active /\ lets(last)
      BY <1>9
    <2>2. ASSUME NEW b \in upTo(last) \ {last}, lets(b) PROVE FALSE
      <3>1. b \in active /\ before(b, last) /\ b # last
        BY DEF before
      <3>2. before(last, b)
        BY <1>9, <2>2, <3>1
      <3> QED BY <1>3, <2>1, <3>1, <3>2
    <2> QED BY <2>1, <2>2
  <1> DEFINE chosen == CHOOSE a \in active : lets(a) /\ \A b \in upTo(a) \ {a} : ~lets(b)
  <1>11. chosen \in active /\ lets(chosen)
    BY <1>10
  <1>12. MakeProtection(epoch, head, active, work, ids) =
            [epoch |-> epoch, head |-> head, incumbents |-> active,
             donors |-> upTo(chosen), credit |-> work[chosen], drain |-> FALSE]
    BY DEF MakeProtection
  <1> HIDE DEF chosen
  <1>13. upTo(chosen) = UpTo(chosen, active, work, ids)
    BY DEF UpTo
  <1> QED BY <1>11, <1>12, <1>13
\* The protection that try_admit_one goes on with.
MadeFor(head) == IF protection.head # head
                   THEN MakeProtection(nextEpoch, head, Active, Work, id) ELSE protection
ProtFor(head) ==
    IF SafeWithoutTemporal(MadeFor(head), Active, EpochOf, ClassOf)
      THEN [MadeFor(head) EXCEPT !.drain = TRUE] ELSE MadeFor(head)

LEMMA ProtectionMade ==
    ASSUME IInv, NEW head \in Requests, Fits({head}), Active # {}
    PROVE  /\ protection.head # head =>
                \E last \in Active :
                   /\ Fits((Active \ UpTo(last, Active, Work, id)) \cup {head})
                   /\ MadeFor(head) =
                        [epoch |-> nextEpoch, head |-> head, incumbents |-> Active,
                         donors |-> UpTo(last, Active, Work, id), credit |-> Work[last],
                         drain |-> FALSE]
           /\ LET p == ProtFor(head)
              IN  /\ p.head = head /\ p.epoch \in Nat /\ p.credit \in Int
                  /\ p # NoProtection
                  /\ p.epoch = MadeFor(head).epoch /\ p.donors = MadeFor(head).donors
                  /\ p.incumbents = MadeFor(head).incumbents
                  /\ p.credit = MadeFor(head).credit
                  /\ p = [epoch |-> p.epoch, head |-> p.head, incumbents |-> p.incumbents,
                          donors |-> p.donors, credit |-> p.credit, drain |-> p.drain]
                  /\ p.drain <=> \/ SafeWithoutTemporal(MadeFor(head), Active, EpochOf, ClassOf)
                                 \/ MadeFor(head).drain
  <1>1. Active \subseteq Requests /\ IsFiniteSet(Active)
    BY QueueType, PolicyAssumption, FS_Subset
  <1>2. \A a \in Active : Work[a] \in Int /\ id[a] \in Int
    BY <1>1 DEF Work, IInv, WorkerTypes, RunRecord, CallerTypes
  <1>3. \A a, b \in Active : id[a] = id[b] => a = b
    <2>1. \A a \in Active : Submitted(a)
      BY <1>1 DEF IInv, Placement
    <2>2. \A a \in Active : id[a] # 0
      BY <1>1, <2>1 DEF IInv, CallerTypes, IdsDistinct, Submitted
    <2> QED BY <1>1, <2>2 DEF IInv, CallerTypes, IdsDistinct
  <1>4. nextEpoch \in Nat /\ ProtectionShape
    BY DEF IInv, WorkerTypes
  <1>5. protection.head # head =>
                \E last \in Active :
                   /\ Fits((Active \ UpTo(last, Active, Work, id)) \cup {head})
                   /\ MadeFor(head) =
                        [epoch |-> nextEpoch, head |-> head, incumbents |-> Active,
                         donors |-> UpTo(last, Active, Work, id), credit |-> Work[last],
                         drain |-> FALSE]
    <2> SUFFICES ASSUME protection.head # head
                 PROVE  \E last \in Active :
                   /\ Fits((Active \ UpTo(last, Active, Work, id)) \cup {head})
                   /\ MadeFor(head) =
                        [epoch |-> nextEpoch, head |-> head, incumbents |-> Active,
                         donors |-> UpTo(last, Active, Work, id), credit |-> Work[last],
                         drain |-> FALSE]
      OBVIOUS
    <2>1. MadeFor(head) = MakeProtection(nextEpoch, head, Active, Work, id)
      BY DEF MadeFor
    <2>2. \E last \in Active :
              /\ Fits((Active \ UpTo(last, Active, Work, id)) \cup {head})
              /\ MakeProtection(nextEpoch, head, Active, Work, id) =
                    [epoch |-> nextEpoch, head |-> head, incumbents |-> Active,
                     donors |-> UpTo(last, Active, Work, id), credit |-> Work[last],
                     drain |-> FALSE]
      <3>1. ASSUME NEW active, active = Active, NEW work, work = Work, NEW ids, ids = id,
                   NEW epoch, epoch = nextEpoch
            PROVE  \E last \in active :
              /\ Fits((active \ UpTo(last, active, work, ids)) \cup {head})
              /\ MakeProtection(epoch, head, active, work, ids) =
                    [epoch |-> epoch, head |-> head, incumbents |-> active,
                     donors |-> UpTo(last, active, work, ids), credit |-> work[last],
                     drain |-> FALSE]
        <4>1. IsFiniteSet(active) /\ active # {}
          BY <1>1, <3>1
        <4>2. \A a \in active : work[a] \in Int /\ ids[a] \in Int
          BY <1>2, <3>1
        <4>3. \A a, b \in active : ids[a] = ids[b] => a = b
          BY <1>3, <3>1
        <4> QED BY ONLY Fits({head}), <4>1, <4>2, <4>3, LastDonor
      <3> QED BY <3>1
    <2> QED BY <2>1, <2>2
  <1> DEFINE m == MadeFor(head)
  <1>6. /\ m.head = head /\ m.epoch \in Nat /\ m.credit \in Int
        /\ m = [epoch |-> m.epoch, head |-> m.head, incumbents |-> m.incumbents,
                donors |-> m.donors, credit |-> m.credit, drain |-> m.drain]
    <2>1. CASE protection.head # head
      <3>1. PICK last \in Active :
                m = [epoch |-> nextEpoch, head |-> head, incumbents |-> Active,
                         donors |-> UpTo(last, Active, Work, id), credit |-> Work[last],
                         drain |-> FALSE]
        BY <1>5, <2>1
      <3>2. Work[last] \in Int
        BY <1>2
      <3> HIDE DEF m
      <3> QED BY <1>4, <3>1, <3>2
    <2>2. CASE protection.head = head
      <3>1. m = protection
        BY <2>2 DEF MadeFor
      <3>2. protection # NoProtection
        BY <2>2, ExecutorAssumption DEF NoProtection
      <3> HIDE DEF m
      <3> QED BY <1>4, <2>2, <3>1, <3>2 DEF ProtectionShape
    <2> QED BY <2>1, <2>2
  <1> DEFINE p == ProtFor(head)
             safe == SafeWithoutTemporal(m, Active, EpochOf, ClassOf)
  <1>7. p = IF safe THEN [m EXCEPT !.drain = TRUE] ELSE m
    BY DEF ProtFor
  <1> HIDE DEF m, p, safe
  <1>8. /\ p.head = m.head /\ p.epoch = m.epoch /\ p.incumbents = m.incumbents
        /\ p.donors = m.donors /\ p.credit = m.credit
        /\ p.drain = IF safe THEN TRUE ELSE m.drain
        /\ p = [epoch |-> p.epoch, head |-> p.head, incumbents |-> p.incumbents,
                donors |-> p.donors, credit |-> p.credit, drain |-> p.drain]
    BY <1>6, <1>7
  <1>9. p # NoProtection
    BY <1>6, <1>8, ExecutorAssumption DEF NoProtection
  <1>10. p.drain <=> safe \/ m.drain
    BY <1>8
  <1> QED BY <1>5, <1>6, <1>8, <1>9, <1>10 DEF m, p, safe

LEMMA BackfillFacts ==
    ASSUME NEW prot, NEW c, BackfillClass(prot, c) # "none"
    PROVE  /\ BackfillClass(prot, c) \in {"persistent", "temporal"}
           /\ FindAdmissionLane(c).lane # NoLane
           /\ BackfillClass(prot, c) = "persistent" =>
                 PersistentSafe(prot, Active, EpochOf, ClassOf, c)
           /\ BackfillClass(prot, c) = "temporal" =>
                 ServiceWork(c, LanePlans(c)[FindAdmissionLane(c).lane]) <= prot.credit
  BY DEF BackfillClass

\* What try_admit_one drops and chooses behind the head.
Qualified(prot) == {i \in 2 .. Len(pending) : /\ ~Inadmissible(pending[i])
                                              /\ BackfillClass(prot, pending[i]) # "none"}
LastScanned(prot) == IF Qualified(prot) = {} THEN Len(pending) ELSE Min(Qualified(prot))
Scanned(prot) == {pending[i] : i \in 2 .. LastScanned(prot)}
Dropped(prot) == {r \in Scanned(prot) : Inadmissible(r)}

LEMMA ScanFacts ==
    ASSUME IInv, pending # <<>>, NEW prot
    PROVE  /\ Scanned(prot) \subseteq InQueue \ {Head(pending)}
           /\ Dropped(prot) \subseteq InQueue \ {Head(pending)}
           /\ Qualified(prot) # {} =>
                LET c == pending[LastScanned(prot)]
                IN  /\ c \in Scanned(prot) /\ c \notin Dropped(prot)
                    /\ c \in InQueue /\ c \in Requests
                    /\ ~Inadmissible(c) /\ BackfillClass(prot, c) # "none"
  <1>1. /\ Head(pending) = pending[1] /\ Len(pending) \in Nat /\ Len(pending) >= 1
        /\ DOMAIN pending = 1 .. Len(pending)
    BY HeadFacts
  <1>2. \A i, j \in 1 .. Len(pending) : pending[i] = pending[j] => i = j
    BY <1>1 DEF IInv, Placement
  <1>3. Qualified(prot) # {} => LastScanned(prot) \in Qualified(prot)
    <2>1. Qualified(prot) \subseteq Nat
      BY <1>1 DEF Qualified
    <2> QED BY <2>1, LeastNumber DEF LastScanned
  <1>4. LastScanned(prot) \in Nat /\ LastScanned(prot) <= Len(pending)
    BY <1>1, <1>3 DEF Qualified, LastScanned
  <1>5. ASSUME NEW i \in 2 .. LastScanned(prot)
        PROVE  pending[i] \in InQueue \ {Head(pending)}
    <2>1. i \in 1 .. Len(pending) /\ i # 1 /\ 1 \in 1 .. Len(pending)
      BY <1>1, <1>4
    <2> QED BY <1>1, <1>2, <2>1 DEF InQueue
  <1>6. Scanned(prot) \subseteq InQueue \ {Head(pending)}
    BY <1>5 DEF Scanned
  <1>7. ASSUME Qualified(prot) # {}
        PROVE  LET c == pending[LastScanned(prot)]
               IN  /\ c \in Scanned(prot) /\ c \notin Dropped(prot)
                   /\ c \in InQueue /\ c \in Requests
                   /\ ~Inadmissible(c) /\ BackfillClass(prot, c) # "none"
    <2>1. /\ LastScanned(prot) \in 2 .. Len(pending)
          /\ ~Inadmissible(pending[LastScanned(prot)])
          /\ BackfillClass(prot, pending[LastScanned(prot)]) # "none"
      BY <1>3, <1>7 DEF Qualified
    <2>2. pending[LastScanned(prot)] \in Scanned(prot)
      BY <1>1, <2>1 DEF Scanned
    <2>3. pending[LastScanned(prot)] \notin Dropped(prot)
      BY <2>1 DEF Dropped
    <2>4. pending[LastScanned(prot)] \in InQueue /\ InQueue \subseteq Requests
      BY <1>6, <2>2, QueueType
    <2> QED BY <2>1, <2>2, <2>3, <2>4
  <1>8. Dropped(prot) \subseteq InQueue \ {Head(pending)}
    BY <1>6 DEF Dropped
  <1> QED BY <1>6, <1>7, <1>8
\* What SelectBehindHead does, in terms of the definitions above.
LEMMA BehindHeadCases ==
    ASSUME IInv, SelectBehindHead
    PROVE  LET head == Head(pending)
               prot == ProtFor(head)
           IN  /\ at.pc = "select" /\ pending # <<>> /\ ~Inadmissible(head)
               /\ FindAdmissionLane(head).lane = NoLane
               /\ \/ /\ \/ Active = {} \/ \E r \in Active : run[r].work = 0
                        \/ protection.head # head /\ ProtectionThrows(head, Active, Work)
                     /\ Throw
                  \/ /\ Active # {}
                     /\ protection' = prot
                     /\ nextEpoch' = IF protection.head # head THEN nextEpoch + 1 ELSE nextEpoch
                     /\ UNCHANGED <<callerVars, laneVars, failed, prevDecode, bug>>
                     /\ \/ /\ prot.drain
                           /\ plans' = [plans EXCEPT ![head] = LanePlans(head)]
                           /\ at' = Unadmitted
                           /\ UNCHANGED <<requestVars, pending>>
                        \/ ~prot.drain /\ Scan(prot, head)
  BY DEF SelectBehindHead, ProtFor, MadeFor

LEMMA ScanEffect ==
    ASSUME IInv, pending # <<>>, NEW prot, Scan(prot, Head(pending))
    PROVE  /\ pending' = Without(pending, Dropped(prot))
           /\ plans' = [r \in Requests |->
                          IF r \in Dropped(prot) THEN NoPlans
                          ELSE IF r \in Scanned(prot) \cup {Head(pending)} THEN LanePlans(r)
                          ELSE plans[r]]
           /\ Decide([r \in Dropped(prot) |-> InadmissibleVerdict(r)],
                     {r \in Dropped(prot) : cancelled[r]})
           /\ IF Qualified(prot) = {} THEN at' = Unadmitted
              ELSE at' = AdmitAt(pending[LastScanned(prot)],
                                 BackfillClass(prot, pending[LastScanned(prot)]), prot.epoch)
  BY DEF Scan, Dropped, Scanned, Qualified, LastScanned

LEMMA SelectBehindHeadStep ==
    ASSUME IInv, SelectBehindHead
    PROVE  IInv'
  <1> DEFINE head == Head(pending)
             prot == ProtFor(head)
  <1>1. /\ at.pc = "select" /\ pending # <<>> /\ ~Inadmissible(head)
        /\ FindAdmissionLane(head).lane = NoLane
    BY BehindHeadCases
  <1>2. CASE Throw
    BY <1>2, ThrowStep
  <1>3. CASE /\ Active # {}
             /\ protection' = prot
             /\ nextEpoch' = IF protection.head # head THEN nextEpoch + 1 ELSE nextEpoch
             /\ UNCHANGED <<callerVars, laneVars, failed, prevDecode, bug>>
             /\ \/ /\ prot.drain
                   /\ plans' = [plans EXCEPT ![head] = LanePlans(head)]
                   /\ at' = Unadmitted
                   /\ UNCHANGED <<requestVars, pending>>
                \/ ~prot.drain /\ Scan(prot, head)
    <2>1. head \in InQueue /\ head \in Requests
      BY <1>1, HeadFacts
    <2>2. Fits({head})
      BY <1>1 DEF Inadmissible
    <2>3. /\ prot.head = head /\ prot.epoch \in Nat /\ prot.credit \in Int
          /\ prot # NoProtection
          /\ prot = [epoch |-> prot.epoch, head |-> prot.head, incumbents |-> prot.incumbents,
                     donors |-> prot.donors, credit |-> prot.credit, drain |-> prot.drain]
      BY <1>3, <2>1, <2>2, ProtectionMade
    <2> HIDE DEF prot, head
    <2>4. /\ slots' = slots /\ run' = run /\ prefillLane' = prefillLane /\ cache' = cache
          /\ failed' = failed /\ prevDecode' = prevDecode /\ bug' = bug
          /\ callerVars' = callerVars /\ protection' = prot
      BY <1>3 DEF laneVars
    <2>5. ProtectionShape' /\ nextEpoch' \in Nat
      <3>1. ProtectionShape'
        BY <2>1, <2>3, <2>4 DEF ProtectionShape
      <3>2. nextEpoch' \in Nat
        BY <1>3 DEF IInv, WorkerTypes
      <3> QED BY <3>1, <3>2
    <2>6. Active' = Active
      BY <2>4 DEF Active
    <2>7. (\A l, m \in Lanes : slots[l] = slots[m] /\ slots[l] # NoRequest => l = m)'
      BY <2>4 DEF IInv, Placement
    <2>8. LanePlans(head) \in [Lanes -> Sources \cup {Stale}]
      BY <2>1, FreeLanePlan
    <2>9. CASE /\ plans' = [plans EXCEPT ![head] = LanePlans(head)]
               /\ at' = Unadmitted
               /\ UNCHANGED <<requestVars, pending>>
      <3>1. at' \in [pc : {"top", "decode"}]
        BY <2>9, UnadmittedShape
      <3>2. InQueue' = InQueue
        BY <2>9 DEF InQueue
      <3>3. WorkerTypes'
        <4>1. plans' \in [Requests -> [Lanes -> Sources \cup {Stale}]]
          BY <2>1, <2>8, <2>9 DEF IInv, WorkerTypes
        <4>2. AtShape'
          BY <3>1 DEF AtShape
        <4> QED BY <2>4, <2>5, <2>9, <4>1, <4>2 DEF IInv, WorkerTypes
      <3>4. WorkerPlace'
        BY <1>1, <2>4, <2>6, <3>1, <3>2 DEF IInv, WorkerPlace, OwnerStaged
      <3>5. (\A i, j \in DOMAIN pending : pending[i] = pending[j] => i = j)'
        BY <2>9 DEF IInv, Placement
      <3>6. InQueue' \cap Active' = {} /\ InQueue' \cup Active' = InQueue \cup Active
        BY <2>6, <3>2 DEF IInv, Placement
      <3> QED BY <2>4, <2>7, <2>9, <3>3, <3>4, <3>5, <3>6, QuietStep
    <2>10. CASE Scan(prot, head)
      <3> DEFINE v == [r \in Dropped(prot) |-> InadmissibleVerdict(r)]
                 published == {r \in Dropped(prot) : cancelled[r]}
                 c == pending[LastScanned(prot)]
      <3>1. /\ pending' = Without(pending, Dropped(prot))
            /\ plans' = [r \in Requests |->
                           IF r \in Dropped(prot) THEN NoPlans
                           ELSE IF r \in Scanned(prot) \cup {head} THEN LanePlans(r)
                           ELSE plans[r]]
            /\ Decide(v, published)
            /\ IF Qualified(prot) = {} THEN at' = Unadmitted
               ELSE at' = AdmitAt(c, BackfillClass(prot, c), prot.epoch)
        BY <1>1, <2>10, ScanEffect DEF head
      <3>2. /\ Dropped(prot) \subseteq InQueue \ {head}
            /\ Qualified(prot) # {} =>
                 /\ c \in Scanned(prot) /\ c \notin Dropped(prot)
                 /\ c \in InQueue /\ c \in Requests
                 /\ ~Inadmissible(c) /\ BackfillClass(prot, c) # "none"
        BY <1>1, ScanFacts DEF head
      <3>3. /\ pending' \in Seq(Requests) /\ InQueue' = InQueue \ Dropped(prot)
            /\ (\A i, j \in DOMAIN pending : pending[i] = pending[j] => i = j)'
        BY <3>1, WithoutFacts
      <3>4. /\ DOMAIN v = Dropped(prot) /\ DOMAIN v \subseteq InQueue \cup Active
            /\ published \subseteq InQueue \cup Active
            /\ \A r \in DOMAIN v : v[r] \in Outcomes
        BY <3>2 DEF InadmissibleVerdict, OverdueVerdict, Outcomes
      <3>5. plans' \in [Requests -> [Lanes -> Sources \cup {Stale}]]
        <4>1. \A r \in Requests : LanePlans(r) \in [Lanes -> Sources \cup {Stale}]
          BY FreeLanePlan
        <4>2. NoPlans \in [Lanes -> Sources \cup {Stale}]
          BY DEF NoPlans
        <4>3. plans \in [Requests -> [Lanes -> Sources \cup {Stale}]]
          BY DEF IInv, WorkerTypes
        <4> QED BY <3>1, <4>1, <4>2, <4>3
      <3> HIDE DEF v, published, c
      <3>6. CASE Qualified(prot) = {}
        <4>1. at' \in [pc : {"top", "decode"}]
          BY <3>1, <3>6, UnadmittedShape
        <4>2. AtShape'
          BY <4>1 DEF AtShape
        <4>3. WorkerTypes'
          BY <2>4, <2>5, <3>3, <3>5, <4>2 DEF IInv, WorkerTypes
        <4>4. WorkerPlace'
          BY <1>1, <2>4, <2>6, <3>3, <4>1 DEF IInv, WorkerPlace, OwnerStaged
        <4>5. /\ InQueue' \cap Active' = {}
              /\ InQueue' \cup Active' = (InQueue \cup Active) \ DOMAIN v
          BY <2>6, <3>2, <3>3, <3>4 DEF IInv, Placement
        <4> QED BY <2>4, <2>7, <3>1, <3>3, <3>4, <4>3, <4>4, <4>5, WorkerStep
      <3>7. CASE Qualified(prot) # {}
        <4>1. /\ BackfillClass(prot, c) \in {"persistent", "temporal"}
              /\ FindAdmissionLane(c).lane # NoLane
              /\ BackfillClass(prot, c) = "temporal" =>
                   ServiceWork(c, LanePlans(c)[FindAdmissionLane(c).lane]) <= prot.credit
          BY <3>2, <3>7, BackfillFacts
        <4>2. at' = AdmitAt(c, BackfillClass(prot, c), prot.epoch)
          BY <3>1, <3>7
        <4>3. /\ AtShape'
              /\ at'.pc = "admit" /\ at'.req = c /\ at'.class = BackfillClass(prot, c)
              /\ at'.epoch = prot.epoch /\ at'.lane = FindAdmissionLane(c).lane
              /\ at'.lane \in Lanes /\ slots[at'.lane] = NoRequest
          BY <2>3, <3>2, <3>7, <4>1, <4>2, AdmitAtShape
        <4>4. WorkerTypes'
          BY <2>4, <2>5, <3>3, <3>5, <4>3 DEF IInv, WorkerTypes
        <4>5. ~CreditLost(at.req, plans[at.req][at.lane])'
          <5>1. plans'[c] = LanePlans(c)
            BY <3>1, <3>2, <3>7
          <5>2. LanePlans(c)[at'.lane] \in Sources
            BY <3>2, <3>7, <4>3, FreeLanePlan
          <5>3. ServiceWork(c, LanePlans(c)[at'.lane]) \in Nat
            BY <3>2, <3>7, <5>2, WorkBounds
          <5>4. at'.class = "temporal" => ServiceWork(c, LanePlans(c)[at'.lane]) <= prot.credit
            BY <4>1, <4>3
          <5>5. ~(at'.class = "temporal" /\ ServiceWork(c, LanePlans(c)[at'.lane]) > prot.credit)
            BY <2>3, <5>3, <5>4
          <5> QED BY <2>3, <2>4, <4>3, <5>1, <5>5 DEF CreditLost
        <4>6. WorkerPlace'
          BY <1>1, <2>4, <2>6, <3>2, <3>3, <3>7, <4>3, <4>5 DEF IInv, WorkerPlace, OwnerStaged
        <4>7. /\ InQueue' \cap Active' = {}
              /\ InQueue' \cup Active' = (InQueue \cup Active) \ DOMAIN v
          BY <2>6, <3>2, <3>3, <3>4 DEF IInv, Placement
        <4> QED BY <2>4, <2>7, <3>1, <3>3, <3>4, <4>4, <4>6, <4>7, WorkerStep
      <3> QED BY <3>6, <3>7
    <2> QED BY <1>3, <2>9, <2>10
  <1> QED BY <1>2, <1>3, BehindHeadCases
-----------------------------------------------------------------------------
(***************************************************************************)
(* Admission.                                                              *)
(***************************************************************************)
LEMMA AtAdmit ==
    ASSUME IInv, at.pc = "admit"
    PROVE  /\ at.req \in Requests /\ at.req \in InQueue /\ at.req \notin Active
           /\ at.lane \in Lanes /\ slots[at.lane] = NoRequest
           /\ at.evict \in BOOLEAN /\ at.epoch \in Nat
           /\ at.class \in {"none", "persistent", "temporal"}
           /\ plans[at.req][at.lane] \in Sources \cup {Stale}
           /\ ~CreditLost(at.req, plans[at.req][at.lane])
           /\ ~failed
  <1>1. at \in [pc : {"admit"}, req : Requests, lane : Lanes, evict : BOOLEAN,
                class : {"none", "persistent", "temporal"}, epoch : Nat]
    BY DEF IInv, WorkerTypes, AtShape
  <1>2. at.req \in InQueue /\ at.req \notin Active
    BY DEF IInv, WorkerPlace, Placement
  <1>3. /\ slots[at.lane] = NoRequest /\ ~failed
        /\ ~CreditLost(at.req, plans[at.req][at.lane])
    BY DEF IInv, WorkerPlace
  <1> QED BY <1>1, <1>2, <1>3 DEF IInv, WorkerTypes

LEMMA AdmitWithdrawnStep ==
    ASSUME IInv, AdmitWithdrawn
    PROVE  IInv'
  <1> DEFINE r == at.req
             v == Verdicts({r}, IF expired[r] THEN "timeout" ELSE "cancelled")
             published == IF expired[r] THEN {} ELSE {r}
  <1>1. /\ at.pc = "admit"
        /\ pending' = Without(pending, {r})
        /\ protection' = ProtectionWithout({r})
        /\ plans' = Invalidated(plans, {}, {r})
        /\ Decide(v, published)
        /\ at' = Unadmitted
        /\ slots' = slots /\ run' = run /\ prefillLane' = prefillLane /\ cache' = cache
        /\ nextEpoch' = nextEpoch /\ failed' = failed /\ prevDecode' = prevDecode
        /\ bug' = bug /\ callerVars' = callerVars
    BY DEF AdmitWithdrawn, laneVars
  <1>2. r \in InQueue /\ r \notin Active /\ ~failed
    BY <1>1, AtAdmit
  <1>3. /\ DOMAIN v = {r} /\ DOMAIN v \subseteq InQueue \cup Active
        /\ published \subseteq InQueue \cup Active
        /\ \A q \in DOMAIN v : v[q] \in Outcomes
    BY <1>2 DEF Verdicts, Outcomes
  <1> HIDE DEF r, v, published
  <1>4. /\ pending' \in Seq(Requests) /\ InQueue' = InQueue \ {r}
        /\ (\A i, j \in DOMAIN pending : pending[i] = pending[j] => i = j)'
    BY <1>1, WithoutFacts
  <1>5. Active' = Active
    BY <1>1 DEF Active
  <1>6. at' \in [pc : {"top", "decode"}]
    BY <1>1, UnadmittedShape
  <1>7. WorkerTypes'
    <2>1. plans' \in [Requests -> [Lanes -> Sources \cup {Stale}]]
      BY <1>1, InvalidatedType DEF IInv, WorkerTypes
    <2>2. AtShape' /\ ProtectionShape'
      BY <1>1, <1>6, ProtectionWithoutShape DEF AtShape
    <2> QED BY <1>1, <1>4, <2>1, <2>2 DEF IInv, WorkerTypes
  <1>8. WorkerPlace'
    BY <1>1, <1>2, <1>5, <1>6 DEF IInv, WorkerPlace, OwnerStaged
  <1>9. (\A l, m \in Lanes : slots[l] = slots[m] /\ slots[l] # NoRequest => l = m)'
    BY <1>1 DEF IInv, Placement
  <1>10. /\ InQueue' \cap Active' = {}
         /\ InQueue' \cup Active' = (InQueue \cup Active) \ DOMAIN v
    BY <1>2, <1>3, <1>4, <1>5 DEF IInv, Placement
  <1> QED BY <1>1, <1>3, <1>4, <1>7, <1>8, <1>9, <1>10, WorkerStep

\* What an admission does when nothing throws.
LEMMA AdmitEffect ==
    ASSUME IInv, Admit
    PROVE  LET r == at.req
               lane == at.lane
               plan == plans[r][lane]
               evicted == IF at.evict THEN LanesToEvict(lane, r) ELSE {}
           IN  /\ at.pc = "admit"
               /\ \/ AdmissionThrows(r, lane, plan, evicted) /\ Throw
                  \/ /\ ~AdmissionThrows(r, lane, plan, evicted)
                     /\ pending' = Without(pending, {r})
                     /\ slots' = [slots EXCEPT ![lane] = r]
                     /\ run' = [run EXCEPT ![r] =
                                  [ready |-> FALSE, budget |-> OutTokens[r],
                                   work |-> ServiceWork(r, plan),
                                   class |-> at.class, epoch |-> at.epoch]]
                     /\ prefillLane' = IF Reuse(r, plan) < Prompt[r] THEN lane ELSE prefillLane
                     /\ cache' = Evicted(evicted \cup {lane})
                     /\ plans' = Invalidated(plans, evicted \cup {lane}, {r})
                     /\ protection' = IF protection.head = r THEN NoProtection
                                      ELSE CreditAfter(at.class, ServiceWork(r, plan))
                     /\ at' = [pc |-> "step", lane |-> lane]
                     /\ UNCHANGED <<callerVars, requestVars, nextEpoch, failed,
                                    prevDecode, bug>>
  <1>1. at.pc = "admit"
    BY DEF Admit
  <1>2. ~CreditLost(at.req, plans[at.req][at.lane])
    BY <1>1, AtAdmit
  <1> QED BY <1>1, <1>2 DEF Admit, Throw

LEMMA AdmitStep ==
    ASSUME IInv, Admit
    PROVE  IInv'
  <1> DEFINE r == at.req
             lane == at.lane
             plan == plans[r][lane]
             evicted == IF at.evict THEN LanesToEvict(lane, r) ELSE {}
             work == ServiceWork(r, plan)
  <1>1. at.pc = "admit"
    BY DEF Admit
  <1>2. /\ r \in Requests /\ r \in InQueue /\ r \notin Active
        /\ lane \in Lanes /\ slots[lane] = NoRequest
        /\ at.epoch \in Nat /\ at.class \in {"none", "persistent", "temporal"}
        /\ plan \in Sources \cup {Stale} /\ ~failed
        /\ ~CreditLost(r, plan)
    BY <1>1, AtAdmit
  <1>3. CASE Throw
    BY <1>3, ThrowStep
  <1>4. CASE /\ ~AdmissionThrows(r, lane, plan, evicted)
             /\ pending' = Without(pending, {r})
             /\ slots' = [slots EXCEPT ![lane] = r]
             /\ run' = [run EXCEPT ![r] =
                          [ready |-> FALSE, budget |-> OutTokens[r], work |-> work,
                           class |-> at.class, epoch |-> at.epoch]]
             /\ prefillLane' = IF Reuse(r, plan) < Prompt[r] THEN lane ELSE prefillLane
             /\ cache' = Evicted(evicted \cup {lane})
             /\ plans' = Invalidated(plans, evicted \cup {lane}, {r})
             /\ protection' = IF protection.head = r THEN NoProtection
                              ELSE CreditAfter(at.class, work)
             /\ at' = [pc |-> "step", lane |-> lane]
             /\ UNCHANGED <<callerVars, requestVars, nextEpoch, failed, prevDecode, bug>>
    <2>1. plan \in Sources
      BY <1>2, <1>4 DEF AdmissionThrows
    <2>2. work \in Nat /\ OutTokens[r] \in Nat
      BY <1>2, <2>1, WorkBounds, ExecutorAssumption
    <2>3. at.class = "temporal" => protection # NoProtection
      BY <1>2, <2>1, ExecutorAssumption DEF CreditLost, Sources, NoRequest, Stale
    <2> HIDE DEF r, lane, plan, evicted, work
    <2>4. /\ pending' \in Seq(Requests) /\ InQueue' = InQueue \ {r}
          /\ (\A i, j \in DOMAIN pending : pending[i] = pending[j] => i = j)'
      BY <1>4, WithoutFacts
    <2>5. slots \in [Lanes -> Sources] /\ NoRequest \notin Requests
      BY ExecutorAssumption DEF IInv, WorkerTypes
    <2>6. slots' \in [Lanes -> Sources] /\ slots'[lane] = r
          /\ \A l \in Lanes \ {lane} : slots'[l] = slots[l]
      BY <1>2, <1>4, <2>5 DEF Sources
    <2>7. Active' = Active \cup {r}
      <3>1. r # NoRequest
        BY <1>2, <2>5
      <3>2. ASSUME NEW x \in Active' PROVE x \in Active \cup {r}
        BY <2>6 DEF Active
      <3>3. ASSUME NEW x \in Active \cup {r} PROVE x \in Active'
        <4>1. CASE x = r
          BY <1>2, <2>6, <3>1, <4>1 DEF Active
        <4>2. CASE x \in Active
          BY <1>2, <2>6, <4>2 DEF Active
        <4> QED BY <4>1, <4>2
      <3> QED BY <3>2, <3>3
    <2>8. (\A l, m \in Lanes : slots[l] = slots[m] /\ slots[l] # NoRequest => l = m)'
      <3>1. \A l \in Lanes : slots[l] # r
        BY <1>2, <2>5 DEF Active
      <3>2. \A l, m \in Lanes : slots[l] = slots[m] /\ slots[l] # NoRequest => l = m
        BY DEF IInv, Placement
      <3> QED BY <2>6, <3>1, <3>2
    <2>9. run' \in [Requests -> RunRecord] /\ ~run'[r].ready
          /\ \A q \in Requests \ {r} : run'[q] = run[q]
      BY <1>2, <1>4, <2>2 DEF IInv, WorkerTypes, RunRecord
    <2>10. ProtectionShape'
      <3>1. ProtectionShape
        BY DEF IInv, WorkerTypes
      <3>2. CASE protection.head = r
        BY <1>4, <3>2 DEF ProtectionShape
      <3>3. CASE protection.head # r /\ at.class # "temporal"
        <4>1. protection' = protection
          BY <1>4, <3>3 DEF CreditAfter
        <4> QED BY <3>1, <4>1 DEF ProtectionShape
      <3>4. CASE protection.head # r /\ at.class = "temporal"
        <4>1. protection' = [protection EXCEPT !.credit = @ - work]
          BY <1>4, <3>4 DEF CreditAfter
        <4>2. /\ protection.head \in Requests /\ protection.epoch \in Nat
              /\ protection.credit \in Int
              /\ protection = [epoch |-> protection.epoch, head |-> protection.head,
                         incumbents |-> protection.incumbents,
                         donors |-> protection.donors, credit |-> protection.credit,
                         drain |-> protection.drain]
          BY <2>3, <3>1, <3>4 DEF ProtectionShape
        <4> QED BY <2>2, <4>1, <4>2 DEF ProtectionShape
      <3> QED BY <3>2, <3>3, <3>4
    <2>11. WorkerTypes'
      <3>1. plans' \in [Requests -> [Lanes -> Sources \cup {Stale}]]
        BY <1>4, InvalidatedType DEF IInv, WorkerTypes
      <3>2. AtShape'
        BY <1>2, <1>4 DEF AtShape
      <3>3. prefillLane' \in Lanes \cup {NoLane}
        BY <1>2, <1>4 DEF IInv, WorkerTypes
      <3>4. \A l \in Lanes : cache'[l].source \in Sources
        BY <1>4 DEF Evicted, Vacant, Sources, IInv, WorkerTypes
      <3> QED BY <1>4, <2>4, <2>6, <2>9, <2>10, <3>1, <3>2, <3>3, <3>4 DEF IInv, WorkerTypes
    <2>12. WorkerPlace'
      <3>1. OwnerStaged'
        <4>1. CASE prefillLane' = lane
          BY <1>2, <2>5, <2>6, <2>9, <4>1 DEF OwnerStaged
        <4>2. CASE prefillLane' # lane
          <5>1. prefillLane' = prefillLane
            BY <1>4, <4>2
          <5>2. prefillLane # NoLane => /\ prefillLane \in Lanes \ {lane}
                                        /\ slots[prefillLane] # NoRequest
                                        /\ ~run[slots[prefillLane]].ready
            BY <1>2, <4>2, <5>1 DEF IInv, WorkerTypes, WorkerPlace, OwnerStaged
          <5>3. prefillLane # NoLane => slots[prefillLane] \in Requests \ {r}
            BY <1>2, <2>5, <5>2 DEF Active, Sources
          <5> QED BY <2>6, <2>9, <5>1, <5>2, <5>3 DEF OwnerStaged
        <4> QED BY <4>1, <4>2
      <3>2. at'.pc = "step" /\ at'.lane = lane /\ ~failed'
        BY <1>2, <1>4
      <3>3. slots'[at'.lane] # NoRequest
        BY <1>2, <2>5, <2>6, <3>2
      <3> QED BY <3>1, <3>2, <3>3 DEF WorkerPlace
    <2>13. /\ InQueue' \cap Active' = {}
           /\ InQueue' \cup Active' = InQueue \cup Active
      BY <1>2, <2>4, <2>7 DEF IInv, Placement
    <2> QED BY <1>4, <2>4, <2>8, <2>11, <2>12, <2>13, QuietStep
  <1> QED BY <1>3, <1>4, AdmitEffect
-----------------------------------------------------------------------------
(***************************************************************************)
(* The GPU units.                                                          *)
(***************************************************************************)

\* The work and the budget of a running request, n tokens or steps later.
LEMMA RunUpdate ==
    ASSUME NEW x \in RunRecord, NEW n \in Int
    PROVE  /\ [x EXCEPT !.work = @ - n] =
                [ready |-> x.ready, budget |-> x.budget, work |-> x.work - n,
                 class |-> x.class, epoch |-> x.epoch]
           /\ [x EXCEPT !.work = @ - n, !.budget = @ - n] =
                [ready |-> x.ready, budget |-> x.budget - n, work |-> x.work - n,
                 class |-> x.class, epoch |-> x.epoch]
           /\ [x EXCEPT !.work = @ - n, !.budget = @ - n, !.ready = TRUE] =
                [ready |-> TRUE, budget |-> x.budget - n, work |-> x.work - n,
                 class |-> x.class, epoch |-> x.epoch]
  <1>1. x = [ready |-> x.ready, budget |-> x.budget, work |-> x.work, class |-> x.class,
             epoch |-> x.epoch]
    BY DEF RunRecord
  <1> DEFINE y == [x EXCEPT !.work = @ - n]
             z == [y EXCEPT !.budget = x.budget - n]
             w == [z EXCEPT !.ready = TRUE]
  <1>2. y = [ready |-> x.ready, budget |-> x.budget, work |-> x.work - n,
                 class |-> x.class, epoch |-> x.epoch]
    BY <1>1
  <1>3. [x EXCEPT !.work = @ - n, !.budget = @ - n] = z
    OBVIOUS
  <1>4. [x EXCEPT !.work = @ - n, !.budget = @ - n, !.ready = TRUE] = w
    OBVIOUS
  <1> HIDE DEF y
  <1>5. z = [ready |-> x.ready, budget |-> x.budget - n, work |-> x.work - n,
                 class |-> x.class, epoch |-> x.epoch]
    BY <1>2
  <1> HIDE DEF z
  <1>6. w = [ready |-> TRUE, budget |-> x.budget - n, work |-> x.work - n,
                 class |-> x.class, epoch |-> x.epoch]
    <2>1. \A b : [z EXCEPT !.ready = b] =
             [ready |-> b, budget |-> x.budget - n, work |-> x.work - n,
              class |-> x.class, epoch |-> x.epoch]
      BY <1>5
    <2> QED BY <2>1, Zenon
  <1> HIDE DEF w
  <1> QED BY <1>2, <1>3, <1>4, <1>5, <1>6 DEF y

LEMMA RunUpdateFacts ==
    ASSUME NEW x \in RunRecord, NEW n \in Int
    PROVE  LET y == [x EXCEPT !.work = @ - n]
               z == [x EXCEPT !.work = @ - n, !.budget = @ - n]
               w == [x EXCEPT !.work = @ - n, !.budget = @ - n, !.ready = TRUE]
           IN  /\ y \in RunRecord /\ z \in RunRecord /\ w \in RunRecord
               /\ y.ready = x.ready /\ z.ready = x.ready /\ w.ready = TRUE
               /\ y.work = x.work - n /\ z.work = x.work - n /\ w.work = x.work - n
               /\ y.budget = x.budget /\ z.budget = x.budget - n /\ w.budget = x.budget - n
               /\ y.class = x.class /\ z.class = x.class /\ w.class = x.class
               /\ y.epoch = x.epoch /\ z.epoch = x.epoch /\ w.epoch = x.epoch
  <1>1. /\ x.ready \in BOOLEAN /\ x.budget \in Int /\ x.work \in Int /\ x.epoch \in Nat
        /\ x.class \in {"none", "persistent", "temporal"}
    BY DEF RunRecord
  <1>2. \A b \in BOOLEAN, i \in Int :
           LET y == [ready |-> b, budget |-> i, work |-> x.work - n,
                     class |-> x.class, epoch |-> x.epoch]
           IN  /\ y \in RunRecord /\ y.ready = b /\ y.work = x.work - n /\ y.budget = i
               /\ y.class = x.class /\ y.epoch = x.epoch
    BY <1>1 DEF RunRecord
  <1>3. x.budget - n \in Int
    BY <1>1
  <1> DEFINE y == [x EXCEPT !.work = @ - n]
             z == [x EXCEPT !.work = @ - n, !.budget = @ - n]
             w == [x EXCEPT !.work = @ - n, !.budget = @ - n, !.ready = TRUE]
  <1>4. /\ y \in RunRecord /\ y.ready = x.ready /\ y.work = x.work - n
        /\ y.budget = x.budget /\ y.class = x.class /\ y.epoch = x.epoch
    <2>1. y = [ready |-> x.ready, budget |-> x.budget, work |-> x.work - n,
               class |-> x.class, epoch |-> x.epoch]
      BY RunUpdate
    <2> HIDE DEF y
    <2> QED BY <1>1, <1>2, <2>1
  <1>5. /\ z \in RunRecord /\ z.ready = x.ready /\ z.work = x.work - n
        /\ z.budget = x.budget - n /\ z.class = x.class /\ z.epoch = x.epoch
    <2>1. z = [ready |-> x.ready, budget |-> x.budget - n, work |-> x.work - n,
               class |-> x.class, epoch |-> x.epoch]
      BY RunUpdate
    <2> HIDE DEF z
    <2> QED BY <1>1, <1>2, <1>3, <2>1
  <1>6. /\ w \in RunRecord /\ w.ready = TRUE /\ w.work = x.work - n
        /\ w.budget = x.budget - n /\ w.class = x.class /\ w.epoch = x.epoch
    <2>1. w = [ready |-> TRUE, budget |-> x.budget - n, work |-> x.work - n,
               class |-> x.class, epoch |-> x.epoch]
      BY RunUpdate
    <2> HIDE DEF w
    <2> QED BY <1>1, <1>2, <1>3, <2>1
  <1> QED BY <1>4, <1>5, <1>6

\* The invariant after a unit that ends the requests of S, which were in lanes.
LEMMA UnitStep ==
    ASSUME IInv, at.pc \in {"step", "decode"}, NEW S \in SUBSET Active, NEW v, DOMAIN v = S,
           \A r \in S : v[r] \in Outcomes,
           NEW published \in SUBSET Active, Decide(v, published),
           slots' = Vacated(S), prefillLane' = OwnerWithout(S),
           run' \in [Requests -> RunRecord],
           prefillLane' # NoLane => ~run'[slots[prefillLane']].ready,
           plans' \in [Requests -> [Lanes -> Sources \cup {Stale}]],
           \A l \in Lanes : cache'[l].source \in Sources,
           at' = [pc |-> "top"], prevDecode' \in BOOLEAN,
           UNCHANGED <<callerVars, protection, nextEpoch, pending, failed, bug>>
    PROVE  IInv'
  <1>1. S \in SUBSET Requests
    BY QueueType
  <1>2. /\ slots' \in [Lanes -> Sources]
        /\ Active' = Active \ S
        /\ (\A l, m \in Lanes : slots[l] = slots[m] /\ slots[l] # NoRequest => l = m)'
        /\ prefillLane' # NoLane => prefillLane' \in Lanes /\ slots'[prefillLane'] # NoRequest
        /\ prefillLane' \in Lanes \cup {NoLane}
        /\ \A l \in Lanes : slots[l] \notin S => slots'[l] = slots[l]
    BY <1>1, VacatedFacts
  <1>3. InQueue' = InQueue /\ pending' = pending
    BY DEF InQueue
  <1>4. WorkerTypes'
    <2>1. AtShape' /\ ProtectionShape'
      BY DEF AtShape, IInv, WorkerTypes, ProtectionShape
    <2> QED BY <1>2, <2>1 DEF IInv, WorkerTypes
  <1>5. OwnerStaged'
    <2>1. prefillLane' # NoLane => slots'[prefillLane'] = slots[prefillLane']
      BY <1>2 DEF Vacated
    <2> QED BY <1>2, <2>1 DEF OwnerStaged
  <1>6. WorkerPlace'
    <2>1. ~failed
      BY DEF IInv, WorkerPlace
    <2> QED BY <1>5, <2>1 DEF WorkerPlace
  <1>7. (\A i, j \in DOMAIN pending : pending[i] = pending[j] => i = j)'
    BY <1>3 DEF IInv, Placement
  <1>8. /\ InQueue' \cap Active' = {}
        /\ InQueue' \cup Active' = (InQueue \cup Active) \ DOMAIN v
    BY <1>2, <1>3 DEF IInv, Placement
  <1>9. DOMAIN v \subseteq InQueue \cup Active /\ published \subseteq InQueue \cup Active
    OBVIOUS
  <1> QED BY <1>2, <1>4, <1>6, <1>7, <1>8, <1>9, WorkerStep

\* The request of the step, and what is true of the owner of the staged prefill.
LEMMA AtStep ==
    ASSUME IInv, at.pc = "step"
    PROVE  /\ at.lane \in Lanes /\ slots[at.lane] \in Requests
           /\ slots[at.lane] \in Active
  <1>1. at.lane \in Lanes
    BY DEF IInv, WorkerTypes, AtShape
  <1>2. slots[at.lane] # NoRequest
    BY DEF IInv, WorkerPlace
  <1> QED BY <1>1, <1>2 DEF IInv, WorkerTypes, Sources, Active

LEMMA OwnerAfter ==
    ASSUME IInv, NEW S, OwnerWithout(S) # NoLane
    PROVE  LET o == OwnerWithout(S)
           IN  /\ o = prefillLane /\ o \in Lanes /\ slots[o] \in Requests \ S
               /\ ~run[slots[o]].ready
  <1>1. OwnerWithout(S) = prefillLane /\ prefillLane \notin LanesOf(S) /\ prefillLane # NoLane
    BY DEF OwnerWithout
  <1>2. prefillLane \in Lanes /\ slots[prefillLane] # NoRequest /\ ~run[slots[prefillLane]].ready
    BY <1>1 DEF IInv, WorkerTypes, WorkerPlace, OwnerStaged
  <1>3. slots[prefillLane] \in Requests \ S
    BY <1>1, <1>2 DEF LanesOf, IInv, WorkerTypes, Sources
  <1> QED BY <1>1, <1>2, <1>3

LEMMA StepCancelledStep ==
    ASSUME IInv, StepCancelled
    PROVE  IInv'
  <1> DEFINE r == slots[at.lane]
             v == Verdicts({r}, "cancelled")
  <1>1. at.pc = "step"
    BY DEF StepCancelled
  <1>2. r \in Requests /\ r \in Active
    BY <1>1, AtStep
  <1>3. CASE Throw
    BY <1>3, ThrowStep
  <1>4. CASE ~Throw
    <2>1. /\ slots' = Vacated({r}) /\ run' = Stopped({r}) /\ prefillLane' = OwnerWithout({r})
          /\ plans' = Invalidated(plans, {at.lane}, {r})
          /\ Decide(v, {r}) /\ at' = [pc |-> "top"] /\ prevDecode' = FALSE
          /\ UNCHANGED <<callerVars, cache, protection, nextEpoch, pending, failed, bug>>
      BY <1>4 DEF StepCancelled
    <2>2. DOMAIN v = {r} /\ \A q \in {r} : v[q] \in Outcomes
      BY DEF Verdicts, Outcomes
    <2> HIDE DEF r, v
    <2>3. run' \in [Requests -> RunRecord]
      BY <2>1, StoppedType
    <2>4. prefillLane' # NoLane => ~run'[slots[prefillLane']].ready
      <3> SUFFICES ASSUME OwnerWithout({r}) # NoLane
                   PROVE  ~run'[slots[OwnerWithout({r})]].ready
        BY <2>1
      <3>1. slots[OwnerWithout({r})] \in Requests \ {r} /\ ~run[slots[OwnerWithout({r})]].ready
        BY OwnerAfter
      <3> QED BY <2>1, <3>1 DEF Stopped
    <2>5. plans' \in [Requests -> [Lanes -> Sources \cup {Stale}]]
      BY <2>1, InvalidatedType DEF IInv, WorkerTypes
    <2>6. \A l \in Lanes : cache'[l].source \in Sources
      BY <2>1 DEF IInv, WorkerTypes
    <2>7. at.pc \in {"step", "decode"} /\ {r} \in SUBSET Active /\ prevDecode' \in BOOLEAN
      BY <1>1, <1>2, <2>1
    <2> QED BY <2>1, <2>2, <2>3, <2>4, <2>5, <2>6, <2>7, UnitStep
  <1> QED BY <1>3, <1>4

LEMMA StepPartialStep ==
    ASSUME IInv, StepPartial
    PROVE  IInv'
  <1> DEFINE r == slots[at.lane]
  <1>1. at.pc = "step"
    BY DEF StepPartial
  <1>2. r \in Requests /\ r \in Active
    BY <1>1, AtStep
  <1>3. /\ run' = [run EXCEPT ![r] = [run[r] EXCEPT !.work = @ - 1]]
        /\ at' = [pc |-> "top"] /\ prevDecode' = FALSE
        /\ slots' = slots /\ prefillLane' = prefillLane /\ cache' = cache /\ plans' = plans
        /\ protection' = protection /\ nextEpoch' = nextEpoch /\ pending' = pending
        /\ failed' = failed /\ bug' = bug /\ callerVars' = callerVars
        /\ requestVars' = requestVars
    BY DEF StepPartial, policyVars
  <1> HIDE DEF r
  <1>4. /\ run' \in [Requests -> RunRecord]
        /\ \A q \in Requests : run'[q].ready = run[q].ready
    <2>1. run \in [Requests -> RunRecord] /\ 1 \in Int
      BY DEF IInv, WorkerTypes
    <2> DEFINE y == [run[r] EXCEPT !.work = @ - 1]
    <2>2. y \in RunRecord /\ y.ready = run[r].ready
      BY <1>2, <2>1, RunUpdateFacts
    <2> HIDE DEF y
    <2>3. run' = [run EXCEPT ![r] = y]
      BY <1>3 DEF y
    <2> QED BY <1>2, <2>1, <2>2, <2>3
  <1>5. InQueue' = InQueue /\ Active' = Active
    BY <1>3 DEF InQueue, Active
  <1>6. WorkerTypes'
    BY <1>3, <1>4 DEF IInv, WorkerTypes, AtShape, ProtectionShape
  <1>7. WorkerPlace'
    <2>1. OwnerStaged'
      BY <1>3, <1>4 DEF IInv, WorkerPlace, OwnerStaged, WorkerTypes, Sources
    <2>2. ~failed
      BY <1>1 DEF IInv, WorkerPlace
    <2> QED BY <1>3, <2>1, <2>2 DEF WorkerPlace
  <1>8. (\A i, j \in DOMAIN pending : pending[i] = pending[j] => i = j)'
    BY <1>3 DEF IInv, Placement
  <1>9. (\A l, m \in Lanes : slots[l] = slots[m] /\ slots[l] # NoRequest => l = m)'
    BY <1>3 DEF IInv, Placement
  <1>10. InQueue' \cap Active' = {} /\ InQueue' \cup Active' = InQueue \cup Active
    BY <1>5 DEF IInv, Placement
  <1> QED BY <1>3, <1>6, <1>7, <1>8, <1>9, <1>10, QuietStep

\* A lane that retains keeps the sequence of the request that was in it.
LEMMA RetainingSources ==
    ASSUME IInv, NEW keep, cache' = Retaining(keep)
    PROVE  \A l \in Lanes : cache'[l].source \in Sources
  BY DEF Retaining, IInv, WorkerTypes

LEMMA StepCompleteStep ==
    ASSUME IInv, NEW stop \in BOOLEAN, StepComplete(stop)
    PROVE  IInv'
  <1> DEFINE r == slots[at.lane]
             finished == stop \/ run[r].budget = 1
  <1>1. at.pc = "step"
    BY DEF StepComplete
  <1>2. r \in Requests /\ r \in Active
    BY <1>1, AtStep
  <1>3. CASE Throw
    BY <1>3, ThrowStep
  <1>4. CASE ~Throw /\ finished
    <2> DEFINE v == Verdicts({r}, "finished")
    <2>1. /\ slots' = Vacated({r}) /\ run' = Stopped({r}) /\ prefillLane' = OwnerWithout({r})
          /\ \E pages \in Keepable(r) : cache' = Retaining([q \in {r} |-> pages])
          /\ plans' = Invalidated(plans, {at.lane}, {r})
          /\ Decide(v, {r}) /\ at' = [pc |-> "top"] /\ prevDecode' = FALSE
          /\ UNCHANGED <<callerVars, protection, nextEpoch, pending, failed, bug>>
      BY <1>4 DEF StepComplete
    <2>2. DOMAIN v = {r} /\ \A q \in {r} : v[q] \in Outcomes
      BY DEF Verdicts, Outcomes
    <2> HIDE DEF r, v
    <2>3. run' \in [Requests -> RunRecord]
      BY <2>1, StoppedType
    <2>4. prefillLane' # NoLane => ~run'[slots[prefillLane']].ready
      <3> SUFFICES ASSUME OwnerWithout({r}) # NoLane
                   PROVE  ~run'[slots[OwnerWithout({r})]].ready
        BY <2>1
      <3>1. slots[OwnerWithout({r})] \in Requests \ {r} /\ ~run[slots[OwnerWithout({r})]].ready
        BY OwnerAfter
      <3> QED BY <2>1, <3>1 DEF Stopped
    <2>5. plans' \in [Requests -> [Lanes -> Sources \cup {Stale}]]
      BY <2>1, InvalidatedType DEF IInv, WorkerTypes
    <2>6. \A l \in Lanes : cache'[l].source \in Sources
      BY <2>1, RetainingSources
    <2>7. at.pc \in {"step", "decode"} /\ {r} \in SUBSET Active /\ prevDecode' \in BOOLEAN
      BY <1>1, <1>2, <2>1
    <2> QED BY <2>1, <2>2, <2>3, <2>4, <2>5, <2>6, <2>7, UnitStep
  <1>5. CASE ~Throw /\ ~finished
    <2>1. /\ prefillLane' = OwnerWithout({r})
          /\ run' = [run EXCEPT ![r] = [run[r] EXCEPT !.work = @ - 1, !.budget = @ - 1,
                                                      !.ready = TRUE]]
          /\ Decide(<<>>, {r})
          /\ slots' = slots /\ cache' = cache /\ plans' = plans
          /\ at' = [pc |-> "top"] /\ prevDecode' = FALSE
          /\ callerVars' = callerVars /\ protection' = protection /\ nextEpoch' = nextEpoch
          /\ pending' = pending /\ failed' = failed /\ bug' = bug
      BY <1>5 DEF StepComplete
    <2> HIDE DEF r
    <2>2. /\ run' \in [Requests -> RunRecord]
          /\ \A q \in Requests \ {r} : run'[q] = run[q]
      <3>1. run \in [Requests -> RunRecord] /\ 1 \in Int
        BY DEF IInv, WorkerTypes
      <3> DEFINE y == [run[r] EXCEPT !.work = @ - 1, !.budget = @ - 1, !.ready = TRUE]
      <3>2. y \in RunRecord
        BY <1>2, <3>1, RunUpdateFacts
      <3> HIDE DEF y
      <3>3. run' = [run EXCEPT ![r] = y]
        BY <2>1 DEF y
      <3> QED BY <1>2, <3>1, <3>2, <3>3
    <2>3. InQueue' = InQueue /\ Active' = Active
      BY <2>1 DEF InQueue, Active
    <2>4. prefillLane' \in Lanes \cup {NoLane}
      BY <2>1 DEF OwnerWithout, IInv, WorkerTypes
    <2>5. WorkerTypes'
      BY <2>1, <2>2, <2>4 DEF IInv, WorkerTypes, AtShape, ProtectionShape
    <2>6. OwnerStaged'
      <3> SUFFICES ASSUME OwnerWithout({r}) # NoLane
                   PROVE  /\ slots'[OwnerWithout({r})] # NoRequest
                          /\ ~run'[slots'[OwnerWithout({r})]].ready
        BY <2>1 DEF OwnerStaged
      <3>1. slots[OwnerWithout({r})] \in Requests \ {r} /\ ~run[slots[OwnerWithout({r})]].ready
        BY OwnerAfter
      <3> QED BY <2>1, <2>2, <3>1, ExecutorAssumption
    <2>7. WorkerPlace'
      <3>1. ~failed
        BY <1>1 DEF IInv, WorkerPlace
      <3> QED BY <2>1, <2>6, <3>1 DEF WorkerPlace
    <2>8. /\ DOMAIN <<>> = {} /\ {r} \subseteq InQueue \cup Active
      BY <1>2
    <2>9. (\A i, j \in DOMAIN pending : pending[i] = pending[j] => i = j)'
      BY <2>1 DEF IInv, Placement
    <2>10. (\A l, m \in Lanes : slots[l] = slots[m] /\ slots[l] # NoRequest => l = m)'
      BY <2>1 DEF IInv, Placement
    <2>11. /\ InQueue' \cap Active' = {}
           /\ InQueue' \cup Active' = (InQueue \cup Active) \ DOMAIN <<>>
      BY <2>3, <2>8 DEF IInv, Placement
    <2>12. /\ DOMAIN <<>> \subseteq InQueue \cup Active
           /\ \A q \in DOMAIN <<>> : <<>>[q] \in Outcomes
      BY <2>8
    <2> QED BY <2>1, <2>5, <2>7, <2>8, <2>9, <2>10, <2>11, <2>12, WorkerStep
  <1> QED BY <1>3, <1>4, <1>5

LEMMA DecodeRoundStep ==
    ASSUME IInv, NEW accepted \in [Members -> 1 .. MaxAccept], NEW stops \in SUBSET Members,
           DecodeRound(accepted, stops)
    PROVE  IInv'
  <1> DEFINE rows == {r \in Members : ~cancelled[r]}
             aborted == Members \ rows
             finished == {r \in rows : r \in stops \/ accepted[r] = run[r].budget}
             ended == aborted \cup finished
             v == [r \in ended |-> IF r \in aborted THEN "cancelled" ELSE "finished"]
  <1>1. at.pc = "decode"
    BY DEF DecodeRound
  <1>2. CASE Throw
    BY <1>2, ThrowStep
  <1>3. CASE ~Throw
    <2>1. /\ slots' = Vacated(ended)
          /\ run' = [r \in Requests |->
                       IF r \in ended THEN NotRunning
                       ELSE IF r \in rows THEN [run[r] EXCEPT !.work = @ - accepted[r],
                                                              !.budget = @ - accepted[r]]
                       ELSE run[r]]
          /\ \E keep : cache' = Retaining(keep)
          /\ plans' = Invalidated(plans, LanesOf(ended), ended)
          /\ Decide(v, Members)
          /\ at' = [pc |-> "top"] /\ prevDecode' = TRUE
          /\ prefillLane' = prefillLane
          /\ UNCHANGED <<callerVars, protection, nextEpoch, pending, failed, bug>>
      BY <1>3 DEF DecodeRound
    <2>2. /\ Members \in SUBSET Active /\ ended \in SUBSET Members /\ rows \subseteq Members
          /\ DOMAIN v = ended /\ \A r \in ended : v[r] \in Outcomes
      BY DEF Members, Outcomes
    <2>3. \A r \in Members : run[r].ready /\ accepted[r] \in Int
      BY ExecutorAssumption DEF Members
    <2> HIDE DEF ended, rows, v
    <2>4. /\ run' \in [Requests -> RunRecord]
          /\ \A r \in Requests \ Members : run'[r] = run[r]
      <3>1. run \in [Requests -> RunRecord]
        BY DEF IInv, WorkerTypes
      <3>2. \A r \in Requests : run'[r] \in RunRecord
        <4>1. ASSUME NEW r \in Requests PROVE run'[r] \in RunRecord
          <5>1. run[r] \in RunRecord /\ NotRunning \in RunRecord
            BY <3>1 DEF NotRunning, RunRecord
          <5>2. r \in rows => accepted[r] \in Int
            BY <2>2, <2>3
          <5>3. r \in rows => [run[r] EXCEPT !.work = @ - accepted[r],
                                             !.budget = @ - accepted[r]] \in RunRecord
            BY <5>1, <5>2, RunUpdateFacts
          <5> QED BY <2>1, <5>1, <5>3
        <4> QED BY <4>1
      <3>3. run' \in [Requests -> RunRecord]
        BY <2>1, <3>2
      <3>4. \A r \in Requests \ Members : run'[r] = run[r]
        BY <2>1, <2>2
      <3> QED BY <3>3, <3>4
    <2>5. /\ prefillLane # NoLane => slots[prefillLane] \in Requests \ Members
          /\ prefillLane # NoLane => ~run[slots[prefillLane]].ready
      BY <2>3 DEF IInv, WorkerPlace, OwnerStaged, WorkerTypes, Sources
    <2>6. prefillLane' = OwnerWithout(ended)
      BY <2>1, <2>2, <2>5, LaneNumbers DEF OwnerWithout, LanesOf
    <2>7. prefillLane' # NoLane => ~run'[slots[prefillLane']].ready
      BY <2>1, <2>4, <2>5
    <2>8. plans' \in [Requests -> [Lanes -> Sources \cup {Stale}]]
      BY <2>1, InvalidatedType DEF IInv, WorkerTypes
    <2>9. \A l \in Lanes : cache'[l].source \in Sources
      BY <2>1, RetainingSources
    <2>10. at.pc \in {"step", "decode"} /\ ended \in SUBSET Active /\ prevDecode' \in BOOLEAN
      BY <1>1, <2>1, <2>2
    <2> QED BY <2>1, <2>2, <2>4, <2>6, <2>7, <2>8, <2>9, <2>10, UnitStep
  <1> QED BY <1>2, <1>3
-----------------------------------------------------------------------------
(***************************************************************************)
(* The invariant, and the properties it implies.                           *)
(***************************************************************************)
LEMMA InitIInv ==
    ASSUME Init
    PROVE  IInv
  <1> USE DEF Init
  <1>1. CallerTypes /\ RequestTypes
    <2>1. id \in [Requests -> 0 .. nextId - 1] /\ IdsDistinct
      BY DEF IdsDistinct
    <2>2. CallerTypes
      BY <2>1 DEF CallerTypes
    <2>3. RequestTypes
      BY ExecutorAssumption DEF RequestTypes, MaxOutstanding
    <2> QED BY <2>2, <2>3
  <1>2. InQueue = {} /\ Active = {}
    <2>1. DOMAIN pending = {} /\ \A l \in Lanes : slots[l] = NoRequest
      OBVIOUS
    <2> QED BY <2>1 DEF InQueue, Active
  <1>3. WorkerTypes
    <2>1. pending \in Seq(Requests)
      OBVIOUS
    <2>2. run \in [Requests -> RunRecord]
      BY DEF RunRecord, NotRunning
    <2>3. \A l \in Lanes : cache[l].source \in Sources
      BY DEF Vacant, Sources
    <2>4. plans \in [Requests -> [Lanes -> Sources \cup {Stale}]]
      BY DEF NoPlans
    <2>5. slots \in [Lanes -> Sources]
      BY DEF Sources
    <2> QED BY <2>1, <2>2, <2>3, <2>4, <2>5 DEF WorkerTypes, AtShape, ProtectionShape
  <1>4. \A r \in Requests : LifeOf(r)
    BY DEF LifeOf, Submitted, Done, ConsumerReleased
  <1>5. Placement
    <2>1. DOMAIN pending = {}
      OBVIOUS
    <2> QED BY <1>2, <2>1 DEF Placement, Submitted
  <1>6. WorkerPlace
    BY DEF WorkerPlace, OwnerStaged
  <1>7. CapacityExact
    <2>1. Building = {} /\ Charged = {} /\ CallerReturning = {} /\ WorkerReturning = {}
      BY DEF Building, Charged, CallerReturning, WorkerReturning, Submitted
    <2>2. Cardinality({}) = 0
      BY FS_EmptySet
    <2> QED BY <2>1, <2>2, CapacitySets DEF CapacityCount
  <1> QED BY <1>1, <1>3, <1>4, <1>5, <1>6, <1>7 DEF IInv

LEMMA StutterIInv ==
    ASSUME IInv, UNCHANGED vars
    PROVE  IInv'
  <1>1. callerVars' = callerVars /\ requestVars' = requestVars
    BY DEF vars
  <1>2. UNCHANGED <<workerVars, pending>>
    BY DEF vars, workerVars
  <1>3. WorkerTypes' /\ WorkerPlace'
    BY <1>2, WorkerFrame DEF IInv
  <1>4. pending' = pending /\ slots' = slots
    BY <1>2 DEF workerVars, laneVars
  <1>5. InQueue' = InQueue /\ Active' = Active
    BY <1>4 DEF InQueue, Active
  <1>6. (\A i, j \in DOMAIN pending : pending[i] = pending[j] => i = j)'
    BY <1>4 DEF IInv, Placement
  <1>7. (\A l, m \in Lanes : slots[l] = slots[m] /\ slots[l] # NoRequest => l = m)'
    BY <1>4 DEF IInv, Placement
  <1>8. InQueue' \cap Active' = {} /\ InQueue' \cup Active' = InQueue \cup Active
    BY <1>5 DEF IInv, Placement
  <1> QED BY <1>1, <1>3, <1>6, <1>7, <1>8, QuietStep

LEMMA NextIInv ==
    ASSUME IInv, [Next]_vars
    PROVE  IInv'
  <1>1. CASE UNCHANGED vars
    BY <1>1, StutterIInv
  <1>2. CASE CallerStep
    <2>1. CASE Stop
      BY <2>1, StopStep
    <2>2. ASSUME NEW r \in Requests,
                 \/ Reserve(r) \/ Refuse(r) \/ BuildFails(r) \/ Push(r)
                 \/ Wait(r) \/ Abandon(r) \/ Poll(r) \/ Cancel(r)
                 \/ ReleaseConsumer(r) \/ CallerFrees(r) \/ Expire(r)
          PROVE  IInv'
      BY <2>2, ReserveStep, RefuseStep, BuildFailsStep, PushStep, WaitStep, AbandonStep,
         PollStep, CancelStep, ReleaseConsumerStep, CallerFreesStep, ExpireStep
    <2> QED BY <1>2, <2>1, <2>2 DEF CallerStep
  <1>3. CASE Worker
    <2>1. CASE Complete
      BY <2>1, SetDoneStep, MarkCompletedStep, WorkerFreesStep DEF Complete
    <2>2. CASE \/ StopWorker \/ Boundary \/ SelectNothing \/ SelectDropsHead \/ SelectHead
               \/ SelectBehindHead \/ AdmitWithdrawn \/ Admit \/ StepCancelled \/ StepPartial
      BY <2>2, StopWorkerStep, BoundaryStep, SelectNothingStep, SelectDropsHeadStep,
         SelectHeadStep, SelectBehindHeadStep, AdmitWithdrawnStep, AdmitStep,
         StepCancelledStep, StepPartialStep
    <2>3. CASE \E stop \in BOOLEAN : StepComplete(stop)
      BY <2>3, StepCompleteStep
    <2>4. CASE \E accepted \in [Members -> 1 .. MaxAccept], stops \in SUBSET Members :
                  DecodeRound(accepted, stops)
      BY <2>4, DecodeRoundStep
    <2> QED BY <1>3, <2>1, <2>2, <2>3, <2>4 DEF Worker
  <1>4. CASE Fault
    BY <1>4, FaultStep
  <1> QED BY <1>1, <1>2, <1>3, <1>4 DEF Next

\* Everything the invariant says holds in every reachable state.
THEOREM Invariance == Spec => []IInv
  <1>1. Init => IInv
    BY InitIInv
  <1>2. IInv /\ [Next]_vars => IInv'
    BY NextIInv
  <1> QED BY <1>1, <1>2, PTL DEF Spec

\* The variables of the executor keep their shape.
THEOREM ExecutorTypes == Spec => []TypeOK
  <1>1. IInv => TypeOK
    <2> SUFFICES ASSUME IInv PROVE TypeOK
      OBVIOUS
    <2>1. at.pc \in {"top", "select", "admit", "step", "decode", "stopped"}
      BY DEF IInv, WorkerTypes, AtShape
    <2>2. plans \in [Requests -> [Lanes -> Requests \cup {NoRequest, Stale}]]
      <3>1. Sources \cup {Stale} = Requests \cup {NoRequest, Stale}
        BY DEF Sources
      <3> QED BY <3>1 DEF IInv, WorkerTypes
    <2>3. slots \in [Lanes -> Requests \cup {NoRequest}]
      BY DEF IInv, WorkerTypes, Sources
    <2>4. {cancelled, expired, unread, capacityReleased} \subseteq [Requests -> BOOLEAN]
      BY DEF IInv, CallerTypes, RequestTypes
    <2>5. {stopping, failed, prevDecode, bug} \subseteq BOOLEAN
      BY DEF IInv, CallerTypes, WorkerTypes
    <2> QED BY <2>1, <2>2, <2>3, <2>4, <2>5
            DEF TypeOK, IInv, CallerTypes, RequestTypes, WorkerTypes
  <1> QED BY <1>1, Invariance, PTL

\* outstanding_ is exact at every moment, however submit, wait, reset, release_consumer
\* and mark_completed interleave with the worker: the reservations counted are those
\* of the requests being built, of those nobody has released, and of the threads
\* between their decision to return a unit and the decrement.
THEOREM CapacityIsExact == Spec => []CapacityExact
  <1>1. IInv => CapacityExact
    BY DEF IInv
  <1> QED BY <1>1, Invariance, PTL

\* No request is lost, run twice or completed twice: until the worker completes it, a
\* request that was queued is in the queue or in one lane, once, and in neither
\* afterwards; a worker that has ended leaves nobody behind.
THEOREM RequestsArePlaced == Spec => []RequestPlaced
  <1>1. IInv => RequestPlaced
    <2> SUFFICES ASSUME IInv PROVE RequestPlaced
      OBVIOUS
    <2>1. ASSUME NEW r \in Requests
          PROVE  Cardinality({i \in DOMAIN pending : pending[i] = r})
                 + Cardinality({l \in Lanes : slots[l] = r})
                 = IF Submitted(r) /\ stage[r] = "open" THEN 1 ELSE 0
      <3> DEFINE P == {i \in DOMAIN pending : pending[i] = r}
                 L == {l \in Lanes : slots[l] = r}
      <3>1. r # NoRequest
        BY ExecutorAssumption
      <3>2. P = {} <=> r \notin InQueue
        BY DEF InQueue
      <3>3. L = {} <=> r \notin Active
        BY <3>1 DEF Active
      <3>4. P # {} => Cardinality(P) = 1
        <4>1. \A i, j \in P : i = j
          BY DEF IInv, Placement
        <4>2. P # {} => \E i : P = {i}
          BY <4>1
        <4> QED BY <4>2, FS_Singleton
      <3>5. L # {} => Cardinality(L) = 1
        <4>1. \A i, j \in L : i = j
          BY <3>1 DEF IInv, Placement
        <4>2. L # {} => \E i : L = {i}
          BY <4>1
        <4> QED BY <4>2, FS_Singleton
      <3>6. Cardinality({}) = 0
        BY FS_EmptySet
      <3>7. /\ ~(r \in InQueue /\ r \in Active)
            /\ r \in InQueue \cup Active <=> Submitted(r) /\ stage[r] = "open"
        BY DEF IInv, Placement
      <3> HIDE DEF P, L
      <3>8. Cardinality(P) + Cardinality(L)
              = IF Submitted(r) /\ stage[r] = "open" THEN 1 ELSE 0
        BY <3>2, <3>3, <3>4, <3>5, <3>6, <3>7
      <3> QED BY <3>8 DEF P, L
    <2>2. at.pc = "stopped" => InQueue = {} /\ Active = {}
      BY DEF IInv, WorkerPlace
    <2> QED BY <2>1, <2>2 DEF RequestPlaced
  <1> QED BY <1>1, Invariance, PTL

\* wait_for_request returns only with the whole result: the request is done and no
\* output of it is left unread.
THEOREM CallersReturnComplete == Spec => []ReturnComplete
  <1>1. IInv => ReturnComplete
    BY DEF IInv, LifeOf, ReturnComplete
  <1> QED BY <1>1, Invariance, PTL

-----------------------------------------------------------------------------
(***************************************************************************)
(* The abstract state, read off the placement of the requests.             *)
(***************************************************************************)

\* A caller that dropped its request has asked for its cancellation.
Dropping == \A r \in Requests : caller[r] = "dropping" => cancelled[r]

LInv == IInv /\ Dropping

\* What the phase of a request is, as the invariant lets it be read.
PhaseIs(r) ==
    IF stage[r] # "open" THEN "answered"
    ELSE IF r \in Active THEN "running"
    ELSE IF r \in InQueue THEN "queued"
    ELSE IF caller[r] = "building" THEN "reserved"
    ELSE IF caller[r] = "idle" THEN "absent" ELSE "refused"

Phases == [r \in Requests |-> PhaseOf(r)]
Asked == {r \in Requests : cancelled[r]}
Left == {r \in Requests : ConsumerReleased(r)}
Places == {r \in Requests : HoldsPlace(r)}

LEMMA PhaseRead ==
    ASSUME IInv, NEW r \in Requests
    PROVE  PhaseOf(r) = PhaseIs(r)
  <1>1. /\ r \in InQueue \cup Active <=> Submitted(r) /\ stage[r] = "open"
        /\ InQueue \cap Active = {}
        /\ stage[r] # "open" => Submitted(r)
    BY DEF IInv, Placement, LifeOf
  <1>2. caller[r] \in {"idle", "building", "holding", "waiting", "returning",
                       "dropping", "freeing", "gone", "refused"}
    BY DEF IInv, CallerTypes
  <1> QED BY <1>1, <1>2 DEF PhaseOf, PhaseIs, Submitted

LEMMA PhaseReadNext ==
    ASSUME IInv', NEW r \in Requests
    PROVE  PhaseOf(r)' = PhaseIs(r)'
  <1>1. /\ (r \in InQueue \cup Active <=> Submitted(r) /\ stage[r] = "open")'
        /\ InQueue' \cap Active' = {}
        /\ stage'[r] # "open" => Submitted(r)'
    BY DEF IInv, Placement, LifeOf
  <1>2. caller'[r] \in {"idle", "building", "holding", "waiting", "returning",
                       "dropping", "freeing", "gone", "refused"}
    BY DEF IInv, CallerTypes
  <1> QED BY <1>1, <1>2 DEF PhaseOf, PhaseIs, Submitted

\* The sizes that Lifecycle speaks of are those of this module.
LEMMA SameSize ==
    ASSUME NEW S
    PROVE  Life!Cardinality(S) = Cardinality(S)
  BY DEF Life!Cardinality, Cardinality

\* What the invariant says of one request, whoever moves it.
LEMMA Standing ==
    ASSUME IInv, NEW r \in Requests
    PROVE  /\ r \in InQueue \cup Active <=> Submitted(r) /\ stage[r] = "open"
           /\ InQueue \cap Active = {}
           /\ stage[r] # "open" => Submitted(r)
           /\ capacityReleased[r] => Done(r) /\ ConsumerReleased(r)
           /\ caller[r] = "freeing" => capacityReleased[r] /\ stage[r] # "freeing"
           /\ stage[r] = "freeing" => capacityReleased[r]
           /\ caller[r] = "returning" => Done(r)
           /\ caller \in [Requests -> {"idle", "building", "holding", "waiting", "returning",
                                       "dropping", "freeing", "gone", "refused"}]
           /\ stage \in [Requests -> {"open", "decided", "done", "freeing", "settled"}]
           /\ cancelled \in [Requests -> BOOLEAN]
           /\ capacityReleased \in [Requests -> BOOLEAN]
  BY DEF IInv, Placement, LifeOf, CallerTypes, RequestTypes

\* A step that moves no request, and of which no caller can tell anything.
LEMMA Unseen ==
    ASSUME IInv, IInv', verdict' = verdict, cancelled' = cancelled, failed' = failed,
           \A r \in Requests : /\ PhaseIs(r)' = PhaseIs(r)
                               /\ ConsumerReleased(r)' <=> ConsumerReleased(r)
                               /\ HoldsPlace(r)' <=> HoldsPlace(r)
    PROVE  UNCHANGED Life!vars
  <1>1. \A r \in Requests : PhaseOf(r)' = PhaseOf(r)
    BY PhaseRead, PhaseReadNext
  <1>2. /\ Phases' = Phases /\ Asked' = Asked /\ Left' = Left /\ Places' = Places
    BY <1>1 DEF Phases, Asked, Left, Places
  <1> QED BY <1>2 DEF Life!vars, Phases, Asked, Left, Places

-----------------------------------------------------------------------------
(***************************************************************************)
(* The callers.                                                            *)
(***************************************************************************)

\* Nobody holds a place that outstanding_ does not count.
LEMMA PlacesCounted ==
    ASSUME IInv
    PROVE  Cardinality(Places) <= outstanding /\ Cardinality(Places) \in Nat
  <1>1. /\ Building \in SUBSET Requests /\ Cardinality(Building) \in Nat
        /\ Charged \in SUBSET Requests /\ Cardinality(Charged) \in Nat
        /\ CallerReturning \in SUBSET Requests /\ Cardinality(CallerReturning) \in Nat
        /\ WorkerReturning \in SUBSET Requests /\ Cardinality(WorkerReturning) \in Nat
    BY CapacitySizes
  <1>2. outstanding = Cardinality(Building) + Cardinality(Charged)
                      + Cardinality(CallerReturning) + Cardinality(WorkerReturning)
    BY CapacitySets DEF IInv, CapacityCount
  <1>3. ASSUME NEW S \in SUBSET Requests, NEW T \in SUBSET Requests
        PROVE  /\ Cardinality(S \cup T) \in Nat
               /\ Cardinality(S \cup T) <= Cardinality(S) + Cardinality(T)
    <2>1. IsFiniteSet(S) /\ IsFiniteSet(T) /\ IsFiniteSet(S \cap T) /\ IsFiniteSet(S \cup T)
      BY PolicyAssumption, FS_Subset
    <2>2. Cardinality(S \cup T) = Cardinality(S) + Cardinality(T) - Cardinality(S \cap T)
      BY <2>1, FS_Union
    <2>3. /\ Cardinality(S) \in Nat /\ Cardinality(T) \in Nat
          /\ Cardinality(S \cap T) \in Nat /\ Cardinality(S \cup T) \in Nat
      BY <2>1, FS_CardinalityType
    <2> QED BY <2>2, <2>3
  <1>4. \A S, T \in SUBSET Requests :
           /\ Cardinality(S \cup T) \in Nat
           /\ Cardinality(S \cup T) <= Cardinality(S) + Cardinality(T)
    BY <1>3
  <1>5. Places = (Building \cup Charged) \cup (CallerReturning \cup WorkerReturning)
    BY DEF Places, HoldsPlace, Building, Charged, CallerReturning, WorkerReturning
  <1>6. /\ Cardinality(Building \cup Charged) \in Nat
        /\ Cardinality(Building \cup Charged) <= Cardinality(Building) + Cardinality(Charged)
    BY <1>1, <1>4
  <1>7. /\ Cardinality(CallerReturning \cup WorkerReturning) \in Nat
        /\ Cardinality(CallerReturning \cup WorkerReturning)
             <= Cardinality(CallerReturning) + Cardinality(WorkerReturning)
    BY <1>1, <1>4
  <1>8. /\ Building \cup Charged \in SUBSET Requests
        /\ CallerReturning \cup WorkerReturning \in SUBSET Requests
    BY <1>1
  <1>9. /\ Cardinality(Places) \in Nat
        /\ Cardinality(Places) <= Cardinality(Building \cup Charged)
                                  + Cardinality(CallerReturning \cup WorkerReturning)
    BY <1>4, <1>5, <1>8
  <1> QED BY <1>1, <1>2, <1>6, <1>7, <1>9

LEMMA ReserveAccepts ==
    ASSUME IInv, IInv', NEW r \in Requests, Reserve(r)
    PROVE  Life!Accept(r)
  <1>1. /\ caller[r] = "idle" /\ ~failed /\ outstanding < MaxOutstanding
        /\ caller' = [caller EXCEPT ![r] = "building"]
        /\ stage' = stage /\ verdict' = verdict /\ capacityReleased' = capacityReleased
        /\ cancelled' = cancelled /\ failed' = failed /\ pending' = pending /\ slots' = slots
    BY DEF Reserve, HasRoom, workerVars, laneVars
  <1>2. InQueue' = InQueue /\ Active' = Active
    BY <1>1 DEF InQueue, Active
  <1>3. /\ r \in InQueue \cup Active <=> Submitted(r) /\ stage[r] = "open"
        /\ stage[r] # "open" => Submitted(r)
        /\ capacityReleased[r] => ConsumerReleased(r)
        /\ stage[r] = "freeing" => capacityReleased[r]
        /\ DOMAIN caller = Requests
    BY Standing
  <1>4. \A q \in Requests : PhaseOf(q) = PhaseIs(q) /\ PhaseOf(q)' = PhaseIs(q)'
    BY PhaseRead, PhaseReadNext
  <1>5. Phases[r] = "absent" /\ Phases' = [Phases EXCEPT ![r] = "reserved"]
    <2>1. Phases[r] = "absent"
      BY <1>1, <1>3, <1>4 DEF Phases, PhaseIs, Submitted
    <2>2. \A q \in Requests : PhaseIs(q)' = IF q = r THEN "reserved" ELSE PhaseIs(q)
      BY <1>1, <1>2, <1>3 DEF PhaseIs, Submitted
    <2> QED BY <1>4, <2>1, <2>2 DEF Phases
  <1>6. Places' = Places \cup {r} /\ Asked' = Asked /\ Left' = Left
    BY <1>1, <1>3 DEF Places, HoldsPlace, Asked, Left, ConsumerReleased, Submitted
  <1>7. Cardinality(Places) < MaxOutstanding
    <2>1. MaxOutstanding \in Int /\ outstanding \in Int
      BY ExecutorAssumption DEF MaxOutstanding, IInv, RequestTypes
    <2> QED BY <1>1, <2>1, PlacesCounted
  <1> QED BY <1>1, <1>5, <1>6, <1>7, SameSize DEF Life!Accept, Phases, Asked, Left, Places

\* submit gives up before or after it reserved a place.
LEMMA RefusalRefuses ==
    ASSUME IInv, IInv', NEW r \in Requests, caller[r] \in {"idle", "building"},
           caller' = [caller EXCEPT ![r] = "refused"],
           UNCHANGED <<stage, verdict, capacityReleased, cancelled, failed, pending, slots>>
    PROVE  Life!Refuse(r)
  <1>1. InQueue' = InQueue /\ Active' = Active
    BY DEF InQueue, Active
  <1>2. /\ r \in InQueue \cup Active <=> Submitted(r) /\ stage[r] = "open"
        /\ stage[r] # "open" => Submitted(r)
        /\ stage[r] = "freeing" => capacityReleased[r]
        /\ DOMAIN caller = Requests
    BY Standing
  <1>3. \A q \in Requests : PhaseOf(q) = PhaseIs(q) /\ PhaseOf(q)' = PhaseIs(q)'
    BY PhaseRead, PhaseReadNext
  <1>4. Phases[r] \in {"absent", "reserved"}
    BY <1>2, <1>3 DEF Phases, PhaseIs, Submitted
  <1>5. \A q \in Requests : PhaseIs(q)' = IF q = r THEN "refused" ELSE PhaseIs(q)
    BY <1>1, <1>2 DEF PhaseIs, Submitted
  <1>6. Phases' = [Phases EXCEPT ![r] = "refused"]
    BY <1>3, <1>5 DEF Phases
  <1>7. Places' = Places \ {r} /\ Asked' = Asked /\ Left' = Left
    BY <1>2 DEF Places, HoldsPlace, Asked, Left, ConsumerReleased, Submitted
  <1> QED BY <1>4, <1>6, <1>7 DEF Life!Refuse, Phases, Asked, Left, Places

LEMMA PushEnqueues ==
    ASSUME IInv, IInv', NEW r \in Requests, Push(r)
    PROVE  Life!Enqueue(r) \/ Life!Refuse(r)
  <1>1. /\ caller[r] = "building"
        /\ UNCHANGED <<stage, verdict, capacityReleased, cancelled, failed, slots>>
    BY DEF Push, workerVars, laneVars
  <1>2. CASE MustWithdraw
    <2>1. caller' = [caller EXCEPT ![r] = "refused"] /\ pending' = pending
      BY <1>2 DEF Push
    <2> QED BY <1>1, <2>1, RefusalRefuses
  <1>3. CASE ~MustWithdraw
    <2>1. /\ caller' = [caller EXCEPT ![r] = "holding"] /\ pending' = Append(pending, r)
          /\ ~failed
      BY <1>3 DEF Push, MustWithdraw
    <2>2. /\ r \in InQueue \cup Active <=> Submitted(r) /\ stage[r] = "open"
          /\ stage[r] # "open" => Submitted(r)
          /\ capacityReleased[r] => ConsumerReleased(r)
          /\ stage[r] = "freeing" => capacityReleased[r]
          /\ DOMAIN caller = Requests
      BY Standing
    <2>3. Active' = Active
      BY <1>1 DEF Active
    <2>4. \A q \in Requests : (q \in InQueue)' <=> q \in InQueue \/ q = r
      <3>1. pending \in Seq(Requests)
        BY DEF IInv, WorkerTypes
      <3> QED BY <2>1, <3>1 DEF InQueue
    <2>5. \A q \in Requests : PhaseOf(q) = PhaseIs(q) /\ PhaseOf(q)' = PhaseIs(q)'
      BY PhaseRead, PhaseReadNext
    <2>6. Phases[r] = "reserved"
      BY <1>1, <2>2, <2>5 DEF Phases, PhaseIs, Submitted
    <2>7. \A q \in Requests : PhaseIs(q)' = IF q = r THEN "queued" ELSE PhaseIs(q)
      BY <1>1, <2>1, <2>2, <2>3, <2>4 DEF PhaseIs, Submitted
    <2>8. Phases' = [Phases EXCEPT ![r] = "queued"]
      BY <2>5, <2>7 DEF Phases
    <2>9. Places' = Places /\ Asked' = Asked /\ Left' = Left
      BY <1>1, <2>1, <2>2 DEF Places, HoldsPlace, Asked, Left, ConsumerReleased, Submitted
    <2> QED BY <1>1, <2>1, <2>6, <2>8, <2>9 DEF Life!Enqueue, Phases, Asked, Left, Places
  <1> QED BY <1>2, <1>3

\* Submission::reset and the cancellation of a waiting caller.
LEMMA CancellationAsks ==
    ASSUME IInv, IInv', NEW r \in Requests, caller[r] \in {"holding", "waiting"},
           cancelled' = [cancelled EXCEPT ![r] = TRUE],
           \/ caller' = [caller EXCEPT ![r] = "dropping"]
           \/ caller' = caller,
           UNCHANGED <<stage, verdict, capacityReleased, failed, pending, slots>>
    PROVE  Life!Ask(r)
  <1>1. InQueue' = InQueue /\ Active' = Active
    BY DEF InQueue, Active
  <1>2. /\ r \in InQueue \cup Active <=> Submitted(r) /\ stage[r] = "open"
        /\ DOMAIN caller = Requests /\ cancelled \in [Requests -> BOOLEAN]
    BY Standing
  <1>3. \A q \in Requests : PhaseOf(q) = PhaseIs(q) /\ PhaseOf(q)' = PhaseIs(q)'
    BY PhaseRead, PhaseReadNext
  <1>4. Phases[r] \in {"queued", "running", "answered"}
    BY <1>2, <1>3 DEF Phases, PhaseIs, Submitted
  <1>5. \A q \in Requests : PhaseIs(q)' = PhaseIs(q)
    BY <1>1, <1>2 DEF PhaseIs, Submitted
  <1>6. Phases' = Phases
    BY <1>3, <1>5 DEF Phases
  <1>7. Asked' = Asked \cup {r}
    BY <1>2 DEF Asked
  <1>8. Places' = Places /\ Left' = Left
    BY <1>2 DEF Places, HoldsPlace, Left, ConsumerReleased, Submitted
  <1> QED BY <1>4, <1>6, <1>7, <1>8 DEF Life!Ask, Phases, Asked, Left, Places

LEMMA ReleaseConsumerLeaves ==
    ASSUME LInv, IInv', NEW r \in Requests, ReleaseConsumer(r)
    PROVE  Life!Leave(r)
  <1>1. /\ caller[r] \in {"returning", "dropping"}
        /\ UNCHANGED <<stage, verdict, cancelled, failed, pending, slots>>
        /\ \/ /\ capacityReleased' = [capacityReleased EXCEPT ![r] = TRUE]
              /\ caller' = [caller EXCEPT ![r] = "freeing"]
              /\ ~capacityReleased[r]
           \/ /\ capacityReleased' = capacityReleased
              /\ caller' = [caller EXCEPT ![r] = "gone"]
    <2>1. capacityReleased \in [Requests -> BOOLEAN]
      BY Standing DEF LInv
    <2> QED BY <2>1 DEF ReleaseConsumer, ReturnsCapacity, workerVars, laneVars
  <1>2. InQueue' = InQueue /\ Active' = Active
    BY <1>1 DEF InQueue, Active
  <1>3. /\ r \in InQueue \cup Active <=> Submitted(r) /\ stage[r] = "open"
        /\ caller[r] = "returning" => Done(r)
        /\ DOMAIN caller = Requests /\ DOMAIN capacityReleased = Requests
        /\ caller[r] = "dropping" => cancelled[r]
    BY Standing DEF LInv, Dropping
  <1>4. \A q \in Requests : PhaseOf(q) = PhaseIs(q) /\ PhaseOf(q)' = PhaseIs(q)'
    BY PhaseRead, PhaseReadNext DEF LInv
  <1>5. \/ Phases[r] = "answered"
        \/ Phases[r] \in {"queued", "running"} /\ r \in Asked
    BY <1>1, <1>3, <1>4 DEF Phases, PhaseIs, Submitted, Done, Asked
  <1>6. \A q \in Requests : PhaseIs(q)' = PhaseIs(q)
    BY <1>1, <1>2, <1>3 DEF PhaseIs, Submitted
  <1>7. Phases' = Phases /\ Asked' = Asked
    BY <1>1, <1>4, <1>6 DEF Phases, Asked
  <1>8. Places' = Places
    BY <1>1, <1>3 DEF Places, HoldsPlace, Submitted
  <1>9. r \notin Left /\ Left' = Left \cup {r}
    BY <1>1, <1>3 DEF Left, ConsumerReleased
  <1> QED BY <1>1, <1>5, <1>7, <1>8, <1>9 DEF Life!Leave, Phases, Asked, Left, Places

\* Whoever is last, the caller or the worker, decrements outstanding_.
LEMMA FreesReleases ==
    ASSUME IInv, IInv', NEW r \in Requests,
           \/ /\ caller[r] = "freeing" /\ caller' = [caller EXCEPT ![r] = "gone"]
              /\ stage' = stage
           \/ /\ stage[r] = "freeing" /\ stage' = [stage EXCEPT ![r] = "settled"]
              /\ caller' = caller,
           UNCHANGED <<verdict, capacityReleased, cancelled, failed, pending, slots>>
    PROVE  Life!Release(r)
  <1>1. InQueue' = InQueue /\ Active' = Active
    BY DEF InQueue, Active
  <1>2. /\ r \in InQueue \cup Active <=> Submitted(r) /\ stage[r] = "open"
        /\ capacityReleased[r] => Done(r) /\ ConsumerReleased(r)
        /\ caller[r] = "freeing" => capacityReleased[r] /\ stage[r] # "freeing"
        /\ stage[r] = "freeing" => capacityReleased[r]
        /\ DOMAIN caller = Requests /\ DOMAIN stage = Requests
    BY Standing
  <1>3. \A q \in Requests : PhaseOf(q) = PhaseIs(q) /\ PhaseOf(q)' = PhaseIs(q)'
    BY PhaseRead, PhaseReadNext
  <1>4. Phases[r] = "answered"
    BY <1>2, <1>3 DEF Phases, PhaseIs, Done
  <1>5. \A q \in Requests : PhaseIs(q)' = PhaseIs(q)
    BY <1>1, <1>2 DEF PhaseIs, Submitted, Done
  <1>6. Phases' = Phases /\ Asked' = Asked
    BY <1>3, <1>5 DEF Phases, Asked
  <1>7. r \in Places /\ Places' = Places \ {r}
    BY <1>2 DEF Places, HoldsPlace, Submitted, ConsumerReleased
  <1>8. r \in Left /\ Left' = Left
    BY <1>2 DEF Left, ConsumerReleased
  <1> QED BY <1>4, <1>6, <1>7, <1>8 DEF Life!Release, Phases, Asked, Left, Places

-----------------------------------------------------------------------------
(***************************************************************************)
(* The worker.                                                             *)
(***************************************************************************)

\* What a request may be answered with, seen from the queue and the lanes.
Allowed(r) ==
    (IF r \in Active THEN {"finished"} ELSE {"timeout", "rejected"})
        \cup (IF cancelled[r] THEN {"cancelled"} ELSE {})

\* The phases after the requests of DOMAIN v have been decided.
LEMMA DecidedPhases ==
    ASSUME IInv, IInv', caller' = caller, NEW v, NEW published, Decide(v, published),
           DOMAIN v \subseteq InQueue \cup Active,
           Active' = Active \ DOMAIN v
    PROVE  /\ Phases' = [r \in Requests |-> IF r \in DOMAIN v THEN "answered" ELSE Phases[r]]
           /\ verdict' = [r \in Requests |-> IF r \in DOMAIN v THEN v[r] ELSE verdict[r]]
           /\ Places' = Places /\ Left' = Left
           /\ \A r \in DOMAIN v : /\ r \in Requests
                                  /\ Phases[r] = IF r \in Active THEN "running" ELSE "queued"
  <1>1. \A r \in Requests :
           /\ r \in InQueue \cup Active <=> Submitted(r) /\ stage[r] = "open"
           /\ InQueue \cap Active = {}
           /\ (r \in InQueue \cup Active <=> Submitted(r) /\ stage[r] = "open")'
           /\ InQueue' \cap Active' = {}
    BY DEF IInv, Placement
  <1>2. \A r \in Requests : stage'[r] = IF r \in DOMAIN v THEN "decided" ELSE stage[r]
    BY DEF Decide
  <1>3. \A q \in Requests : PhaseOf(q) = PhaseIs(q) /\ PhaseOf(q)' = PhaseIs(q)'
    BY PhaseRead, PhaseReadNext
  <1>4. \A r \in Requests : PhaseIs(r)' = IF r \in DOMAIN v THEN "answered" ELSE PhaseIs(r)
    BY <1>1, <1>2 DEF PhaseIs, Submitted
  <1>5. Phases' = [r \in Requests |-> IF r \in DOMAIN v THEN "answered" ELSE Phases[r]]
    BY <1>3, <1>4 DEF Phases
  <1>6. capacityReleased' = capacityReleased
    BY DEF Decide
  <1>7. Places' = Places /\ Left' = Left
    BY <1>1, <1>2, <1>6 DEF Places, HoldsPlace, Left, ConsumerReleased, Submitted
  <1>8. DOMAIN v \subseteq Requests
    BY QueueType
  <1>9. \A r \in DOMAIN v : Phases[r] = IF r \in Active THEN "running" ELSE "queued"
    BY <1>1, <1>3, <1>8 DEF Phases, PhaseIs
  <1>10. verdict' = [r \in Requests |-> IF r \in DOMAIN v THEN v[r] ELSE verdict[r]]
    BY DEF Decide
  <1> QED BY <1>5, <1>7, <1>8, <1>9, <1>10

\* A step that answers some of the requests in the queue and in the lanes.
LEMMA DecisionAnswers ==
    ASSUME IInv, IInv', ~failed, failed' = failed, callerVars' = callerVars,
           NEW v, NEW published, Decide(v, published),
           v = [r \in DOMAIN v |-> v[r]],
           DOMAIN v \subseteq InQueue \cup Active,
           \A r \in DOMAIN v : v[r] \in Allowed(r),
           Active' = Active \ DOMAIN v
    PROVE  [Life!Next]_(Life!vars)
  <1>1. caller' = caller /\ cancelled' = cancelled
    BY DEF callerVars
  <1>2. /\ Phases' = [r \in Requests |-> IF r \in DOMAIN v THEN "answered" ELSE Phases[r]]
        /\ verdict' = [r \in Requests |-> IF r \in DOMAIN v THEN v[r] ELSE verdict[r]]
        /\ Places' = Places /\ Left' = Left
        /\ \A r \in DOMAIN v : /\ r \in Requests
                               /\ Phases[r] = IF r \in Active THEN "running" ELSE "queued"
    BY <1>1, DecidedPhases
  <1>3. Asked' = Asked
    BY <1>1 DEF Asked
  <1>4. CASE DOMAIN v = {}
    <2>1. verdict \in [Requests -> {"none", "finished", "cancelled", "timeout", "rejected",
                                    "unavailable", "error"}]
      BY DEF IInv, RequestTypes
    <2>2. Phases' = Phases /\ verdict' = verdict
      BY <1>2, <1>4, <2>1 DEF Phases
    <2> QED BY <1>2, <1>3, <2>2 DEF Life!vars, Phases, Asked, Left, Places
  <1>5. CASE DOMAIN v # {}
    <2> DEFINE S == DOMAIN v
    <2>1. \A r \in S : v[r] \in {"finished", "timeout", "rejected", "cancelled"}
      BY DEF Allowed
    <2>2. v \in [S -> {"finished", "timeout", "rejected", "cancelled"}]
      BY <2>1
    <2>3. \A r \in S : v[r] \in Life!Answers(r)
      BY <1>2 DEF Life!Answers, Allowed, Phases
    <2>4. Life!Settle(v)
      BY <1>2 DEF Life!Settle, Phases
    <2>5. S \in SUBSET (Life!Waiting \cup Life!Running)
      BY <1>2 DEF Life!Waiting, Life!Running, Phases
    <2>6. Life!Answer(S)
      BY <1>2, <1>3, <1>5, <2>2, <2>3, <2>4 DEF Life!Answer, Asked, Left, Places
    <2> QED BY <2>5, <2>6 DEF Life!Next
  <1> QED BY <1>4, <1>5

\* fail_all answers everybody at once.
LEMMA FailAllCloses ==
    ASSUME IInv, IInv', NEW outcome \in {"unavailable", "error"}, FailAll(outcome, {}), ~failed
    PROVE  Life!Next
  <1> DEFINE v == Verdicts(InQueue \cup Active, outcome)
  <1>1. /\ failed' = TRUE /\ slots' = [l \in Lanes |-> NoRequest] /\ Decide(v, {})
        /\ callerVars' = callerVars
    <2>1. (InQueue \cup Active) \ {} = InQueue \cup Active
      OBVIOUS
    <2> QED BY <2>1 DEF FailAll
  <1>2. DOMAIN v = InQueue \cup Active
    BY DEF Verdicts
  <1>3. Active' = Active \ DOMAIN v
    BY <1>1, <1>2 DEF Active
  <1>4. caller' = caller /\ cancelled' = cancelled
    BY <1>1 DEF callerVars
  <1>5. /\ Phases' = [r \in Requests |-> IF r \in DOMAIN v THEN "answered" ELSE Phases[r]]
        /\ verdict' = [r \in Requests |-> IF r \in DOMAIN v THEN v[r] ELSE verdict[r]]
        /\ Places' = Places /\ Left' = Left
        /\ \A r \in DOMAIN v : /\ r \in Requests
                               /\ Phases[r] = IF r \in Active THEN "running" ELSE "queued"
    BY <1>1, <1>2, <1>3, <1>4, DecidedPhases
  <1>6. \A r \in Requests : r \in InQueue \cup Active <=> Phases[r] \in {"queued", "running"}
    <2>1. \A r \in Requests : Phases[r] = PhaseIs(r)
      BY PhaseRead DEF Phases
    <2>2. \A r \in Requests : r \in InQueue \cup Active => stage[r] = "open"
      BY Standing
    <2> QED BY <2>1, <2>2 DEF PhaseIs
  <1>7. Life!Waiting \cup Life!Running = InQueue \cup Active
    BY <1>6, QueueType DEF Life!Waiting, Life!Running, Phases
  <1>8. v = [r \in Life!Waiting \cup Life!Running |-> outcome]
    BY <1>7 DEF Verdicts
  <1>9. Life!Settle(v)
    BY <1>5 DEF Life!Settle, Phases
  <1>10. Asked' = Asked
    BY <1>4 DEF Asked
  <1>11. Life!Close(outcome)
    BY <1>1, <1>5, <1>8, <1>9, <1>10 DEF Life!Close, Asked, Left, Places
  <1> QED BY <1>11 DEF Life!Next

\* A step of the worker that answers nobody and starts nobody.
LEMMA QuietUnseen ==
    ASSUME IInv, IInv', callerVars' = callerVars, requestVars' = requestVars,
           failed' = failed, Active' = Active, InQueue' = InQueue
    PROVE  UNCHANGED Life!vars
  <1>1. /\ caller' = caller /\ cancelled' = cancelled /\ stage' = stage /\ verdict' = verdict
        /\ capacityReleased' = capacityReleased
    BY DEF callerVars, requestVars
  <1>2. \A r \in Requests : /\ PhaseIs(r)' = PhaseIs(r)
                            /\ ConsumerReleased(r)' <=> ConsumerReleased(r)
                            /\ HoldsPlace(r)' <=> HoldsPlace(r)
    BY <1>1 DEF PhaseIs, ConsumerReleased, HoldsPlace, Submitted
  <1> QED BY <1>1, <1>2, Unseen

\* While a lane is free, fewer requests than lanes are running.
LEMMA RunningFits ==
    ASSUME IInv, NEW lane \in Lanes, slots[lane] = NoRequest
    PROVE  Cardinality(Active) < MaxConcurrency
  <1> DEFINE others == Lanes \ {lane}
             laneOf == [r \in Active |-> CHOOSE l \in Lanes : slots[l] = r]
  <1>1. IsFiniteSet(Lanes) /\ Cardinality(Lanes) = MaxConcurrency
    <2>1. 0 \in Int /\ MaxConcurrency - 1 \in Int /\ MaxConcurrency \in Nat \ {0}
      BY ExecutorAssumption
    <2>2. /\ IsFiniteSet(0 .. MaxConcurrency - 1)
          /\ Cardinality(0 .. MaxConcurrency - 1)
               = IF 0 > MaxConcurrency - 1 THEN 0 ELSE (MaxConcurrency - 1) - 0 + 1
      BY <2>1, FS_Interval, Zenon
    <2>3. Lanes = 0 .. MaxConcurrency - 1
      BY DEF Lanes
    <2> HIDE DEF Lanes
    <2>4. (MaxConcurrency - 1) - 0 + 1 = MaxConcurrency /\ ~(0 > MaxConcurrency - 1)
      BY <2>1
    <2> QED BY <2>2, <2>3, <2>4
  <1>2. IsFiniteSet(others) /\ Cardinality(others) = MaxConcurrency - 1
    BY <1>1, FS_RemoveElement
  <1>3. \A r \in Active : laneOf[r] \in others /\ slots[laneOf[r]] = r
    BY DEF Active
  <1>4. laneOf \in [Active -> others] /\ DOMAIN laneOf = Active
    BY <1>3
  <1> HIDE DEF laneOf, others
  <1>5. \A r, q \in Active : laneOf[r] = laneOf[q] => r = q
    BY <1>3
  <1>6. laneOf \in Injection(Active, others)
    BY <1>4, <1>5, Zenon DEF Injection, IsInjective
  <1>7. Cardinality(Active) <= MaxConcurrency - 1
    BY <1>2, <1>6, FS_Injection
  <1>8. Cardinality(Active) \in Nat
    BY QueueType, PolicyAssumption, FS_Subset, FS_CardinalityType
  <1> QED BY <1>7, <1>8, ExecutorAssumption

LEMMA AdmitStarts ==
    ASSUME IInv, IInv', Admit
    PROVE  [Life!Next]_(Life!vars)
  <1> DEFINE r == at.req
             lane == at.lane
  <1>1. at.pc = "admit"
    BY DEF Admit
  <1>2. /\ r \in Requests /\ r \in InQueue /\ r \notin Active /\ lane \in Lanes
        /\ slots[lane] = NoRequest /\ ~failed
    BY <1>1, AtAdmit
  <1>3. CASE Throw
    BY <1>2, <1>3, FailAllCloses DEF Throw, ThrowLosing
  <1>4. CASE /\ pending' = Without(pending, {r}) /\ slots' = [slots EXCEPT ![lane] = r]
             /\ UNCHANGED <<callerVars, requestVars, failed>>
    <2>1. /\ caller' = caller /\ cancelled' = cancelled /\ stage' = stage /\ verdict' = verdict
          /\ capacityReleased' = capacityReleased /\ failed' = failed
      BY <1>4 DEF callerVars, requestVars
    <2>2. InQueue' = InQueue \ {r}
      BY <1>4, WithoutFacts
    <2> HIDE DEF r, lane
    <2>3. \A q \in Requests : (q \in Active)' <=> q \in Active \/ q = r
      <3>1. slots \in [Lanes -> Sources] /\ NoRequest \notin Requests
        BY ExecutorAssumption DEF IInv, WorkerTypes
      <3>2. \A l \in Lanes : slots'[l] = IF l = lane THEN r ELSE slots[l]
        BY <1>4, <3>1
      <3> QED BY <1>2, <3>1, <3>2 DEF Active
    <2>4. \A q \in Requests : PhaseOf(q) = PhaseIs(q) /\ PhaseOf(q)' = PhaseIs(q)'
      BY PhaseRead, PhaseReadNext
    <2>5. stage[r] = "open"
      BY <1>2, Standing
    <2>6. \A q \in Requests : PhaseIs(q)' = IF q = r THEN "running" ELSE PhaseIs(q)
      BY <1>2, <2>1, <2>2, <2>3, <2>5 DEF PhaseIs
    <2>7. Phases[r] = "queued" /\ Phases' = [Phases EXCEPT ![r] = "running"]
      BY <1>2, <2>4, <2>5, <2>6 DEF Phases, PhaseIs
    <2>8. Places' = Places /\ Asked' = Asked /\ Left' = Left
      BY <2>1 DEF Places, HoldsPlace, Asked, Left, ConsumerReleased, Submitted
    <2>9. Life!Running = Active
      <3>1. \A q \in Requests : PhaseOf(q) = "running" <=> q \in Active
        BY <2>4, Standing DEF PhaseIs
      <3> QED BY <3>1, QueueType DEF Life!Running
    <2>10. Life!Cardinality(Life!Running) < MaxConcurrency
      BY <1>2, <2>9, RunningFits, SameSize
    <2>11. Life!Start(r)
      BY <1>2, <2>1, <2>7, <2>8, <2>10 DEF Life!Start, Phases, Asked, Left, Places
    <2> QED BY <1>2, <2>11 DEF Life!Next
  <1> QED BY <1>3, <1>4, AdmitEffect

LEMMA BoundaryAnswers ==
    ASSUME IInv, IInv', Boundary
    PROVE  [Life!Next]_(Life!vars)
  <1> DEFINE aborted == {r \in Active : cancelled[r]}
             gone == Overdue \cup aborted
             v == [r \in gone |-> OverdueVerdict(r)]
             published == {r \in gone : cancelled[r]}
  <1>1. /\ at.pc = "top" /\ slots' = Vacated(aborted) /\ Decide(v, published)
        /\ callerVars' = callerVars /\ failed' = failed
    BY DEF Boundary
  <1>2. ~failed
    BY <1>1 DEF IInv, WorkerPlace
  <1>3. /\ DOMAIN v = gone /\ gone \subseteq InQueue \cup Active /\ v = [r \in DOMAIN v |-> v[r]]
        /\ InQueue \cap Active = {}
    BY DEF Overdue, IInv, Placement
  <1>4. \A r \in DOMAIN v : v[r] \in Allowed(r)
    BY <1>3 DEF Overdue, OverdueVerdict, Allowed
  <1>5. Active' = Active \ aborted
    BY <1>1, QueueType, VacatedFacts
  <1>6. Active' = Active \ DOMAIN v
    BY <1>3, <1>5 DEF Overdue
  <1> HIDE DEF v
  <1> QED BY <1>1, <1>2, <1>3, <1>4, <1>6, DecisionAnswers

LEMMA SelectDropsHeadAnswers ==
    ASSUME IInv, IInv', SelectDropsHead
    PROVE  [Life!Next]_(Life!vars)
  <1> DEFINE head == Head(pending)
             v == Verdicts({head}, InadmissibleVerdict(head))
             published == {r \in {head} : cancelled[r]}
  <1>1. /\ at.pc = "select" /\ pending # <<>> /\ Decide(v, published)
        /\ slots' = slots /\ failed' = failed /\ callerVars' = callerVars
    BY DEF SelectDropsHead, laneVars
  <1>2. head \in InQueue /\ ~failed /\ InQueue \cap Active = {}
    BY <1>1, HeadFacts DEF IInv, WorkerPlace, Placement
  <1>3. DOMAIN v = {head} /\ v = [r \in DOMAIN v |-> v[r]]
    BY DEF Verdicts
  <1>4. \A r \in DOMAIN v : v[r] \in Allowed(r)
    BY <1>2 DEF Verdicts, InadmissibleVerdict, OverdueVerdict, Allowed
  <1>5. Active' = Active \ DOMAIN v /\ DOMAIN v \subseteq InQueue \cup Active
    BY <1>1, <1>2, <1>3 DEF Active
  <1> HIDE DEF v
  <1> QED BY <1>1, <1>2, <1>3, <1>4, <1>5, DecisionAnswers

LEMMA AdmitWithdrawnAnswers ==
    ASSUME IInv, IInv', AdmitWithdrawn
    PROVE  [Life!Next]_(Life!vars)
  <1> DEFINE r == at.req
             v == Verdicts({r}, IF expired[r] THEN "timeout" ELSE "cancelled")
             published == IF expired[r] THEN {} ELSE {r}
  <1>1. /\ at.pc = "admit" /\ Decide(v, published) /\ (cancelled[r] \/ expired[r])
        /\ slots' = slots /\ failed' = failed /\ callerVars' = callerVars
    BY DEF AdmitWithdrawn, laneVars
  <1>2. r \in InQueue /\ r \notin Active /\ ~failed
    BY <1>1, AtAdmit
  <1>3. DOMAIN v = {r} /\ v = [q \in DOMAIN v |-> v[q]]
    BY DEF Verdicts
  <1>4. \A q \in DOMAIN v : v[q] \in Allowed(q)
    BY <1>1, <1>2 DEF Verdicts, Allowed
  <1>5. Active' = Active \ DOMAIN v /\ DOMAIN v \subseteq InQueue \cup Active
    BY <1>1, <1>2, <1>3 DEF Active
  <1> HIDE DEF v
  <1> QED BY <1>1, <1>2, <1>3, <1>4, <1>5, DecisionAnswers

LEMMA SelectBehindHeadAnswers ==
    ASSUME IInv, IInv', SelectBehindHead
    PROVE  [Life!Next]_(Life!vars)
  <1> DEFINE head == Head(pending)
             prot == ProtFor(head)
  <1>1. /\ at.pc = "select" /\ pending # <<>>
        /\ \/ Throw
           \/ /\ UNCHANGED <<callerVars, laneVars, failed>>
              /\ \/ UNCHANGED <<requestVars, pending>>
                 \/ Scan(prot, head)
    BY BehindHeadCases
  <1>2. ~failed /\ InQueue \cap Active = {}
    BY <1>1 DEF IInv, WorkerPlace, Placement
  <1>3. CASE Throw
    BY <1>2, <1>3, FailAllCloses DEF Throw, ThrowLosing
  <1>4. CASE UNCHANGED <<callerVars, laneVars, failed, requestVars, pending>>
    <2>1. Active' = Active /\ InQueue' = InQueue
      BY <1>4 DEF Active, InQueue, laneVars
    <2> QED BY <1>4, <2>1, QuietUnseen
  <1>5. CASE UNCHANGED <<callerVars, laneVars, failed>> /\ Scan(prot, head)
    <2> HIDE DEF prot
    <2> DEFINE v == [r \in Dropped(prot) |-> InadmissibleVerdict(r)]
               published == {r \in Dropped(prot) : cancelled[r]}
    <2>1. Decide(v, published)
      BY <1>1, <1>5, ScanEffect
    <2>2. Dropped(prot) \subseteq InQueue
      BY <1>1, ScanFacts
    <2>3. DOMAIN v = Dropped(prot) /\ v = [r \in DOMAIN v |-> v[r]]
      OBVIOUS
    <2>4. \A r \in DOMAIN v : v[r] \in Allowed(r)
      BY <1>2, <2>2 DEF InadmissibleVerdict, OverdueVerdict, Allowed
    <2>5. Active' = Active \ DOMAIN v /\ DOMAIN v \subseteq InQueue \cup Active
      <3>1. Active' = Active
        BY <1>5 DEF Active, laneVars
      <3> QED BY <1>2, <2>2, <2>3, <3>1
    <2> HIDE DEF v
    <2> QED BY <1>2, <1>5, <2>1, <2>3, <2>4, <2>5, DecisionAnswers
  <1> QED BY <1>1, <1>3, <1>4, <1>5

\* The GPU units: what ends in one has finished, or its caller asked for it.
LEMMA UnitAnswers ==
    ASSUME IInv, IInv', at.pc \in {"step", "decode"}, failed' = failed,
           callerVars' = callerVars, NEW S \in SUBSET Active, slots' = Vacated(S),
           NEW v, NEW published, Decide(v, published), DOMAIN v = S,
           v = [r \in DOMAIN v |-> v[r]],
           \A r \in S : v[r] = "finished" \/ (v[r] = "cancelled" /\ cancelled[r])
    PROVE  [Life!Next]_(Life!vars)
  <1>1. ~failed
    BY DEF IInv, WorkerPlace
  <1>2. Active' = Active \ S
    BY QueueType, VacatedFacts
  <1>3. \A r \in DOMAIN v : v[r] \in Allowed(r)
    BY DEF Allowed
  <1> QED BY <1>1, <1>2, <1>3, DecisionAnswers

LEMMA StepCancelledAnswers ==
    ASSUME IInv, IInv', StepCancelled
    PROVE  [Life!Next]_(Life!vars)
  <1> DEFINE r == slots[at.lane]
             v == Verdicts({r}, "cancelled")
  <1>1. at.pc = "step" /\ cancelled[r]
    BY DEF StepCancelled
  <1>2. r \in Active /\ ~failed
    BY <1>1, AtStep DEF IInv, WorkerPlace
  <1>3. CASE Throw
    BY <1>2, <1>3, FailAllCloses DEF Throw, ThrowLosing
  <1>4. CASE ~Throw
    <2>1. slots' = Vacated({r}) /\ Decide(v, {r}) /\ UNCHANGED <<callerVars, failed>>
      BY <1>4 DEF StepCancelled
    <2>2. DOMAIN v = {r} /\ v = [q \in DOMAIN v |-> v[q]] /\ v[r] = "cancelled"
      BY DEF Verdicts
    <2> HIDE DEF v, r
    <2> QED BY <1>1, <1>2, <2>1, <2>2, UnitAnswers
  <1> QED BY <1>3, <1>4

LEMMA StepPartialUnseen ==
    ASSUME IInv, IInv', StepPartial
    PROVE  UNCHANGED Life!vars
  <1>1. UNCHANGED <<callerVars, requestVars, failed, slots, pending>>
    BY DEF StepPartial
  <1>2. Active' = Active /\ InQueue' = InQueue
    BY <1>1 DEF Active, InQueue
  <1> QED BY <1>1, <1>2, QuietUnseen

LEMMA StepCompleteAnswers ==
    ASSUME IInv, IInv', NEW stop \in BOOLEAN, StepComplete(stop)
    PROVE  [Life!Next]_(Life!vars)
  <1> DEFINE r == slots[at.lane]
             finished == stop \/ run[r].budget = 1
  <1>1. at.pc = "step"
    BY DEF StepComplete
  <1>2. r \in Active /\ ~failed
    BY <1>1, AtStep DEF IInv, WorkerPlace
  <1>3. CASE Throw
    BY <1>2, <1>3, FailAllCloses DEF Throw, ThrowLosing
  <1>4. CASE ~Throw /\ finished
    <2> DEFINE v == Verdicts({r}, "finished")
    <2>1. slots' = Vacated({r}) /\ Decide(v, {r}) /\ UNCHANGED <<callerVars, failed>>
      BY <1>4 DEF StepComplete
    <2>2. DOMAIN v = {r} /\ v = [q \in DOMAIN v |-> v[q]] /\ v[r] = "finished"
      BY DEF Verdicts
    <2> HIDE DEF v, r
    <2> QED BY <1>1, <1>2, <2>1, <2>2, UnitAnswers
  <1>5. CASE ~Throw /\ ~finished
    <2>1. slots' = slots /\ Decide(<<>>, {r}) /\ UNCHANGED <<callerVars, failed>>
      BY <1>5 DEF StepComplete
    <2>2. DOMAIN <<>> = {} /\ <<>> = [q \in DOMAIN <<>> |-> <<>>[q]]
      OBVIOUS
    <2>3. Active' = Active
      BY <2>1 DEF Active
    <2> QED BY <1>2, <2>1, <2>2, <2>3, DecisionAnswers
  <1> QED BY <1>3, <1>4, <1>5

LEMMA DecodeRoundAnswers ==
    ASSUME IInv, IInv', NEW accepted \in [Members -> 1 .. MaxAccept], NEW stops \in SUBSET Members,
           DecodeRound(accepted, stops)
    PROVE  [Life!Next]_(Life!vars)
  <1> DEFINE rows == {r \in Members : ~cancelled[r]}
             aborted == Members \ rows
             finished == {r \in rows : r \in stops \/ accepted[r] = run[r].budget}
             ended == aborted \cup finished
             v == [r \in ended |-> IF r \in aborted THEN "cancelled" ELSE "finished"]
  <1>1. at.pc = "decode"
    BY DEF DecodeRound
  <1>2. ~failed
    BY <1>1 DEF IInv, WorkerPlace
  <1>3. CASE Throw
    BY <1>2, <1>3, FailAllCloses DEF Throw, ThrowLosing
  <1>4. CASE ~Throw
    <2>1. slots' = Vacated(ended) /\ Decide(v, Members) /\ UNCHANGED <<callerVars, failed>>
      BY <1>4 DEF DecodeRound
    <2>2. ended \in SUBSET Active /\ DOMAIN v = ended /\ v = [q \in DOMAIN v |-> v[q]]
      BY DEF Members
    <2>3. \A r \in ended : v[r] = "finished" \/ (v[r] = "cancelled" /\ cancelled[r])
      OBVIOUS
    <2> HIDE DEF v, ended
    <2> QED BY <1>1, <2>1, <2>2, <2>3, UnitAnswers
  <1> QED BY <1>3, <1>4

-----------------------------------------------------------------------------
(***************************************************************************)
(* The refinement.                                                         *)
(***************************************************************************)
LEMMA InitLife ==
    ASSUME Init
    PROVE  Life!Init
  <1>1. Active = {}
    BY DEF Init, Active
  <1>2. \A r \in Requests : PhaseOf(r) = "absent"
    BY <1>1 DEF Init, PhaseOf, Submitted
  <1>3. Phases = [r \in Requests |-> "absent"]
    BY <1>2 DEF Phases
  <1>4. Asked = {} /\ Left = {} /\ Places = {}
    BY DEF Init, Asked, Left, Places, ConsumerReleased, HoldsPlace, Submitted
  <1>5. verdict = [r \in Requests |-> "none"] /\ ~failed
    BY DEF Init
  <1> QED BY <1>3, <1>4, <1>5 DEF Life!Init, Phases, Asked, Left, Places

\* The flag of a dropped request is never taken back.
LEMMA DroppingKept ==
    ASSUME IInv, Dropping, [Next]_vars
    PROVE  Dropping'
  <1>1. caller \in [Requests -> {"idle", "building", "holding", "waiting", "returning",
                                 "dropping", "freeing", "gone", "refused"}]
        /\ cancelled \in [Requests -> BOOLEAN]
    BY DEF IInv, CallerTypes
  <1>2. CASE UNCHANGED <<caller, cancelled>>
    BY <1>2 DEF Dropping
  <1>3. ASSUME NEW r \in Requests,
               \/ Reserve(r) \/ Refuse(r) \/ BuildFails(r) \/ Push(r) \/ Wait(r) \/ Poll(r)
               \/ ReleaseConsumer(r) \/ CallerFrees(r)
        PROVE  Dropping'
    <2>1. cancelled' = cancelled
      BY <1>3 DEF Reserve, Refuse, BuildFails, Push, Wait, Poll, ReleaseConsumer, CallerFrees
    <2>2. \A q \in Requests : caller'[q] = "dropping" => caller[q] = "dropping"
      <3>1. CASE Reserve(r) \/ Refuse(r) \/ BuildFails(r) \/ Push(r) \/ Wait(r)
        BY <1>1, <3>1 DEF Reserve, Refuse, BuildFails, Push, Wait
      <3>2. CASE Poll(r)
        BY <1>1, <3>2 DEF Poll
      <3>3. CASE ReleaseConsumer(r) \/ CallerFrees(r)
        BY <1>1, <3>3 DEF ReleaseConsumer, CallerFrees
      <3> QED BY <1>3, <3>1, <3>2, <3>3
    <2> QED BY <2>1, <2>2 DEF Dropping
  <1>4. ASSUME NEW r \in Requests, Abandon(r) \/ Cancel(r)
        PROVE  Dropping'
    BY <1>1, <1>4 DEF Dropping, Abandon, Cancel
  <1>5. ASSUME NEW r \in Requests, Expire(r)
        PROVE  UNCHANGED <<caller, cancelled>>
    BY <1>5 DEF Expire
  <1>6. Stop => UNCHANGED <<caller, cancelled>>
    BY DEF Stop
  <1>7. Worker \/ Fault \/ UNCHANGED vars => UNCHANGED <<caller, cancelled>>
    <2>1. Worker \/ Fault \/ UNCHANGED vars => callerVars' = callerVars
      <3>1. Complete => callerVars' = callerVars
        BY DEF Complete, SetDone, MarkCompleted, WorkerFrees
      <3>2. StopWorker \/ Fault => callerVars' = callerVars
        BY DEF StopWorker, Fault, FailAll
      <3>3. Throw => callerVars' = callerVars
        BY DEF Throw, ThrowLosing, FailAll
      <3>4. Admit => callerVars' = callerVars
        BY DEF Admit, ThrowLosing, FailAll
      <3>5. Boundary \/ SelectNothing \/ SelectDropsHead \/ SelectHead \/ AdmitWithdrawn
              \/ StepPartial => callerVars' = callerVars
        BY DEF Boundary, SelectNothing, SelectDropsHead, SelectHead, AdmitWithdrawn, StepPartial
      <3>6. SelectBehindHead \/ StepCancelled => callerVars' = callerVars
        BY <3>3 DEF SelectBehindHead, StepCancelled
      <3>7. ASSUME NEW stop, StepComplete(stop) PROVE callerVars' = callerVars
        BY <3>3, <3>7 DEF StepComplete
      <3>8. ASSUME NEW accepted, NEW stops, DecodeRound(accepted, stops)
            PROVE  callerVars' = callerVars
        BY <3>3, <3>8 DEF DecodeRound
      <3> QED BY <3>1, <3>2, <3>4, <3>5, <3>6, <3>7, <3>8 DEF Worker, vars
    <2> QED BY <2>1 DEF callerVars
  <1> QED BY <1>2, <1>3, <1>4, <1>5, <1>6, <1>7 DEF Next, CallerStep

LEMMA CallerLife ==
    ASSUME LInv, IInv', CallerStep
    PROVE  [Life!Next]_(Life!vars)
  <1>1. IInv
    BY DEF LInv
  <1>2. ASSUME NEW r \in Requests, Reserve(r) PROVE Life!Next
    BY <1>1, <1>2, ReserveAccepts DEF Life!Next
  <1>3. ASSUME NEW r \in Requests, Refuse(r) \/ BuildFails(r) PROVE Life!Next
    <2>1. /\ caller[r] \in {"idle", "building"} /\ caller' = [caller EXCEPT ![r] = "refused"]
          /\ UNCHANGED <<stage, verdict, capacityReleased, cancelled, failed, pending, slots>>
      BY <1>3 DEF Refuse, BuildFails, workerVars, laneVars, requestVars
    <2> QED BY <1>1, <2>1, RefusalRefuses DEF Life!Next
  <1>4. ASSUME NEW r \in Requests, Push(r) PROVE Life!Next
    BY <1>1, <1>4, PushEnqueues DEF Life!Next
  <1>5. ASSUME NEW r \in Requests, Abandon(r) \/ Cancel(r) PROVE Life!Next
    <2>1. /\ caller[r] \in {"holding", "waiting"}
          /\ cancelled' = [cancelled EXCEPT ![r] = TRUE]
          /\ \/ caller' = [caller EXCEPT ![r] = "dropping"]
             \/ caller' = caller
          /\ UNCHANGED <<stage, verdict, capacityReleased, failed, pending, slots>>
      BY <1>5 DEF Abandon, Cancel, workerVars, laneVars, requestVars
    <2> QED BY <1>1, <2>1, CancellationAsks DEF Life!Next
  <1>6. ASSUME NEW r \in Requests, ReleaseConsumer(r) PROVE Life!Next
    BY <1>6, ReleaseConsumerLeaves DEF Life!Next
  <1>7. ASSUME NEW r \in Requests, CallerFrees(r) PROVE Life!Next
    <2>1. /\ caller[r] = "freeing" /\ caller' = [caller EXCEPT ![r] = "gone"] /\ stage' = stage
          /\ UNCHANGED <<verdict, capacityReleased, cancelled, failed, pending, slots>>
      BY <1>7 DEF CallerFrees, workerVars, laneVars
    <2> QED BY <1>1, <2>1, FreesReleases DEF Life!Next
  <1>8. ASSUME NEW r \in Requests, Wait(r) \/ Poll(r) PROVE UNCHANGED Life!vars
    <2>1. /\ caller[r] \in {"holding", "waiting"}
          /\ caller' = [caller EXCEPT ![r] = caller'[r]]
          /\ caller'[r] \in {"waiting", "returning"}
          /\ UNCHANGED <<stage, verdict, capacityReleased, cancelled, failed, pending, slots>>
      <3>1. DOMAIN caller = Requests
        BY <1>1, Standing
      <3> QED BY <1>8, <3>1 DEF Wait, Poll, workerVars, laneVars, requestVars
    <2>2. InQueue' = InQueue /\ Active' = Active
      BY <2>1 DEF InQueue, Active
    <2>3. DOMAIN caller = Requests /\ (r \in InQueue \cup Active <=> Submitted(r) /\ stage[r] = "open")
      BY <1>1, Standing
    <2>4. \A q \in Requests : /\ PhaseIs(q)' = PhaseIs(q)
                              /\ ConsumerReleased(q)' <=> ConsumerReleased(q)
                              /\ HoldsPlace(q)' <=> HoldsPlace(q)
      BY <2>1, <2>2, <2>3 DEF PhaseIs, ConsumerReleased, HoldsPlace, Submitted
    <2> QED BY <1>1, <2>1, <2>4, Unseen
  <1>9. ASSUME (\E r \in Requests : Expire(r)) \/ Stop PROVE UNCHANGED Life!vars
    <2>1. UNCHANGED <<caller, stage, verdict, capacityReleased, cancelled, failed, pending, slots>>
      BY <1>9 DEF Expire, Stop, workerVars, laneVars, requestVars
    <2>2. InQueue' = InQueue /\ Active' = Active
      BY <2>1 DEF InQueue, Active
    <2>3. \A q \in Requests : /\ PhaseIs(q)' = PhaseIs(q)
                              /\ ConsumerReleased(q)' <=> ConsumerReleased(q)
                              /\ HoldsPlace(q)' <=> HoldsPlace(q)
      BY <2>1, <2>2 DEF PhaseIs, ConsumerReleased, HoldsPlace, Submitted
    <2> QED BY <1>1, <2>1, <2>3, Unseen
  <1> QED BY <1>2, <1>3, <1>4, <1>5, <1>6, <1>7, <1>8, <1>9 DEF CallerStep

LEMMA CompleteLife ==
    ASSUME IInv, IInv', Complete
    PROVE  [Life!Next]_(Life!vars)
  <1>1. ASSUME NEW r \in Requests, WorkerFrees(r) PROVE Life!Next
    <2>1. /\ stage[r] = "freeing" /\ stage' = [stage EXCEPT ![r] = "settled"] /\ caller' = caller
          /\ UNCHANGED <<verdict, capacityReleased, cancelled, failed, pending, slots>>
      BY <1>1 DEF WorkerFrees, callerVars, laneVars
    <2> QED BY <2>1, FreesReleases DEF Life!Next
  <1>2. ASSUME NEW r \in Requests, SetDone(r) \/ MarkCompleted(r) PROVE UNCHANGED Life!vars
    <2>1. capacityReleased \in [Requests -> BOOLEAN] /\ DOMAIN stage = Requests
      BY Standing
    <2>2. /\ stage[r] \in {"decided", "done"}
          /\ UNCHANGED <<caller, verdict, cancelled, failed, pending, slots>>
          /\ \/ /\ stage' = [stage EXCEPT ![r] = "freeing"] /\ ~capacityReleased[r]
                /\ capacityReleased' = [capacityReleased EXCEPT ![r] = TRUE]
             \/ /\ stage' = [stage EXCEPT ![r] = stage'[r]]
                /\ stage'[r] \in {"done", "settled"}
                /\ capacityReleased' = capacityReleased
      <3>1. CASE SetDone(r)
        BY <2>1, <3>1 DEF SetDone, callerVars, laneVars
      <3>2. CASE MarkCompleted(r)
        BY <2>1, <3>2 DEF MarkCompleted, ReturnsCapacity, callerVars, laneVars
      <3> QED BY <1>2, <3>1, <3>2
    <2>3. InQueue' = InQueue /\ Active' = Active
      BY <2>2 DEF InQueue, Active
    <2>4. stage[r] # "open" => Submitted(r)
      BY Standing
    <2>5. \A q \in Requests : /\ PhaseIs(q)' = PhaseIs(q)
                              /\ ConsumerReleased(q)' <=> ConsumerReleased(q)
                              /\ HoldsPlace(q)' <=> HoldsPlace(q)
      BY <2>1, <2>2, <2>3, <2>4 DEF PhaseIs, ConsumerReleased, HoldsPlace, Submitted
    <2> QED BY <2>2, <2>5, Unseen
  <1> QED BY <1>1, <1>2 DEF Complete

LEMMA WorkerLife ==
    ASSUME IInv, IInv', Worker \/ Fault
    PROVE  [Life!Next]_(Life!vars)
  <1>1. CASE StopWorker \/ Fault
    <2>1. ~failed
      BY <1>1 DEF StopWorker, Fault, IInv, WorkerPlace
    <2>2. FailAll("unavailable", {}) \/ FailAll("error", {})
      BY <1>1 DEF StopWorker, Fault
    <2> QED BY <2>1, <2>2, FailAllCloses
  <1>2. CASE SelectNothing \/ SelectHead
    <2>1. UNCHANGED <<callerVars, requestVars, laneVars, pending, failed>>
      BY <1>2 DEF SelectNothing, SelectHead
    <2>2. Active' = Active /\ InQueue' = InQueue
      BY <2>1 DEF Active, InQueue, laneVars
    <2> QED BY <2>1, <2>2, QuietUnseen
  <1>3. CASE Complete
    BY <1>3, CompleteLife
  <1>4. CASE \/ Boundary \/ SelectDropsHead \/ SelectBehindHead \/ AdmitWithdrawn \/ Admit
             \/ StepCancelled \/ StepPartial
    BY <1>4, BoundaryAnswers, SelectDropsHeadAnswers, SelectBehindHeadAnswers,
       AdmitWithdrawnAnswers, AdmitStarts, StepCancelledAnswers, StepPartialUnseen
  <1>5. CASE \E stop \in BOOLEAN : StepComplete(stop)
    BY <1>5, StepCompleteAnswers
  <1>6. CASE \E accepted \in [Members -> 1 .. MaxAccept], stops \in SUBSET Members :
                DecodeRound(accepted, stops)
    BY <1>6, DecodeRoundAnswers
  <1> QED BY <1>1, <1>2, <1>3, <1>4, <1>5, <1>6 DEF Worker

LEMMA StutterLife ==
    ASSUME UNCHANGED vars
    PROVE  UNCHANGED Life!vars
  <1>1. UNCHANGED <<caller, stage, verdict, capacityReleased, cancelled, failed, slots>>
    BY DEF vars, callerVars, requestVars, laneVars
  <1>2. Active' = Active
    BY <1>1 DEF Active
  <1>3. \A r \in Requests : PhaseOf(r)' = PhaseOf(r)
    BY <1>1, <1>2 DEF PhaseOf, Submitted
  <1>4. Phases' = Phases /\ Asked' = Asked /\ Left' = Left /\ Places' = Places
    BY <1>1, <1>3 DEF Phases, Asked, Left, Places, ConsumerReleased, HoldsPlace, Submitted
  <1> QED BY <1>1, <1>4 DEF Life!vars, Phases, Asked, Left, Places

\* The executor keeps the promise of Lifecycle: a place is taken only when one is
\* free and given back once, a request runs only from the queue and only while there
\* is a lane, every answer is one its request can get in its phase (finished only from
\* a lane, cancelled only when asked for), a unit may answer several requests at once,
\* and the failure of the executor answers everybody it owes an answer.
THEOREM ExecutorImplementsLifecycle == Spec => ImplementsLifecycle
  <1>1. Init => Life!Init /\ LInv
    <2>1. Init => Dropping
      BY DEF Init, Dropping
    <2> QED BY <2>1, InitLife, InitIInv DEF LInv
  <1>2. LInv /\ [Next]_vars => LInv'
    BY NextIInv, DroppingKept DEF LInv
  <1>3. LInv /\ LInv' /\ [Next]_vars => [Life!Next]_(Life!vars)
    <2> SUFFICES ASSUME LInv, LInv', [Next]_vars
                 PROVE  [Life!Next]_(Life!vars)
      OBVIOUS
    <2>1. IInv /\ IInv'
      BY DEF LInv
    <2> QED BY <2>1, CallerLife, WorkerLife, StutterLife DEF Next
  <1> QED BY <1>1, <1>2, <1>3, PTL DEF Spec, ImplementsLifecycle, Life!Spec

-----------------------------------------------------------------------------
(***************************************************************************)
(* Admission. For every number of lanes, requests and pages: no internal   *)
(* check of the worker throws, the plans and the pages it acts on are      *)
(* true, the staged prefill has one owner, a protected head keeps its      *)
(* promise, and the credit of a protection bounds what is let in before    *)
(* it. The invariant extends the one above, which is assumed in both       *)
(* states of a step.                                                       *)
(***************************************************************************)

-----------------------------------------------------------------------------
(***************************************************************************)
(* The inductive invariant.                                                *)
(***************************************************************************)

\* A lane retains a sequence with its pages, or nothing; an occupied lane retains
\* nothing beside the sequence it runs.
CacheShape ==
    /\ cache \in [Lanes -> [source : Sources, pages : [PageKinds -> Nat]]]
    /\ \A l \in Lanes :
          cache[l].source = NoRequest \/ slots[l] # NoRequest => cache[l] = Vacant

\* The work of a request in a lane covers its budget, which is whole until it decodes.
Projected(r) ==
    /\ run[r].budget > 0 /\ run[r].work >= run[r].budget
    /\ ~run[r].ready => run[r].budget = OutTokens[r]

\* A plan cached for a free lane is stale or about the sequence the lane retains;
\* nothing is planned for a request before it is queued.
PlansCurrent ==
    /\ \A r \in InQueue, l \in Lanes :
          slots[l] = NoRequest => plans[r][l] \in {Stale, cache[l].source}
    /\ \A r \in Requests : ~Submitted(r) => plans[r] = NoPlans

PagesHeld == \A k \in PageKinds : Committed(cache, Lanes, k) <= Capacity[k]

\* Nothing is staged while a request is chosen; otherwise the requests that cannot
\* decode yet are the owner of the staged prefill and the one in its step.
Staging ==
    /\ at.pc \in {"select", "admit"} => prefillLane = NoLane
    /\ \A l \in Lanes :
          slots[l] # NoRequest /\ ~run[slots[l]].ready
              <=> l = prefillLane \/ (at.pc = "step" /\ at.lane = l)

\* The request chosen for admission fits in the lane it was given, by a plan that is
\* still true.
Admissible ==
    at.pc = "admit" =>
        /\ plans[at.req][at.lane] = cache[at.lane].source
        /\ IF at.evict THEN CanAdmitAfterEviction(at.lane, at.req)
           ELSE CanAdmit(cache, at.lane, at.req)

\* What a protection froze is past the queue, and its number is not used again.
Frozen ==
    protection # NoProtection =>
        /\ protection.incumbents \subseteq Requests
        /\ \A a \in protection.incumbents : Submitted(a) /\ a \notin InQueue
        /\ protection.epoch < nextEpoch

\* The request chosen is the head, or is let in under the protection of the head.
Backfill ==
    at.pc = "admit" =>
        IF at.class = "none"
          THEN /\ pending # <<>> /\ at.req = Head(pending)
               /\ protection = NoProtection \/ protection.head = at.req
          ELSE /\ protection # NoProtection /\ at.epoch = protection.epoch
               /\ at.req # protection.head
               /\ at.class = "persistent" =>
                     PersistentSafe(protection, Active, EpochOf, ClassOf, at.req)

AInv ==
    /\ CacheShape
    /\ \A r \in Active : Projected(r)
    /\ PlansCurrent /\ PagesHeld
    /\ Staging /\ Admissible
    /\ Frozen /\ Backfill /\ HeadProtected
    /\ NoInternalError

-----------------------------------------------------------------------------
(***************************************************************************)
(* What fits.                                                              *)
(***************************************************************************)
NeedOf(k) == [r \in Requests |-> Need[r][k]]

LEMMA UsedUnits ==
    ASSUME NEW S \in SUBSET Requests, NEW k \in Kinds
    PROVE  /\ Used(S, k) = Cardinality(Units(S, NeedOf(k), Capacity[k] + 1))
           /\ IsFiniteSet(S) /\ Capacity[k] \in Nat /\ Used(S, k) \in Nat
  <1>1. Capacity[k] \in Nat /\ IsFiniteSet(S)
    BY PolicyAssumption, FS_Subset
  <1>2. {u \in S \X (1 .. Capacity[k] + 1) : u[2] <= Need[u[1]][k]}
           = Units(S, NeedOf(k), Capacity[k] + 1)
    BY DEF Units, NeedOf
  <1>3. Used(S, k) = Cardinality(Units(S, NeedOf(k), Capacity[k] + 1))
    BY <1>2 DEF Used
  <1>4. Capacity[k] + 1 \in Nat
    BY <1>1
  <1> QED BY <1>1, <1>3, <1>4, UnitsFinite

LEMMA FitsMonotone ==
    ASSUME NEW S \in SUBSET Requests, Fits(S), NEW T \in SUBSET S
    PROVE  Fits(T)
  <1> SUFFICES ASSUME NEW k \in Kinds PROVE Used(T, k) <= Capacity[k]
    BY DEF Fits
  <1> DEFINE n == Capacity[k] + 1
             h == [x \in T |-> x]
  <1>1. /\ Used(S, k) = Cardinality(Units(S, NeedOf(k), n))
        /\ Used(T, k) = Cardinality(Units(T, NeedOf(k), n))
        /\ IsFiniteSet(S) /\ n \in Nat /\ Used(S, k) \in Nat /\ Used(T, k) \in Nat
    BY UsedUnits
  <1>2. Used(S, k) <= Capacity[k] /\ Capacity[k] \in Nat
    BY UsedUnits DEF Fits
  <1> HIDE DEF n
  <1>3. /\ h \in [T -> S] /\ \A x, y \in T : h[x] = h[y] => x = y
        /\ \A x \in T, i \in 1 .. n : i <= NeedOf(k)[x] => i <= NeedOf(k)[h[x]]
    OBVIOUS
  <1> HIDE DEF h
  <1>4. n <= n
    BY <1>1
  <1>5. Cardinality(Units(T, NeedOf(k), n)) <= Cardinality(Units(S, NeedOf(k), n))
    BY <1>1, <1>3, <1>4, UnitsMap
  <1> QED BY <1>1, <1>2, <1>5

\* What each lane is entitled to.
EntitledIn(s, c, k) == [l \in Lanes |-> IF s[l] # NoRequest THEN Need[s[l]][k]
                                        ELSE c[l].pages[k]]

LEMMA CommittedUnits ==
    ASSUME NEW L \in SUBSET Lanes, NEW c, NEW k
    PROVE  Committed(c, L, k) = Cardinality(Units(L, EntitledIn(slots, c, k), Capacity[k]))
  <1>1. {u \in L \X (1 .. Capacity[k]) :
             u[2] <= IF slots[u[1]] # NoRequest THEN Need[slots[u[1]]][k] ELSE c[u[1]].pages[k]}
           = Units(L, EntitledIn(slots, c, k), Capacity[k])
    BY DEF Units, EntitledIn
  <1> QED BY <1>1 DEF Committed

LEMMA CommittedUnitsNext ==
    ASSUME NEW k
    PROVE  Committed(cache, Lanes, k)'
             = Cardinality(Units(Lanes, EntitledIn(slots', cache', k), Capacity[k]))
  <1>1. {u \in Lanes \X (1 .. Capacity[k]) :
             u[2] <= IF slots'[u[1]] # NoRequest THEN Need[slots'[u[1]]][k]
                     ELSE cache'[u[1]].pages[k]}
           = Units(Lanes, EntitledIn(slots', cache', k), Capacity[k])
    BY DEF Units, EntitledIn
  <1> QED BY <1>1 DEF Committed

LEMMA LanesFinite ==
    ASSUME NEW L \in SUBSET Lanes
    PROVE  IsFiniteSet(L) /\ \A k \in PageKinds : k \in Kinds /\ Capacity[k] \in Nat
  <1>1. IsFiniteSet(Lanes)
    BY ExecutorAssumption, FS_Interval DEF Lanes
  <1> QED BY <1>1, FS_Subset, PolicyAssumption DEF PageKinds

\* Entitlements that do not grow leave the pages within the pools.
LEMMA PagesShrink ==
    ASSUME PagesHeld,
           \A k \in PageKinds, l \in Lanes :
              /\ EntitledIn(slots', cache', k)[l] \in Int
              /\ EntitledIn(slots, cache, k)[l] \in Int
              /\ EntitledIn(slots', cache', k)[l] <= EntitledIn(slots, cache, k)[l]
    PROVE  PagesHeld'
  <1> SUFFICES ASSUME NEW k \in PageKinds PROVE Committed(cache, Lanes, k)' <= Capacity[k]
    BY DEF PagesHeld
  <1> DEFINE n == Capacity[k]
             f == EntitledIn(slots', cache', k)
             g == EntitledIn(slots, cache, k)
             h == [x \in Lanes |-> x]
  <1>1. IsFiniteSet(Lanes) /\ n \in Nat
    BY LanesFinite
  <1>2. /\ Committed(cache, Lanes, k) = Cardinality(Units(Lanes, g, n))
        /\ Committed(cache, Lanes, k)' = Cardinality(Units(Lanes, f, n))
    BY CommittedUnits, CommittedUnitsNext
  <1>3. Committed(cache, Lanes, k) <= n
    BY DEF PagesHeld
  <1>4. \A x \in Lanes : f[x] \in Int /\ g[x] \in Int /\ f[x] <= g[x]
    OBVIOUS
  <1> HIDE DEF n, f, g
  <1>5. /\ h \in [Lanes -> Lanes] /\ \A x, y \in Lanes : h[x] = h[y] => x = y
        /\ \A x \in Lanes, i \in 1 .. n : i <= f[x] => i <= g[h[x]]
    BY <1>4
  <1> HIDE DEF h
  <1>6. n <= n
    BY <1>1
  <1>7. Cardinality(Units(Lanes, f, n)) <= Cardinality(Units(Lanes, g, n))
    BY <1>1, <1>5, <1>6, UnitsMap
  <1>8. Cardinality(Units(Lanes, f, n)) \in Nat /\ Cardinality(Units(Lanes, g, n)) \in Nat
    BY <1>1, UnitsFinite
  <1> QED BY <1>1, <1>2, <1>3, <1>7, <1>8 DEF n

LEMMA FitsAlone ==
    ASSUME NEW r \in Requests, Fits({r}), NEW k \in Kinds
    PROVE  Need[r][k] <= Capacity[k]
  <1> SUFFICES ASSUME ~(Need[r][k] <= Capacity[k]) PROVE FALSE
    OBVIOUS
  <1> DEFINE n == Capacity[k] + 1
             f == [x \in {r} |-> n]
             g == NeedOf(k)
             h == [x \in {r} |-> x]
  <1>0. {r} \in SUBSET Requests
    OBVIOUS
  <1>1. /\ Used({r}, k) = Cardinality(Units({r}, g, n))
        /\ Capacity[k] \in Nat /\ n \in Nat /\ Used({r}, k) \in Nat
    <2>1. \A S \in SUBSET Requests :
              /\ Used(S, k) = Cardinality(Units(S, NeedOf(k), Capacity[k] + 1))
              /\ Capacity[k] \in Nat /\ Used(S, k) \in Nat
      BY UsedUnits
    <2> QED BY <1>0, <2>1
  <1>2. Used({r}, k) <= Capacity[k]
    BY DEF Fits
  <1>3. Need[r][k] \in Nat /\ g[r] = Need[r][k]
    BY PolicyAssumption DEF NeedOf
  <1>4. IsFiniteSet({}) /\ Cardinality({}) = 0 /\ IsFiniteSet({r})
    BY FS_EmptySet, FS_Singleton
  <1>5. Cardinality(Units({r}, f, n)) = n
    <2>1. Units({}, f, n) = {}
      BY DEF Units
    <2>2. f[r] = n /\ r \notin {}
      OBVIOUS
    <2> HIDE DEF f, n
    <2>3. n <= n
      BY <1>1
    <2>4. Cardinality(Units({} \cup {r}, f, n)) = Cardinality(Units({}, f, n)) + f[r]
      BY <1>1, <1>4, <2>2, <2>3, UnitsAdd
    <2>5. {} \cup {r} = {r}
      OBVIOUS
    <2> QED BY <1>1, <1>4, <2>1, <2>2, <2>4, <2>5
  <1>6. /\ h \in [{r} -> {r}] /\ \A x, y \in {r} : h[x] = h[y] => x = y
        /\ \A x \in {r}, i \in 1 .. n : i <= f[x] => i <= g[h[x]]
    BY <1>1, <1>3
  <1>7. n <= n
    BY <1>1
  <1> HIDE DEF f, h, g
  <1>8. Cardinality(Units({r}, f, n)) <= Cardinality(Units({r}, g, n))
    BY <1>1, <1>4, <1>6, <1>7, UnitsMap
  <1> QED BY <1>1, <1>2, <1>5, <1>8

LEMMA UsedAdd ==
    ASSUME NEW S \in SUBSET Requests, NEW r \in Requests \ S, NEW k \in Kinds,
           Need[r][k] <= Capacity[k]
    PROVE  Used(S \cup {r}, k) = Used(S, k) + Need[r][k]
  <1> DEFINE n == Capacity[k] + 1
             g == NeedOf(k)
  <1>1. /\ Used(S, k) = Cardinality(Units(S, g, n))
        /\ IsFiniteSet(S) /\ Capacity[k] \in Nat /\ n \in Nat
    BY UsedUnits
  <1>2. Used(S \cup {r}, k) = Cardinality(Units(S \cup {r}, g, n))
    <2>1. S \cup {r} \in SUBSET Requests
      OBVIOUS
    <2> QED BY <2>1, UsedUnits
  <1>3. g[r] = Need[r][k] /\ g[r] \in Nat /\ g[r] <= n
    BY <1>1, PolicyAssumption DEF NeedOf
  <1> HIDE DEF g, n
  <1>4. Cardinality(Units(S \cup {r}, g, n)) = Cardinality(Units(S, g, n)) + g[r]
    BY <1>1, <1>3, UnitsAdd
  <1> QED BY <1>1, <1>2, <1>3, <1>4

Occupied == {l \in Lanes : slots[l] # NoRequest}

\* The requests in lanes have their lanes one to one.
LEMMA LaneRequests ==
    ASSUME IInv
    PROVE  /\ Active \subseteq Requests /\ IsFiniteSet(Active)
           /\ [l \in Occupied |-> slots[l]] \in [Occupied -> Active]
           /\ \A l, m \in Occupied : slots[l] = slots[m] => l = m
  <1>1. Active \subseteq Requests /\ IsFiniteSet(Active)
    BY QueueType, PolicyAssumption, FS_Subset
  <1>2. \A l \in Occupied : slots[l] \in Active
    BY DEF Occupied, Active
  <1>3. \A l, m \in Occupied : slots[l] = slots[m] => l = m
    BY DEF IInv, Placement, Occupied
  <1> QED BY <1>1, <1>2, <1>3

\* The active requests hold a lane each.
LEMMA LanesUsed ==
    ASSUME IInv
    PROVE  Cardinality(Occupied) <= Used(Active, "lanes")
  <1> DEFINE B == Units(Active, NeedOf("lanes"), Capacity["lanes"] + 1)
             e == [l \in Occupied |-> <<slots[l], 1>>]
  <1>1. Active \in SUBSET Requests /\ "lanes" \in Kinds
    BY LaneRequests, ExecutorAssumption
  <1>2. Used(Active, "lanes") = Cardinality(B) /\ IsFiniteSet(Active) /\ Capacity["lanes"] \in Nat
    BY <1>1, UsedUnits
  <1>3. IsFiniteSet(B)
    BY <1>2, UnitsFinite
  <1>4. \A l \in Occupied : slots[l] \in Active
    BY DEF Occupied, Active
  <1>5. ASSUME NEW l \in Occupied PROVE <<slots[l], 1>> \in B
    <2>1. slots[l] \in Active /\ Need[slots[l]]["lanes"] = 1 /\ slots[l] \in Requests
      BY <1>1, <1>4, ExecutorAssumption
    <2>2. 1 \in 1 .. Capacity["lanes"] + 1 /\ 1 <= NeedOf("lanes")[slots[l]]
      BY <1>2, <2>1 DEF NeedOf
    <2> QED BY <2>1, <2>2 DEF Units
  <1>6. e \in [Occupied -> B]
    BY <1>5
  <1>7. \A l, m \in Occupied : e[l] = e[m] => l = m
    BY LaneRequests
  <1>8. DOMAIN e = Occupied
    OBVIOUS
  <1> HIDE DEF e, B
  <1>9. e \in Injection(Occupied, B)
    BY <1>6, <1>7, <1>8, Zenon DEF Injection, IsInjective
  <1> QED BY <1>2, <1>3, <1>9, FS_Injection

\* When the requests in lanes and one more fit together, there is a lane for it.
LEMMA FreeLaneFits ==
    ASSUME IInv, CacheShape, NEW r \in Requests \ Active, Fits(Active \cup {r})
    PROVE  \E l \in Lanes : slots[l] = NoRequest /\ CanAdmitAfterEviction(l, r)
  <1>1. Active \in SUBSET Requests /\ IsFiniteSet(Active) /\ Active \cup {r} \in SUBSET Requests
    BY LaneRequests
  <1>2. Fits({r})
    <2>1. {r} \in SUBSET (Active \cup {r})
      OBVIOUS
    <2> QED BY <1>1, <2>1, FitsMonotone
  <1>3. \A k \in Kinds : /\ Used(Active, k) + Need[r][k] <= Capacity[k]
                         /\ Need[r][k] \in Nat /\ Need[r][k] <= Capacity[k]
                         /\ Used(Active, k) \in Nat /\ Capacity[k] \in Nat
    <2>1. ASSUME NEW k \in Kinds
          PROVE  /\ Used(Active, k) + Need[r][k] <= Capacity[k]
                 /\ Need[r][k] \in Nat /\ Need[r][k] <= Capacity[k]
                 /\ Used(Active, k) \in Nat /\ Capacity[k] \in Nat
      <3>1. Need[r][k] <= Capacity[k] /\ Need[r][k] \in Nat
        BY <1>2, FitsAlone, PolicyAssumption
      <3>2. Used(Active \cup {r}, k) = Used(Active, k) + Need[r][k]
        BY <1>1, <3>1, UsedAdd
      <3>3. Used(Active \cup {r}, k) <= Capacity[k]
        BY DEF Fits
      <3>4. Used(Active, k) \in Nat /\ Capacity[k] \in Nat
        BY <1>1, UsedUnits
      <3> QED BY <3>1, <3>2, <3>3, <3>4
    <2> QED BY <2>1
  <1>4. PICK l \in Lanes : slots[l] = NoRequest
    <2> SUFFICES ASSUME \A l \in Lanes : slots[l] # NoRequest PROVE FALSE
      OBVIOUS
    <2>1. Occupied = Lanes
      BY DEF Occupied
    <2>2. Cardinality(Lanes) = MaxConcurrency
      <3>1. \A m \in Nat \ {0} : Cardinality(0 .. m - 1) = m
        <4>1. ASSUME NEW m \in Nat \ {0} PROVE Cardinality(0 .. m - 1) = m
          <5>1. 0 \in Int /\ m - 1 \in Int
            OBVIOUS
          <5>2. Cardinality(0 .. m - 1) = IF 0 > m - 1 THEN 0 ELSE m - 1 - 0 + 1
            BY <5>1, FS_Interval, Zenon
          <5> QED BY <5>2
        <4> QED BY <4>1
      <3> QED BY <3>1, ExecutorAssumption DEF Lanes
    <2>3. Cardinality(Occupied) <= Used(Active, "lanes")
      BY LanesUsed
    <2>4. Need[r]["lanes"] = 1 /\ Capacity["lanes"] = MaxConcurrency /\ "lanes" \in Kinds
      BY ExecutorAssumption
    <2> QED BY <1>3, <2>1, <2>2, <2>3, <2>4
  <1> DEFINE c == Evicted(RetainedLanes \ {l})
  <1>5. ASSUME NEW k \in PageKinds
        PROVE  Need[r][k] <= Capacity[k] - Committed(c, Lanes \ {l}, k)
    <2> DEFINE f == EntitledIn(slots, c, k)
               n == Capacity[k]
               h == [x \in Occupied |-> slots[x]]
               g == NeedOf(k)
    <2>1. k \in Kinds /\ n \in Nat /\ n + 1 \in Nat /\ n <= n + 1
      BY <1>3 DEF PageKinds
    <2>2. Committed(c, Lanes \ {l}, k) = Cardinality(Units(Lanes \ {l}, f, n))
      BY CommittedUnits
    <2>3. \A x \in Lanes \ {l} : x \notin Occupied => f[x] = 0
      <3>1. ASSUME NEW x \in Lanes \ {l}, x \notin Occupied PROVE f[x] = 0
        <4>1. slots[x] = NoRequest
          BY <3>1 DEF Occupied
        <4>2. c[x].pages[k] = 0
          <5>1. CASE x \in RetainedLanes
            BY <5>1 DEF Evicted, Vacant
          <5>2. CASE x \notin RetainedLanes
            <6>1. cache[x] = Vacant
              BY <4>1, <5>2 DEF RetainedLanes, CacheShape
            <6> QED BY <5>2, <6>1 DEF Evicted, Vacant
          <5> QED BY <5>1, <5>2
        <4> QED BY <4>1, <4>2 DEF EntitledIn
      <3> QED BY <3>1
    <2>4. \A x \in Occupied : x \in Lanes \ {l} /\ f[x] = Need[slots[x]][k]
      BY <1>4 DEF Occupied, EntitledIn
    <2> HIDE DEF f, n, g, h
    <2>5. Units(Lanes \ {l}, f, n) = Units(Occupied, f, n)
      <3>1. ASSUME NEW u \in Units(Lanes \ {l}, f, n) PROVE u \in Units(Occupied, f, n)
        <4>1. u \in (Lanes \ {l}) \X (1 .. n) /\ u[2] <= f[u[1]]
          BY DEF Units
        <4>2. u[2] \in Nat /\ u[2] >= 1 /\ u[1] \in Lanes \ {l}
          BY <2>1, <4>1
        <4>3. u[1] \in Occupied
          BY <2>3, <4>1, <4>2
        <4> QED BY <4>1, <4>3 DEF Units
      <3>2. ASSUME NEW u \in Units(Occupied, f, n) PROVE u \in Units(Lanes \ {l}, f, n)
        BY <2>4 DEF Units
      <3> QED BY <3>1, <3>2
    <2>6. h \in [Occupied -> Active] /\ \A x, y \in Occupied : h[x] = h[y] => x = y
      BY LaneRequests DEF h
    <2>7. \A x \in Occupied, i \in 1 .. n : i <= f[x] => i <= g[h[x]]
      <3>1. \A x \in Occupied : h[x] \in Requests /\ h[x] = slots[x]
        BY <1>1, <2>6 DEF h
      <3> QED BY <2>4, <3>1 DEF g, NeedOf
    <2>8. Cardinality(Units(Occupied, f, n)) <= Cardinality(Units(Active, g, n + 1))
      BY <1>1, <2>1, <2>6, <2>7, UnitsMap
    <2>9. Used(Active, k) = Cardinality(Units(Active, g, n + 1))
      BY <1>1, <2>1, UsedUnits DEF g, n
    <2>10. /\ Used(Active, k) + Need[r][k] <= Capacity[k]
           /\ Need[r][k] \in Nat /\ Used(Active, k) \in Nat /\ Capacity[k] \in Nat
      BY <1>3, <2>1
    <2>11. Committed(c, Lanes \ {l}, k) \in Nat
      <3>1. IsFiniteSet(Lanes \ {l})
        BY LanesFinite
      <3> QED BY <2>1, <2>2, <3>1, UnitsFinite
    <2>12. Committed(c, Lanes \ {l}, k) <= Used(Active, k)
      BY <2>2, <2>5, <2>8, <2>9
    <2> QED BY <2>10, <2>11, <2>12
  <1>6. CanAdmitAfterEviction(l, r)
    BY <1>5 DEF CanAdmitAfterEviction, CanAdmit
  <1> QED BY <1>4, <1>6

\* The loop of admit_planned_request evicts enough.
LEMMA EvictionSuffices ==
    ASSUME CacheShape, NEW l \in Lanes, NEW r, CanAdmitAfterEviction(l, r)
    PROVE  CanAdmit(Evicted(LanesToEvict(l, r)), l, r)
  <1> DEFINE upTo(m) == {x \in RetainedLanes \ {l} : x <= m}
             enough == {m \in Lanes : CanAdmit(Evicted(upTo(m)), l, r)}
  <1>1. LanesToEvict(l, r) = IF CanAdmit(cache, l, r) THEN {}
                             ELSE IF enough = {} THEN RetainedLanes \ {l}
                             ELSE upTo(Min(enough))
    BY DEF LanesToEvict
  <1>2. Evicted({}) = cache
    BY DEF Evicted, CacheShape
  <1>3. enough # {} => Min(enough) \in enough
    <2>1. enough \subseteq Nat
      BY LaneNumbers
    <2> HIDE DEF enough
    <2> QED BY <2>1, LeastNumber
  <1>4. enough # {} => CanAdmit(Evicted(upTo(Min(enough))), l, r)
    BY <1>3
  <1> HIDE DEF upTo, enough
  <1> QED BY <1>1, <1>2, <1>4 DEF CanAdmitAfterEviction

-----------------------------------------------------------------------------
(***************************************************************************)
(* Frames: what a step that leaves parts of the state alone keeps.         *)
(***************************************************************************)

\* Nothing but the callers and the completion of requests moves.
LEMMA QuietFrame ==
    ASSUME IInv, AInv, UNCHANGED <<laneVars, policyVars, pending, at, bug>>,
           \A r \in Requests : Submitted(r) => Submitted(r)'
    PROVE  AInv'
  <1> USE DEF laneVars, policyVars
  <1>1. InQueue' = InQueue /\ Active' = Active /\ EpochOf' = EpochOf /\ ClassOf' = ClassOf
    BY DEF InQueue, Active, EpochOf, ClassOf
  <1>2. CacheShape'
    BY DEF AInv, CacheShape
  <1>3. (\A r \in Active : Projected(r))'
    BY <1>1 DEF AInv, Projected
  <1>4. PlansCurrent'
    <2>1. \A r \in InQueue', l \in Lanes :
              slots'[l] = NoRequest => plans'[r][l] \in {Stale, cache'[l].source}
      BY <1>1 DEF AInv, PlansCurrent
    <2>2. \A r \in Requests : ~Submitted(r)' => plans'[r] = NoPlans
      BY DEF AInv, PlansCurrent
    <2> QED BY <2>1, <2>2 DEF PlansCurrent, NoPlans
  <1>5. PagesHeld'
    BY DEF AInv, PagesHeld, Committed
  <1>6. Staging'
    BY DEF AInv, Staging
  <1>7. Admissible'
    BY DEF AInv, Admissible, CanAdmitAfterEviction, CanAdmit, Committed, Evicted, RetainedLanes
  <1>8. Frozen'
    <2>1. \A a \in Requests : Submitted(a) => Submitted(a)'
      OBVIOUS
    <2> SUFFICES ASSUME protection' # NoProtection
                 PROVE  /\ protection'.incumbents \subseteq Requests
                        /\ \A a \in protection'.incumbents : Submitted(a)' /\ a \notin InQueue'
                        /\ protection'.epoch < nextEpoch'
      BY DEF Frozen
    <2> QED BY <1>1, <2>1 DEF AInv, Frozen
  <1>9. Backfill'
    BY <1>1 DEF AInv, Backfill
  <1>10. HeadProtected'
    BY <1>1 DEF AInv, HeadProtected
  <1> QED BY <1>2, <1>3, <1>4, <1>5, <1>6, <1>7, <1>8, <1>9, <1>10 DEF AInv, NoInternalError

\* The lanes stay as they are while a request is chosen.
LEMMA SelectFrame ==
    ASSUME IInv, AInv, laneVars' = laneVars, bug' = bug, at.pc \in {"select", "admit"},
           at'.pc \in {"top", "decode", "select", "admit"}
    PROVE  /\ Active' = Active /\ EpochOf' = EpochOf /\ ClassOf' = ClassOf /\ Work' = Work
           /\ CacheShape' /\ (\A r \in Active : Projected(r))'
           /\ PagesHeld' /\ Staging' /\ NoInternalError'
  <1> USE DEF laneVars
  <1>1. Active' = Active /\ EpochOf' = EpochOf /\ ClassOf' = ClassOf /\ Work' = Work
    BY DEF Active, EpochOf, ClassOf, Work
  <1>2. CacheShape'
    BY DEF AInv, CacheShape
  <1>3. (\A r \in Active : Projected(r))'
    BY <1>1 DEF AInv, Projected
  <1>4. PagesHeld'
    BY DEF AInv, PagesHeld, Committed
  <1>5. Staging'
    BY LaneNumbers DEF AInv, Staging
  <1>6. NoInternalError'
    BY DEF AInv, NoInternalError
  <1> QED BY <1>1, <1>2, <1>3, <1>4, <1>5, <1>6

\* Plans are dropped, or made for the lanes as they are.
LEMMA PlansRefreshed ==
    ASSUME IInv, AInv, slots' = slots, cache' = cache, callerVars' = callerVars,
           InQueue' \subseteq InQueue,
           plans' \in [Requests -> [Lanes -> Sources \cup {Stale}]],
           \A r \in Requests : \/ plans'[r] = plans[r] \/ plans'[r] = NoPlans
                               \/ r \in InQueue /\ plans'[r] = LanePlans(r)
    PROVE  PlansCurrent'
  <1>1. ASSUME NEW r \in InQueue', NEW l \in Lanes, slots'[l] = NoRequest
        PROVE  plans'[r][l] \in {Stale, cache'[l].source}
    <2>1. r \in Requests /\ r \in InQueue
      BY QueueType
    <2>2. plans[r][l] \in {Stale, cache[l].source}
      BY <1>1, <2>1 DEF AInv, PlansCurrent
    <2>3. \/ plans'[r][l] = plans[r][l] \/ plans'[r][l] = Stale
          \/ plans'[r][l] = LanePlans(r)[l]
      BY <2>1 DEF NoPlans
    <2>4. LanePlans(r)[l] \in {Stale, cache[l].source}
      BY <2>2 DEF LanePlans
    <2> QED BY <2>2, <2>3, <2>4
  <1>2. ASSUME NEW r \in Requests, ~Submitted(r)' PROVE plans'[r] = NoPlans
    <2>1. ~Submitted(r)
      BY <1>2 DEF Submitted, callerVars
    <2>2. r \notin InQueue
      BY <2>1 DEF IInv, Placement
    <2>3. plans[r] = NoPlans
      BY <2>1 DEF AInv, PlansCurrent
    <2> QED BY <2>2, <2>3
  <1>3. NoPlans' = NoPlans
    BY DEF NoPlans
  <1> QED BY <1>1, <1>2, <1>3 DEF PlansCurrent

\* The plan made for a free lane is about the sequence the lane retains.
LEMMA PlanMade ==
    ASSUME IInv, AInv, NEW r \in InQueue, NEW l \in Lanes, slots[l] = NoRequest
    PROVE  LanePlans(r)[l] = cache[l].source
  BY DEF LanePlans, AInv, PlansCurrent

\* A protection that stays, or goes, keeps what it froze.
LEMMA FrozenKept ==
    ASSUME IInv, AInv, callerVars' = callerVars, nextEpoch' = nextEpoch,
           InQueue' \subseteq InQueue,
           \/ protection' = NoProtection
           \/ /\ protection'.incumbents = protection.incumbents
              /\ protection'.epoch = protection.epoch /\ protection # NoProtection
    PROVE  Frozen'
  <1>1. \A a \in Requests : Submitted(a)' <=> Submitted(a)
    BY DEF Submitted, callerVars
  <1>2. NoProtection' = NoProtection
    BY DEF NoProtection
  <1> SUFFICES ASSUME protection' # NoProtection
               PROVE  /\ protection'.incumbents \subseteq Requests
                      /\ \A a \in protection'.incumbents : Submitted(a)' /\ a \notin InQueue'
                      /\ protection'.epoch < nextEpoch'
    BY <1>2 DEF Frozen
  <1> QED BY <1>1 DEF AInv, Frozen

\* Requests that leave the lanes take nothing from the protected head.
LEMMA HeadKept ==
    ASSUME IInv, AInv, protection' = protection, Active' \subseteq Active,
           protection # NoProtection => pending' # <<>> /\ Head(pending') = Head(pending),
           \A a \in Active' : run'[a].epoch = run[a].epoch /\ run'[a].class = run[a].class
    PROVE  HeadProtected'
  <1> SUFFICES ASSUME protection # NoProtection
               PROVE  HeadProtected'
    BY DEF HeadProtected
  <1>1. Active \subseteq Requests /\ protection.head \in Requests
    BY QueueType DEF IInv, WorkerTypes, ProtectionShape
  <1> DEFINE S == {protection.head} \cup Survivors(protection, Active, EpochOf, ClassOf)
             T == {protection'.head} \cup Survivors(protection', Active', EpochOf', ClassOf')
  <1>2. S \in SUBSET Requests
    BY <1>1 DEF Survivors
  <1>3. T \in SUBSET S
    BY <1>1 DEF Survivors, EpochOf, ClassOf
  <1>4. Fits(S)
    BY DEF AInv, HeadProtected
  <1> HIDE DEF S, T
  <1>5. Fits(T)
    BY <1>2, <1>3, <1>4, FitsMonotone
  <1> USE DEF S, T
  <1>6. pending' # <<>> /\ Head(pending') = protection'.head
    BY DEF AInv, HeadProtected
  <1>7. \A a \in Active' : \/ a \in protection'.incumbents
                           \/ /\ run'[a].epoch = protection'.epoch
                              /\ run'[a].class \in {"persistent", "temporal"}
    BY DEF AInv, HeadProtected
  <1> QED BY <1>5, <1>6, <1>7 DEF HeadProtected

-----------------------------------------------------------------------------
(***************************************************************************)
(* The callers, the completion of requests, and fail_all.                  *)
(***************************************************************************)

LEMMA PushAdmission ==
    ASSUME IInv, AInv, IInv', NEW r \in Requests, Push(r), ~MustWithdraw
    PROVE  AInv'
  <1>1. /\ pending' = Append(pending, r) /\ UNCHANGED workerVars
        /\ caller' = [caller EXCEPT ![r] = "holding"] /\ caller[r] = "building"
    BY DEF Push
  <1> USE DEF workerVars, laneVars, policyVars
  <1>2. ~Submitted(r) /\ \A q \in Requests : Submitted(q) => Submitted(q)'
    BY <1>1 DEF Submitted, IInv, CallerTypes
  <1>3. pending \in Seq(Requests)
    BY DEF IInv, WorkerTypes
  <1>4. InQueue' = InQueue \cup {r}
    <2>1. /\ Len(pending) \in Nat /\ DOMAIN pending = 1 .. Len(pending)
          /\ DOMAIN pending' = 1 .. (Len(pending) + 1)
          /\ pending'[Len(pending) + 1] = r
          /\ \A i \in 1 .. Len(pending) : pending'[i] = pending[i]
      BY <1>1, <1>3
    <2>2. ASSUME NEW x \in InQueue' PROVE x \in InQueue \cup {r}
      <3>1. PICK i \in DOMAIN pending' : x = pending'[i]
        BY <2>2 DEF InQueue
      <3> QED BY <2>1, <3>1 DEF InQueue
    <2>3. ASSUME NEW x \in InQueue PROVE x \in InQueue'
      <3>1. PICK i \in DOMAIN pending : x = pending[i]
        BY <2>3 DEF InQueue
      <3>2. i \in DOMAIN pending' /\ x = pending'[i]
        BY <2>1, <3>1
      <3> QED BY <3>2 DEF InQueue
    <2>4. r \in InQueue'
      <3>1. Len(pending) + 1 \in DOMAIN pending'
        BY <2>1
      <3> QED BY <2>1, <3>1 DEF InQueue
    <2> QED BY <2>2, <2>3, <2>4
  <1>5. pending # <<>> => pending' # <<>> /\ Head(pending') = Head(pending)
    BY <1>1, <1>3
  <1>6. Active' = Active /\ EpochOf' = EpochOf /\ ClassOf' = ClassOf
    BY <1>1 DEF Active, EpochOf, ClassOf
  <1>7. CacheShape' /\ (\A q \in Active : Projected(q))' /\ PagesHeld' /\ Staging'
        /\ NoInternalError'
    BY <1>1, <1>6 DEF AInv, CacheShape, Projected, PagesHeld, Committed, Staging,
                      NoInternalError
  <1>8. PlansCurrent'
    <2>1. ASSUME NEW q \in InQueue', NEW l \in Lanes, slots'[l] = NoRequest
          PROVE  plans'[q][l] \in {Stale, cache'[l].source}
      <3>1. CASE q = r
        BY <1>1, <1>2, <3>1 DEF AInv, PlansCurrent, NoPlans
      <3>2. CASE q \in InQueue
        BY <1>1, <2>1, <3>2 DEF AInv, PlansCurrent
      <3> QED BY <1>4, <3>1, <3>2
    <2>2. \A q \in Requests : ~Submitted(q)' => plans'[q] = NoPlans
      BY <1>1, <1>2 DEF AInv, PlansCurrent
    <2> QED BY <2>1, <2>2 DEF PlansCurrent, NoPlans
  <1>9. Admissible'
    BY <1>1 DEF AInv, Admissible, CanAdmitAfterEviction, CanAdmit, Committed, Evicted,
                RetainedLanes
  <1>10. Frozen'
    <2> SUFFICES ASSUME protection' # NoProtection
                 PROVE  /\ protection'.incumbents \subseteq Requests
                        /\ \A a \in protection'.incumbents : Submitted(a)' /\ a \notin InQueue'
                        /\ protection'.epoch < nextEpoch'
      BY DEF Frozen
    <2> QED BY <1>1, <1>2, <1>4 DEF AInv, Frozen
  <1>11. Backfill'
    <2>1. at.pc = "admit" => at.req \in InQueue /\ pending # <<>>
      BY DEF IInv, WorkerPlace, InQueue
    <2> QED BY <1>1, <1>5, <1>6, <2>1 DEF AInv, Backfill
  <1>12. HeadProtected'
    BY <1>1, <1>5, <1>6 DEF AInv, HeadProtected
  <1> QED BY <1>7, <1>8, <1>9, <1>10, <1>11, <1>12 DEF AInv

LEMMA CallerAdmission ==
    ASSUME IInv, AInv, IInv', CallerStep
    PROVE  AInv'
  <1>1. CASE \E r \in Requests : Push(r) /\ ~MustWithdraw
    BY <1>1, PushAdmission
  <1>2. CASE ~\E r \in Requests : Push(r) /\ ~MustWithdraw
    <2>1. UNCHANGED <<laneVars, policyVars, pending, at, bug>>
      BY <1>2 DEF CallerStep, Reserve, Refuse, BuildFails, Push, Wait, Abandon, Poll, Cancel,
                  ReleaseConsumer, CallerFrees, Expire, Stop, workerVars
    <2>2. \A r \in Requests : Submitted(r) => Submitted(r)'
      <3>0. caller \in [Requests -> {"idle", "building", "holding", "waiting", "returning",
                                     "dropping", "freeing", "gone", "refused"}]
        BY DEF IInv, CallerTypes
      <3>1. CASE Stop
        BY <3>1 DEF Stop, Submitted
      <3>2. ASSUME NEW r \in Requests,
                   \/ Reserve(r) \/ Refuse(r) \/ BuildFails(r) \/ Push(r)
                   \/ Wait(r) \/ Abandon(r) \/ Poll(r) \/ Cancel(r)
                   \/ ReleaseConsumer(r) \/ CallerFrees(r) \/ Expire(r)
            PROVE  \A q \in Requests : Submitted(q) => Submitted(q)'
        <4>1. CASE Cancel(r) \/ Expire(r)
          BY <4>1 DEF Cancel, Expire, Submitted
        <4>2. CASE Reserve(r) \/ Refuse(r) \/ BuildFails(r) \/ Push(r)
          <5>1. \E v : caller' = [caller EXCEPT ![r] = v]
            BY <4>2 DEF Reserve, Refuse, BuildFails, Push
          <5>2. caller[r] \in {"idle", "building"}
            BY <4>2 DEF Reserve, Refuse, BuildFails, Push
          <5> QED BY <3>0, <5>1, <5>2 DEF Submitted
        <4>3. CASE Wait(r) \/ Abandon(r) \/ Poll(r) \/ ReleaseConsumer(r) \/ CallerFrees(r)
          <5>1. \E v \in {"waiting", "dropping", "returning", "freeing", "gone"} :
                    caller' = [caller EXCEPT ![r] = v]
            BY <4>3 DEF Wait, Abandon, Poll, ReleaseConsumer, CallerFrees
          <5> QED BY <3>0, <5>1 DEF Submitted
        <4> QED BY <3>2, <4>1, <4>2, <4>3
      <3> QED BY <3>1, <3>2 DEF CallerStep
    <2> QED BY <2>1, <2>2, QuietFrame
  <1> QED BY <1>1, <1>2

LEMMA CompleteAdmission ==
    ASSUME IInv, AInv, Complete
    PROVE  AInv'
  <1>1. UNCHANGED <<callerVars, laneVars, policyVars, pending, at, bug>>
    BY DEF Complete, SetDone, MarkCompleted, WorkerFrees
  <1>2. \A r \in Requests : Submitted(r) => Submitted(r)'
    BY <1>1 DEF Submitted, callerVars
  <1> QED BY <1>1, <1>2, QuietFrame

LEMMA StutterAdmission ==
    ASSUME IInv, AInv, vars' = vars
    PROVE  AInv'
  <1>1. UNCHANGED <<callerVars, laneVars, policyVars, pending, at, bug>>
    BY DEF vars
  <1>2. \A r \in Requests : Submitted(r) => Submitted(r)'
    BY <1>1 DEF Submitted, callerVars
  <1> QED BY <1>1, <1>2, QuietFrame

LEMMA FailAllAdmission ==
    ASSUME IInv, AInv, NEW outcome, FailAll(outcome, {}), bug' = bug
    PROVE  AInv'
  <1>1. /\ pending' = <<>> /\ prefillLane' = NoLane /\ protection' = NoProtection
        /\ slots' = [l \in Lanes |-> NoRequest] /\ at' = [pc |-> "stopped"]
        /\ callerVars' = callerVars /\ cache' = cache
        /\ \E S : plans' = Invalidated(plans, {}, S)
    BY DEF FailAll
  <1>2. InQueue' = {} /\ Active' = {}
    BY <1>1 DEF InQueue, Active
  <1>3. CacheShape'
    BY <1>1 DEF AInv, CacheShape
  <1>4. PlansCurrent'
    <2>1. \A r \in Requests : Submitted(r)' <=> Submitted(r)
      BY <1>1 DEF Submitted, callerVars
    <2>2. \A r \in Requests : plans[r] = NoPlans => plans'[r] = NoPlans
      BY <1>1 DEF Invalidated, NoPlans
    <2> QED BY <1>2, <2>1, <2>2 DEF AInv, PlansCurrent, NoPlans
  <1>5. PagesHeld'
    <2>1. ASSUME NEW k \in PageKinds, NEW l \in Lanes
          PROVE  /\ EntitledIn(slots', cache', k)[l] \in Int
                 /\ EntitledIn(slots, cache, k)[l] \in Int
                 /\ EntitledIn(slots', cache', k)[l] <= EntitledIn(slots, cache, k)[l]
      <3>1. EntitledIn(slots', cache', k)[l] = cache[l].pages[k] /\ cache[l].pages[k] \in Nat
        BY <1>1 DEF EntitledIn, AInv, CacheShape
      <3>2. CASE slots[l] = NoRequest
        BY <3>1, <3>2 DEF EntitledIn
      <3>3. CASE slots[l] # NoRequest
        <4>1. cache[l].pages[k] = 0
          BY <3>3 DEF AInv, CacheShape, Vacant
        <4>2. EntitledIn(slots, cache, k)[l] = Need[slots[l]][k] /\ slots[l] \in Requests
              /\ k \in Kinds
          BY <3>3 DEF EntitledIn, IInv, WorkerTypes, Sources, PageKinds
        <4>3. Need[slots[l]][k] \in Nat
          BY <4>2, PolicyAssumption
        <4> QED BY <3>1, <4>1, <4>2, <4>3
      <3> QED BY <3>2, <3>3
    <2>2. PagesHeld
      BY DEF AInv
    <2> QED BY <2>1, <2>2, PagesShrink
  <1>6. Staging'
    BY <1>1, LaneNumbers DEF Staging
  <1>7. at'.pc = "stopped"
    BY <1>1
  <1> QED BY <1>1, <1>2, <1>3, <1>4, <1>5, <1>6, <1>7
          DEF AInv, Admissible, Frozen, Backfill, HeadProtected, NoInternalError, NoProtection

-----------------------------------------------------------------------------
(***************************************************************************)
(* The boundary: requests leave the queue and the lanes.                   *)
(***************************************************************************)

LEMMA RetainingNothing ==
    ASSUME AInv
    PROVE  cache = Retaining(<<>>)
  BY DEF AInv, CacheShape, Retaining

\* Requests leave their lanes, which keep nothing or at most what they were entitled to.
LEMMA LeaveLanes ==
    ASSUME IInv, AInv, NEW S \in SUBSET Active, NEW T, NEW keep,
           slots' = Vacated(S), cache' = Retaining(keep), DOMAIN keep \subseteq S,
           \A r \in DOMAIN keep : keep[r] \in Keepable(r),
           plans' = Invalidated(plans, LanesOf(S), T),
           callerVars' = callerVars, InQueue' \subseteq InQueue
    PROVE  CacheShape' /\ PagesHeld' /\ PlansCurrent'
  <1>1. /\ \A r \in Active : r \in Requests
        /\ \A l \in Lanes : slots[l] \in Sources
        /\ \A r \in DOMAIN keep : r \in Active /\ r # NoRequest
    BY QueueType DEF Active, IInv, WorkerTypes
  <1>2. \A r \in DOMAIN keep, k \in PageKinds :
            keep[r] \in [PageKinds -> Nat] /\ keep[r][k] <= Need[r][k]
    <2>1. ASSUME NEW r \in DOMAIN keep, NEW k \in PageKinds
          PROVE  keep[r] \in [PageKinds -> Nat] /\ keep[r][k] <= Need[r][k]
      <3>1. PICK m : keep[r] \in [PageKinds -> 1 .. m]
        BY DEF Keepable
      <3>2. 1 .. m \subseteq Nat
        OBVIOUS
      <3> QED BY <3>1, <3>2 DEF Keepable
    <2> QED BY <2>1
  <1>3. \A l \in Lanes : slots[l] \in DOMAIN keep =>
            /\ cache'[l].source = slots[l] /\ cache'[l].pages = keep[slots[l]]
            /\ cache'[l] = [source |-> slots[l], pages |-> keep[slots[l]]]
            /\ slots'[l] = NoRequest
    BY DEF Retaining, Vacated
  <1>4. \A l \in Lanes : slots[l] \notin DOMAIN keep => cache'[l] = cache[l]
    BY DEF Retaining
  <1>5. \A l \in Lanes : slots'[l] = IF slots[l] \in S THEN NoRequest ELSE slots[l]
    BY DEF Vacated
  <1>6. CacheShape'
    <2>1. ASSUME NEW l \in Lanes
          PROVE  /\ cache'[l] \in [source : Sources, pages : [PageKinds -> Nat]]
                 /\ cache'[l].source = NoRequest \/ slots'[l] # NoRequest => cache'[l] = Vacant
      <3>1. CASE slots[l] \in DOMAIN keep
        <4>1. keep[slots[l]] \in [PageKinds -> Nat]
          <5>1. CASE PageKinds = {}
            <6>1. PICK m : keep[slots[l]] \in [PageKinds -> 1 .. m]
              BY <3>1 DEF Keepable
            <6> QED BY <5>1, <6>1
          <5>2. CASE PageKinds # {}
            BY <1>2, <3>1, <5>2
          <5> QED BY <5>1, <5>2
        <4>2. slots[l] \in Sources /\ slots[l] # NoRequest
          BY <1>1, <3>1
        <4>3. [source |-> slots[l], pages |-> keep[slots[l]]]
                 \in [source : Sources, pages : [PageKinds -> Nat]]
          BY <4>1, <4>2
        <4>4. cache'[l].source # NoRequest /\ slots'[l] = NoRequest
          BY <1>3, <3>1, <4>2
        <4>5. cache'[l] = [source |-> slots[l], pages |-> keep[slots[l]]]
          BY <1>3, <3>1
        <4> QED BY <4>3, <4>4, <4>5
      <3>2. CASE slots[l] \notin DOMAIN keep
        <4>1. cache[l].source = NoRequest \/ slots[l] # NoRequest => cache[l] = Vacant
          BY DEF AInv, CacheShape
        <4>2. cache[l] \in [source : Sources, pages : [PageKinds -> Nat]]
          BY DEF AInv, CacheShape
        <4>3. slots'[l] # NoRequest => slots[l] # NoRequest
          BY <1>5
        <4> QED BY <1>4, <3>2, <4>1, <4>2, <4>3
      <3> QED BY <3>1, <3>2
    <2>2. cache' \in [Lanes -> [source : Sources, pages : [PageKinds -> Nat]]]
      <3>1. cache' = [l \in Lanes |-> cache'[l]]
        BY DEF Retaining
      <3> QED BY <2>1, <3>1
    <2>3. Vacant' = Vacant
      BY DEF Vacant
    <2> QED BY <2>1, <2>2, <2>3 DEF CacheShape
  <1>7. PagesHeld'
    <2>1. ASSUME NEW k \in PageKinds, NEW l \in Lanes
          PROVE  /\ EntitledIn(slots', cache', k)[l] \in Int
                 /\ EntitledIn(slots, cache, k)[l] \in Int
                 /\ EntitledIn(slots', cache', k)[l] <= EntitledIn(slots, cache, k)[l]
      <3>1. \A r \in Requests : Need[r][k] \in Nat
        BY PolicyAssumption DEF PageKinds
      <3>2. cache[l].pages[k] \in Nat /\ cache'[l].pages[k] \in Nat
        BY <1>6 DEF AInv, CacheShape
      <3>3. CASE slots[l] = NoRequest
        <4>1. slots'[l] = NoRequest /\ slots[l] \notin DOMAIN keep
          BY <1>1, <1>5, <3>3
        <4> QED BY <1>4, <3>2, <3>3, <4>1 DEF EntitledIn
      <3>4. CASE slots[l] # NoRequest /\ slots[l] \notin S
        BY <1>1, <1>5, <3>1, <3>4 DEF EntitledIn, Sources
      <3>5. CASE slots[l] \in DOMAIN keep
        <4>1. slots[l] # NoRequest /\ slots[l] \in Requests
          BY <1>1, <3>5
        <4>2. cache'[l].pages[k] <= Need[slots[l]][k] /\ slots'[l] = NoRequest
          BY <1>2, <1>3, <3>5
        <4> QED BY <3>1, <3>2, <4>1, <4>2 DEF EntitledIn
      <3>6. CASE slots[l] \in S /\ slots[l] \notin DOMAIN keep /\ slots[l] # NoRequest
        <4>1. cache'[l].pages[k] = 0
          BY <1>4, <3>6 DEF AInv, CacheShape, Vacant
        <4>2. slots[l] \in Requests /\ slots'[l] = NoRequest
          BY <1>1, <1>5, <3>6 DEF Sources
        <4> QED BY <3>1, <3>6, <4>1, <4>2 DEF EntitledIn
      <3> QED BY <3>3, <3>4, <3>5, <3>6
    <2>2. PagesHeld
      BY DEF AInv
    <2> QED BY <2>1, <2>2, PagesShrink
  <1>8. PlansCurrent'
    <2>1. ASSUME NEW r \in InQueue', NEW l \in Lanes, slots'[l] = NoRequest
          PROVE  plans'[r][l] \in {Stale, cache'[l].source}
      <3>1. r \in InQueue /\ r \in Requests
        BY QueueType
      <3>2. plans'[r][l] = IF l \in LanesOf(S) \/ r \in T THEN Stale ELSE plans[r][l]
        BY <3>1 DEF Invalidated
      <3>3. l \notin LanesOf(S) => slots[l] = NoRequest /\ cache'[l] = cache[l]
        BY <1>1, <1>4, <1>5, <2>1 DEF LanesOf
      <3> QED BY <3>1, <3>2, <3>3 DEF AInv, PlansCurrent
    <2>2. ASSUME NEW r \in Requests, ~Submitted(r)' PROVE plans'[r] = NoPlans
      <3>1. ~Submitted(r)
        BY <2>2 DEF Submitted, callerVars
      <3>2. plans[r] = NoPlans
        BY <3>1 DEF AInv, PlansCurrent
      <3> QED BY <3>2 DEF Invalidated, NoPlans
    <2>3. NoPlans' = NoPlans
      BY DEF NoPlans
    <2> QED BY <2>1, <2>2, <2>3 DEF PlansCurrent
  <1> QED BY <1>6, <1>7, <1>8

LEMMA BoundaryAdmission ==
    ASSUME IInv, AInv, IInv', Boundary
    PROVE  AInv'
  <1> DEFINE aborted == {r \in Active : cancelled[r]}
             members == {r \in Active \ aborted : run[r].ready}
             owner == OwnerWithout(aborted)
             gone == Overdue \cup aborted
  <1>1. /\ at.pc = "top"
        /\ pending' = Without(pending, Overdue)
        /\ protection' = ProtectionWithout(Overdue)
        /\ slots' = Vacated(aborted)
        /\ run' = Stopped(aborted)
        /\ prefillLane' = owner
        /\ plans' = Invalidated(plans, LanesOf(aborted), gone)
        /\ at' = NextUnit(members, owner, pending' # <<>>)
        /\ callerVars' = callerVars /\ cache' = cache /\ nextEpoch' = nextEpoch
        /\ failed' = failed /\ prevDecode' = prevDecode /\ bug' = bug
    BY DEF Boundary
  <1>2. aborted \in SUBSET Active /\ aborted \in SUBSET Requests
    BY QueueType
  <1>3. /\ InQueue' = InQueue \ Overdue
        /\ pending # <<>> /\ Head(pending) \notin Overdue
                => pending' # <<>> /\ Head(pending') = Head(pending)
    BY <1>1, WithoutFacts
  <1>4. /\ Active' = Active \ aborted
        /\ \A l \in Lanes : slots[l] \notin aborted => slots'[l] = slots[l]
        /\ \A l \in Lanes : slots[l] \in aborted => slots'[l] = NoRequest
    BY <1>1, <1>2, VacatedFacts DEF Vacated
  <1>5. /\ at'.pc # "admit" /\ (at'.pc = "step" => at'.lane = owner)
        /\ at'.pc = "select" => owner = NoLane
    <2>1. prevDecode \in BOOLEAN /\ (pending' # <<>>) \in BOOLEAN
      BY DEF IInv, WorkerTypes
    <2> HIDE DEF members, owner
    <2> QED BY <1>1, <2>1 DEF NextUnit
  <1>6. \A r \in Active' : r \in Active /\ r \in Requests /\ run'[r] = run[r]
    BY <1>1, <1>4, QueueType DEF Stopped
  <1>7. CacheShape' /\ PagesHeld' /\ PlansCurrent'
    <2>1. cache' = Retaining(<<>>) /\ DOMAIN <<>> \subseteq aborted
          /\ \A r \in DOMAIN <<>> : <<>>[r] \in Keepable(r)
      BY <1>1, RetainingNothing
    <2>2. InQueue' \subseteq InQueue
      BY <1>3
    <2> HIDE DEF aborted, gone
    <2> QED BY <1>1, <1>2, <2>1, <2>2, LeaveLanes
  <1>8. (\A r \in Active : Projected(r))'
    BY <1>6 DEF AInv, Projected
  <1>9. Staging'
    <2>1. owner # NoLane => owner = prefillLane /\ owner \in Lanes /\ slots[owner] \notin aborted
      <3> HIDE DEF aborted
      <3> QED BY OwnerAfter
    <2>2. owner = NoLane => \/ prefillLane = NoLane
                            \/ prefillLane \in Lanes /\ slots[prefillLane] \in aborted
      BY DEF OwnerWithout, LanesOf
    <2>3. ASSUME NEW l \in Lanes
          PROVE  slots'[l] # NoRequest /\ ~run'[slots'[l]].ready
                    <=> l = prefillLane' \/ (at'.pc = "step" /\ at'.lane = l)
      <3>1. slots[l] # NoRequest /\ ~run[slots[l]].ready <=> l = prefillLane
        BY <1>1 DEF AInv, Staging
      <3>2. at'.pc = "step" => at'.lane = prefillLane'
        BY <1>1, <1>5
      <3>3. CASE slots[l] \in aborted
        <4>1. slots'[l] = NoRequest /\ l # owner
          BY <1>4, <2>1, <3>3, LaneNumbers
        <4> QED BY <1>1, <3>2, <4>1
      <3>4. CASE slots[l] \notin aborted
        <4>1. slots'[l] = slots[l]
          BY <1>4, <3>4
        <4>2. slots[l] # NoRequest => run'[slots[l]] = run[slots[l]]
          <5>1. slots[l] # NoRequest => slots[l] \in Active'
            BY <4>1 DEF Active
          <5> QED BY <1>6, <5>1
        <4>3. l = prefillLane <=> l = owner
          BY <2>1, <2>2, <3>4, LaneNumbers
        <4> QED BY <1>1, <3>1, <3>2, <4>1, <4>2, <4>3
      <3> QED BY <3>3, <3>4
    <2> QED BY <1>1, <1>5, <2>3 DEF Staging
  <1> HIDE DEF aborted, members, owner, gone
  <1>10. Frozen'
    <2>1. \/ protection' = NoProtection \/ protection' = protection
      BY <1>1 DEF ProtectionWithout
    <2>2. InQueue' \subseteq InQueue
      BY <1>3
    <2> QED BY <1>1, <2>1, <2>2, FrozenKept
  <1>11. HeadProtected'
    <2>1. CASE protection' = NoProtection
      BY <2>1 DEF HeadProtected, NoProtection
    <2>2. CASE protection' # NoProtection
      <3>1. protection' = protection /\ protection.head \notin Overdue
        BY <1>1, <2>2 DEF ProtectionWithout
      <3>2. pending # <<>> /\ Head(pending) = protection.head
        BY <2>2, <3>1 DEF AInv, HeadProtected
      <3>3. pending' # <<>> /\ Head(pending') = Head(pending)
        BY <1>3, <3>1, <3>2
      <3> QED BY <1>4, <1>6, <3>1, <3>3, HeadKept
    <2> QED BY <2>1, <2>2
  <1> QED BY <1>1, <1>5, <1>7, <1>8, <1>9, <1>10, <1>11
          DEF AInv, Admissible, Backfill, NoInternalError

-----------------------------------------------------------------------------
(***************************************************************************)
(* The GPU units.                                                          *)
(***************************************************************************)

\* A unit ends the requests of S and leaves the others with what they may still do.
LEMMA UnitAdmission ==
    ASSUME IInv, AInv, NEW S \in SUBSET Active, NEW T, NEW keep,
           slots' = Vacated(S), cache' = Retaining(keep), DOMAIN keep \subseteq S,
           \A r \in DOMAIN keep : keep[r] \in Keepable(r),
           plans' = Invalidated(plans, LanesOf(S), T),
           UNCHANGED <<callerVars, pending, protection, nextEpoch, bug>>,
           at' = [pc |-> "top"],
           \A a \in Active \ S : run'[a].epoch = run[a].epoch /\ run'[a].class = run[a].class,
           \A a \in Active \ S : Projected(a)',
           Staging'
    PROVE  AInv'
  <1>1. InQueue' = InQueue
    BY DEF InQueue
  <1>2. CacheShape' /\ PagesHeld' /\ PlansCurrent'
    BY <1>1, LeaveLanes
  <1>3. Active' = Active \ S
    <2>1. S \in SUBSET Requests
      BY QueueType
    <2> QED BY <2>1, VacatedFacts
  <1>4. (\A r \in Active : Projected(r))'
    BY <1>3
  <1>5. Frozen'
    BY <1>1, FrozenKept
  <1>6. HeadProtected'
    <2>1. protection # NoProtection => pending' # <<>> /\ Head(pending') = Head(pending)
      BY DEF AInv, HeadProtected
    <2>2. Active' \subseteq Active
      BY <1>3
    <2> QED BY <1>3, <2>1, <2>2, HeadKept
  <1> QED BY <1>2, <1>4, <1>5, <1>6 DEF AInv, Admissible, Backfill, NoInternalError

\* The lanes after a unit: only the owner of the staged prefill cannot decode.
LEMMA StagingAfter ==
    ASSUME IInv, AInv, NEW S \in SUBSET Active, slots' = Vacated(S),
           prefillLane' = OwnerWithout(S), at' = [pc |-> "top"],
           \A a \in Active \ S : run'[a].ready = run[a].ready,
           at.pc = "step" => slots[at.lane] \in S \/ at.lane = prefillLane
    PROVE  Staging'
  <1>1. \A l \in Lanes : slots'[l] = IF slots[l] \in S THEN NoRequest ELSE slots[l]
    BY DEF Vacated
  <1>2. OwnerWithout(S) # NoLane =>
            /\ OwnerWithout(S) = prefillLane /\ prefillLane \in Lanes
            /\ slots[prefillLane] \notin S
    BY OwnerAfter
  <1>3. OwnerWithout(S) = NoLane =>
            prefillLane = NoLane \/ (prefillLane \in Lanes /\ slots[prefillLane] \in S)
    BY DEF OwnerWithout, LanesOf
  <1>4. ASSUME NEW l \in Lanes
        PROVE  slots'[l] # NoRequest /\ ~run'[slots'[l]].ready <=> l = prefillLane'
    <2>1. slots[l] # NoRequest /\ ~run[slots[l]].ready
             <=> l = prefillLane \/ (at.pc = "step" /\ at.lane = l)
      BY DEF AInv, Staging
    <2>2. CASE slots[l] \in S
      BY <1>1, <1>2, <2>2, LaneNumbers
    <2>3. CASE slots[l] \notin S
      <3>1. slots'[l] = slots[l]
        BY <1>1, <2>3
      <3>2. slots[l] # NoRequest => run'[slots[l]].ready = run[slots[l]].ready
        BY <2>3 DEF Active
      <3>3. l = prefillLane <=> l = OwnerWithout(S)
        BY <1>2, <1>3, <2>3, LaneNumbers
      <3>4. at.pc = "step" /\ at.lane = l => l = prefillLane
        BY <2>3
      <3> QED BY <2>1, <3>1, <3>2, <3>3, <3>4
    <2> QED BY <2>2, <2>3
  <1>5. at'.pc = "top"
    OBVIOUS
  <1> QED BY <1>4, <1>5 DEF Staging

\* The request in its step: it cannot decode yet, and its work covers its output.
LEMMA InStep ==
    ASSUME IInv, AInv, at.pc = "step"
    PROVE  LET r == slots[at.lane]
           IN  /\ at.lane \in Lanes /\ r \in Requests /\ r \in Active /\ ~run[r].ready
               /\ run[r] \in RunRecord /\ run[r].budget = OutTokens[r]
               /\ run[r].work >= run[r].budget /\ run[r].work > 0
               /\ run[r].work \in Int /\ run[r].budget \in Int /\ run[r].budget > 0
               /\ LanesOf({r}) = {at.lane}
               /\ {r} \in SUBSET Active
  <1> DEFINE r == slots[at.lane]
  <1>1. at.lane \in Lanes /\ r \in Requests /\ r \in Active
    BY AtStep
  <1>2. ~run[r].ready
    BY <1>1 DEF AInv, Staging
  <1>3. Projected(r) /\ run[r] \in RunRecord
    BY <1>1 DEF AInv, IInv, WorkerTypes
  <1>4. run[r].work \in Int /\ run[r].budget \in Int
    BY <1>3 DEF RunRecord
  <1>5. /\ run[r].budget = OutTokens[r] /\ run[r].budget > 0
        /\ run[r].work >= run[r].budget
    BY <1>2, <1>3 DEF Projected
  <1>6. LanesOf({r}) = {at.lane}
    <2>1. r # NoRequest
      BY <1>1 DEF Active
    <2> QED BY <1>1, <2>1 DEF LanesOf, IInv, Placement
  <1> HIDE DEF r
  <1>7. run[r].work > 0
    BY <1>4, <1>5
  <1>8. {r} \in SUBSET Active
    BY <1>1
  <1> QED BY <1>1, <1>2, <1>3, <1>4, <1>5, <1>6, <1>7, <1>8 DEF r

LEMMA StepCancelledAdmission ==
    ASSUME IInv, AInv, StepCancelled
    PROVE  AInv'
  <1> DEFINE r == slots[at.lane]
  <1>1. at.pc = "step"
    BY DEF StepCancelled
  <1>2. /\ at.lane \in Lanes /\ r \in Requests /\ r \in Active /\ run[r].work > 0
        /\ LanesOf({r}) = {at.lane} /\ {r} \in SUBSET Active /\ run[r].work \in Int
    BY <1>1, InStep
  <1>3. run[r].work # 0
    BY <1>2
  <1>4. /\ slots' = Vacated({r}) /\ run' = Stopped({r}) /\ prefillLane' = OwnerWithout({r})
        /\ plans' = Invalidated(plans, {at.lane}, {r})
        /\ at' = [pc |-> "top"]
        /\ UNCHANGED <<callerVars, cache, protection, nextEpoch, pending, bug>>
    BY <1>3 DEF StepCancelled
  <1> HIDE DEF r
  <1>5. \A a \in Active \ {r} : run'[a] = run[a]
    BY <1>4, QueueType DEF Stopped
  <1>6. Staging'
    BY <1>2, <1>4, <1>5, StagingAfter DEF r
  <1>7. cache' = Retaining(<<>>) /\ DOMAIN <<>> \subseteq {r}
        /\ \A q \in DOMAIN <<>> : <<>>[q] \in Keepable(q)
    BY <1>4, RetainingNothing
  <1>8. \A a \in Active \ {r} : Projected(a)'
    BY <1>5 DEF AInv, Projected
  <1>9. plans' = Invalidated(plans, LanesOf({r}), {r})
    BY <1>2, <1>4
  <1> QED BY <1>2, <1>4, <1>5, <1>6, <1>7, <1>8, <1>9, UnitAdmission

\* A unit that ends nobody.
LEMMA NobodyLeaves ==
    ASSUME IInv, AInv, slots' = slots, cache' = cache, plans' = plans
    PROVE  /\ slots' = Vacated({}) /\ cache' = Retaining(<<>>)
           /\ plans' = Invalidated(plans, LanesOf({}), {})
           /\ DOMAIN <<>> \subseteq {} /\ \A q \in DOMAIN <<>> : <<>>[q] \in Keepable(q)
           /\ {} \in SUBSET Active
  <1>1. slots' = Vacated({})
    BY DEF Vacated, IInv, WorkerTypes
  <1>2. plans' = Invalidated(plans, LanesOf({}), {})
    <2>1. plans \in [Requests -> [Lanes -> Sources \cup {Stale}]]
      BY DEF IInv, WorkerTypes
    <2>2. LanesOf({}) = {}
      BY DEF LanesOf
    <2>3. \A r \in Requests : plans[r] = [l \in Lanes |-> IF l \in {} \/ r \in {} THEN Stale
                                                       ELSE plans[r][l]]
      BY <2>1
    <2>4. plans = [r \in Requests |-> plans[r]]
      BY <2>1
    <2> QED BY <2>2, <2>3, <2>4 DEF Invalidated
  <1> QED BY <1>1, <1>2, RetainingNothing

LEMMA StepPartialAdmission ==
    ASSUME IInv, AInv, StepPartial
    PROVE  AInv'
  <1> DEFINE r == slots[at.lane]
  <1>1. /\ at.pc = "step" /\ at.lane = prefillLane /\ run[r].work > OutTokens[r]
        /\ run' = [run EXCEPT ![r] = [run[r] EXCEPT !.work = @ - 1]]
        /\ at' = [pc |-> "top"]
        /\ UNCHANGED <<callerVars, slots, prefillLane, cache, policyVars, pending, bug>>
    BY DEF StepPartial
  <1>2. /\ at.lane \in Lanes /\ r \in Requests /\ r \in Active /\ run[r].work \in Int
        /\ run[r] \in RunRecord /\ run[r].budget = OutTokens[r] /\ run[r].budget \in Int
        /\ run[r].budget > 0 /\ ~run[r].ready
    BY <1>1, InStep
  <1> HIDE DEF r
  <1> DEFINE y == [run[r] EXCEPT !.work = @ - 1]
  <1>3. /\ y.ready = run[r].ready /\ y.work = run[r].work - 1 /\ y.budget = run[r].budget
        /\ y.class = run[r].class /\ y.epoch = run[r].epoch
    <2>1. run[r] \in RunRecord /\ 1 \in Int
      BY <1>2
    <2> QED BY <2>1, RunUpdateFacts
  <1>4. run' = [run EXCEPT ![r] = y]
    BY <1>1
  <1> HIDE DEF y
  <1>5. run \in [Requests -> RunRecord] /\ Active \subseteq Requests
    BY QueueType DEF IInv, WorkerTypes
  <1>6. run'[r] = y /\ \A a \in Active : a # r => run'[a] = run[a]
    BY <1>2, <1>4, <1>5
  <1>7. ASSUME NEW a \in Active
        PROVE  /\ run'[a].ready = run[a].ready /\ run'[a].epoch = run[a].epoch
               /\ run'[a].class = run[a].class /\ Projected(a)'
    <2>1. CASE a = r
      <3>1. run'[a].budget > 0 /\ run'[a].work >= run'[a].budget /\ run'[a].budget = OutTokens[a]
        BY <1>1, <1>2, <1>3, <1>6, <2>1 DEF r
      <3> QED BY <1>3, <1>6, <2>1, <3>1 DEF Projected
    <2>2. CASE a # r
      BY <1>6, <2>2 DEF AInv, Projected
    <2> QED BY <2>1, <2>2
  <1>8. /\ slots' = Vacated({}) /\ cache' = Retaining(<<>>)
        /\ plans' = Invalidated(plans, LanesOf({}), {})
        /\ DOMAIN <<>> \subseteq {} /\ \A q \in DOMAIN <<>> : <<>>[q] \in Keepable(q)
        /\ {} \in SUBSET Active
    BY <1>1, NobodyLeaves DEF policyVars
  <1>9. prefillLane' = OwnerWithout({})
    BY <1>1 DEF OwnerWithout, LanesOf
  <1>10. Staging'
    BY <1>1, <1>7, <1>8, <1>9, StagingAfter
  <1>11. UNCHANGED <<callerVars, pending, protection, nextEpoch, bug>>
    BY <1>1 DEF policyVars
  <1> QED BY <1>1, <1>7, <1>8, <1>10, <1>11, UnitAdmission

LEMMA StepCompleteAdmission ==
    ASSUME IInv, AInv, NEW stop \in BOOLEAN, StepComplete(stop)
    PROVE  AInv'
  <1> DEFINE r == slots[at.lane]
             finished == stop \/ run[r].budget = 1
  <1>1. at.pc = "step"
    BY DEF StepComplete
  <1>2. /\ at.lane \in Lanes /\ r \in Requests /\ r \in Active /\ run[r].work \in Int
        /\ run[r] \in RunRecord /\ run[r].budget \in Int /\ run[r].budget > 0
        /\ run[r].work >= run[r].budget /\ LanesOf({r}) = {at.lane} /\ {r} \in SUBSET Active
    BY <1>1, InStep
  <1>3. run[r].work # 0
    BY <1>2
  <1>4. CASE finished
    <2>1. /\ slots' = Vacated({r}) /\ run' = Stopped({r}) /\ prefillLane' = OwnerWithout({r})
          /\ \E pages \in Keepable(r) : cache' = Retaining([q \in {r} |-> pages])
          /\ plans' = Invalidated(plans, {at.lane}, {r})
          /\ at' = [pc |-> "top"]
          /\ UNCHANGED <<callerVars, protection, nextEpoch, pending, bug>>
      BY <1>3, <1>4 DEF StepComplete
    <2> HIDE DEF r
    <2>2. \A a \in Active \ {r} : run'[a] = run[a]
      BY <2>1, QueueType DEF Stopped
    <2>3. Staging'
      BY <1>2, <2>1, <2>2, StagingAfter DEF r
    <2>4. PICK pages \in Keepable(r) : cache' = Retaining([q \in {r} |-> pages])
      BY <2>1
    <2> DEFINE keep == [q \in {r} |-> pages]
    <2>5. /\ DOMAIN keep \subseteq {r} /\ \A q \in DOMAIN keep : keep[q] \in Keepable(q)
          /\ cache' = Retaining(keep)
      BY <2>4
    <2> HIDE DEF keep
    <2>6. \A a \in Active \ {r} : Projected(a)'
      BY <2>2 DEF AInv, Projected
    <2>7. plans' = Invalidated(plans, LanesOf({r}), {r})
      BY <1>2, <2>1
    <2> QED BY <1>2, <2>1, <2>2, <2>3, <2>5, <2>6, <2>7, UnitAdmission
  <1>5. CASE ~finished
    <2>1. /\ prefillLane' = OwnerWithout({r})
          /\ run' = [run EXCEPT ![r] = [run[r] EXCEPT !.work = @ - 1, !.budget = @ - 1,
                                                      !.ready = TRUE]]
          /\ slots' = slots /\ cache' = cache /\ plans' = plans
          /\ at' = [pc |-> "top"]
          /\ UNCHANGED <<callerVars, protection, nextEpoch, pending, bug>>
      BY <1>3, <1>5 DEF StepComplete
    <2>2. run[r].budget # 1
      BY <1>5
    <2> HIDE DEF r, finished
    <2> DEFINE y == [run[r] EXCEPT !.work = @ - 1, !.budget = @ - 1, !.ready = TRUE]
    <2>3. /\ y.ready = TRUE /\ y.work = run[r].work - 1 /\ y.budget = run[r].budget - 1
          /\ y.class = run[r].class /\ y.epoch = run[r].epoch
      <3>1. run[r] \in RunRecord /\ 1 \in Int
        BY <1>2
      <3> QED BY <3>1, RunUpdateFacts
    <2>4. run' = [run EXCEPT ![r] = y]
      BY <2>1
    <2> HIDE DEF y
    <2>5. run \in [Requests -> RunRecord] /\ Active \subseteq Requests
      BY QueueType DEF IInv, WorkerTypes
    <2>6. run'[r] = y /\ \A a \in Active : a # r => run'[a] = run[a]
      BY <1>2, <2>4, <2>5
    <2>7. ASSUME NEW a \in Active
          PROVE  /\ run'[a].epoch = run[a].epoch /\ run'[a].class = run[a].class
                 /\ Projected(a)'
      <3>1. CASE a = r
        <4>1. run'[a].budget > 0 /\ run'[a].work >= run'[a].budget /\ run'[a].ready = TRUE
          BY <1>2, <2>2, <2>3, <2>6, <3>1
        <4> QED BY <2>3, <2>6, <3>1, <4>1 DEF Projected
      <3>2. CASE a # r
        BY <2>6, <3>2 DEF AInv, Projected
      <3> QED BY <3>1, <3>2
    <2>8. /\ slots' = Vacated({}) /\ cache' = Retaining(<<>>)
          /\ plans' = Invalidated(plans, LanesOf({}), {})
          /\ DOMAIN <<>> \subseteq {} /\ \A q \in DOMAIN <<>> : <<>>[q] \in Keepable(q)
          /\ {} \in SUBSET Active
      BY <2>1, NobodyLeaves
    <2>9. Staging'
      <3>1. ASSUME NEW l \in Lanes
            PROVE  slots'[l] # NoRequest /\ ~run'[slots'[l]].ready <=> l = prefillLane'
        <4>1. slots[l] # NoRequest /\ ~run[slots[l]].ready
                 <=> l = prefillLane \/ at.lane = l
          BY <1>1 DEF AInv, Staging
        <4>2. l = prefillLane' <=> l = prefillLane /\ l # at.lane
          BY <1>2, <2>1, LaneNumbers DEF OwnerWithout
        <4>3. CASE l = at.lane
          <5>1. slots'[l] = r /\ run'[r].ready
            BY <2>1, <2>3, <2>6, <4>3 DEF r
          <5> QED BY <4>2, <4>3, <5>1
        <4>4. CASE l # at.lane
          <5>1. slots[l] # r
            <6>1. l \notin LanesOf({r})
              BY <1>2, <4>4
            <6> QED BY <6>1 DEF LanesOf
          <5>2. slots[l] # NoRequest => slots[l] \in Active
            BY DEF Active
          <5> QED BY <2>1, <2>6, <4>1, <4>2, <4>4, <5>1, <5>2
        <4> QED BY <4>3, <4>4
      <3>2. at'.pc = "top"
        BY <2>1
      <3> QED BY <3>1, <3>2 DEF Staging
    <2> QED BY <2>1, <2>7, <2>8, <2>9, UnitAdmission
  <1> QED BY <1>4, <1>5

LEMMA DecodeRoundAdmission ==
    ASSUME IInv, AInv, NEW accepted \in [Members -> 1 .. MaxAccept],
           NEW stops \in SUBSET Members, DecodeRound(accepted, stops)
    PROVE  AInv'
  <1> DEFINE rows == {r \in Members : ~cancelled[r]}
             aborted == Members \ rows
             finished == {r \in rows : r \in stops \/ accepted[r] = run[r].budget}
             ended == aborted \cup finished
  <1>1. /\ at.pc = "decode" /\ \A r \in rows : accepted[r] <= run[r].budget
    BY DEF DecodeRound
  <1>2. /\ Members \in SUBSET Active /\ Active \subseteq Requests /\ ended \in SUBSET Members
        /\ rows \subseteq Members /\ ended \in SUBSET Active
        /\ \A r \in Members : run[r].ready
    BY QueueType DEF Members
  <1>3. \A r \in Members : /\ run[r] \in RunRecord /\ accepted[r] \in Int
                           /\ accepted[r] >= 1
                           /\ run[r].budget \in Int /\ run[r].work \in Int
                           /\ run[r].work >= run[r].budget
    <2>1. ASSUME NEW r \in Members
          PROVE  /\ run[r] \in RunRecord /\ accepted[r] \in Int /\ accepted[r] >= 1
                 /\ run[r].budget \in Int /\ run[r].work \in Int
                 /\ run[r].work >= run[r].budget
      <3>1. run[r] \in RunRecord /\ Projected(r)
        BY <1>2 DEF AInv, IInv, WorkerTypes
      <3>2. accepted[r] \in 1 .. MaxAccept /\ MaxAccept \in Nat
        BY ExecutorAssumption
      <3> QED BY <3>1, <3>2 DEF RunRecord, Projected
    <2> QED BY <2>1
  <1>4. ~\E r \in rows : accepted[r] > run[r].work
    BY <1>1, <1>2, <1>3
  <1>5. /\ slots' = Vacated(ended)
        /\ run' = [r \in Requests |->
                     IF r \in ended THEN NotRunning
                     ELSE IF r \in rows THEN [run[r] EXCEPT !.work = @ - accepted[r],
                                                            !.budget = @ - accepted[r]]
                     ELSE run[r]]
        /\ \E keep \in [finished -> UNION {Keepable(r) : r \in finished}] :
              /\ \A r \in finished : keep[r] \in Keepable(r)
              /\ cache' = Retaining(keep)
        /\ plans' = Invalidated(plans, LanesOf(ended), ended)
        /\ at' = [pc |-> "top"] /\ prefillLane' = prefillLane
        /\ UNCHANGED <<callerVars, protection, nextEpoch, pending, bug>>
    BY <1>4 DEF DecodeRound
  <1>6. \A a \in Active \ ended : a \in rows => accepted[a] < run[a].budget
    <2>1. ASSUME NEW a \in Active \ ended, a \in rows PROVE accepted[a] < run[a].budget
      <3>1. accepted[a] # run[a].budget /\ accepted[a] <= run[a].budget
        BY <1>1, <2>1
      <3> QED BY <1>2, <1>3, <2>1, <3>1
    <2> QED BY <2>1
  <1>7. finished \subseteq ended
    OBVIOUS
  <1>8. PICK keep \in [finished -> UNION {Keepable(r) : r \in finished}] :
              /\ \A r \in finished : keep[r] \in Keepable(r)
              /\ cache' = Retaining(keep)
    BY <1>5
  <1>9. DOMAIN keep \subseteq ended /\ \A r \in DOMAIN keep : keep[r] \in Keepable(r)
    <2>1. DOMAIN keep = finished
      OBVIOUS
    <2> QED BY <1>7, <1>8, <2>1
  <1> HIDE DEF rows, aborted, finished, ended
  <1>10. ASSUME NEW a \in Active \ ended
         PROVE  /\ run'[a].ready = run[a].ready /\ run'[a].epoch = run[a].epoch
                /\ run'[a].class = run[a].class /\ Projected(a)'
    <2>1. a \in Requests /\ Projected(a)
      BY <1>2 DEF AInv
    <2>2. CASE a \notin rows
      <3>1. run'[a] = run[a]
        BY <1>5, <2>1, <2>2
      <3> QED BY <2>1, <3>1 DEF Projected
    <2>3. CASE a \in rows
      <3> DEFINE y == [run[a] EXCEPT !.work = @ - accepted[a], !.budget = @ - accepted[a]]
      <3>1. run'[a] = y
        BY <1>5, <2>1, <2>3
      <3>2. run[a] \in RunRecord /\ accepted[a] \in Int
        BY <1>2, <1>3, <2>3
      <3>3. /\ y.ready = run[a].ready /\ y.work = run[a].work - accepted[a]
            /\ y.budget = run[a].budget - accepted[a]
            /\ y.class = run[a].class /\ y.epoch = run[a].epoch
        BY <3>2, RunUpdateFacts
      <3> HIDE DEF y
      <3>4. /\ accepted[a] < run[a].budget /\ run[a].work >= run[a].budget /\ run[a].ready
            /\ run[a].work \in Int /\ run[a].budget \in Int
        BY <1>2, <1>3, <1>6, <2>3
      <3>5. run'[a].budget > 0 /\ run'[a].work >= run'[a].budget /\ run'[a].ready
        BY <3>1, <3>2, <3>3, <3>4
      <3> QED BY <3>1, <3>3, <3>5 DEF Projected
    <2> QED BY <2>2, <2>3
  <1>11. prefillLane' = OwnerWithout(ended)
    <2>1. prefillLane # NoLane => slots[prefillLane] \notin ended
      BY <1>2 DEF IInv, WorkerPlace, OwnerStaged
    <2> QED BY <1>5, <2>1, LaneNumbers DEF OwnerWithout, LanesOf
  <1>12. Staging'
    BY <1>1, <1>2, <1>5, <1>10, <1>11, StagingAfter
  <1> QED BY <1>2, <1>5, <1>8, <1>9, <1>10, <1>12, UnitAdmission

-----------------------------------------------------------------------------
(***************************************************************************)
(* The choice of a request.                                                *)
(***************************************************************************)

LEMMA SelectNothingAdmission ==
    ASSUME IInv, AInv, IInv', SelectNothing
    PROVE  AInv'
  <1>1. /\ at.pc = "select" /\ protection' = NoProtection /\ at' = Unadmitted
        /\ UNCHANGED <<callerVars, laneVars, plans, nextEpoch, pending, bug>>
    BY DEF SelectNothing
  <1>2. at'.pc \in {"top", "decode"}
    BY <1>1, UnadmittedShape
  <1>3. /\ CacheShape' /\ (\A r \in Active : Projected(r))'
        /\ PagesHeld' /\ Staging' /\ NoInternalError'
    BY <1>1, <1>2, SelectFrame
  <1>4. InQueue' = InQueue
    BY <1>1 DEF InQueue
  <1>5. PlansCurrent'
    <2>1. plans' \in [Requests -> [Lanes -> Sources \cup {Stale}]]
      BY DEF IInv, WorkerTypes
    <2> QED BY <1>1, <1>4, <2>1, PlansRefreshed DEF laneVars
  <1>6. Frozen' /\ HeadProtected'
    BY <1>1 DEF Frozen, HeadProtected, NoProtection
  <1> QED BY <1>2, <1>3, <1>5, <1>6 DEF AInv, Admissible, Backfill

LEMMA SelectDropsHeadAdmission ==
    ASSUME IInv, AInv, IInv', SelectDropsHead
    PROVE  AInv'
  <1>1. /\ at.pc = "select" /\ protection' = NoProtection /\ pending # <<>>
        /\ pending' = Tail(pending) /\ plans' = Invalidated(plans, {}, {Head(pending)})
        /\ UNCHANGED <<callerVars, laneVars, nextEpoch, at, bug>>
    BY DEF SelectDropsHead
  <1>2. at'.pc \in {"select"}
    BY <1>1
  <1>3. /\ CacheShape' /\ (\A r \in Active : Projected(r))'
        /\ PagesHeld' /\ Staging' /\ NoInternalError'
    BY <1>1, <1>2, SelectFrame
  <1>4. InQueue' \subseteq InQueue
    <2>1. {Tail(pending)[i] : i \in DOMAIN Tail(pending)} = InQueue \ {Head(pending)}
      BY <1>1, HeadFacts
    <2> QED BY <1>1, <2>1 DEF InQueue
  <1>5. PlansCurrent'
    <2>1. plans' \in [Requests -> [Lanes -> Sources \cup {Stale}]]
      BY DEF IInv, WorkerTypes
    <2>2. \A r \in Requests : plans'[r] = plans[r] \/ plans'[r] = NoPlans
      <3>1. plans \in [Requests -> [Lanes -> Sources \cup {Stale}]]
        BY DEF IInv, WorkerTypes
      <3> QED BY <1>1, <3>1 DEF Invalidated, NoPlans
    <2> QED BY <1>1, <1>4, <2>1, <2>2, PlansRefreshed DEF laneVars
  <1>6. Frozen' /\ HeadProtected'
    BY <1>1 DEF Frozen, HeadProtected, NoProtection
  <1> QED BY <1>2, <1>3, <1>5, <1>6 DEF AInv, Admissible, Backfill

\* The admission that is chosen rests on a plan that is true.
LEMMA Chosen ==
    ASSUME IInv, AInv, laneVars' = laneVars, NEW r \in InQueue,
           NEW class \in {"none", "persistent", "temporal"}, NEW epoch \in Nat,
           FindAdmissionLane(r).lane # NoLane, at' = AdmitAt(r, class, epoch),
           plans'[r] = LanePlans(r)
    PROVE  /\ at'.pc = "admit" /\ at'.req = r /\ at'.class = class /\ at'.epoch = epoch
           /\ Admissible'
  <1> DEFINE f == FindAdmissionLane(r)
  <1>1. r \in Requests
    BY QueueType
  <1>2. /\ at'.pc = "admit" /\ at'.req = r /\ at'.class = class /\ at'.epoch = epoch
        /\ at'.lane = f.lane /\ at'.evict = f.evict
        /\ at'.lane \in Lanes /\ slots[at'.lane] = NoRequest
    BY <1>1, AdmitAtShape
  <1>3. IF f.evict THEN CanAdmitAfterEviction(f.lane, r) ELSE CanAdmit(cache, f.lane, r)
    BY <1>1, FindAdmissionLaneFacts
  <1> HIDE DEF f
  <1>4. LanePlans(r)[at'.lane] = cache[at'.lane].source
    BY <1>2, PlanMade
  <1>5. plans'[at'.req][at'.lane] = cache'[at'.lane].source
    BY <1>2, <1>4 DEF laneVars
  <1>6. slots' = slots /\ cache' = cache
    BY DEF laneVars
  <1>7. IF at'.evict THEN CanAdmitAfterEviction(at.lane, at.req)'
        ELSE CanAdmit(cache, at.lane, at.req)'
    BY <1>2, <1>3, <1>6 DEF CanAdmitAfterEviction, CanAdmit, Committed, Evicted, RetainedLanes
  <1> QED BY <1>2, <1>5, <1>7 DEF Admissible

LEMMA SelectHeadAdmission ==
    ASSUME IInv, AInv, IInv', SelectHead
    PROVE  AInv'
  <1> DEFINE head == Head(pending)
  <1>1. /\ at.pc = "select" /\ pending # <<>> /\ FindAdmissionLane(head).lane # NoLane
        /\ protection' = HeadProtection(head)
        /\ plans' = [plans EXCEPT ![head] = LanePlans(head)]
        /\ at' = AdmitAt(head, "none", 0)
        /\ UNCHANGED <<callerVars, laneVars, nextEpoch, pending, bug>>
    BY DEF SelectHead
  <1>2. head \in InQueue /\ head \in Requests /\ InQueue' = InQueue
    BY <1>1, HeadFacts DEF InQueue
  <1> HIDE DEF head
  <1>3. plans \in [Requests -> [Lanes -> Sources \cup {Stale}]]
    BY DEF IInv, WorkerTypes
  <1>4. plans'[head] = LanePlans(head) /\ \A r \in Requests : r # head => plans'[r] = plans[r]
    BY <1>1, <1>2, <1>3
  <1>5. /\ at'.pc = "admit" /\ at'.req = head /\ at'.class = "none"
        /\ Admissible'
    <2>1. 0 \in Nat /\ "none" \in {"none", "persistent", "temporal"}
      OBVIOUS
    <2> QED BY <1>1, <1>2, <1>4, <2>1, Chosen
  <1>6. /\ CacheShape' /\ (\A r \in Active : Projected(r))'
        /\ PagesHeld' /\ Staging' /\ NoInternalError'
    BY <1>1, <1>5, SelectFrame
  <1>7. PlansCurrent'
    <2>1. plans' \in [Requests -> [Lanes -> Sources \cup {Stale}]]
      BY DEF IInv, WorkerTypes
    <2> QED BY <1>1, <1>2, <1>4, <2>1, PlansRefreshed DEF laneVars
  <1>8. \/ protection' = NoProtection
        \/ protection' = protection /\ protection.head = head
    BY <1>1 DEF HeadProtection
  <1>9. Frozen'
    BY <1>1, <1>2, <1>8, FrozenKept
  <1>10. HeadProtected'
    <2>1. CASE protection' = NoProtection
      BY <2>1 DEF HeadProtected, NoProtection
    <2>2. CASE protection' = protection
      <3>1. Active' = Active /\ run' = run
        BY <1>1 DEF Active, laneVars
      <3>2. protection # NoProtection => pending' # <<>> /\ Head(pending') = Head(pending)
        BY <1>1
      <3> QED BY <2>2, <3>1, <3>2, HeadKept
    <2> QED BY <1>8, <2>1, <2>2
  <1>11. Backfill'
    <2>1. pending' # <<>> /\ at'.req = Head(pending')
      BY <1>1, <1>5 DEF head
    <2>2. protection' = NoProtection \/ protection'.head = at'.req
      BY <1>5, <1>8
    <2> QED BY <1>5, <2>1, <2>2 DEF Backfill, NoProtection
  <1> QED BY <1>5, <1>6, <1>7, <1>9, <1>10, <1>11 DEF AInv

LEMMA AdmitWithdrawnAdmission ==
    ASSUME IInv, AInv, IInv', AdmitWithdrawn
    PROVE  AInv'
  <1> DEFINE r == at.req
  <1>1. /\ at.pc = "admit" /\ pending' = Without(pending, {r})
        /\ protection' = ProtectionWithout({r})
        /\ plans' = Invalidated(plans, {}, {r}) /\ at' = Unadmitted
        /\ UNCHANGED <<callerVars, laneVars, nextEpoch, bug>>
    BY DEF AdmitWithdrawn
  <1> HIDE DEF r
  <1>2. at'.pc \in {"top", "decode"}
    BY <1>1, UnadmittedShape
  <1>3. /\ CacheShape' /\ (\A q \in Active : Projected(q))'
        /\ PagesHeld' /\ Staging' /\ NoInternalError'
    BY <1>1, <1>2, SelectFrame
  <1>4. /\ InQueue' = InQueue \ {r}
        /\ pending # <<>> /\ Head(pending) \notin {r}
                => pending' # <<>> /\ Head(pending') = Head(pending)
    BY <1>1, WithoutFacts
  <1>5. PlansCurrent'
    <2>1. plans' \in [Requests -> [Lanes -> Sources \cup {Stale}]]
      BY DEF IInv, WorkerTypes
    <2>2. \A q \in Requests : plans'[q] = plans[q] \/ plans'[q] = NoPlans
      <3>1. plans \in [Requests -> [Lanes -> Sources \cup {Stale}]]
        BY DEF IInv, WorkerTypes
      <3> QED BY <1>1, <3>1 DEF Invalidated, NoPlans
    <2> QED BY <1>1, <1>4, <2>1, <2>2, PlansRefreshed DEF laneVars
  <1>6. \/ protection' = NoProtection
        \/ protection' = protection /\ protection.head \notin {r}
    BY <1>1 DEF ProtectionWithout
  <1>7. Frozen'
    BY <1>1, <1>4, <1>6, FrozenKept
  <1>8. HeadProtected'
    <2>1. CASE protection' = NoProtection
      BY <2>1 DEF HeadProtected, NoProtection
    <2>2. CASE protection' # NoProtection
      <3>1. protection' = protection /\ protection # NoProtection
        BY <1>6, <2>2
      <3>2. pending # <<>> /\ Head(pending) = protection.head
        BY <3>1 DEF AInv, HeadProtected
      <3>3. pending' # <<>> /\ Head(pending') = Head(pending)
        BY <1>4, <1>6, <2>2, <3>2
      <3>4. Active' = Active /\ run' = run
        BY <1>1 DEF Active, laneVars
      <3> QED BY <3>1, <3>3, <3>4, HeadKept
    <2> QED BY <2>1, <2>2
  <1> QED BY <1>2, <1>3, <1>5, <1>7, <1>8 DEF AInv, Admissible, Backfill

LEMMA SelectBehindHeadAdmission ==
    ASSUME IInv, AInv, IInv', SelectBehindHead
    PROVE  AInv'
  <1> DEFINE head == Head(pending)
             prot == ProtFor(head)
             m == MadeFor(head)
  <1>1. /\ at.pc = "select" /\ pending # <<>> /\ ~Inadmissible(head)
        /\ FindAdmissionLane(head).lane = NoLane
    BY BehindHeadCases
  <1>2. head \in InQueue /\ head \in Requests /\ Fits({head}) /\ head \notin Active
    BY <1>1, HeadFacts DEF Inadmissible, IInv, Placement
  <1>3. ~Fits(Active \cup {head})
    <2>1. \A l \in Lanes : slots[l] = NoRequest => ~CanAdmitAfterEviction(l, head)
      BY <1>1, <1>2, FindAdmissionLaneFacts
    <2>2. CacheShape
      BY DEF AInv
    <2> QED BY <1>2, <2>1, <2>2, FreeLaneFits
  <1>4. Active # {}
    <2>1. {} \cup {head} = {head}
      OBVIOUS
    <2> QED BY <1>2, <1>3, <2>1
  <1>5. \A r \in Active : run[r].work # 0 /\ Work[r] # 0
    <2>1. ASSUME NEW r \in Active PROVE run[r].work # 0 /\ Work[r] # 0
      <3>1. r \in Requests /\ run[r] \in RunRecord /\ Projected(r)
        BY QueueType DEF IInv, WorkerTypes, AInv
      <3>2. run[r].work # 0
        BY <3>1 DEF Projected, RunRecord
      <3> QED BY <3>1, <3>2 DEF Work
    <2> QED BY <2>1
  <1>6. ~ProtectionThrows(head, Active, Work)
    BY <1>2, <1>3, <1>4, <1>5 DEF ProtectionThrows
  <1>7. /\ protection' = prot
        /\ nextEpoch' = IF protection.head # head THEN nextEpoch + 1 ELSE nextEpoch
        /\ UNCHANGED <<callerVars, laneVars, bug>>
        /\ \/ /\ prot.drain
              /\ plans' = [plans EXCEPT ![head] = LanePlans(head)]
              /\ at' = Unadmitted /\ pending' = pending
           \/ ~prot.drain /\ Scan(prot, head)
    BY <1>4, <1>5, <1>6, BehindHeadCases
  <1>8. /\ protection.head # head =>
             \E last \in Active :
                /\ Fits((Active \ UpTo(last, Active, Work, id)) \cup {head})
                /\ m = [epoch |-> nextEpoch, head |-> head, incumbents |-> Active,
                        donors |-> UpTo(last, Active, Work, id), credit |-> Work[last],
                        drain |-> FALSE]
        /\ prot.head = head /\ prot.epoch \in Nat /\ prot # NoProtection
        /\ prot.epoch = m.epoch /\ prot.donors = m.donors /\ prot.incumbents = m.incumbents
    BY <1>2, <1>4, ProtectionMade
  <1>8a. protection.head # head => m.incumbents = Active /\ m.epoch = nextEpoch
    <2> SUFFICES ASSUME protection.head # head
                 PROVE  m.incumbents = Active /\ m.epoch = nextEpoch
      OBVIOUS
    <2> HIDE DEF head, m, prot
    <2>1. PICK d, c : m = [epoch |-> nextEpoch, head |-> head, incumbents |-> Active,
                           donors |-> d, credit |-> c, drain |-> FALSE]
      BY <1>8
    <2> QED BY <2>1
  <1>9. protection.head = head => m = protection /\ protection # NoProtection
    BY <1>2, ExecutorAssumption DEF MadeFor, NoProtection, IInv, WorkerTypes, ProtectionShape
  <1>10. protection.head # head => protection = NoProtection
    BY DEF AInv, HeadProtected
  <1> HIDE DEF head, prot, m
  <1>11. /\ Active' = Active /\ EpochOf' = EpochOf /\ ClassOf' = ClassOf
         /\ slots' = slots /\ cache' = cache /\ run' = run
    BY <1>7 DEF laneVars, Active, EpochOf, ClassOf
  <1>12. /\ pending' # <<>> /\ Head(pending') = head /\ InQueue' \subseteq InQueue
         /\ plans' \in [Requests -> [Lanes -> Sources \cup {Stale}]]
         /\ \A r \in Requests : \/ plans'[r] = plans[r] \/ plans'[r] = NoPlans
                                \/ r \in InQueue /\ plans'[r] = LanePlans(r)
         /\ \/ at'.pc \in {"top", "decode"}
            \/ /\ at'.pc = "admit" /\ Admissible' /\ at'.class \in {"persistent", "temporal"}
               /\ at'.epoch = prot.epoch /\ at'.req # head
               /\ at'.class = "persistent" =>
                     PersistentSafe(prot, Active, EpochOf, ClassOf, at'.req)
    <2>0. /\ plans' \in [Requests -> [Lanes -> Sources \cup {Stale}]]
          /\ plans \in [Requests -> [Lanes -> Sources \cup {Stale}]]
      BY DEF IInv, WorkerTypes
    <2>1. CASE prot.drain /\ plans' = [plans EXCEPT ![head] = LanePlans(head)]
               /\ at' = Unadmitted /\ pending' = pending
      <3>1. at'.pc \in {"top", "decode"}
        BY <2>1, UnadmittedShape
      <3>2. InQueue' = InQueue
        BY <2>1 DEF InQueue
      <3>3. \A r \in Requests : plans'[r] = IF r = head THEN LanePlans(head) ELSE plans[r]
        BY <2>0, <2>1
      <3> QED BY <1>1, <1>2, <2>0, <2>1, <3>1, <3>2, <3>3 DEF head
    <2>2. CASE Scan(prot, head)
      <3> DEFINE c == pending[LastScanned(prot)]
      <3>1. /\ pending' = Without(pending, Dropped(prot))
            /\ plans' = [r \in Requests |->
                           IF r \in Dropped(prot) THEN NoPlans
                           ELSE IF r \in Scanned(prot) \cup {head} THEN LanePlans(r)
                           ELSE plans[r]]
            /\ IF Qualified(prot) = {} THEN at' = Unadmitted
               ELSE at' = AdmitAt(c, BackfillClass(prot, c), prot.epoch)
        BY <1>1, <2>2, ScanEffect DEF head
      <3>2. /\ Scanned(prot) \subseteq InQueue \ {head}
            /\ Dropped(prot) \subseteq InQueue \ {head}
            /\ Qualified(prot) # {} =>
                  /\ c \in Scanned(prot) /\ c \notin Dropped(prot)
                  /\ c \in InQueue /\ c \in Requests /\ BackfillClass(prot, c) # "none"
        BY <1>1, ScanFacts DEF head
      <3> HIDE DEF c
      <3>3. /\ InQueue' \subseteq InQueue /\ pending' # <<>> /\ Head(pending') = head
        <4>1. head \notin Dropped(prot)
          BY <3>2
        <4> QED BY <1>1, <3>1, <4>1, WithoutFacts DEF head
      <3>4. \A r \in Requests : \/ plans'[r] = plans[r] \/ plans'[r] = NoPlans
                                \/ r \in InQueue /\ plans'[r] = LanePlans(r)
        BY <1>2, <3>1, <3>2
      <3>5. CASE Qualified(prot) = {}
        <4>1. at'.pc \in {"top", "decode"}
          BY <3>1, <3>5, UnadmittedShape
        <4> QED BY <2>0, <3>3, <3>4, <4>1
      <3>6. CASE Qualified(prot) # {}
        <4> DEFINE class == BackfillClass(prot, c)
        <4>1. /\ class \in {"persistent", "temporal"}
              /\ class \in {"none", "persistent", "temporal"}
              /\ FindAdmissionLane(c).lane # NoLane
              /\ class = "persistent" => PersistentSafe(prot, Active, EpochOf, ClassOf, c)
          BY <3>2, <3>6, BackfillFacts
        <4>2. at' = AdmitAt(c, class, prot.epoch)
          BY <3>1, <3>6
        <4> HIDE DEF class
        <4>3. plans'[c] = LanePlans(c)
          BY <3>1, <3>2, <3>6
        <4>4. prot.epoch \in Nat /\ c \in InQueue /\ c # head
          BY <1>8, <3>2, <3>6
        <4>5. /\ at'.pc = "admit" /\ at'.req = c /\ at'.class = class
              /\ at'.epoch = prot.epoch /\ Admissible'
          BY <1>7, <4>1, <4>2, <4>3, <4>4, Chosen
        <4> QED BY <2>0, <3>3, <3>4, <4>1, <4>4, <4>5
      <3> QED BY <3>5, <3>6
    <2> QED BY <1>7, <2>1, <2>2
  <1>13. /\ CacheShape' /\ (\A r \in Active : Projected(r))'
         /\ PagesHeld' /\ Staging' /\ NoInternalError'
    BY <1>1, <1>7, <1>12, SelectFrame
  <1>14. PlansCurrent'
    BY <1>7, <1>11, <1>12, PlansRefreshed
  <1>15. Frozen'
    <2>1. \A a \in Requests : Submitted(a)' <=> Submitted(a)
      BY <1>7 DEF Submitted, callerVars
    <2>2. CASE protection.head = head
      <3>1. prot.incumbents = protection.incumbents /\ prot.epoch = protection.epoch
            /\ nextEpoch' = nextEpoch
        BY <1>7, <1>8, <1>9, <2>2
      <3> QED BY <1>7, <1>9, <1>12, <2>2, <3>1, FrozenKept
    <2>3. CASE protection.head # head
      <3>1. prot.incumbents = Active /\ prot.epoch = nextEpoch /\ nextEpoch' = nextEpoch + 1
        BY <1>7, <1>8, <1>8a, <2>3
      <3>2. nextEpoch \in Nat /\ Active \subseteq Requests
        BY QueueType DEF IInv, WorkerTypes
      <3>3. \A a \in Active : Submitted(a) /\ a \notin InQueue
        BY <3>2 DEF IInv, Placement
      <3> QED BY <1>7, <1>12, <2>1, <3>1, <3>2, <3>3 DEF Frozen
    <2> QED BY <2>2, <2>3
  <1>16. HeadProtected'
    <2>1. \A a \in Active : \/ a \in prot.incumbents
                            \/ /\ run[a].epoch = prot.epoch
                               /\ run[a].class \in {"persistent", "temporal"}
      <3>1. CASE protection.head = head
        BY <1>8, <1>9, <3>1 DEF AInv, HeadProtected
      <3>2. CASE protection.head # head
        <4>1. prot.incumbents = Active
          BY <1>8, <1>8a, <3>2
        <4> QED BY <4>1
      <3> QED BY <3>1, <3>2
    <2>2. Fits({prot.head} \cup Survivors(prot, Active, EpochOf, ClassOf))
      <3>1. CASE protection.head = head
        <4>1. Survivors(prot, Active, EpochOf, ClassOf)
                 = Survivors(protection, Active, EpochOf, ClassOf)
          BY <1>8, <1>9, <3>1 DEF Survivors
        <4> QED BY <1>8, <1>9, <3>1, <4>1 DEF AInv, HeadProtected
      <3>2. CASE protection.head # head
        <4>1. PICK last \in Active :
                 /\ Fits((Active \ UpTo(last, Active, Work, id)) \cup {head})
                 /\ m = [epoch |-> nextEpoch, head |-> head, incumbents |-> Active,
                         donors |-> UpTo(last, Active, Work, id), credit |-> Work[last],
                         drain |-> FALSE]
          BY <1>8, <3>2
        <4>2. prot.incumbents = Active /\ prot.donors = UpTo(last, Active, Work, id)
          <5>1. m.incumbents = Active /\ m.donors = UpTo(last, Active, Work, id)
            BY <4>1
          <5> QED BY <1>8, <5>1
        <4>3. {prot.head} \cup Survivors(prot, Active, EpochOf, ClassOf)
                 = (Active \ UpTo(last, Active, Work, id)) \cup {head}
          BY <1>8, <4>2 DEF Survivors
        <4> QED BY <4>1, <4>3
      <3> QED BY <3>1, <3>2
    <2> QED BY <1>7, <1>8, <1>11, <1>12, <2>1, <2>2 DEF HeadProtected
  <1>17. Backfill'
    BY <1>7, <1>8, <1>11, <1>12 DEF Backfill, NoProtection
  <1>18. Admissible'
    BY <1>12 DEF Admissible
  <1> QED BY <1>13, <1>14, <1>15, <1>16, <1>17, <1>18 DEF AInv

-----------------------------------------------------------------------------
(***************************************************************************)
(* The admission.                                                          *)
(***************************************************************************)

\* Nothing throws, and what happens to the lanes.
LEMMA AdmitSucceeds ==
    ASSUME IInv, AInv, Admit
    PROVE  LET r == at.req
               lane == at.lane
               plan == plans[r][lane]
               evicted == IF at.evict THEN LanesToEvict(lane, r) ELSE {}
           IN  /\ at.pc = "admit" /\ plan \in Sources
               /\ CanAdmit(Evicted(evicted), lane, r)
               /\ pending' = Without(pending, {r})
               /\ slots' = [slots EXCEPT ![lane] = r]
               /\ run' = [run EXCEPT ![r] =
                            [ready |-> FALSE, budget |-> OutTokens[r],
                             work |-> ServiceWork(r, plan),
                             class |-> at.class, epoch |-> at.epoch]]
               /\ prefillLane' = IF Reuse(r, plan) < Prompt[r] THEN lane ELSE prefillLane
               /\ cache' = Evicted(evicted \cup {lane})
               /\ plans' = Invalidated(plans, evicted \cup {lane}, {r})
               /\ protection' = IF protection.head = r THEN NoProtection
                                ELSE CreditAfter(at.class, ServiceWork(r, plan))
               /\ at' = [pc |-> "step", lane |-> lane]
               /\ UNCHANGED <<callerVars, nextEpoch, bug>>
  <1> DEFINE r == at.req
             lane == at.lane
             plan == plans[r][lane]
             evicted == IF at.evict THEN LanesToEvict(lane, r) ELSE {}
  <1>1. at.pc = "admit"
    BY DEF Admit
  <1>2. lane \in Lanes /\ at.evict \in BOOLEAN
    BY <1>1, AtAdmit
  <1>3. /\ plan = cache[lane].source
        /\ IF at.evict THEN CanAdmitAfterEviction(lane, r) ELSE CanAdmit(cache, lane, r)
    BY <1>1 DEF AInv, Admissible
  <1>4. plan \in Sources /\ plan # Stale
    <2>1. plan \in Sources
      BY <1>2, <1>3 DEF IInv, WorkerTypes
    <2>2. Stale \notin Sources
      BY ExecutorAssumption DEF Sources, Stale, NoRequest
    <2> QED BY <2>1, <2>2
  <1>5. CanAdmit(Evicted(evicted), lane, r)
    <2>1. CASE at.evict
      <3>1. CacheShape
        BY DEF AInv
      <3>2. CanAdmit(Evicted(LanesToEvict(lane, r)), lane, r)
        BY <1>2, <1>3, <2>1, <3>1, EvictionSuffices
      <3> QED BY <2>1, <3>2
    <2>2. CASE ~at.evict
      <3>1. Evicted({}) = cache
        BY DEF Evicted, AInv, CacheShape
      <3> QED BY <1>3, <2>2, <3>1
    <2> QED BY <2>1, <2>2
  <1>6. ~AdmissionThrows(r, lane, plan, evicted)
    BY <1>3, <1>4, <1>5 DEF AdmissionThrows
  <1> QED BY <1>1, <1>4, <1>5, <1>6, AdmitEffect

LEMMA AdmitAdmission ==
    ASSUME IInv, AInv, IInv', Admit
    PROVE  AInv'
  <1> DEFINE r == at.req
             lane == at.lane
             plan == plans[r][lane]
             evicted == IF at.evict THEN LanesToEvict(lane, r) ELSE {}
             work == ServiceWork(r, plan)
  <1>1. /\ at.pc = "admit" /\ plan \in Sources
        /\ CanAdmit(Evicted(evicted), lane, r)
        /\ pending' = Without(pending, {r})
        /\ slots' = [slots EXCEPT ![lane] = r]
        /\ run' = [run EXCEPT ![r] =
                     [ready |-> FALSE, budget |-> OutTokens[r], work |-> work,
                      class |-> at.class, epoch |-> at.epoch]]
        /\ prefillLane' = IF Reuse(r, plan) < Prompt[r] THEN lane ELSE prefillLane
        /\ cache' = Evicted(evicted \cup {lane})
        /\ plans' = Invalidated(plans, evicted \cup {lane}, {r})
        /\ protection' = IF protection.head = r THEN NoProtection
                         ELSE CreditAfter(at.class, work)
        /\ at' = [pc |-> "step", lane |-> lane]
        /\ UNCHANGED <<callerVars, nextEpoch, bug>>
    BY AdmitSucceeds
  <1>2. /\ r \in Requests /\ r \in InQueue /\ r \notin Active
        /\ lane \in Lanes /\ slots[lane] = NoRequest
        /\ at.epoch \in Nat /\ at.class \in {"none", "persistent", "temporal"}
    BY <1>1, AtAdmit
  <1>3. work \in Nat /\ work >= OutTokens[r] /\ OutTokens[r] \in Nat \ {0}
    BY <1>1, <1>2, WorkBounds, ExecutorAssumption
  <1>a. Backfill /\ at.pc = "admit"
    BY <1>1 DEF AInv
  <1>b. /\ at.class = "none" => /\ pending # <<>> /\ r = Head(pending)
                                /\ protection = NoProtection \/ protection.head = r
        /\ at.class # "none" =>
              /\ protection # NoProtection /\ at.epoch = protection.epoch
              /\ r # protection.head
              /\ at.class = "persistent" =>
                    PersistentSafe(protection, Active, EpochOf, ClassOf, r)
    BY <1>a DEF Backfill
  <1> HIDE DEF r, lane, plan, evicted, work
  <1>4. /\ InQueue' = InQueue \ {r}
        /\ pending # <<>> /\ Head(pending) \notin {r}
                => pending' # <<>> /\ Head(pending') = Head(pending)
    BY <1>1, WithoutFacts
  <1>5. /\ slots'[lane] = r /\ r # NoRequest
        /\ \A l \in Lanes \ {lane} : slots'[l] = slots[l]
        /\ \A l \in Lanes : slots[l] # r
    BY <1>1, <1>2, ExecutorAssumption DEF IInv, WorkerTypes, Active
  <1>6. Active' = Active \cup {r}
    <2>1. ASSUME NEW x \in Active' PROVE x \in Active \cup {r}
      BY <1>5 DEF Active
    <2>2. ASSUME NEW x \in Active PROVE x \in Active'
      BY <1>2, <1>5 DEF Active
    <2>3. r \in Active'
      BY <1>2, <1>5 DEF Active
    <2> QED BY <2>1, <2>2, <2>3
  <1>7. /\ run'[r] = [ready |-> FALSE, budget |-> OutTokens[r], work |-> work,
                      class |-> at.class, epoch |-> at.epoch]
        /\ \A q \in Requests \ {r} : run'[q] = run[q]
    BY <1>1, <1>2 DEF IInv, WorkerTypes
  <1>8. /\ ~run'[r].ready /\ run'[r].budget = OutTokens[r] /\ run'[r].work = work
        /\ run'[r].class = at.class /\ run'[r].epoch = at.epoch
    BY <1>7
  <1>9. \A q \in Active : q \in Requests \ {r}
    BY <1>2, QueueType
  <1>10. /\ \A l \in evicted \cup {lane} : l \in Lanes => cache'[l] = Vacant
         /\ \A l \in Lanes \ (evicted \cup {lane}) : cache'[l] = cache[l]
         /\ cache' = [l \in Lanes |-> cache'[l]]
    BY <1>1 DEF Evicted
  <1>11. CacheShape'
    <2>1. Vacant \in [source : Sources, pages : [PageKinds -> Nat]]
      BY DEF Vacant, Sources
    <2>2. ASSUME NEW l \in Lanes
          PROVE  /\ cache'[l] \in [source : Sources, pages : [PageKinds -> Nat]]
                 /\ cache'[l].source = NoRequest \/ slots'[l] # NoRequest => cache'[l] = Vacant
      <3>1. CASE l \in evicted \cup {lane}
        BY <1>10, <2>1, <3>1
      <3>2. CASE l \notin evicted \cup {lane}
        <4>1. cache'[l] = cache[l] /\ slots'[l] = slots[l]
          BY <1>5, <1>10, <3>2
        <4> QED BY <4>1 DEF AInv, CacheShape
      <3> QED BY <3>1, <3>2
    <2>3. Vacant' = Vacant
      BY DEF Vacant
    <2> QED BY <1>10, <2>2, <2>3 DEF CacheShape
  <1>12. (\A q \in Active : Projected(q))'
    <2>1. ASSUME NEW q \in Requests, q = r PROVE Projected(q)'
      <3>1. ~run'[q].ready /\ run'[q].budget = OutTokens[q] /\ run'[q].work = work
        BY <1>8, <2>1
      <3>2. work \in Nat /\ work >= OutTokens[q] /\ OutTokens[q] \in Nat \ {0}
        BY <1>3, <2>1
      <3> QED BY <3>1, <3>2 DEF Projected
    <2>2. ASSUME NEW q \in Active PROVE Projected(q)'
      BY <1>7, <1>9 DEF AInv, Projected
    <2> QED BY <1>2, <1>6, <2>1, <2>2
  <1>13. PlansCurrent'
    <2>1. ASSUME NEW q \in InQueue', NEW l \in Lanes, slots'[l] = NoRequest
          PROVE  plans'[q][l] \in {Stale, cache'[l].source}
      <3>1. q \in InQueue /\ q \in Requests /\ q # r
        BY <1>4, QueueType
      <3>2. plans'[q][l] = IF l \in evicted \cup {lane} \/ q \in {r} THEN Stale ELSE plans[q][l]
        BY <1>1, <3>1 DEF Invalidated
      <3>3. l \notin evicted \cup {lane} => slots[l] = NoRequest /\ cache'[l] = cache[l]
        BY <1>5, <1>10, <2>1
      <3> QED BY <3>1, <3>2, <3>3 DEF AInv, PlansCurrent
    <2>2. ASSUME NEW q \in Requests, ~Submitted(q)' PROVE plans'[q] = NoPlans
      <3>1. ~Submitted(q)
        BY <1>1, <2>2 DEF Submitted, callerVars
      <3>2. plans[q] = NoPlans
        BY <3>1 DEF AInv, PlansCurrent
      <3> QED BY <1>1, <3>2 DEF Invalidated, NoPlans
    <2>3. NoPlans' = NoPlans
      BY DEF NoPlans
    <2> QED BY <2>1, <2>2, <2>3 DEF PlansCurrent
  <1>14. PagesHeld'
    <2> SUFFICES ASSUME NEW k \in PageKinds PROVE Committed(cache, Lanes, k)' <= Capacity[k]
      BY DEF PagesHeld
    <2> DEFINE n == Capacity[k]
               f == EntitledIn(slots', cache', k)
               g == EntitledIn(slots, Evicted(evicted), k)
               L == Lanes \ {lane}
    <2>1. IsFiniteSet(L) /\ n \in Nat /\ k \in Kinds
      BY LanesFinite
    <2>2. Committed(cache, Lanes, k)' = Cardinality(Units(Lanes, f, n))
      BY CommittedUnitsNext
    <2>3. Committed(Evicted(evicted), L, k) = Cardinality(Units(L, g, n))
      BY CommittedUnits
    <2>4. Need[r][k] <= n - Committed(Evicted(evicted), L, k) /\ Need[r][k] \in Nat
      BY <1>1, <1>2, <2>1, PolicyAssumption DEF CanAdmit
    <2>5. \A l \in L : f[l] = g[l]
      <3>1. ASSUME NEW l \in L PROVE f[l] = g[l]
        <4>1. cache'[l] = Evicted(evicted)[l]
          BY <1>1 DEF Evicted
        <4> QED BY <1>5, <4>1 DEF EntitledIn
      <3> QED BY <3>1
    <2>6. f[lane] = Need[r][k] /\ lane \notin L /\ L \cup {lane} = Lanes
      BY <1>2, <1>5 DEF EntitledIn
    <2> HIDE DEF f, g, L, n
    <2>7. Units(L, f, n) = Units(L, g, n)
      BY <2>5 DEF Units
    <2>8. Cardinality(Units(L, g, n)) \in Nat
      BY <2>1, UnitsFinite
    <2>9. f[lane] \in Nat /\ f[lane] <= n
      BY <2>1, <2>3, <2>4, <2>6, <2>8
    <2>10. Cardinality(Units(L \cup {lane}, f, n)) = Cardinality(Units(L, f, n)) + f[lane]
      BY <2>1, <2>6, <2>9, UnitsAdd
    <2>11. Committed(cache, Lanes, k)' <= n
      <3>1. Committed(cache, Lanes, k)' = Cardinality(Units(L, g, n)) + Need[r][k]
        BY <2>2, <2>6, <2>7, <2>10
      <3>2. Need[r][k] <= n - Cardinality(Units(L, g, n))
        BY <2>3, <2>4
      <3> QED BY <2>1, <2>4, <2>8, <3>1, <3>2
    <2> QED BY <2>11 DEF n
  <1>15. Staging'
    <2>1. prefillLane = NoLane /\ \A l \in Lanes : slots[l] # NoRequest => run[slots[l]].ready
      BY <1>1, LaneNumbers DEF AInv, Staging
    <2>2. at'.pc = "step" /\ at'.lane = lane /\ prefillLane' \in {lane, NoLane}
      BY <1>1, <2>1
    <2>3. ASSUME NEW l \in Lanes
          PROVE  slots'[l] # NoRequest /\ ~run'[slots'[l]].ready
                    <=> l = prefillLane' \/ (at'.pc = "step" /\ at'.lane = l)
      <3>1. CASE l = lane
        BY <1>5, <1>8, <2>2, <3>1
      <3>2. CASE l # lane
        <4>1. slots'[l] = slots[l] /\ l # prefillLane' /\ l # at'.lane
          BY <1>5, <2>2, <3>2, LaneNumbers
        <4>2. slots[l] # NoRequest => slots[l] \in Active
          BY DEF Active
        <4>3. slots[l] # NoRequest => run'[slots[l]] = run[slots[l]]
          BY <1>7, <1>9, <4>2
        <4> QED BY <2>1, <4>1, <4>3
      <3> QED BY <3>1, <3>2
    <2> QED BY <2>2, <2>3 DEF Staging
  <1>16. at'.pc = "step"
    BY <1>1
  <1>17. \/ protection' = NoProtection
         \/ /\ protection # NoProtection /\ protection.head # r
            /\ at.class \in {"persistent", "temporal"}
            /\ protection'.head = protection.head
            /\ protection'.incumbents = protection.incumbents
            /\ protection'.donors = protection.donors
            /\ protection'.epoch = protection.epoch
    <2>1. CASE protection.head = r
      BY <1>1, <2>1
    <2>2. CASE protection.head # r /\ at.class = "none"
      <3>1. protection = NoProtection
        BY <1>b, <2>2
      <3> QED BY <1>1, <2>2, <3>1 DEF CreditAfter
    <2>3. CASE protection.head # r /\ at.class = "persistent"
      BY <1>1, <1>b, <2>3 DEF CreditAfter
    <2>4. CASE protection.head # r /\ at.class = "temporal"
      <3>1. protection # NoProtection
        BY <1>b, <2>4
      <3>2. protection = [epoch |-> protection.epoch, head |-> protection.head,
                         incumbents |-> protection.incumbents,
                         donors |-> protection.donors, credit |-> protection.credit,
                         drain |-> protection.drain]
        BY <3>1 DEF IInv, WorkerTypes, ProtectionShape
      <3>3. protection' = [protection EXCEPT !.credit = @ - work]
        BY <1>1, <2>4 DEF CreditAfter
      <3> QED BY <2>4, <3>1, <3>2, <3>3
    <2> QED BY <1>2, <2>1, <2>2, <2>3, <2>4
  <1>18. Frozen'
    BY <1>1, <1>4, <1>17, FrozenKept
  <1>19. HeadProtected'
    <2> SUFFICES ASSUME protection' # NoProtection PROVE HeadProtected'
      BY DEF HeadProtected, NoProtection
    <2>1. /\ protection # NoProtection /\ protection.head # r
          /\ at.class \in {"persistent", "temporal"}
          /\ protection'.head = protection.head
          /\ protection'.incumbents = protection.incumbents
          /\ protection'.donors = protection.donors
          /\ protection'.epoch = protection.epoch
      BY <1>17
    <2>2. pending' # <<>> /\ Head(pending') = protection'.head
      BY <1>4, <2>1 DEF AInv, HeadProtected
    <2>3. at.epoch = protection.epoch
      BY <1>b, <2>1
    <2>4. \A a \in Active' : \/ a \in protection'.incumbents
                             \/ /\ run'[a].epoch = protection'.epoch
                                /\ run'[a].class \in {"persistent", "temporal"}
      <3>1. CASE at.class \in {"persistent", "temporal"}
        BY <1>6, <1>7, <1>8, <1>9, <2>1, <2>3 DEF AInv, HeadProtected
      <3> QED BY <2>1, <3>1
    <2>5. r \notin protection.incumbents
      BY <1>2, <2>1 DEF AInv, Frozen
    <2> DEFINE S == Survivors(protection, Active, EpochOf, ClassOf)
               T == {protection'.head} \cup Survivors(protection', Active', EpochOf', ClassOf')
    <2>6. S \in SUBSET Requests /\ protection.head \in Requests
      BY <1>9, <2>1 DEF Survivors, IInv, WorkerTypes, ProtectionShape
    <2>7. \A x \in Survivors(protection', Active', EpochOf', ClassOf') :
              x \in S \/ (x = r /\ at.class = "persistent")
      <3>1. ASSUME NEW x \in Survivors(protection', Active', EpochOf', ClassOf')
            PROVE  x \in S \/ (x = r /\ at.class = "persistent")
        <4>1. CASE x = r
          BY <1>2, <1>8, <2>1, <2>5, <3>1, <4>1 DEF Survivors, ClassOf
        <4>2. CASE x # r
          <5>1. x \in Active /\ x \in Requests /\ run'[x] = run[x]
            BY <1>6, <1>7, <1>9, <3>1, <4>2 DEF Survivors
          <5> QED BY <2>1, <3>1, <4>2, <5>1 DEF Survivors, EpochOf, ClassOf
        <4> QED BY <4>1, <4>2
      <3> QED BY <3>1
    <2>8. Fits(T)
      <3>1. CASE at.class = "temporal"
        <4>1. Fits({protection.head} \cup S)
          BY <2>1 DEF AInv, HeadProtected
        <4>2. T \in SUBSET ({protection.head} \cup S)
          BY <2>1, <2>7, <3>1
        <4>3. ({protection.head} \cup S) \in SUBSET Requests
          BY <2>6
        <4> HIDE DEF T, S
        <4> QED BY <4>1, <4>2, <4>3, FitsMonotone
      <3>2. CASE at.class = "persistent"
        <4>1. Fits({protection.head, r} \cup S)
          BY <1>b, <3>2 DEF PersistentSafe
        <4>2. T \in SUBSET ({protection.head, r} \cup S)
          BY <2>1, <2>7
        <4>3. ({protection.head, r} \cup S) \in SUBSET Requests
          BY <1>2, <2>6
        <4> HIDE DEF T, S
        <4> QED BY <4>1, <4>2, <4>3, FitsMonotone
      <3> QED BY <2>1, <3>1, <3>2
    <2> QED BY <2>2, <2>4, <2>8 DEF HeadProtected
  <1> QED BY <1>1, <1>11, <1>12, <1>13, <1>14, <1>15, <1>16, <1>18, <1>19
          DEF AInv, Admissible, Backfill, NoInternalError

-----------------------------------------------------------------------------
(***************************************************************************)
(* The invariant, and the properties it implies.                           *)
(***************************************************************************)

LEMMA InitAdmission ==
    ASSUME Init
    PROVE  AInv
  <1>1. /\ InQueue = {} /\ Active = {} /\ protection = NoProtection /\ at.pc = "top"
        /\ prefillLane = NoLane /\ \A l \in Lanes : slots[l] = NoRequest
        /\ cache = [l \in Lanes |-> Vacant] /\ plans = [r \in Requests |-> NoPlans]
        /\ bug = FALSE
    BY DEF Init, InQueue, Active
  <1>2. CacheShape
    BY <1>1 DEF CacheShape, Vacant, Sources
  <1>3. PagesHeld
    <2> SUFFICES ASSUME NEW k \in PageKinds PROVE Committed(cache, Lanes, k) <= Capacity[k]
      BY DEF PagesHeld
    <2> DEFINE f == EntitledIn(slots, cache, k)
    <2>1. \A l \in Lanes : f[l] = 0
      BY <1>1 DEF EntitledIn, Vacant
    <2>2. Committed(cache, Lanes, k) = Cardinality(Units(Lanes, f, Capacity[k]))
      BY CommittedUnits
    <2>3. Capacity[k] \in Nat
      BY LanesFinite
    <2> HIDE DEF f
    <2>4. Units(Lanes, f, Capacity[k]) = {}
      <3>1. ASSUME NEW u \in Units(Lanes, f, Capacity[k]) PROVE FALSE
        <4>1. u[1] \in Lanes /\ u[2] \in 1 .. Capacity[k] /\ u[2] <= f[u[1]]
          BY DEF Units
        <4>2. u[2] \in Int /\ u[2] >= 1 /\ f[u[1]] = 0
          BY <2>1, <2>3, <4>1
        <4> QED BY <4>1, <4>2
      <3> QED BY <3>1
    <2> QED BY <2>2, <2>3, <2>4, FS_EmptySet
  <1>4. Staging
    BY <1>1, LaneNumbers DEF Staging
  <1> QED BY <1>1, <1>2, <1>3, <1>4
          DEF AInv, PlansCurrent, Admissible, Frozen, Backfill, HeadProtected, NoInternalError

LEMMA NextAdmission ==
    ASSUME IInv, AInv, IInv', [Next]_vars
    PROVE  AInv'
  <1>1. CASE UNCHANGED vars
    BY <1>1, StutterAdmission
  <1>2. CASE CallerStep
    BY <1>2, CallerAdmission
  <1>3. CASE Worker
    <2>1. CASE Complete
      BY <2>1, CompleteAdmission
    <2>2. CASE StopWorker
      BY <2>2, FailAllAdmission DEF StopWorker
    <2>3. CASE Boundary
      BY <2>3, BoundaryAdmission
    <2>4. CASE SelectNothing \/ SelectDropsHead \/ SelectHead \/ SelectBehindHead
      BY <2>4, SelectNothingAdmission, SelectDropsHeadAdmission, SelectHeadAdmission,
         SelectBehindHeadAdmission
    <2>5. CASE AdmitWithdrawn \/ Admit
      BY <2>5, AdmitWithdrawnAdmission, AdmitAdmission
    <2>6. CASE StepCancelled \/ StepPartial
      BY <2>6, StepCancelledAdmission, StepPartialAdmission
    <2>7. CASE \E stop \in BOOLEAN : StepComplete(stop)
      BY <2>7, StepCompleteAdmission
    <2>8. CASE \E accepted \in [Members -> 1 .. MaxAccept], stops \in SUBSET Members :
                  DecodeRound(accepted, stops)
      BY <2>8, DecodeRoundAdmission
    <2> QED BY <1>3, <2>1, <2>2, <2>3, <2>4, <2>5, <2>6, <2>7, <2>8 DEF Worker
  <1>4. CASE Fault
    BY <1>4, FailAllAdmission DEF Fault
  <1> QED BY <1>1, <1>2, <1>3, <1>4 DEF Next

\* Both invariants hold in every reachable state.
THEOREM AdmissionInvariance == Spec => [](IInv /\ AInv)
  <1>1. Init => IInv /\ AInv
    BY InitIInv, InitAdmission
  <1>2. IInv /\ AInv /\ [Next]_vars => IInv' /\ AInv'
    BY NextIInv, NextAdmission
  <1> QED BY <1>1, <1>2, PTL DEF Spec

\* Whatever the callers do, no internal check of the executor or of the admission
\* policy throws.
THEOREM ChecksNeverThrow == Spec => []NoInternalError
  <1>1. AInv => NoInternalError
    BY DEF AInv
  <1> QED BY <1>1, AdmissionInvariance, PTL

\* What the worker planned is true when it acts on it, and what the lanes are
\* entitled to stays within the pools.
THEOREM PlansStayTrue == Spec => []PlansHold
  <1>1. AInv => PlansHold
    BY DEF AInv, PlansHold, PlansCurrent, PagesHeld, Projected
  <1> QED BY <1>1, AdmissionInvariance, PTL

\* The staged prefill has one owner, the only request in a lane that cannot decode.
THEOREM PrefillHasOneOwner == Spec => []PrefillOwned
  <1>1. AInv /\ RequestPlaced => PrefillOwned
    BY DEF AInv, PrefillOwned, Staging
  <1> QED BY <1>1, AdmissionInvariance, RequestsArePlaced, PTL

\* A protected head is first in the queue and fits as soon as the donors and the
\* temporal borrowers have left.
THEOREM HeadStaysProtected == Spec => []HeadProtected
  <1>1. AInv => HeadProtected
    BY DEF AInv
  <1> QED BY <1>1, AdmissionInvariance, PTL

-----------------------------------------------------------------------------
(***************************************************************************)
(* The credit of a protection.                                             *)
(***************************************************************************)
Borrowers == {a \in Active : run[a].class = "temporal" /\ run[a].epoch = protection.epoch}

CreditKept == protection'.credit + BorrowedWork' <= protection.credit + BorrowedWork

LEMMA Borrowing ==
    ASSUME IInv, AInv
    PROVE  /\ BorrowedWork = SumOver(Work, Borrowers)
           /\ IsFiniteSet(Borrowers) /\ Borrowers \subseteq Active
           /\ \A a \in Active : a \in Requests /\ Work[a] = run[a].work /\ Work[a] \in Nat
           /\ BorrowedWork \in Nat
  <1>1. BorrowedWork = SumOver(Work, Borrowers)
    BY DEF BorrowedWork, SumOver, Borrowers
  <1>2. IsFiniteSet(Borrowers) /\ Borrowers \subseteq Active
    <2>1. Borrowers \subseteq Active
      BY DEF Borrowers
    <2> QED BY <2>1, LaneRequests, FS_Subset
  <1>3. ASSUME NEW a \in Active
        PROVE  a \in Requests /\ Work[a] = run[a].work /\ Work[a] \in Nat
    <2>1. a \in Requests /\ run[a] \in RunRecord /\ Projected(a)
      BY QueueType DEF IInv, WorkerTypes, AInv
    <2>2. run[a].work \in Int /\ run[a].budget \in Int
      BY <2>1 DEF RunRecord
    <2>3. run[a].work \in Nat
      BY <2>1, <2>2 DEF Projected
    <2> QED BY <2>1, <2>3 DEF Work
  <1>4. SumOver(Work, Borrowers) \in Nat
    <2>1. \A a \in Borrowers : Work[a] \in Nat
      BY <1>2, <1>3
    <2> QED BY <1>2, <2>1, SumNat
  <1> QED BY <1>1, <1>2, <1>3, <1>4

\* The same in the next state of a step.
LEMMA BorrowingNext ==
    ASSUME IInv', AInv'
    PROVE  /\ BorrowedWork' = SumOver(Work', Borrowers')
           /\ \A a \in Active' : a \in Requests /\ Work'[a] = run'[a].work /\ Work'[a] \in Nat
           /\ BorrowedWork' \in Nat
  <1>1. BorrowedWork' = SumOver(Work', Borrowers')
    BY DEF BorrowedWork, SumOver, Borrowers, MapThenSumSet, MapThenFoldSet
  <1>2. ASSUME NEW a \in Active'
        PROVE  a \in Requests /\ Work'[a] = run'[a].work /\ Work'[a] \in Nat
    <2>1. slots' \in [Lanes -> Sources] /\ run' \in [Requests -> RunRecord]
      BY DEF IInv, WorkerTypes
    <2>2. a \in Requests
      BY <1>2, <2>1 DEF Active, Sources
    <2>3. run'[a] \in RunRecord /\ Projected(a)'
      BY <1>2, <2>1, <2>2 DEF AInv
    <2>4. run'[a].work \in Int /\ run'[a].budget \in Int
      BY <2>3 DEF RunRecord
    <2>5. run'[a].work \in Nat
      BY <2>3, <2>4 DEF Projected
    <2> QED BY <2>2, <2>5 DEF Work
  <1>3. Active' \subseteq Requests
    BY <1>2
  <1>4. IsFiniteSet(Borrowers') /\ Borrowers' \subseteq Active'
    <2>1. Borrowers' \subseteq Active'
      BY DEF Borrowers
    <2>2. Borrowers' \subseteq Requests
      BY <1>3, <2>1
    <2> QED BY <2>1, <2>2, PolicyAssumption, FS_Subset
  <1>5. SumOver(Work', Borrowers') \in Nat
    <2>1. \A a \in Borrowers' : Work'[a] \in Nat
      BY <1>2, <1>4
    <2> QED BY <1>4, <2>1, SumNat
  <1> QED BY <1>1, <1>2, <1>5

\* A step that lets nobody in on credit lends nothing.
LEMMA NothingLent ==
    ASSUME IInv, AInv, IInv', AInv', SameProtection, protection'.credit = protection.credit,
           \A a \in Active' : /\ a \in Active
                              /\ run'[a].class = run[a].class /\ run'[a].epoch = run[a].epoch
                              /\ run'[a].work <= run[a].work
    PROVE  CreditKept
  <1>1. /\ BorrowedWork = SumOver(Work, Borrowers)
        /\ IsFiniteSet(Borrowers) /\ Borrowers \subseteq Active
        /\ \A a \in Active : a \in Requests /\ Work[a] = run[a].work /\ Work[a] \in Nat
        /\ BorrowedWork \in Nat
    BY Borrowing
  <1>2. /\ BorrowedWork' = SumOver(Work', Borrowers')
        /\ \A a \in Active' : a \in Requests /\ Work'[a] = run'[a].work /\ Work'[a] \in Nat
        /\ BorrowedWork' \in Nat
    BY BorrowingNext
  <1>3. Borrowers' \in SUBSET Borrowers /\ Borrowers' \subseteq Active'
    BY DEF Borrowers, SameProtection
  <1>4. protection.credit \in Int
    BY DEF SameProtection, IInv, WorkerTypes, ProtectionShape
  <1> DEFINE T == Borrowers'
             S == Borrowers
             f == Work'
             g == Work
  <1>5. \A a \in T : f[a] \in Nat /\ g[a] \in Nat /\ f[a] <= g[a]
    BY <1>1, <1>2, <1>3
  <1>6. IsFiniteSet(T) /\ \A a \in S : g[a] \in Nat
    BY <1>1, <1>3, FS_Subset
  <1>7. T \in SUBSET S /\ IsFiniteSet(S)
    BY <1>1, <1>3
  <1> HIDE DEF T, S, f, g
  <1>8. SumOver(f, T) <= SumOver(g, T)
    BY <1>5, <1>6, SumMonotone
  <1>9. SumOver(g, T) <= SumOver(g, S)
    BY <1>6, <1>7, SumSubset
  <1>10. /\ SumOver(f, T) \in Nat /\ SumOver(g, T) \in Nat /\ SumOver(g, S) \in Nat
    BY <1>5, <1>6, <1>7, SumNat
  <1>11. SumOver(f, T) <= SumOver(g, S)
    BY <1>8, <1>9, <1>10
  <1>12. BorrowedWork' <= BorrowedWork
    BY <1>1, <1>2, <1>11 DEF T, S, f, g
  <1> QED BY <1>1, <1>2, <1>4, <1>12 DEF CreditKept

\* An admission on credit takes its work from the credit.
LEMMA AdmitLends ==
    ASSUME IInv, AInv, IInv', AInv', SameProtection, Admit
    PROVE  CreditKept
  <1> DEFINE r == at.req
             lane == at.lane
             plan == plans[r][lane]
             work == ServiceWork(r, plan)
  <1>1. /\ at.pc = "admit" /\ plan \in Sources
        /\ slots' = [slots EXCEPT ![lane] = r]
        /\ run' = [run EXCEPT ![r] =
                     [ready |-> FALSE, budget |-> OutTokens[r], work |-> work,
                      class |-> at.class, epoch |-> at.epoch]]
        /\ protection' = IF protection.head = r THEN NoProtection
                         ELSE CreditAfter(at.class, work)
    BY AdmitSucceeds
  <1>2. /\ r \in Requests /\ r \notin Active /\ lane \in Lanes /\ slots[lane] = NoRequest
        /\ at.class \in {"none", "persistent", "temporal"}
    BY <1>1, AtAdmit
  <1>3. work \in Nat
    BY <1>1, <1>2, WorkBounds
  <1>4. /\ protection # NoProtection /\ protection' = CreditAfter(at.class, work)
        /\ protection'.epoch = protection.epoch
    BY <1>1 DEF SameProtection
  <1>a. Backfill /\ at.pc = "admit" /\ at.req # protection.head
    BY <1>1 DEF AInv, SameProtection
  <1>5. at.class # "none" /\ at.epoch = protection.epoch
    BY <1>4, <1>a DEF Backfill
  <1>6. protection.credit \in Int
    BY <1>4 DEF IInv, WorkerTypes, ProtectionShape
  <1> HIDE DEF r, lane, plan, work
  <1>7. /\ run'[r] = [ready |-> FALSE, budget |-> OutTokens[r], work |-> work,
                      class |-> at.class, epoch |-> at.epoch]
        /\ \A q \in Requests \ {r} : run'[q] = run[q]
    BY <1>1, <1>2 DEF IInv, WorkerTypes
  <1>8. run'[r].work = work /\ run'[r].class = at.class /\ run'[r].epoch = at.epoch
    BY <1>7
  <1>9. \A a \in Active' : a \in Active \/ a = r
    BY <1>1, <1>2 DEF Active, IInv, WorkerTypes
  <1>10. /\ BorrowedWork = SumOver(Work, Borrowers)
         /\ IsFiniteSet(Borrowers) /\ Borrowers \subseteq Active
         /\ \A a \in Active : a \in Requests /\ Work[a] = run[a].work /\ Work[a] \in Nat
         /\ BorrowedWork \in Nat
    BY Borrowing
  <1>11. /\ BorrowedWork' = SumOver(Work', Borrowers')
         /\ \A a \in Active' : a \in Requests /\ Work'[a] = run'[a].work /\ Work'[a] \in Nat
         /\ BorrowedWork' \in Nat
    BY BorrowingNext
  <1> DEFINE T == Borrowers'
             S == Borrowers
             f == Work'
             g == Work
             N == T \ {r}
  <1>12. N \in SUBSET S /\ T \subseteq Active'
    <2>1. T \subseteq Active'
      BY DEF Borrowers
    <2>2. ASSUME NEW a \in N PROVE a \in S
      <3>1. a \in Active /\ a \in Requests /\ run'[a] = run[a]
        BY <1>7, <1>9, <1>10, <2>1
      <3> QED BY <1>4, <3>1 DEF Borrowers
    <2> QED BY <2>1, <2>2
  <1>13. \A a \in N : f[a] \in Nat /\ g[a] \in Nat /\ f[a] <= g[a]
    <2>1. ASSUME NEW a \in N PROVE f[a] \in Nat /\ g[a] \in Nat /\ f[a] <= g[a]
      <3>1. a \in Active /\ a \in Requests /\ run'[a] = run[a] /\ a \in Active'
        BY <1>7, <1>9, <1>10, <1>12
      <3>2. f[a] \in Nat /\ f[a] = run[a].work /\ g[a] = run[a].work /\ g[a] \in Nat
        BY <1>10, <1>11, <3>1
      <3> QED BY <3>2
    <2> QED BY <2>1
  <1>14. /\ IsFiniteSet(S) /\ IsFiniteSet(N) /\ \A a \in S : g[a] \in Nat
    BY <1>10, <1>12, FS_Subset
  <1>15. IsFiniteSet(T) /\ \A a \in T : f[a] \in Nat
    <2>1. T \subseteq Requests /\ \A a \in T : f[a] \in Nat
      BY <1>11, <1>12
    <2> QED BY <2>1, PolicyAssumption, FS_Subset
  <1>16. r \in T => f[r] = work
    BY <1>8, <1>11, <1>12
  <1> HIDE DEF T, S, f, g, N
  <1>17. SumOver(f, N) <= SumOver(g, N) /\ SumOver(g, N) <= SumOver(g, S)
    BY <1>12, <1>13, <1>14, SumMonotone, SumSubset
  <1>18. SumOver(f, N) \in Nat /\ SumOver(g, N) \in Nat /\ SumOver(g, S) \in Nat
    BY <1>13, <1>14, SumNat
  <1>19. SumOver(f, T) = IF r \in T THEN work + SumOver(f, N) ELSE SumOver(f, N)
    <2>1. CASE r \in T
      <3>1. SumOver(f, T) = f[r] + SumOver(f, T \ {r})
        BY <1>15, <2>1, SumRemove
      <3> QED BY <1>16, <2>1, <3>1 DEF N
    <2>2. CASE r \notin T
      <3>1. N = T
        BY <2>2 DEF N
      <3> QED BY <2>2, <3>1
    <2> QED BY <2>1, <2>2
  <1>20. BorrowedWork' = SumOver(f, T) /\ BorrowedWork = SumOver(g, S)
    BY <1>10, <1>11 DEF f, g, T, S
  <1>21. CASE at.class = "temporal"
    <2>1. protection = [epoch |-> protection.epoch, head |-> protection.head,
                         incumbents |-> protection.incumbents,
                         donors |-> protection.donors, credit |-> protection.credit,
                         drain |-> protection.drain]
      BY <1>4 DEF IInv, WorkerTypes, ProtectionShape
    <2>2. protection' = [protection EXCEPT !.credit = @ - work]
      BY <1>4, <1>21 DEF CreditAfter
    <2>3. protection'.credit = protection.credit - work
      BY <2>1, <2>2
    <2> QED BY <1>3, <1>6, <1>17, <1>18, <1>19, <1>20, <2>3 DEF CreditKept
  <1>22. CASE at.class = "persistent"
    <2>1. protection'.credit = protection.credit
      BY <1>4, <1>22 DEF CreditAfter
    <2>2. r \notin T
      BY <1>8, <1>22 DEF T, Borrowers
    <2> QED BY <1>3, <1>6, <1>17, <1>18, <1>19, <1>20, <2>1, <2>2 DEF CreditKept
  <1> QED BY <1>2, <1>5, <1>21, <1>22

\* Steps that leave the lanes alone.
LEMMA LanesAlone ==
    ASSUME IInv, AInv, IInv', AInv', SameProtection, laneVars' = laneVars,
           protection'.credit = protection.credit
    PROVE  CreditKept
  <1>1. Active' = Active /\ run' = run
    BY DEF laneVars, Active
  <1>2. ASSUME NEW a \in Active
        PROVE  run[a].work <= run[a].work
    <2>1. Work[a] = run[a].work /\ Work[a] \in Nat
      BY Borrowing
    <2> QED BY <2>1
  <1> QED BY <1>1, <1>2, NothingLent

\* Steps that end requests and leave the others as they are.
LEMMA SomeLeave ==
    ASSUME IInv, AInv, IInv', AInv', SameProtection, NEW S, slots' = Vacated(S),
           run' = Stopped(S), protection' = protection
    PROVE  CreditKept
  <1>1. ASSUME NEW a \in Active'
        PROVE  a \in Active /\ a \notin S /\ run'[a] = run[a] /\ run[a].work <= run[a].work
    <2>1. a \in Active /\ a \notin S
      BY <1>1 DEF Active, Vacated
    <2>2. a \in Requests /\ Work[a] = run[a].work /\ Work[a] \in Nat
      BY <2>1, Borrowing
    <2>3. run'[a] = run[a]
      BY <2>1, <2>2 DEF Stopped
    <2> QED BY <2>1, <2>2, <2>3
  <1> QED BY <1>1, NothingLent

LEMMA PartialLends ==
    ASSUME IInv, AInv, IInv', AInv', SameProtection, StepPartial
    PROVE  CreditKept
  <1> DEFINE r == slots[at.lane]
             y == [run[r] EXCEPT !.work = @ - 1]
  <1>1. /\ at.pc = "step" /\ run' = [run EXCEPT ![r] = y] /\ slots' = slots
        /\ protection' = protection
    BY DEF StepPartial, policyVars
  <1>2. r \in Requests /\ run[r] \in RunRecord /\ run[r].work \in Int /\ 1 \in Int
    BY <1>1, InStep
  <1> HIDE DEF r
  <1>3. y.work = run[r].work - 1 /\ y.class = run[r].class /\ y.epoch = run[r].epoch
    BY <1>2, RunUpdateFacts
  <1> HIDE DEF y
  <1>4. Active' = Active
    BY <1>1 DEF Active
  <1>5. ASSUME NEW a \in Active
        PROVE  /\ run'[a].class = run[a].class /\ run'[a].epoch = run[a].epoch
               /\ run'[a].work <= run[a].work
    <2>1. a \in Requests /\ Work[a] = run[a].work /\ Work[a] \in Nat
      BY Borrowing
    <2>2. run'[r] = y /\ (a # r => run'[a] = run[a])
      BY <1>1, <1>2, <2>1 DEF IInv, WorkerTypes
    <2> QED BY <1>2, <1>3, <2>1, <2>2
  <1> QED BY <1>1, <1>4, <1>5, NothingLent

LEMMA CompleteLends ==
    ASSUME IInv, AInv, IInv', AInv', SameProtection, NEW stop \in BOOLEAN, StepComplete(stop)
    PROVE  CreditKept
  <1> DEFINE r == slots[at.lane]
             finished == stop \/ run[r].budget = 1
             y == [run[r] EXCEPT !.work = @ - 1, !.budget = @ - 1, !.ready = TRUE]
  <1>1. at.pc = "step"
    BY DEF StepComplete
  <1>2. /\ r \in Requests /\ run[r] \in RunRecord /\ run[r].work \in Int /\ 1 \in Int
        /\ run[r].work > 0
    BY <1>1, InStep
  <1>3. run[r].work # 0
    BY <1>2
  <1>4. CASE finished
    <2>1. slots' = Vacated({r}) /\ run' = Stopped({r}) /\ protection' = protection
      BY <1>3, <1>4 DEF StepComplete
    <2> QED BY <2>1, SomeLeave
  <1>5. CASE ~finished
    <2>1. run' = [run EXCEPT ![r] = y] /\ slots' = slots /\ protection' = protection
      BY <1>3, <1>5 DEF StepComplete
    <2> HIDE DEF r, finished
    <2>2. y.work = run[r].work - 1 /\ y.class = run[r].class /\ y.epoch = run[r].epoch
      BY <1>2, RunUpdateFacts
    <2> HIDE DEF y
    <2>3. Active' = Active
      BY <2>1 DEF Active
    <2>4. ASSUME NEW a \in Active
          PROVE  /\ run'[a].class = run[a].class /\ run'[a].epoch = run[a].epoch
                 /\ run'[a].work <= run[a].work
      <3>1. a \in Requests /\ Work[a] = run[a].work /\ Work[a] \in Nat
        BY Borrowing
      <3>2. run'[r] = y /\ (a # r => run'[a] = run[a])
        BY <1>2, <2>1, <3>1 DEF IInv, WorkerTypes
      <3> QED BY <1>2, <2>2, <3>1, <3>2
    <2> QED BY <2>1, <2>3, <2>4, NothingLent
  <1> QED BY <1>4, <1>5

LEMMA DecodeLends ==
    ASSUME IInv, AInv, IInv', AInv', SameProtection,
           NEW accepted \in [Members -> 1 .. MaxAccept], NEW stops \in SUBSET Members,
           DecodeRound(accepted, stops)
    PROVE  CreditKept
  <1> DEFINE rows == {r \in Members : ~cancelled[r]}
             aborted == Members \ rows
             finished == {r \in rows : r \in stops \/ accepted[r] = run[r].budget}
             ended == aborted \cup finished
  <1>1. protection' # NoProtection
    BY DEF SameProtection
  <1>2. ~Throw
    BY <1>1 DEF Throw, ThrowLosing, FailAll
  <1>3. /\ slots' = Vacated(ended)
        /\ run' = [r \in Requests |->
                     IF r \in ended THEN NotRunning
                     ELSE IF r \in rows THEN [run[r] EXCEPT !.work = @ - accepted[r],
                                                            !.budget = @ - accepted[r]]
                     ELSE run[r]]
        /\ protection' = protection
    BY <1>2 DEF DecodeRound
  <1>4. \A r \in rows : accepted[r] \in Nat
    BY ExecutorAssumption
  <1> HIDE DEF rows, aborted, finished, ended
  <1>5. ASSUME NEW a \in Active'
        PROVE  /\ a \in Active
               /\ run'[a].class = run[a].class /\ run'[a].epoch = run[a].epoch
               /\ run'[a].work <= run[a].work
    <2>1. a \in Active /\ a \notin ended
      BY <1>3, <1>5 DEF Active, Vacated
    <2>2. a \in Requests /\ Work[a] = run[a].work /\ Work[a] \in Nat
      BY <2>1, Borrowing
    <2>3. CASE a \notin rows
      <3>1. run'[a] = run[a]
        BY <1>3, <2>1, <2>2, <2>3
      <3> QED BY <2>1, <2>2, <3>1
    <2>4. CASE a \in rows
      <3> DEFINE y == [run[a] EXCEPT !.work = @ - accepted[a], !.budget = @ - accepted[a]]
      <3>1. run'[a] = y
        BY <1>3, <2>1, <2>2, <2>4
      <3>2. run[a] \in RunRecord /\ accepted[a] \in Int
        BY <1>4, <2>2, <2>4 DEF IInv, WorkerTypes
      <3>3. /\ y.work = run[a].work - accepted[a]
            /\ y.class = run[a].class /\ y.epoch = run[a].epoch
        BY <3>2, RunUpdateFacts
      <3> HIDE DEF y
      <3> QED BY <1>4, <2>1, <2>2, <2>4, <3>1, <3>3
    <2> QED BY <2>3, <2>4
  <1> QED BY <1>3, <1>5, NothingLent

LEMMA BehindHeadLends ==
    ASSUME IInv, AInv, IInv', AInv', SameProtection, SelectBehindHead
    PROVE  CreditKept
  <1> DEFINE head == Head(pending)
  <1>1. protection' # NoProtection /\ protection # NoProtection
    BY DEF SameProtection
  <1>2. ~Throw
    BY <1>1 DEF Throw, ThrowLosing, FailAll
  <1>3. /\ pending # <<>> /\ ~Inadmissible(head) /\ Active # {}
        /\ protection' = ProtFor(head) /\ laneVars' = laneVars
    BY <1>2, BehindHeadCases
  <1>4. head \in Requests /\ Fits({head}) /\ protection.head = head
    BY <1>1, <1>3, HeadFacts DEF Inadmissible, AInv, HeadProtected
  <1> HIDE DEF head
  <1>5. ProtFor(head).credit = MadeFor(head).credit
    BY <1>3, <1>4, ProtectionMade
  <1>6. MadeFor(head) = protection
    BY <1>4 DEF MadeFor
  <1>7. protection'.credit = protection.credit
    BY <1>3, <1>5, <1>6
  <1> QED BY <1>3, <1>7, LanesAlone

LEMMA CreditStep ==
    ASSUME IInv, AInv, IInv', AInv', [Next]_vars, SameProtection
    PROVE  CreditKept
  <1>0. protection' # NoProtection
    BY DEF SameProtection
  <1>1. CASE UNCHANGED vars
    BY <1>1, LanesAlone DEF vars, policyVars
  <1>2. CASE CallerStep
    <2>1. UNCHANGED <<laneVars, policyVars>>
      BY <1>2 DEF CallerStep, Reserve, Refuse, BuildFails, Push, Wait, Abandon, Poll, Cancel,
                  ReleaseConsumer, CallerFrees, Expire, Stop, workerVars
    <2> QED BY <2>1, LanesAlone DEF policyVars
  <1>3. CASE Worker
    <2>1. CASE Complete
      <3>1. UNCHANGED <<laneVars, policyVars>>
        BY <2>1 DEF Complete, SetDone, MarkCompleted, WorkerFrees
      <3> QED BY <3>1, LanesAlone DEF policyVars
    <2>2. CASE StopWorker \/ SelectNothing \/ SelectDropsHead
      BY <1>0, <2>2 DEF StopWorker, SelectNothing, SelectDropsHead, FailAll
    <2>3. CASE Boundary
      <3>1. \E S : slots' = Vacated(S) /\ run' = Stopped(S)
        BY <2>3 DEF Boundary
      <3>2. protection' = protection
        BY <1>0, <2>3 DEF Boundary, ProtectionWithout
      <3> QED BY <3>1, <3>2, SomeLeave
    <2>4. CASE SelectHead
      <3>1. laneVars' = laneVars /\ protection' = protection
        BY <1>0, <2>4 DEF SelectHead, HeadProtection
      <3> QED BY <3>1, LanesAlone
    <2>5. CASE SelectBehindHead
      BY <2>5, BehindHeadLends
    <2>6. CASE AdmitWithdrawn
      <3>1. laneVars' = laneVars /\ protection' = protection
        BY <1>0, <2>6 DEF AdmitWithdrawn, ProtectionWithout
      <3> QED BY <3>1, LanesAlone
    <2>7. CASE Admit
      BY <2>7, AdmitLends
    <2>8. CASE StepCancelled
      <3>1. ~Throw
        BY <1>0 DEF Throw, ThrowLosing, FailAll
      <3>2. \E S : slots' = Vacated(S) /\ run' = Stopped(S)
        BY <2>8, <3>1 DEF StepCancelled
      <3>3. protection' = protection
        BY <2>8, <3>1 DEF StepCancelled
      <3> QED BY <3>2, <3>3, SomeLeave
    <2>9. CASE StepPartial
      BY <2>9, PartialLends
    <2>10. CASE \E stop \in BOOLEAN : StepComplete(stop)
      BY <2>10, CompleteLends
    <2>11. CASE \E accepted \in [Members -> 1 .. MaxAccept], stops \in SUBSET Members :
                   DecodeRound(accepted, stops)
      BY <2>11, DecodeLends
    <2> QED BY <1>3, <2>1, <2>2, <2>3, <2>4, <2>5, <2>6, <2>7, <2>8, <2>9, <2>10, <2>11
            DEF Worker
  <1>4. CASE Fault
    BY <1>0, <1>4 DEF Fault, FailAll
  <1> QED BY <1>1, <1>2, <1>3, <1>4 DEF Next

\* Under one protection the credit and the work already lent out never grow together.
THEOREM CreditBoundsLending == Spec => CreditNeverGrows
  <1>1. /\ IInv /\ AInv /\ (IInv /\ AInv)' /\ [Next]_vars
        => [SameProtection =>
              protection'.credit + BorrowedWork' <= protection.credit + BorrowedWork]_vars
    BY CreditStep DEF CreditKept
  <1> QED BY <1>1, AdmissionInvariance, PTL DEF Spec, CreditNeverGrows
=============================================================================
