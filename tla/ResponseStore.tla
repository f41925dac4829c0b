---------------------------- MODULE ResponseStore ----------------------------
(***************************************************************************)
(* The in-memory store of the Responses API (src/src/serve/response_store). *)
(* A record keeps a conversation: a chain of immutable context nodes whose  *)
(* tail belongs to the response itself and whose other nodes are shared     *)
(* with the records of its ancestors.  Every operation holds the store's    *)
(* mutex from its lookup to its last assignment, so each is one step.       *)
(*                                                                         *)
(* A conversation is the sequence of the responses that contributed to it;  *)
(* the id stands for the two nodes (input, output) a response appends.      *)
(***************************************************************************)
EXTENDS Integers, Sequences, FiniteSets, FiniteSetsExt, Functions

CONSTANTS
    Ids,            \* response ids; new_response_id never repeats one
    NodeBytes,      \* id -> owned_bytes of the nodes that id appends
    EnvelopeBytes,  \* id -> bytes of its JSON body and input items
    MaxRecords,     \* response_store_max_records
    MaxBytes        \* response_store_max_bytes

ASSUME StoreAssumption ==
    /\ NodeBytes \in [Ids -> Nat \ {0}]
    /\ EnvelopeBytes \in [Ids -> Nat \ {0}]
    /\ MaxRecords \in Nat \ {0}
    /\ MaxBytes \in Nat \ {0}

VARIABLES
    records,        \* records_: stored id -> its conversation
    lru,            \* lru_: stored ids, most recently used first
    bytes           \* current_bytes_

storeVars == <<records, lru, bytes>>

StoreInit ==
    /\ records = <<>>
    /\ lru = <<>>
    /\ bytes = 0

-----------------------------------------------------------------------------
(* Accounting.                                                             *)

NodesBytes(nodes) == MapThenSumSet(LAMBDA id : NodeBytes[id], nodes)

(* What a record needs when nothing else is stored.                        *)
StandaloneBytes(id, context) == EnvelopeBytes[id] + NodesBytes(Range(context))

(* What the store holds: a node shared by several records counts once.     *)
RecomputeBytes(recs) ==
    MapThenSumSet(LAMBDA id : EnvelopeBytes[id], DOMAIN recs)
        + NodesBytes(UNION {Range(recs[id]) : id \in DOMAIN recs})

AppendResponseContext(parent, id) == Append(parent, id)

-----------------------------------------------------------------------------
(* The operations under the mutex.                                         *)

(* lru_.erase at the iterator the record keeps: what is behind moves up.   *)
Without(order, id) ==
    LET k == CHOOSE i \in DOMAIN order : order[i] = id
    IN  [i \in 1 .. Len(order) - 1 |-> IF i < k THEN order[i] ELSE order[i + 1]]

Found(id) == id \in DOMAIN records

\* Mutant: a lookup does not count as use.
TouchNothing(id) == UNCHANGED storeVars

(* get: a hit moves the record to the front; the caller shares the record. *)
Touch(id) ==
    /\ lru' = IF Found(id) THEN <<id>> \o Without(lru, id) ELSE lru
    /\ UNCHANGED <<records, bytes>>

(* put refuses a record that could not be kept even alone.                 *)
FitsAlone(id, context) == StandaloneBytes(id, context) <= MaxBytes

\* Mutant: eviction looks at the number of records only.
KeptByCount(order, recs) ==
    SubSeq(order, 1, IF Len(order) <= MaxRecords THEN Len(order) ELSE MaxRecords)

(* put inserts at the front and erases from the back until both limits     *)
(* hold: it keeps the longest prefix of the order that fits.               *)
KeptPrefix(order, recs) ==
    LET Fits(k) == /\ k <= MaxRecords
                   /\ RecomputeBytes(Restrict(recs, Range(SubSeq(order, 1, k))))
                          <= MaxBytes
    IN  SubSeq(order, 1, Max({0} \cup {k \in 1 .. Len(order) : Fits(k)}))

Insert(id, context) ==
    LET order == <<id>> \o lru
        grown == [r \in DOMAIN records \cup {id} |->
                      IF r = id THEN context ELSE records[r]]
        kept  == KeptPrefix(order, grown)
    IN  /\ ~Found(id)
        /\ records' = Restrict(grown, Range(kept))
        /\ lru' = kept
        /\ bytes' = RecomputeBytes(records')

Erase(id) ==
    /\ Found(id)
    /\ records' = Restrict(records, DOMAIN records \ {id})
    /\ lru' = Without(lru, id)
    /\ bytes' = RecomputeBytes(records')

-----------------------------------------------------------------------------
(* The order lists the records exactly, and both limits hold after every   *)
(* operation: put leaves no store over its limits, and erase or a failed   *)
(* put leaves neither a dangling list entry nor a record the list forgot.  *)
StoreBounded ==
    /\ Range(lru) = DOMAIN records
    /\ Len(lru) = Cardinality(DOMAIN records)
    /\ Len(lru) <= MaxRecords
    /\ bytes = MapThenSumSet(LAMBDA id : EnvelopeBytes[id], DOMAIN records)
                 + MapThenSumSet(LAMBDA id : NodeBytes[id],
                                 UNION {Range(records[id]) : id \in DOMAIN records})
    /\ bytes <= MaxBytes
=============================================================================
