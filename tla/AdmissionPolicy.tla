--------------------------- MODULE AdmissionPolicy ---------------------------
(***************************************************************************)
(* The protected-head admission policy of the engine                       *)
(* (src/runtime/engine/admission_policy.cpp): pure functions of a head     *)
(* request that does not fit, the active requests and the capacity.        *)
(*                                                                         *)
(* A request's AdmissionResources are the vector Need[r], one entry per    *)
(* kind of resource (lanes, main and backend KV pages).  A sum of vectors  *)
(* is the number of units the requests occupy, counted per kind; a request *)
(* larger than the capacity counts one unit more than the capacity, which  *)
(* is enough to tell that it does not fit.                                 *)
(***************************************************************************)
EXTENDS Integers, FiniteSets, FiniteSetsExt

CONSTANTS
    Requests,   \* the requests
    Kinds,      \* the components of AdmissionResources
    Capacity,   \* admission_capacity(), one number per kind
    Need        \* Need[r][k]: the resources an admission of r takes

ASSUME PolicyAssumption ==
    /\ Capacity \in [Kinds -> Nat \ {0}]
    /\ Need \in [Requests -> [Kinds -> Nat]]
    /\ IsFiniteSet(Requests)

NoRequest == 0
NoProtection == [head |-> NoRequest]

\* The units of kind k that the requests of S occupy.
Used(S, k) ==
    Cardinality({u \in S \X (1 .. Capacity[k] + 1) : u[2] <= Need[u[1]][k]})

\* fits: the requests of S together stay within the capacity.
Fits(S) == \A k \in Kinds : Used(S, k) <= Capacity[k]

\* The order of the donors: least remaining work first, then the lower identity.
ReleasesBefore(a, b, work, id) ==
    \/ work[a] < work[b]
    \/ work[a] = work[b] /\ id[a] <= id[b]

\* The conditions under which make_admission_protection throws.
ProtectionThrows(head, active, work) ==
    \/ active = {}
    \/ ~Fits({head})
    \/ \E a \in active : work[a] = 0
    \/ Fits(active \cup {head})

\* make_admission_protection: the incumbents are frozen, and the donors are the
\* shortest prefix of the release order that lets the head in.  The credit is the
\* remaining work of the last donor.
MakeProtection(epoch, head, active, work, id) ==
    LET upTo(a) == {b \in active : ReleasesBefore(b, a, work, id)}
        lets(a) == Fits((active \ upTo(a)) \cup {head})
        last == CHOOSE a \in active :
                    lets(a) /\ \A b \in upTo(a) \ {a} : ~lets(b)
    IN  [epoch |-> epoch, head |-> head, incumbents |-> active,
         donors |-> upTo(last), credit |-> work[last], drain |-> FALSE]

\* Mutant: each candidate is compared with the initial surplus alone.
PersistentSafeAlone(prot, active, epochOf, classOf, candidate) ==
    Fits({prot.head, candidate} \cup ((active \cap prot.incumbents) \ prot.donors))

\* The requests that stay when the donors and the temporal borrowers have gone.
Survivors(prot, active, epochOf, classOf) ==
    {a \in active : IF a \in prot.incumbents
                      THEN a \notin prot.donors
                      ELSE epochOf[a] = prot.epoch /\ classOf[a] = "persistent"}

\* persistent_backfill_is_safe
PersistentSafe(prot, active, epochOf, classOf, candidate) ==
    Fits({prot.head, candidate} \cup Survivors(prot, active, epochOf, classOf))

\* protection_frontier_distance
FrontierDistance(prot, active, work) ==
    Max({0} \cup {work[a] : a \in active \cap prot.donors})

\* protected_head_safe_without_temporal
SafeWithoutTemporal(prot, active, epochOf, classOf) ==
    Fits({prot.head} \cup
         {a \in active : \/ a \in prot.incumbents
                         \/ epochOf[a] # prot.epoch
                         \/ classOf[a] # "temporal"})
=============================================================================
