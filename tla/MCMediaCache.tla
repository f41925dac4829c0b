---------------------------- MODULE MCMediaCache ----------------------------
(***************************************************************************)
(* Small instances of the media preparation for TLC.                       *)
(***************************************************************************)
EXTENDS MediaCache

(***************************************************************************)
(* Two permits for three requests: requests 1 and 3 share an item, one     *)
(* item of request 2 cannot be decoded, the payloads of all of them do not *)
(* fit the live capacity together and the cache may hold almost all of it. *)
(***************************************************************************)
ShareParts == [r \in Requests |-> <<<<"a", "b">>, <<"d", "bad">>, <<"b", "c">>>>[r]]
ShareBytes == [i \in {"a", "b", "c", "d", "bad"} |-> IF i = "b" THEN 1 ELSE 2]

(***************************************************************************)
(* Request 1 leaves its two items in the cache; request 2 names them after *)
(* an item of its own, and is over the budget.                             *)
(***************************************************************************)
HitParts == [r \in Requests |-> <<<<"a", "b">>, <<"c", "a", "b">>>>[r]]
HitBytes == [i \in {"a", "b", "c"} |-> 1]
=============================================================================
