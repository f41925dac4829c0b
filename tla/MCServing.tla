------------------------------ MODULE MCServing ------------------------------
(* Small instances of the HTTP handlers with the response store.           *)
EXTENDS Serving

Shape(api, stream, store, continues) ==
    [api |-> api, stream |-> stream, store |-> store, continues |-> continues]

(* Every endpoint with and without a stream, and responses with and without  *)
(* a store.  The streamed ones continue an earlier response, so conversations *)
(* branch and grow; the others begin one.                                     *)
AllShapes ==
    {Shape(api, stream, FALSE, FALSE) : api \in {"chat", "messages"}, stream \in BOOLEAN}
    \cup {Shape("responses", stream, store, stream) : stream, store \in BOOLEAN}

(* The second response is large: two of its kind do not fit together.      *)
NodeSizes == [id \in Ids |-> IF id = "b" THEN 5 ELSE 2]
EnvelopeSizes == [id \in Ids |-> 1]
=============================================================================
