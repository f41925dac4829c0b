--------------------------- MODULE MCPagedKVPool ---------------------------
(***************************************************************************)
(* TLC instances of PagedKVPool.                                           *)
(***************************************************************************)
EXTENDS PagedKVPool, TLC

\* Two pools of different size: mappings grow, shrink and move in the large one, and a
\* bundle fits one and not the other.
TwoPools == {"main", "backend"}
TwoPoolPages == [p \in TwoPools |-> IF p = "main" THEN 2 ELSE 1]

\* Handles are interchangeable.
HandleSymmetry == Permutations(Handles)
=============================================================================
