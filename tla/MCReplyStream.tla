---------------------------- MODULE MCReplyStream ----------------------------
(* Every short text, and texts around one or two calls: white space and      *)
(* pieces of markers before, between and after them.                        *)
EXTENDS ReplyStream

CONSTANT MaxFree, MaxAround

Symbols == {"x", " ", "<", "t", "/", "f"}
UpTo(n) == UNION {[1 .. m -> Symbols] : m \in 0 .. n}

Call == <<"<", "t", "f", "<", "/">>
Around(call, n) == {before \o call \o after : before, after \in UpTo(n)}

AllTexts == UpTo(MaxFree) \cup Around(Call, MaxAround)
                \cup Around(Call \o <<" ">> \o Call, 1)
                \cup Around(<<"<", "t", " ", "f", " ", "<", "/">>, 1)
SomeReasoning == {<<>>, <<"r", "r">>}
=============================================================================
