--------------------------- MODULE MCOutputSession ---------------------------
(* Vocabularies in which markers, stop strings and the code point are split *)
(* between tokens in every way, and stop strings that overlap.             *)
EXTENDS OutputSession

Vocabulary ==
    [x |-> <<"x">>, y |-> <<"y">>, blank |-> <<" ">>, lt |-> <<"<">>,
     slash |-> <<"/", " ">>, ltslash |-> <<"y", "<", "/", "x">>, lead |-> <<"x", "L">>,
     cont |-> <<"C">>, xyx |-> <<"x", "y", "x">>, eos |-> <<>>, loud |-> <<"y">>]

Stop(text, channel, include) == [text |-> text, channel |-> channel, include |-> include]

(* Declared in the order that is not the order of position.                *)
OverlappingStops == <<Stop(<<"y", "x", "x">>, "content", TRUE),
                      Stop(<<"x", "y", "<">>, "content", FALSE),
                      Stop(<<"y", "x", "x">>, "reasoning", FALSE),
                      Stop(<<"x", "<">>, "reasoning", TRUE)>>

(* Reasoning with a hidden stop token.                                     *)
Thinking ==
    [tokens |-> {"x", "y", "blank", "lt", "slash", "ltslash", "lead", "cont", "eos"},
     stopTokens |-> {"eos"}, publishStopToken |-> FALSE, startsInReasoning |-> TRUE,
     maxTokens |-> 5, maxRound |-> 2]

(* Content only, with a stop token that is published, in longer rounds.    *)
Direct ==
    [tokens |-> {"x", "y", "lt", "xyx", "lead", "cont", "loud"},
     stopTokens |-> {"loud"}, publishStopToken |-> TRUE, startsInReasoning |-> FALSE,
     maxTokens |-> 6, maxRound |-> 3]

BothPolicies == {Thinking, Direct}
=============================================================================
