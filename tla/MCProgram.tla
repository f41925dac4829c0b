------------------------------ MODULE MCProgram ------------------------------
(* Prompts for the runs of Program. Each group has prompts that continue, rewrite *)
(* or diverge from what a lane may have retained of another.                      *)
EXTENDS Program

TextPos(n) == [i \in 1 .. n |-> i - 1]
Text(ids, ckpt, out) ==
    [ids |-> ids, items |-> <<>>, pos |-> TextPos(Len(ids)), delta |-> 0,
     ckpt |-> ckpt, out |-> out, reusable |-> TRUE]
Turn(n) == [kind |-> "turn", at |-> n]
Response(n) == [kind |-> "response", at |-> n]

\* A turn, the same turn continued after an answer, a longer continuation, one that
\* asks for no checkpoint, another conversation, and a rewritten answer.
Turns == { Text(<<"a", "b">>, Turn(1), 5),
           Text(<<"c", "b">>, Turn(1), 1),
           Text(<<"a", "b", "x", "y">>, Turn(2), 2),
           Text(<<"a", "b", "x", "y", "c">>, Turn(4), 4),
           Text(<<"a", "b", "x">>, NoCkpt, 2),
           Text(<<"a", "c", "x">>, Response(1), 3) }

\* Short prompts for two lanes that share the pools.
Pair == { Text(<<"a", "b">>, Turn(1), 4),
          Text(<<"a", "b", "x", "c">>, Turn(3), 2) }

\* A prompt with images: each covers the columns first .. last and its temporal
\* position stands for its rotary positions.
Image(first, last, content) == [first |-> first, last |-> last, content |-> content]
Visuals(ids, items, pos, delta, ckpt, out) ==
    [ids |-> ids, items |-> items, pos |-> pos, delta |-> delta,
     ckpt |-> ckpt, out |-> out, reusable |-> TRUE]

\* Two images, a continuation, another second image, another first image.
Pictures ==
    LET start == <<"a", "pad", "pad", "b", "pad", "pad", "x">>
        pos == <<0, 1, 1, 3, 4, 4, 6>>
    IN { Visuals(start, <<Image(2, 3, "cat"), Image(5, 6, "dog")>>, pos, 0, Turn(4), 2),
         Visuals(start \o <<"x">>, <<Image(2, 3, "cat"), Image(5, 6, "dog")>>,
                 pos \o <<7>>, 0, Turn(7), 2),
         Visuals(start, <<Image(2, 3, "cat"), Image(5, 6, "owl")>>, pos, 0, Response(4), 2),
         Visuals(start, <<Image(2, 3, "owl"), Image(5, 6, "dog")>>, pos, 0, NoCkpt, 1) }

\* A 2 x 2 image advances the positions by two and the columns by four; then the
\* same conversation goes on with text.
Square ==
    LET start == <<"a", "pad", "pad", "pad", "pad", "b">>
        pos == <<0, 1, 1, 1, 1, 3>>
        items == <<Image(2, 5, "cat")>>
    IN { Visuals(start, items, pos, -2, NoCkpt, 1),
         Visuals(start \o <<"x", "c">>, items, pos \o <<4, 5>>, -2, NoCkpt, 2) }

-----------------------------------------------------------------------------
(* The engines. Capacity, pages and requests are as small as lets a lane be       *)
(* retained, continued, rewritten and evicted.                                    *)

\* One lane, several turns, with either drafter.
Conversation(backend) ==
    [backend |-> backend, window |-> 2, capacity |-> 7, chunk |-> 2, lanes |-> 1,
     textPages |-> 4, backendPages |-> 4, prompts |-> Turns, tokens |-> {"x", "y"},
     requests |-> 4]

\* Two lanes that decode together and are evicted for each other.
Shared ==
    [backend |-> "mtp", window |-> 2, capacity |-> 6, chunk |-> 2, lanes |-> 2,
     textPages |-> 5, backendPages |-> 6, prompts |-> Pair, tokens |-> {"x"},
     requests |-> 4]

\* Two lanes without a drafter.
Plain ==
    [backend |-> "none", window |-> 0, capacity |-> 7, chunk |-> 2, lanes |-> 2,
     textPages |-> 4, backendPages |-> 0, prompts |-> Pair, tokens |-> {"x", "y"},
     requests |-> 3]

\* One lane and prompts with pictures.
Vision(prompts, requests) ==
    [backend |-> "mtp", window |-> 2, capacity |-> 9, chunk |-> 4, lanes |-> 1,
     textPages |-> 5, backendPages |-> 5, prompts |-> prompts, tokens |-> {"x"},
     requests |-> requests]

AllEngines == {Conversation("mtp"), Conversation("dflash"), Shared, Plain,
               Vision(Pictures, 3)}

\* A picture that is followed by text.
SquareEngine == {Vision(Square, 2)}

\* Two lanes with the DFlash drafter.
DFlashPair ==
    {[Shared EXCEPT !.backend = "dflash", !.textPages = 6, !.requests = 2]}
=============================================================================
