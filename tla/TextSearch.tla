----------------------------- MODULE TextSearch -----------------------------
(* Searching in texts that arrive piece by piece; a text is a sequence of   *)
(* symbols.  The serving layer and the frontend each have these helpers.    *)
EXTENDS Integers, Sequences, FiniteSets, SequencesExt

StartsWithAt(text, pos, prefix) ==
    /\ pos + Len(prefix) - 1 <= Len(text)
    /\ SubSeq(text, pos, pos + Len(prefix) - 1) = prefix

(* Position of the first occurrence of marker at or after from, or 0.      *)
Find(text, marker, from) ==
    LET hits == {i \in from .. Len(text) : StartsWithAt(text, i, marker)}
    IN  IF hits = {} THEN 0 ELSE Min(hits)

(* How much of the end of text may be the beginning of marker; the whole    *)
(* marker only when allowComplete.                                          *)
LongestSuffixPrefix(text, marker, allowComplete) ==
    LET most == IF allowComplete THEN Len(marker) ELSE Len(marker) - 1
    IN  Max({n \in 0 .. most :
                /\ n <= Len(text)
                /\ SubSeq(text, Len(text) - n + 1, Len(text)) = SubSeq(marker, 1, n)})
=============================================================================
