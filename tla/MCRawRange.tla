----------------------------- MODULE MCRawRange -----------------------------
(* RawRange for TLC: all the very short paths, and all short numbers as    *)
(* one side of a range.                                                    *)
EXTENDS RawRange

CONSTANTS MaxPath, MaxNumber, NumberChars, OtherChars

Strings(chars, max) == UNION {[1..n -> chars] : n \in 0..max}

ShortPaths == Strings(NumberChars \cup OtherChars, MaxPath)

Sides == {<<>>, <<3>>, <<0, X, 2>>, <<4, 0>>}

TestPaths ==
  ShortPaths
    \cup {n \o <<Colon>> \o s : n \in Strings(NumberChars, MaxNumber), s \in Sides}
    \cup {s \o <<Colon>> \o n : n \in Strings(NumberChars, MaxNumber), s \in Sides}
=============================================================================
