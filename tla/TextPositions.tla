------------------------------ MODULE TextPositions ----------------------------
(***************************************************************************)
(* Bytes and characters of the text controls of the trace viewer.  A text  *)
(* is the sequence of its characters; of each character the width in bytes *)
(* counts, as the text controls address bytes and everything that is       *)
(* indexed (explanations, writes to streams) is indexed by characters.     *)
(***************************************************************************)
EXTENDS Integers, Sequences, FiniteSetsExt, SequencesExt

Offset(t, n) == LET sum[k \in 0..n] == IF k = 0 THEN 0 ELSE sum[k - 1] + t[k].width IN sum[n]
Length(t) == Offset(t, Len(t))
Boundaries(t) == {Offset(t, n) : n \in 0..Len(t)}
PositionBefore(t, p) == Max({0} \cup {b \in Boundaries(t) : b < p})
PositionAfter(t, p) == Min({Length(t)} \cup {b \in Boundaries(t) : b > p})
CountCharacters(t, a, b) == Cardinality({x \in Boundaries(t) : a <= x /\ x < b})

\* Move on by n characters.
After(t, p, n) == LET at[i \in 0..n] == IF i = 0 THEN p ELSE PositionAfter(t, at[i - 1]) IN at[n]

\* The bytes of some characters: from a position that surely comes before
\* them, character by character.
getPositionsForCharacterRange(t, start, end) ==
    LET guess == PositionBefore(t, start)
        first == After(t, guess, start - CountCharacters(t, 0, guess))
    IN  <<first, After(t, first, end - start)>>

Bytes(range) == range[1]..range[2] - 1
================================================================================
