------------------------------- MODULE Filter -------------------------------
(* The part of a sequence whose elements are in a set, as a recursive      *)
(* function: unlike SelectSeq, it takes no operator as a parameter.        *)
EXTENDS Naturals, Sequences

Filter(s, S) ==
  LET f[n \in 0 .. Len(s)] ==
        IF n = 0 THEN <<>>
        ELSE IF s[n] \in S THEN Append(f[n - 1], s[n]) ELSE f[n - 1]
  IN  f[Len(s)]
=============================================================================
