-------------------------------- MODULE Loops --------------------------------
(* A loop over a slice that appends the elements of S to its result.       *)
EXTENDS Naturals, Sequences

Kept(s, S) ==
    LET res[k \in 0..Len(s)] ==
            IF k = 0 THEN <<>>
            ELSE IF s[k] \in S THEN Append(res[k - 1], s[k]) ELSE res[k - 1]
    IN  res[Len(s)]

=============================================================================
