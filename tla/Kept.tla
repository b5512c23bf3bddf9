-------------------------------- MODULE Kept --------------------------------
(* A loop over a sequence that appends what it keeps to another: SelectSeq,*)
(* with the test given as a set, in a form the provers can unfold.         *)
EXTENDS Integers, Sequences

(* for (x : s) if (x in T) kept.push_back(x); *)
Kept(s, T) ==
    LET upTo[n \in 0..Len(s)] ==
            IF n = 0 THEN <<>>
            ELSE IF s[n] \in T THEN Append(upTo[n - 1], s[n])
            ELSE upTo[n - 1]
    IN  upTo[Len(s)]

=============================================================================
