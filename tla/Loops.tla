-------------------------------- MODULE Loops -------------------------------
(* The loops over slices that several components share, as functions of the *)
(* number of passes.  (SelectSeq would say the same of Kept; but nothing    *)
(* can be proved of it, because it has no definition the provers may open.) *)
EXTENDS Integers, Sequences

\* for _, x := range s { if x is in S { kept = append(kept, x) } }
Kept(s, S) ==
    LET kept[k \in 0 .. Len(s)] ==
          IF k = 0 THEN <<>>
          ELSE IF s[k] \in S THEN Append(kept[k - 1], s[k]) ELSE kept[k - 1]
    IN  kept[Len(s)]
=============================================================================
