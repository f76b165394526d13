--------------------------- MODULE Subsequences ---------------------------
(***************************************************************************)
(* Filtering: what a Python loop with a continue, a mask or a query of a   *)
(* frame leaves of a list.                                                 *)
(***************************************************************************)
EXTENDS Naturals, Sequences

(* The members of s that are in S, in the order of s.                      *)
Only(s, S) ==
  LET kept[n \in 0..Len(s)] ==
        IF n = 0 THEN <<>>
        ELSE IF s[n] \in S THEN Append(kept[n - 1], s[n]) ELSE kept[n - 1]
  IN  kept[Len(s)]
=============================================================================
