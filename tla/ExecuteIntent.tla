--------------------------- MODULE ExecuteIntent ---------------------------
(***************************************************************************)
(* What execute_with_fallback promises about one symbol of the plan: the   *)
(* position moves towards the planned quantity and never past it, the      *)
(* round ends, and all that is missing in the end is less than the         *)
(* exchange lets one trade.  A round that reports a problem, or that meets *)
(* a fault, is excused, and only has to end.                               *)
(***************************************************************************)
EXTENDS Naturals

CONSTANTS Intent,     \* the quantity the plan asks for
          MinTrade    \* the smallest quantity the exchange accepts

VARIABLES position,   \* how much of it has been traded
          finished,   \* has the round returned its report?
          excused     \* is there a problem it reports or could not see?

promise == <<position, finished, excused>>

Init == position = 0 /\ finished = FALSE /\ excused = FALSE

Trade ==
  /\ position' \in Nat
  /\ excused \/ (position < position' /\ position' <= Intent)

Finish == finished' = TRUE

Excuse == excused' = TRUE

(* A trade or a problem may be what ends the round.                        *)
Next ==
  /\ Trade \/ UNCHANGED position
  /\ Finish \/ UNCHANGED finished
  /\ Excuse \/ UNCHANGED excused

(* The round ends, and then at most an untradable rest is missing.         *)
Completes == <>[](finished /\ (excused \/ position + MinTrade > Intent))

Spec == Init /\ [][Next]_promise /\ Completes
=============================================================================
