------------------------------ MODULE MCRounds ------------------------------
EXTENDS Rounds

(* The bar goes with the book or against it. *)
MCMoves == {-2, 3}
=============================================================================
