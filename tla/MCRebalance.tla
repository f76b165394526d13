---------------------------- MODULE MCRebalance ----------------------------
(* Small books for Rebalance: four symbols, a lot of the second worth      *)
(* twice as much, and targets with even and uneven legs, of one symbol a   *)
(* side, of all four, and of none.  The capital holds two or three         *)
(* positions: three is odd, and less than the four that are asked for.     *)
EXTENDS Rebalance

MCPrice == <<1, 2, 1, 1>>

MCWeights == {<<0, 0, 0, 0>>, <<1, -1, 0, 0>>, <<2, -1, -1, 0>>, <<1, 1, -2, 0>>,
              <<-3, 1, 2, 0>>, <<3, 1, -2, -2>>, <<2, 1, 1, -4>>}

MCHoldings == {q \in [1..4 -> -4..4] : q[1] \in {-4, -1, 0, 3} /\ q[2] \in {-4, 0, 2}
                                        /\ q[3] \in {-3, -2, 0, 3} /\ q[4] = 0}
=============================================================================
