---------------------------- MODULE MCTradeSim ----------------------------
(* Bars and events of one trade: calm bars, a rally, a dip above the stop, *)
(* a wick through it that recovers, a crash and a spike through the        *)
(* liquidation price, in both regimes.                                     *)
EXTENDS TradeSim

Bar(hi, lo, cl, atr, p) == [hi |-> hi, lo |-> lo, cl |-> cl, atr |-> atr, p |-> p]

MCTradeBars == {Bar(10050, 9980, 10000, 0, 60), Bar(10050, 9980, 10010, 0, 20),
           Bar(10800, 9990, 10700, 100, 60), Bar(10020, 9850, 9860, 100, 20),
           Bar(10190, 9700, 10010, 100, 60), Bar(9900, 8900, 9000, 300, 20),
           Bar(11100, 10000, 11000, 300, 80), Bar(10300, 10100, 10150, 50, 80)}

Event(p, chop, primary, cushion) ==
  [p |-> p, chop |-> chop, primary |-> primary, cushion |-> cushion]

MCEvents == {Event(p[1], p[2], side, cushion) :
               p \in {<<60, 40>>, <<30, 90>>, <<30, 70>>},
               side \in Sides, cushion \in {200, 950, 6000}}

MCTMax == [follow |-> 4, fade |-> 3]
MCTrainP == [i \in 1..20 |-> 15 + 4 * ((7 * i) % 20)]
MCRates == [t \in {8} |-> 100]
=============================================================================
