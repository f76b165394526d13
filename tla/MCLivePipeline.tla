-------------------------- MODULE MCLivePipeline --------------------------
(* Bars of a rally and a fall: a rise and a drop that trigger, a wick,     *)
(* a crash, a calm bar, and one each that is incomplete, toxic, too        *)
(* volatile, and without its features.                                     *)
EXTENDS LivePipeline

Bar(o, h, l, c, atr, trend, p) ==
  [o |-> o, h |-> h, l |-> l, c |-> c, atr |-> atr, trend |-> trend, p |-> p,
   chop |-> 90, rate |-> 10, complete |-> TRUE, vector |-> TRUE, toxic |-> FALSE]

Calm == Bar(10000, 10050, 9960, 10000, 60, 1, 60)
Rise == Bar(10000, 10420, 9990, 10400, 100, 1, 60)
Fall == Bar(10000, 10010, 9580, 9600, 100, -1, 30)
Slump == Bar(9600, 9650, 9150, 9300, 150, 1, 60)
Wick == Bar(10400, 10450, 9700, 10300, 100, 1, 60)
Crash == Bar(9600, 9650, 6000, 6200, 1500, -1, 60)

MCBars ==
  {Calm, Rise, Fall, Slump, Wick, Crash,
   [Rise EXCEPT !.p = 52], [Rise EXCEPT !.atr = 1500],
   [Rise EXCEPT !.vector = FALSE],
   [Slump EXCEPT !.complete = FALSE], [Calm EXCEPT !.toxic = TRUE],
   [Crash EXCEPT !.atr = 1600, !.c = 6100], [Crash EXCEPT !.l = 400, !.c = 500, !.atr = 140]}

Grid(low, high) == [cell \in Bins \X Bins |-> IF cell[1] = 0 THEN low ELSE high]
Edges(mid) == [k \in 0..NumBins |-> IF k = 0 THEN -Infinite ELSE IF k = NumBins THEN Infinite ELSE mid]
Table(low, high, mid) == [grid |-> Grid(low, high), p_edges |-> Edges(mid),
                          chop_edges |-> [i \in Bins |-> Edges(5 * EdgeScale)]]
MCKelly == [follow |-> Table(0, 300, 55 * EdgeScale), fade |-> Table(200, 0, 40 * EdgeScale)]
MCTiers == <<[max |-> 12000, mmr |-> 50], [max |-> 40000, mmr |-> 65]>>
=============================================================================
