---------------------------- MODULE MCSelection -----------------------------
(* Five candidates; the first two may be out of the ordinary: not trading, *)
(* without volume, with a high minimum, a short history, or only the file  *)
(* of the interval itself.  Three signals: what rose in the last bar, what *)
(* fell over two of them, and an order that never changes.                 *)
EXTENDS Selection

MCKinds ==
  {[Good EXCEPT !.trading = FALSE], [Good EXCEPT !.liquid = FALSE], [Good EXCEPT !.min = 7],
   [Good EXCEPT !.source = 7], [Good EXCEPT !.source = 0, !.direct = 2]}

MCOrders == {<<1, 2, 3, 4, 5>>, <<5, 4, 3, 2, 1>>, <<3, 1, 5, 2, 4>>}

MCSignal(name, past) ==
  LET now == Last(past)
      before == IF Len(past) > 1 THEN past[Len(past) - 1] ELSE now
  IN CASE name = "momentum" -> now
       [] name = "reversal" -> [s \in DOMAIN now |-> -(now[s] + before[s])]
       [] name = "steady" -> [s \in DOMAIN now |-> s]

MCBars == {<<4, 2, 0, -1, -3>>, <<-9, 1, 2, 1, 3>>, <<1, -2, 3, -4, 6>>}

MCVols == {<<1, 4, 2, 8, 1>>, <<Unknown, 2, 1, 4, 1>>, <<0, 0, 0, 0, Unknown>>, <<0, 0, 3, 1, 5>>}
=============================================================================
