----------------------------- MODULE MCResearch -----------------------------
(* Series of four stretches of five bars each: calm, rising, falling and   *)
(* wild ones; the first bars lack history.  One series is too short, and   *)
(* one has history only near its end.                                      *)
EXTENDS Research

Stretch == {"calm", "up", "down", "wild"}

(* Change of the close, reach of the wicks, ATR, probabilities, trend.     *)
Move(kind, k) ==
  CASE kind = "calm" -> [d |-> IF k % 2 = 0 THEN 20 ELSE -20, w |-> 10, atr |-> 40, p |-> 30, chop |-> 90, trend |-> 1]
    [] kind = "up"   -> [d |-> 150, w |-> 30, atr |-> 100, p |-> 70, chop |-> 20, trend |-> 1]
    [] kind = "down" -> [d |-> -150, w |-> 30, atr |-> 100, p |-> 60, chop |-> 30, trend |-> -1]
    [] kind = "wild" -> [d |-> IF k % 2 = 0 THEN 200 ELSE -200, w |-> 300, atr |-> 150, p |-> 40, chop |-> 85,
                         trend |-> IF k % 2 = 0 THEN -1 ELSE 1]

Bars(kinds, n, short) ==
  LET move(t) == Move(kinds[((t \div 5) % 4) + 1], t)
      close[t \in 0..(n - 1)] == IF t = 0 THEN 10000 ELSE close[t - 1] + move(t).d
      cl == [t \in 0..(n - 1) |-> close[t]]
      open(t) == IF t = 0 THEN 10000 ELSE cl[t - 1]
  IN  [t \in 0..(n - 1) |->
         [cl |-> cl[t], hi |-> Larger(open(t), cl[t]) + move(t).w,
          lo |-> Smaller(open(t), cl[t]) - move(t).w, atr |-> move(t).atr,
          p |-> move(t).p, chop |-> move(t).chop, trend |-> move(t).trend,
          toxic |-> t % 7 = 3, short |-> t < short]]

MCSeries == {Bars(<<a, b, c, d>>, 22, 2) :
               a, b \in Stretch, c \in {"calm", "wild"}, d \in {"down", "wild"}}
            \cup {Bars(<<"up", "wild", "calm", "down">>, 12, 0),
                  Bars(<<"up", "calm", "calm", "calm">>, 21, 18),
                  Bars(<<"up", "calm", "calm", "calm">>, 21, 14)}

MCForests == {(1 :> 60) @@ (-1 :> 45), (1 :> 40) @@ (-1 :> 70)}
MCDraws == [n \in 5..200 |-> <<[i \in 1..n |-> i], [i \in 1..n |-> n + 1 - i],
                              [i \in 1..n |-> (i + 1) \div 2], [i \in 1..n |-> n - i \div 2]>>]
MCTMax == [follow |-> 3, fade |-> 2]
MCRates == [t \in {8, 16, 40} |-> 50]
=============================================================================
