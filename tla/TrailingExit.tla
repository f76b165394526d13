---------------------------- MODULE TrailingExit ----------------------------
(***************************************************************************)
(* How a trade of the cross-validation ends: the future it may read, the   *)
(* trailing stop, the regime flip, and what a bar does to it.              *)
(*                                                                         *)
(* A trade t has the fields of resolve_trade_execution_params, and of its  *)
(* fold: len, the bars left in the data counted from the entry's, and      *)
(* flip, the probability that ends the regime of each mode.  A bar is      *)
(* [hi, lo, cl, atr, p] in basis points of the entry price and percent.    *)
(***************************************************************************)
EXTENDS TradeRules, Functions, Sequences

CONSTANTS Gamma,           \* gamma in percent
          AtrFloor,        \* the floor of the ATR: ten ticks, or 0.1% of the price
          RegimeQ,         \* exit_regime_quantile
          FlipBars         \* consecutive_bars_required

ASSUME ExitAssumption ==
  /\ Gamma \in Nat /\ AtrFloor \in Nat
  /\ RegimeQ \in 1..49 /\ FlipBars \in Nat \ {0}
-----------------------------------------------------------------------------
(* The future that may be read, cut before it is read.                     *)

(* Mutant: the test window is not looked at.                               *)
SliceUncut(t, w) == Larger(0, Smaller(1 + t.tmax, t.len) - 1)

SliceLength(t, w) == Larger(0, Smaller(1 + t.tmax, Smaller(w, t.len)) - 1)

TruncatedWindow(t, w) ==
  LET n == SliceLength(t, w) IN Larger(w - 1, 0) < t.tmax \/ n < t.tmax \/ n <= 1

safe_atr(b) == Larger(b.atr, AtrFloor)

Adverse(b, side) == IF side = 1 THEN b.lo ELSE b.hi
Favourable(b, side) == IF side = 1 THEN b.hi ELSE b.lo

(* Price x lies at or beyond level, seen from side's loss.                 *)
Touches(x, level, side) == side * (x - level) <= 0

(* The trailing stop of bar b, never looser than the initial one.          *)
trail_stop(t, best, b) ==
  LET raw == best - t.side * ((MTrail * (100 + (Gamma * b.p) \div 100) * safe_atr(b)) \div 100)
  IN  IF t.side = 1 THEN Larger(raw, t.sl) ELSE Smaller(raw, t.sl)

(* The probability that ends a regime is a quantile of what the fold was   *)
(* trained on, never of the test window; few samples fall back on 35 / 65. *)
Smallest(s, k) ==
  CHOOSE v \in Range(s) :
    /\ Cardinality({i \in DOMAIN s : s[i] < v}) < k
    /\ Cardinality({i \in DOMAIN s : s[i] <= v}) >= k

resolve_regime_exit_threshold(s, q, mode) ==
  LET place == (IF mode = "follow" THEN q ELSE 100 - q) * (Len(s) - 1)
      below == Smallest(s, place \div 100 + 1)
      above == Smallest(s, place \div 100 + 2)
  IN  IF Len(s) < 20 THEN IF mode = "follow" THEN 35 ELSE 65
      ELSE Clip(below + ((above - below) * (place % 100)) \div 100, 0, 100)

FlipThreshold(trainP) ==
  [mode \in {"follow", "fade"} |-> resolve_regime_exit_threshold(trainP, RegimeQ, mode)]

(* The fold's part of a trade.                                             *)
ForFold(t, len, trainP) ==
  IF t.result # "trade" THEN t
  ELSE [result |-> t.result, mode |-> t.mode, side |-> t.side, sl |-> t.sl,
        tmax |-> t.tmax, margin |-> t.margin, liq |-> t.liq,
        len |-> len, flip |-> FlipThreshold(trainP)]

Against(t, b) == IF t.mode = "follow" THEN b.p < t.flip["follow"]
                 ELSE b.p > t.flip["fade"]

_update_regime_flip(t, b, count) == IF Against(t, b) THEN count + 1 ELSE 0

(* Mutant: the bar's own favourable wick already moves the trailing stop.  *)
BestWithin(t, best, b) ==
  IF t.side = 1 THEN Larger(best, b.hi) ELSE Smaller(best, b.lo)

BestBefore(t, best, b) == best

BestAfter(t, best, b) ==
  IF t.side = 1 THEN Larger(best, b.hi) ELSE Smaller(best, b.lo)

(* What ends the trade in bar b, tried in this order.                      *)
BarExit(t, best, count, b) ==
  LET worst == Adverse(b, t.side)
  IN  IF Touches(worst, t.liq, t.side) THEN "LIQUIDATION"
      ELSE IF Touches(worst, t.sl, t.side) THEN "SL"
      ELSE IF Touches(worst, trail_stop(t, BestBefore(t, best, b), b), t.side) THEN "TRAIL"
      ELSE IF _update_regime_flip(t, b, count) >= FlipBars THEN "REGIME_FLIP"
      ELSE "NONE"

-----------------------------------------------------------------------------
(* finalize_trade_record: a liquidation pays the liquidation price, every  *)
(* other exit the close of its bar and the slippage, and the funding of    *)
(* the settlements in between is charged.                                  *)
FillOf(t, r, close) == IF r.reason = "LIQUIDATION" THEN t.liq
                    ELSE close - t.side * ((close * Slippage) \div Unit)
=============================================================================
