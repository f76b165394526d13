----------------------------- MODULE TradeSim -----------------------------
(***************************************************************************)
(* One trade of the combinatorial cross-validation, bar by bar: the        *)
(* parameters are resolved at the close of the event's bar (bar 0), the    *)
(* future is cut to the horizon and to the test window before it is read,  *)
(* each bar is tried for liquidation, stop, trailing stop and regime flip  *)
(* in that order, and the record is settled.                               *)
(*                                                                         *)
(* Prices are basis points of the entry price, probabilities percentages.  *)
(* The bars come from the environment.                                     *)
(***************************************************************************)
EXTENDS TrailingExit

CONSTANTS TradeBars,       \* [hi, lo, cl, atr, p]: what a bar may show
          Events,          \* [p, chop, primary, cushion]: what an event may be
          TMax,            \* t_max_live of each mode
          Margin,          \* Unit / leverage_requested
          Length,          \* length of the arrays, the event's bar included
          Windows,         \* values of test_window_end_idx
          TrainP,          \* p_trend of the bars the fold was trained on
          Notional,
          Rates            \* funding rate of the settlements that have data

ASSUME TradeAssumption ==
  /\ TradeBars \subseteq [hi : Nat, lo : Nat \ {0}, cl : Nat \ {0}, atr : Nat, p : 0..100]
  /\ \A b \in TradeBars : b.lo <= b.cl /\ b.cl <= b.hi
  /\ Events \subseteq [p : 0..100, chop : 0..100, primary : Sides, cushion : Nat]
  /\ TMax \in [{"follow", "fade"} -> Nat \ {0}]
  /\ Margin \in 1..Unit /\ Length \in Nat /\ Length >= 3
  /\ Windows \subseteq Nat
  /\ TrainP \in Seq(0..100)
  /\ Notional \in Nat \ {0}

VARIABLES stage,    \* idle, open, closed, recorded; or skipped, raised
          terms,    \* what resolve_trade_execution_params returned
          window,   \* test_window_end_idx
          seen,     \* the bars read so far
          extreme,  \* extreme_price
          flips,    \* consecutive_flip_count
          record

tradeVars == <<stage, terms, window, seen, extreme, flips, record>>

NoTerms == [result |-> "none"]
NoRecord == [reason |-> "NONE"]
-----------------------------------------------------------------------------
TradeInit ==
  /\ stage = "idle" /\ terms = NoTerms /\ window \in Windows
  /\ seen = <<>> /\ extreme = Unit /\ flips = 0 /\ record = NoRecord

(* run_trailing_exit_for_oos_event: no trade without a mode.               *)
Resolve(e) ==
  LET t == resolve_trade_execution_params(e.p, e.chop, Unit, e.primary, e.cushion, TMax, Margin)
  IN  /\ stage = "idle"
      /\ terms' = ForFold(t, Length, TrainP)
      /\ stage' = CASE t.result = "none" -> "skipped"
                    [] t.result = "raise" -> "raised"
                    [] t.result = "trade" -> "open"
      /\ UNCHANGED <<window, seen, extreme, flips, record>>
-----------------------------------------------------------------------------
Exit(reason, at, truncated) ==
  /\ stage' = "closed"
  /\ record' = [reason |-> reason, exit |-> at, truncated |-> truncated]

HasNext == stage = "open" /\ Len(seen) < SliceLength(terms, window)

ExitOn(b) ==
  /\ HasNext
  /\ BarExit(terms, extreme, flips, b) # "NONE"
  /\ Exit(BarExit(terms, extreme, flips, b), Len(seen) + 1, FALSE)
  /\ seen' = Append(seen, b)
  /\ UNCHANGED <<terms, window, extreme, flips>>

HoldOn(b) ==
  /\ HasNext
  /\ BarExit(terms, extreme, flips, b) = "NONE"
  /\ seen' = Append(seen, b)
  /\ extreme' = BestAfter(terms, extreme, b)
  /\ flips' = _update_regime_flip(terms, b, flips)
  /\ UNCHANGED <<stage, terms, window, record>>

(* The future is used up; the record says whether its end was the horizon. *)
(* An empty future leaves at the close of the next bar.                    *)
TimeStop ==
  /\ stage = "open"
  /\ Len(seen) = SliceLength(terms, window)
  /\ Exit("TIME_STOP", Larger(Len(seen), 1), TruncatedWindow(terms, window))
  /\ UNCHANGED <<terms, window, seen, extreme, flips>>

(* finalize_trade_record.                                                  *)
finalize_trade_record(close) ==
  LET fill    == FillOf(terms, record, close)
      funding == compute_funding_accrued_usd(Notional, terms.side, 0,
                                             record.exit * BarHours, Rates)
  IN  /\ stage = "closed"
      /\ seen # <<>> => close = seen[Len(seen)].cl
      /\ stage' = "recorded"
      /\ record' = [reason |-> record.reason, exit |-> record.exit,
                    truncated |-> record.truncated, fill |-> fill,
                    pnl |-> compute_realized_pnl(Unit, fill, terms.side, Notional,
                                                 terms.margin, record.reason, funding)]
      /\ UNCHANGED <<terms, window, seen, extreme, flips>>

Done == stage \in {"recorded", "skipped", "raised"} /\ UNCHANGED tradeVars

TradeNext == \/ \E e \in Events : Resolve(e)
             \/ \E b \in TradeBars : ExitOn(b) \/ HoldOn(b)
             \/ TimeStop
             \/ \E close \in {b.cl : b \in TradeBars} : finalize_trade_record(close)
             \/ Done

TradeSpec == TradeInit /\ [][TradeNext]_tradeVars
-----------------------------------------------------------------------------
Ended == stage \in {"closed", "recorded"}

(* The stop is reached before the liquidation price: the leverage of every *)
(* trade leaves the exchange's price beyond the trade's own stop, costs    *)
(* and fading included (resolve_max_safe_leverage).                        *)
StopInsideLiquidation ==
  terms.result = "trade" => terms.side * (terms.sl - terms.liq) > 0

(* What would have ended the trade in its k-th bar, from the bars alone.   *)
BestBy(k) ==
  LET earlier == {Favourable(seen[j], terms.side) : j \in 1..(k - 1)} \cup {Unit}
  IN  IF terms.side = 1 THEN Max(earlier) ELSE Min(earlier)
LiquidatedAt(k) == Touches(Adverse(seen[k], terms.side), terms.liq, terms.side)
StoppedAt(k) == Touches(Adverse(seen[k], terms.side), terms.sl, terms.side)
TrailedAt(k) == Touches(Adverse(seen[k], terms.side),
                        trail_stop(terms, BestBy(k), seen[k]), terms.side)
FlippedAt(k) == /\ k >= FlipBars
                /\ \A j \in (k - FlipBars + 1)..k : Against(terms, seen[j])

(* A trade ends at the first bar that ends it, for the first reason in the *)
(* order liquidation, stop, trailing stop, flip; the trailing stop hangs   *)
(* on the bars before (test_trailing_exit_invariants), and the bars        *)
(* against the trade are consecutive.                                      *)
ExitIsFirst ==
  Ended =>
    LET k == Len(seen) IN
    /\ \A j \in 1..(k - 1) : ~(StoppedAt(j) \/ TrailedAt(j) \/ FlippedAt(j))
    /\ record.reason = "LIQUIDATION" <=> k > 0 /\ LiquidatedAt(k)
    /\ record.reason = "SL" => StoppedAt(k)
    /\ record.reason = "TRAIL" => TrailedAt(k) /\ ~StoppedAt(k)
    /\ record.reason = "REGIME_FLIP" => FlippedAt(k) /\ ~TrailedAt(k)
    /\ record.reason = "TIME_STOP" =>
         k = 0 \/ ~(StoppedAt(k) \/ TrailedAt(k) \/ FlippedAt(k))

(* No bar at or beyond the end of the test window is read, and a record    *)
(* that is not flagged as truncated saw its own end: the sizing tables,    *)
(* which drop the flagged records, are built from whole trades only.       *)
WindowKept ==
  Ended => /\ seen # <<>> => Len(seen) < window
           /\ record.exit <= terms.tmax
           /\ ~record.truncated /\ record.reason = "TIME_STOP" => record.exit = terms.tmax
           /\ record.truncated => record.reason = "TIME_STOP"
=============================================================================
