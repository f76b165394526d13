---------------------------- MODULE TradeRules ----------------------------
(***************************************************************************)
(* The rules of a single leveraged trade, shared by the simulation that    *)
(* builds the sizing tables and by the paper trading engine: which way to  *)
(* trade, where the stop and the liquidation price lie, how much leverage  *)
(* is safe, what a trade paid.                                             *)
(*                                                                         *)
(* Rates are whole basis points of Unit, leverage is written as its margin *)
(* Unit / leverage, and exp(x) as 1 + x.  Only numbers occur: the code's   *)
(* rejections of NaN, infinite and non-numeric arguments have no           *)
(* counterpart here, its rejections of numbers out of range do.            *)
(***************************************************************************)
EXTENDS Integers, FiniteSetsExt

Unit == 10000

CONSTANTS FeeRate,        \* fee of a taker order
          LiqFeeRate,     \* liquidation_fee_rate
          Mmr,            \* maintenance_margin_rate
          Buffer,         \* safety_buffer_pct, in percent
          MinMargin,      \* Unit / leverage_cap
          MaxCushion,     \* max_reasonable_cushion
          Slippage,       \* loss of an order at the market
          FundingEvery,   \* hours between two settlements of the funding
          MaxFunding,     \* MAX_ABS_FUNDING_RATE
          FadeEnabled,
          Gate,           \* fade_regime_gate_threshold
          MTrail,         \* m_trail_base of the simulation, m_trail of the engine
          BarHours        \* hours of a bar

ASSUME RulesAssumption ==
  /\ FeeRate \in Nat /\ LiqFeeRate \in Nat /\ Mmr \in Nat
  /\ Buffer \in 0..90 /\ MinMargin \in 1..Unit
  /\ MaxCushion \in 1..(Unit - 1) /\ Slippage \in Nat
  /\ FundingEvery \in Nat \ {0} /\ MaxFunding \in Nat
  /\ FadeEnabled \in BOOLEAN /\ Gate \in 0..100
  /\ MTrail \in Nat /\ BarHours \in Nat \ {0}

Larger(a, b) == IF a >= b THEN a ELSE b
Smaller(a, b) == IF a <= b THEN a ELSE b
Clip(x, lo, hi) == Larger(lo, Smaller(hi, x))
CeilDiv(a, b) == -((-a) \div b)
Sides == {1, -1}
-----------------------------------------------------------------------------
(* Follow the trend, fade it, or stay out.  Probabilities are percentages. *)

classify_trade_mode(p, chop) ==
  CASE p >= 50                                             -> "follow"
    [] p < 50 /\ FadeEnabled /\ chop > Larger(80, Gate)     -> "fade"
    [] OTHER                                               -> "none"

(* Fading turns the side around.                                           *)
SideOf(mode, primary) == IF mode = "fade" THEN -primary ELSE primary
-----------------------------------------------------------------------------
(* The stop: the cushion must be plausible, and rounding to the tick may   *)
(* only take the stop further from the entry.                              *)

round_sl_safe(sl, tick, side) ==
  Larger(1, IF side = 1 THEN (sl \div tick) * tick ELSE CeilDiv(sl, tick) * tick)

CushionOf(sigmaStop, cost) == sigmaStop + cost
CushionAccepted(cushion) == cushion <= MaxCushion

compute_sl_initial(entry, side, cushion, tick) ==
  round_sl_safe(Larger(1, entry - side * ((entry * cushion) \div Unit)), tick, side)
-----------------------------------------------------------------------------
(* Liquidation: the price at which the margin is used up, and the largest  *)
(* leverage whose liquidation lies beyond the stop.                        *)

Allowance(margin, funding) == margin - Mmr - FeeRate - LiqFeeRate - funding

compute_liquidation_price(entry, side, margin, funding) ==
  LET allowance == Allowance(margin, funding)
  IN  IF allowance <= 0 THEN entry
      ELSE Larger(1, entry - side * ((entry * allowance) \div Unit))

StopOnRightSide(entry, side, sl) == side * (entry - sl) > 0

validate_leverage_against_sl(entry, side, sl, margin, funding) ==
  LET liq    == compute_liquidation_price(entry, side, margin, funding)
      toLiq  == side * (entry - liq)
      toStop == side * (entry - sl)
  IN  [liq     |-> liq,
       is_safe |-> toLiq > 0 /\ 100 * toStop <= toLiq * (100 - Buffer)]

get_maintenance_margin_rate(notional, tiers) ==
  LET fitting == {k \in DOMAIN tiers : notional <= tiers[k].max}
  IN  IF tiers = <<>> THEN Mmr
      ELSE IF fitting = {} THEN tiers[Max(DOMAIN tiers)].mmr
      ELSE tiers[Min(fitting)].mmr

(* Unit / resolve_max_safe_leverage: a smaller leverage is a larger margin *)
resolve_max_safe_leverage(entry, side, sl, expectedFunding) ==
  LET slFrac == CeilDiv(side * (entry - sl) * Unit, entry)
  IN  Larger(CeilDiv(slFrac * 100, 100 - Buffer)
               + Mmr + FeeRate + LiqFeeRate + expectedFunding,
             MinMargin)

(* Mutant: the requested leverage is taken as it is.                       *)
LeverageAsAsked(requested, safe) == requested

(* leverage_used = min(leverage_requested, max_safe)                       *)
leverage_used(requested, safe) == Larger(requested, safe)

(* Everything a trade needs; "raise" where the code raises ValueError and  *)
(* "none" where it returns None.                                           *)
resolve_trade_execution_params(p, chop, entry, primary, cushion, tmax, requestedMargin) ==
  LET mode   == classify_trade_mode(p, chop)
      side   == SideOf(mode, primary)
      sl     == compute_sl_initial(entry, side, cushion, 1)
      margin == leverage_used(requestedMargin,
                              resolve_max_safe_leverage(entry, side, sl, 0))
  IN  CASE mode = "none" -> [result |-> "none"]
        [] mode # "none" /\ ( \/ ~CushionAccepted(cushion)
                              \/ ~StopOnRightSide(entry, side, sl)
                              \/ margin > Unit) -> [result |-> "raise"]
        [] OTHER -> [result |-> "trade", mode |-> mode, side |-> side, sl |-> sl,
                     tmax |-> tmax[mode], margin |-> margin,
                     liq |-> compute_liquidation_price(entry, side, margin, 0)]
-----------------------------------------------------------------------------
(* Money.  The return is that of the notional, without the leverage.       *)

PriceMove(entry, exit, side) == (side * (exit - entry) * Unit) \div entry

compute_liquidation_loss(notional, margin) == -((notional * margin) \div Unit)

compute_realized_pnl(entry, exit, side, notional, margin, reason, funding) ==
  LET move     == PriceMove(entry, exit, side)
      feeEntry == (notional * FeeRate) \div Unit
      feeExit  == (((notional * exit) \div entry) * FeeRate) \div Unit
      gross    == IF reason = "LIQUIDATION" THEN compute_liquidation_loss(notional, margin)
                  ELSE (move * notional) \div Unit
      net      == IF reason = "LIQUIDATION" THEN gross - feeEntry
                  ELSE gross - feeEntry - feeExit - funding
  IN  [gross_pnl |-> gross, net_pnl |-> net,
       fee_paid  |-> IF reason = "LIQUIDATION" THEN feeEntry ELSE feeEntry + feeExit,
       realized_return |-> IF reason = "LIQUIDATION" THEN move
                           ELSE (net * Unit) \div notional]

(* The settlements of the funding after start, up to and including end.    *)
funding_timestamps_between(start, end) ==
  {t \in (start + 1)..end : t % FundingEvery = 0}

(* A settlement without data costs nothing.                                *)
_resolve_rate_for_timestamp(rates, t) == IF t \in DOMAIN rates THEN rates[t] ELSE 0

(* The longs pay the shorts; an implausible rate is cut to the exchange's  *)
(* own limit.                                                              *)
compute_funding_accrued_usd(notional, side, start, end, rates) ==
  MapThenSumSet(
    LAMBDA t : side * ((notional * Clip(_resolve_rate_for_timestamp(rates, t),
                                        -MaxFunding, MaxFunding)) \div Unit),
    funding_timestamps_between(start, end))

round_notional_down(notional, lot) == Larger(0, (notional \div lot) * lot)

(* Half of f_star (in percent of the equity), within the leverage and the  *)
(* lot.                                                                    *)
compute_position_size(fStar, equity, margin, lot) ==
  IF fStar = 0 THEN 0
  ELSE round_notional_down(
         Smaller((fStar * equity) \div 200, (equity * Unit) \div margin), lot)
=============================================================================
