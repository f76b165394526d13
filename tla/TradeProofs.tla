----------------------------- MODULE TradeProofs -----------------------------
(***************************************************************************)
(* Theorems about a single leveraged trade, in the simulation that the     *)
(* sizing tables are built from (TradeSim) and in the paper trading engine *)
(* (LivePipeline), which follow the same rules.                            *)
(*                                                                         *)
(* The first part holds for every bar and event, every fee, window,        *)
(* holding time and trailing parameter: the leverage leaves the stop on    *)
(* the near side of the liquidation, the window of the test is kept, and   *)
(* the exit is the first that the bars offer.  The last needs to know what *)
(* the running extreme and the running count of the code stand for.  The   *)
(* second part holds for every set of bars, every sizing table, fee, tier  *)
(* and leverage: what the circuit breaker leaves, and where the stop of an *)
(* open position lies, which is inductive once the position is known to be *)
(* a record whose prices are numbers.                                      *)
(***************************************************************************)
EXTENDS TradeSim, LivePipeline, Foundations, TLAPS

LEMMA QuotientFacts == \A a \in Int, n \in Nat \ {0} : a \div n \in Int /\ n * (a \div n) <= a
OBVIOUS

LEMMA UnitIsOne == \A a \in Int : (Unit * a) \div Unit = a /\ (a * Unit) \div Unit = a
BY DEF Unit

(* A quotient rounded up.                                                  *)
LEMMA CeilDivFacts ==
  ASSUME NEW a \in Int, NEW n \in Nat \ {0}
  PROVE CeilDiv(a, n) \in Int /\ a <= n * CeilDiv(a, n)
<1>1. (-a) \div n \in Int /\ n * ((-a) \div n) <= -a BY QuotientFacts
<1> DEFINE q == (-a) \div n
<1>2. q \in Int /\ n * q <= -a BY <1>1
<1>3. CeilDiv(a, n) = -q BY DEF CeilDiv
<1> HIDE DEF q
<1>4. n * (-q) = -(n * q) BY <1>2
<1> QED BY <1>2, <1>3, <1>4

LEMMA RulesAreTyped ==
  /\ FeeRate \in Nat /\ LiqFeeRate \in Nat /\ Mmr \in Nat /\ Buffer \in 0..90
  /\ MinMargin \in 1..Unit /\ MaxCushion \in 1..(Unit - 1) /\ Unit \in Nat \ {0}
BY RulesAssumption DEF Unit

LEMMA StopIsInt ==
  ASSUME NEW side \in Sides, NEW cushion \in Nat
  PROVE compute_sl_initial(Unit, side, cushion, 1) \in Int
<1>1. (Unit * cushion) \div Unit = cushion BY UnitIsOne
<1>2. Unit - side * cushion \in Int BY DEF Sides, Unit
<1>3. \A x \in Int : Larger(1, x) \in Int BY DEF Larger
<1>4. \A x \in Int : (x \div 1) * 1 \in Int /\ CeilDiv(x, 1) * 1 \in Int
  BY CeilDivFacts
<1> QED BY <1>1, <1>2, <1>3, <1>4 DEF compute_sl_initial, round_sl_safe

LEMMA MarginIsInt ==
  ASSUME NEW side \in Sides, NEW cushion \in Nat, NEW asked \in Int
  PROVE leverage_used(asked, resolve_max_safe_leverage(Unit, side,
                               compute_sl_initial(Unit, side, cushion, 1), 0)) \in Int
<1> DEFINE sl == compute_sl_initial(Unit, side, cushion, 1)
           frac == CeilDiv(side * (Unit - sl) * Unit, Unit)
           up == CeilDiv(frac * 100, 100 - Buffer)
<1>1. sl \in Int BY StopIsInt
<1>2. side * (Unit - sl) * Unit \in Int
  <2> HIDE DEF sl
  <2> QED BY <1>1 DEF Sides, Unit
<1>3. frac \in Int /\ frac * 100 \in Int
  <2>1. Unit \in Nat \ {0} BY DEF Unit
  <2> QED BY <1>2, <2>1, CeilDivFacts
<1>4. up \in Int
  <2>1. 100 - Buffer \in Nat \ {0} BY RulesAreTyped
  <2> HIDE DEF frac
  <2> QED BY <1>3, <2>1, CeilDivFacts
<1>5. resolve_max_safe_leverage(Unit, side, sl, 0) = Larger(up + Mmr + FeeRate + LiqFeeRate + 0, MinMargin)
  BY DEF resolve_max_safe_leverage
<1> HIDE DEF sl, up
<1> QED BY <1>4, <1>5, RulesAreTyped DEF leverage_used, Larger, sl

(* The leverage that is taken puts the liquidation beyond the stop, by the *)
(* part of the distance that the safety buffer says.                       *)
LEMMA SafeLeverage ==
  ASSUME Buffer # 0, NEW side \in Sides, NEW cushion \in Nat, NEW asked \in Int,
         CushionAccepted(cushion),
         StopOnRightSide(Unit, side, compute_sl_initial(Unit, side, cushion, 1)),
         leverage_used(asked, resolve_max_safe_leverage(Unit, side, compute_sl_initial(Unit, side, cushion, 1), 0)) <= Unit
  PROVE LET sl == compute_sl_initial(Unit, side, cushion, 1)
            margin == leverage_used(asked, resolve_max_safe_leverage(Unit, side, sl, 0))
        IN side * (sl - compute_liquidation_price(Unit, side, margin, 0)) > 0
<1> DEFINE sl == compute_sl_initial(Unit, side, cushion, 1)
           d == side * (Unit - sl)
           up == CeilDiv(d * 100, 100 - Buffer)
           safe == resolve_max_safe_leverage(Unit, side, sl, 0)
           margin == leverage_used(asked, safe)
           allowance == Allowance(margin, 0)
<1>1. side \in {1, -1} /\ Unit = 10000 /\ 100 - Buffer \in 10..99
  BY RulesAreTyped DEF Sides, Unit
<1>2. sl \in Int BY StopIsInt
<1> HIDE DEF sl
<1>3. d \in Int /\ d > 0 BY <1>1, <1>2 DEF StopOnRightSide, sl
<1>4. up \in Int /\ d * 100 <= (100 - Buffer) * up
  <2>1. d * 100 \in Int /\ 100 - Buffer \in Nat \ {0} BY <1>1, <1>3
  <2> QED BY <2>1, CeilDivFacts
<1>5. safe = Larger(up + Mmr + FeeRate + LiqFeeRate + 0, MinMargin)
  <2>1. CeilDiv(d * Unit, Unit) = d
    <3> HIDE DEF d
    <3>1. (-(d * Unit)) = (-d) * Unit BY <1>1, <1>3
    <3>2. ((-d) * Unit) \div Unit = -d BY <1>3, UnitIsOne
    <3> QED BY <1>3, <3>1, <3>2 DEF CeilDiv
  <2>2. safe = Larger(CeilDiv(CeilDiv(d * Unit, Unit) * 100, 100 - Buffer)
                        + Mmr + FeeRate + LiqFeeRate + 0, MinMargin)
    BY DEF resolve_max_safe_leverage
  <2> HIDE DEF d
  <2> QED BY <2>1, <2>2
<1> HIDE DEF d, up, safe
<1>6. margin \in Int /\ margin >= up + Mmr + FeeRate + LiqFeeRate /\ margin <= Unit
  <2>1. up + Mmr + FeeRate + LiqFeeRate \in Int /\ MinMargin \in Int BY <1>4, RulesAreTyped
  <2>2. safe \in Int /\ safe >= up + Mmr + FeeRate + LiqFeeRate BY <1>5, <2>1 DEF Larger
  <2>3. margin \in Int /\ margin >= safe BY <2>2 DEF leverage_used, Larger
  <2>4. margin <= Unit BY DEF safe, sl
  <2> QED BY <2>1, <2>2, <2>3, <2>4
<1> HIDE DEF margin
<1>7. allowance \in Int /\ up <= allowance /\ allowance <= Unit
  BY <1>1, <1>4, <1>6, RulesAreTyped DEF Allowance
<1> HIDE DEF allowance
<1>8. 100 * d <= 99 * allowance /\ allowance > d
  <2>1. up > 0 BY <1>1, <1>3, <1>4
  <2> DEFINE x == (100 - Buffer) * up
  <2>2. x \in Int /\ x <= 99 * up BY <1>1, <1>4, <2>1
  <2>3. d * 100 <= x BY <1>4
  <2> HIDE DEF x
  <2> QED BY <1>3, <1>4, <1>7, <2>1, <2>2, <2>3
<1>9. compute_liquidation_price(Unit, side, margin, 0) = Larger(1, Unit - side * allowance)
  <2>1. ~ (allowance <= 0) BY <1>3, <1>7, <1>8
  <2>2. (Unit * allowance) \div Unit = allowance BY <1>7, UnitIsOne
  <2> QED BY <2>1, <2>2 DEF compute_liquidation_price, allowance
<1>10. side * (sl - Larger(1, Unit - side * allowance)) > 0
  <2>1. CASE side = 1
    BY <1>1, <1>2, <1>3, <1>7, <1>8, <2>1 DEF Larger, d
  <2>2. CASE side = -1
    BY <1>1, <1>2, <1>3, <1>7, <1>8, <2>2 DEF Larger, d
  <2> QED BY <1>1, <2>1, <2>2
<1> QED BY <1>9, <1>10 DEF sl, margin, safe
-----------------------------------------------------------------------------
(* What is known of the terms, the window and the bars read.               *)

Safe(t) == t.side * (t.sl - t.liq) > 0

TermsKnown ==
  /\ stage \in {"idle", "open", "closed", "recorded", "skipped", "raised"}
  /\ stage \in {"open", "closed", "recorded"} => terms.result = "trade"
  /\ stage = "idle" => terms = NoTerms /\ seen = <<>> /\ extreme = Unit /\ flips = 0
  /\ terms.result = "trade" =>
       /\ terms.side \in Sides /\ terms.tmax \in Nat \ {0} /\ terms.len = Length
       /\ Buffer # 0 => Safe(terms)
  /\ window \in Nat /\ seen \in Seq(TradeBars)

LEMMA ResolvedFacts ==
  ASSUME NEW e \in Events
  PROVE LET t == resolve_trade_execution_params(e.p, e.chop, Unit, e.primary, e.cushion, TMax, Margin)
        IN /\ t.result \in {"none", "raise", "trade"}
           /\ t.result = "trade" => /\ t.side \in Sides /\ t.tmax \in Nat \ {0}
                                    /\ Buffer # 0 => Safe(t)
<1> DEFINE mode == classify_trade_mode(e.p, e.chop)
           side == SideOf(mode, e.primary)
           sl == compute_sl_initial(Unit, side, e.cushion, 1)
           margin == leverage_used(Margin, resolve_max_safe_leverage(Unit, side, sl, 0))
           liq == compute_liquidation_price(Unit, side, margin, 0)
           refused == \/ ~ CushionAccepted(e.cushion)
                      \/ ~ StopOnRightSide(Unit, side, sl)
                      \/ margin > Unit
           t == resolve_trade_execution_params(e.p, e.chop, Unit, e.primary, e.cushion, TMax, Margin)
<1>1. e.primary \in Sides /\ e.cushion \in Nat /\ Margin \in Int BY TradeAssumption
<1>2. mode \in {"follow", "fade", "none"} BY DEF classify_trade_mode
<1>3. side \in Sides
  <2> HIDE DEF mode
  <2> QED BY <1>1 DEF SideOf, Sides
<1>4. TMax \in [{"follow", "fade"} -> Nat \ {0}] BY TradeAssumption
<1>5. t = CASE mode = "none" -> [result |-> "none"]
            [] mode # "none" /\ refused -> [result |-> "raise"]
            [] OTHER -> [result |-> "trade", mode |-> mode, side |-> side, sl |-> sl,
                         tmax |-> TMax[mode], margin |-> margin, liq |-> liq]
  BY DEF resolve_trade_execution_params
<1>6. Buffer # 0 /\ ~ refused => side * (sl - liq) > 0
  <2> SUFFICES ASSUME Buffer # 0, ~ refused PROVE side * (sl - liq) > 0 OBVIOUS
  <2>1. margin \in Int BY <1>1, <1>3, MarginIsInt
  <2>2. margin <= Unit
    <3> HIDE DEF margin
    <3> QED BY <2>1 DEF Unit
  <2> HIDE DEF side
  <2> QED BY <1>1, <1>3, <2>2, SafeLeverage
<1> HIDE DEF mode, side, sl, margin, liq, refused, t
<1>7. CASE mode = "none" BY <1>5, <1>7 DEF t
<1>8. CASE mode # "none" /\ refused BY <1>5, <1>8 DEF t
<1>9. CASE mode # "none" /\ ~ refused
  <2>1. t = [result |-> "trade", mode |-> mode, side |-> side, sl |-> sl,
             tmax |-> TMax[mode], margin |-> margin, liq |-> liq]
    BY <1>5, <1>9
  <2>2. TMax[mode] \in Nat \ {0} BY <1>2, <1>4, <1>9
  <2>3. Buffer # 0 => side * (sl - liq) > 0 BY <1>6, <1>9
  <2> QED BY <1>3, <2>1, <2>2, <2>3 DEF Safe, t
<1> QED BY <1>7, <1>8, <1>9

LEMMA KnownKeeps == TermsKnown /\ [TradeNext]_tradeVars => TermsKnown'
<1> SUFFICES ASSUME TermsKnown, [TradeNext]_tradeVars PROVE TermsKnown' OBVIOUS
<1>1. ASSUME NEW e \in Events, Resolve(e) PROVE TermsKnown'
  <2> DEFINE t == resolve_trade_execution_params(e.p, e.chop, Unit, e.primary, e.cushion, TMax, Margin)
  <2>1. /\ t.result \in {"none", "raise", "trade"}
        /\ t.result = "trade" => /\ t.side \in Sides /\ t.tmax \in Nat \ {0}
                                 /\ Buffer # 0 => Safe(t)
    BY ResolvedFacts
  <2>2. /\ terms' = ForFold(t, Length, TrainP)
        /\ stage' = CASE t.result = "none" -> "skipped"
                      [] t.result = "raise" -> "raised"
                      [] t.result = "trade" -> "open"
        /\ window' = window /\ seen' = seen
    BY <1>1 DEF Resolve
  <2> HIDE DEF t
  <2>3. CASE t.result = "trade"
    <3>1. terms' = [result |-> t.result, mode |-> t.mode, side |-> t.side, sl |-> t.sl,
                    tmax |-> t.tmax, margin |-> t.margin, liq |-> t.liq,
                    len |-> Length, flip |-> FlipThreshold(TrainP)]
      BY <2>2, <2>3 DEF ForFold
    <3>2. stage' = "open" BY <2>2, <2>3
    <3> QED BY <2>1, <2>2, <2>3, <3>1, <3>2 DEF TermsKnown, Safe
  <2>4. CASE t.result # "trade"
    <3>1. terms' = t BY <2>2, <2>4 DEF ForFold
    <3>2. stage' \in {"skipped", "raised"} BY <2>1, <2>2, <2>4
    <3> QED BY <2>2, <2>4, <3>1, <3>2 DEF TermsKnown
  <2> QED BY <2>3, <2>4
<1>2. ASSUME NEW b \in TradeBars, ExitOn(b) \/ HoldOn(b) PROVE TermsKnown'
  <2>1. seen' \in Seq(TradeBars)
    <3>1. seen' = Append(seen, b) BY <1>2 DEF ExitOn, HoldOn
    <3>2. seen \in Seq(TradeBars) BY DEF TermsKnown
    <3> QED BY <3>1, <3>2
  <2>2. terms' = terms /\ window' = window /\ stage = "open" /\ stage' \in {"open", "closed"}
    BY <1>2 DEF ExitOn, HoldOn, HasNext, Exit
  <2> QED BY <2>1, <2>2 DEF TermsKnown
<1>3. CASE TimeStop BY <1>3 DEF TimeStop, Exit, TermsKnown
<1>4. ASSUME NEW close, finalize_trade_record(close) PROVE TermsKnown'
  <2>1. /\ stage = "closed" /\ stage' = "recorded"
        /\ terms' = terms /\ window' = window /\ seen' = seen
    BY <1>4 DEF finalize_trade_record
  <2> QED BY <2>1 DEF TermsKnown
<1>5. CASE UNCHANGED tradeVars BY <1>5 DEF TermsKnown, tradeVars
<1> QED BY <1>1, <1>2, <1>3, <1>4, <1>5 DEF TradeNext, Done

LEMMA InitIsKnown == TradeInit => TermsKnown
BY TradeAssumption DEF TradeInit, TermsKnown, NoTerms

(* The stop is reached before the liquidation price, for every fee, rate   *)
(* and cushion, and every safety buffer but none at all.                   *)
THEOREM LeverageSparesTheStop == Buffer # 0 => (TradeSpec => []StopInsideLiquidation)
<1> SUFFICES ASSUME Buffer # 0 PROVE TradeSpec => []StopInsideLiquidation OBVIOUS
<1>1. TermsKnown => StopInsideLiquidation BY DEF TermsKnown, Safe, StopInsideLiquidation
<1> QED BY <1>1, InitIsKnown, KnownKeeps, PTL DEF TradeSpec
-----------------------------------------------------------------------------
(* The window.                                                             *)

LEMMA SliceFacts ==
  ASSUME NEW t, NEW w \in Nat, t.tmax \in Nat \ {0}, t.len \in Nat
  PROVE /\ SliceLength(t, w) \in Nat /\ SliceLength(t, w) <= t.tmax
        /\ SliceLength(t, w) > 0 => SliceLength(t, w) < w
        /\ ~ TruncatedWindow(t, w) => SliceLength(t, w) = t.tmax
BY DEF SliceLength, TruncatedWindow, Larger, Smaller

(* What a trade that is still open, and one that is over, has read.        *)
WindowKnown ==
  /\ stage = "open" => Len(seen) <= SliceLength(terms, window)
  /\ WindowKept

LEMMA ExitKinds ==
  ASSUME NEW t, NEW best, NEW count, NEW b
  PROVE BarExit(t, best, count, b) \in {"LIQUIDATION", "SL", "TRAIL", "REGIME_FLIP", "NONE"}
BY DEF BarExit

LEMMA WindowKeeps == TermsKnown /\ WindowKnown /\ [TradeNext]_tradeVars => WindowKnown'
<1> SUFFICES ASSUME TermsKnown, WindowKnown, [TradeNext]_tradeVars PROVE WindowKnown' OBVIOUS
<1> DEFINE n == SliceLength(terms, window)
<1>0. ASSUME stage = "open"
      PROVE /\ n \in Nat /\ n <= terms.tmax /\ (n > 0 => n < window)
            /\ ~ TruncatedWindow(terms, window) => n = terms.tmax
            /\ terms.tmax \in Nat \ {0} /\ window \in Nat
            /\ Len(seen) \in Nat /\ Len(seen) <= n
  <2>1. terms.tmax \in Nat \ {0} /\ terms.len \in Nat /\ window \in Nat /\ Len(seen) \in Nat
    BY <1>0, TradeAssumption DEF TermsKnown
  <2> QED BY <1>0, <2>1, SliceFacts DEF WindowKnown
<1>1. ASSUME NEW e \in Events, Resolve(e) PROVE WindowKnown'
  <2>1. seen' = <<>> /\ window' = window /\ stage' \in {"skipped", "raised", "open"}
    <3>1. stage = "idle" /\ seen' = seen /\ window' = window BY <1>1 DEF Resolve
    <3>2. stage' \in {"skipped", "raised", "open"} BY <1>1, ResolvedFacts DEF Resolve
    <3> QED BY <3>1, <3>2 DEF TermsKnown
  <2>2. TermsKnown' BY KnownKeeps
  <2>3. ASSUME stage' = "open" PROVE Len(seen') <= SliceLength(terms', window')
    <3>1. terms'.tmax \in Nat \ {0} /\ terms'.len \in Nat /\ window' \in Nat
      BY <2>2, <2>3, TradeAssumption DEF TermsKnown
    <3>2. SliceLength(terms', window') \in Nat BY <3>1, SliceFacts
    <3> QED BY <2>1, <3>2
  <2> QED BY <2>1, <2>3 DEF WindowKnown, WindowKept, Ended
<1>2. ASSUME NEW b \in TradeBars, ExitOn(b) PROVE WindowKnown'
  <2>1. /\ stage = "open" /\ stage' = "closed" /\ Len(seen) < n
        /\ terms' = terms /\ window' = window /\ seen' = Append(seen, b)
        /\ record' = [reason |-> BarExit(terms, extreme, flips, b), exit |-> Len(seen) + 1, truncated |-> FALSE]
    BY <1>2 DEF ExitOn, HasNext, Exit
  <2>2. Len(seen') = Len(seen) + 1 BY <2>1 DEF TermsKnown
  <2>3. BarExit(terms, extreme, flips, b) # "TIME_STOP" BY ExitKinds
  <2>4. /\ record'.reason = BarExit(terms, extreme, flips, b) /\ record'.exit = Len(seen) + 1
        /\ record'.truncated = FALSE
    BY <2>1
  <2> HIDE DEF n
  <2>5. Len(seen') < window' /\ record'.exit <= terms'.tmax
    BY <1>0, <2>1, <2>2, <2>4
  <2>6. record'.reason # "TIME_STOP" /\ ~ record'.truncated BY <2>3, <2>4
  <2>7. WindowKept' BY <2>5, <2>6 DEF WindowKept
  <2>8. stage' # "open" BY <2>1
  <2> QED BY <2>7, <2>8 DEF WindowKnown
<1>3. ASSUME NEW b \in TradeBars, HoldOn(b) PROVE WindowKnown'
  <2>1. /\ stage = "open" /\ stage' = stage /\ Len(seen) < n
        /\ terms' = terms /\ window' = window /\ seen' = Append(seen, b)
    BY <1>3 DEF HoldOn, HasNext
  <2>2. Len(seen') = Len(seen) + 1 BY <2>1 DEF TermsKnown
  <2>3. Len(seen') <= n
    <3> HIDE DEF n
    <3> QED BY <1>0, <2>1, <2>2
  <2> QED BY <2>1, <2>3 DEF WindowKnown, WindowKept, Ended
<1>4. CASE TimeStop
  <2>1. /\ stage = "open" /\ stage' = "closed" /\ Len(seen) = n
        /\ terms' = terms /\ window' = window /\ seen' = seen
        /\ record' = [reason |-> "TIME_STOP", exit |-> Larger(n, 1), truncated |-> TruncatedWindow(terms, window)]
    BY <1>4 DEF TimeStop, Exit
  <2>2. seen # <<>> => n > 0 BY <2>1 DEF TermsKnown
  <2> HIDE DEF n
  <2>3. Larger(n, 1) <= terms.tmax /\ (n = terms.tmax => Larger(n, 1) = n)
    BY <1>0, <2>1 DEF Larger
  <2>4. /\ record'.reason = "TIME_STOP" /\ record'.exit = Larger(n, 1)
        /\ record'.truncated = TruncatedWindow(terms, window)
    BY <2>1
  <2>5. /\ seen' # <<>> => Len(seen') < window'
        /\ record'.exit <= terms'.tmax
        /\ ~ record'.truncated => record'.exit = terms'.tmax
    BY <1>0, <2>1, <2>2, <2>3, <2>4
  <2>6. record'.reason = "TIME_STOP" BY <2>4
  <2>7. WindowKept' BY <2>5, <2>6 DEF WindowKept
  <2>8. stage' # "open" BY <2>1
  <2> QED BY <2>7, <2>8 DEF WindowKnown
<1>5. ASSUME NEW close, finalize_trade_record(close) PROVE WindowKnown'
  <2>1. /\ stage = "closed" /\ stage' = "recorded" /\ terms' = terms /\ window' = window /\ seen' = seen
        /\ record'.reason = record.reason /\ record'.exit = record.exit
        /\ record'.truncated = record.truncated
    BY <1>5 DEF finalize_trade_record
  <2> QED BY <2>1 DEF WindowKnown, WindowKept, Ended
<1>6. CASE UNCHANGED tradeVars BY <1>6 DEF WindowKnown, WindowKept, Ended, tradeVars
<1> QED BY <1>1, <1>2, <1>3, <1>4, <1>5, <1>6 DEF TradeNext, Done

(* No bar at or beyond the end of the test window is read, and a record    *)
(* that is not flagged as truncated saw its own end.                       *)
THEOREM WindowIsKept == TradeSpec => []WindowKept
<1>1. TradeInit => WindowKnown
  BY DEF TradeInit, WindowKnown, WindowKept, Ended
<1>2. TermsKnown /\ WindowKnown /\ [TradeNext]_tradeVars => (TermsKnown /\ WindowKnown)'
  BY KnownKeeps, WindowKeeps
<1>3. WindowKnown => WindowKept BY DEF WindowKnown
<1> QED BY <1>1, <1>2, <1>3, InitIsKnown, PTL DEF TradeSpec
-----------------------------------------------------------------------------
(* The first exit.  What the properties say of the bars read so far is     *)
(* said here of any sequence of bars, so that it can be carried over the   *)
(* step that appends one.                                                  *)

Earlier(t, s, k) == {Favourable(s[j], t.side) : j \in 1..(k - 1)} \cup {Unit}
BestOf(t, s, k) == IF t.side = 1 THEN Max(Earlier(t, s, k)) ELSE Min(Earlier(t, s, k))
Liquidates(t, s, k) == Touches(Adverse(s[k], t.side), t.liq, t.side)
StopsAt(t, s, k) == Touches(Adverse(s[k], t.side), t.sl, t.side)
TrailsAt(t, s, k) == Touches(Adverse(s[k], t.side), trail_stop(t, BestOf(t, s, k), s[k]), t.side)
FlipsAt(t, s, k) == k >= FlipBars /\ \A j \in (k - FlipBars + 1)..k : Against(t, s[j])
Quiet(t, s, k) ==
  ~ Liquidates(t, s, k) /\ ~ StopsAt(t, s, k) /\ ~ TrailsAt(t, s, k) /\ ~ FlipsAt(t, s, k)

(* The best price of the bars before the k-th, and the bars against the    *)
(* trade that the sequence ends with.                                      *)
IsBest(t, s, k, x) == x \in Earlier(t, s, k) /\ \A y \in Earlier(t, s, k) : t.side * (y - x) <= 0
IsCount(t, s, c) ==
  /\ c \in 0..Len(s)
  /\ \A j \in (Len(s) - c + 1)..Len(s) : Against(t, s[j])
  /\ c < Len(s) => ~ Against(t, s[Len(s) - c])

LEMMA BarsAreTyped == \A b \in TradeBars : b.hi \in Nat /\ b.lo \in Nat
BY TradeAssumption

LEMMA EarlierIsInt ==
  ASSUME NEW t, NEW s \in Seq(TradeBars), NEW k \in 1..(Len(s) + 1)
  PROVE Earlier(t, s, k) \subseteq Int
<1>1. Len(s) \in Nat OBVIOUS
<1>2. \A j \in 1..(k - 1) : j \in 1..Len(s) BY <1>1
<1>3. \A j \in 1..(k - 1) : s[j] \in TradeBars BY <1>2
<1>4. \A j \in 1..(k - 1) : Favourable(s[j], t.side) \in Int
  BY <1>3, BarsAreTyped DEF Favourable
<1> QED BY <1>4 DEF Earlier, Unit

(* Max and Min of a set that has a greatest or a least member.             *)
LEMMA BestIsUnique ==
  ASSUME NEW t, t.side \in Sides, NEW s \in Seq(TradeBars), NEW k \in 1..(Len(s) + 1),
         NEW x, IsBest(t, s, k, x)
  PROVE BestOf(t, s, k) = x
<1> DEFINE S == Earlier(t, s, k)
<1>1. S \subseteq Int /\ x \in S /\ \A y \in S : t.side * (y - x) <= 0
  BY EarlierIsInt DEF IsBest
<1> HIDE DEF S
<1>2. CASE t.side = 1
  <2>1. \A y \in S : x >= y BY <1>1, <1>2
  <2>2. Max(S) \in S /\ \A y \in S : Max(S) >= y BY <1>1, <2>1 DEF Max
  <2>3. Max(S) = x
    <3> DEFINE m == Max(S)
    <3>1. m \in Int /\ x \in Int /\ m >= x /\ x >= m BY <1>1, <2>1, <2>2
    <3> HIDE DEF m
    <3>2. m = x BY <3>1
    <3> QED BY <3>2 DEF m
  <2> QED BY <1>2, <2>3 DEF BestOf, S
<1>3. CASE t.side = -1
  <2>1. \A y \in S : x <= y BY <1>1, <1>3
  <2>2. Min(S) \in S /\ \A y \in S : Min(S) <= y BY <1>1, <2>1 DEF Min
  <2>3. Min(S) = x
    <3> DEFINE m == Min(S)
    <3>1. m \in Int /\ x \in Int /\ m <= x /\ x <= m BY <1>1, <2>1, <2>2
    <3> HIDE DEF m
    <3>2. m = x BY <3>1
    <3> QED BY <3>2 DEF m
  <2> QED BY <1>3, <2>3 DEF BestOf, S
<1> QED BY <1>2, <1>3 DEF Sides

LEMMA AppendFacts ==
  ASSUME NEW s \in Seq(TradeBars), NEW b \in TradeBars
  PROVE /\ Len(s) \in Nat /\ Append(s, b) \in Seq(TradeBars) /\ Len(Append(s, b)) = Len(s) + 1
        /\ Append(s, b)[Len(s) + 1] = b
        /\ \A j \in 1..Len(s) : Append(s, b)[j] = s[j]
OBVIOUS

(* Nothing of the past changes when a bar is read.                         *)
LEMMA PastStays ==
  ASSUME NEW t, NEW s \in Seq(TradeBars), NEW b \in TradeBars
  PROVE /\ \A k \in 1..(Len(s) + 1) : Earlier(t, Append(s, b), k) = Earlier(t, s, k)
        /\ \A k \in 1..Len(s) : Quiet(t, Append(s, b), k) <=> Quiet(t, s, k)
<1> DEFINE s2 == Append(s, b)
<1>1. Len(s) \in Nat /\ \A j \in 1..Len(s) : s2[j] = s[j] BY AppendFacts
<1> HIDE DEF s2
<1>2. ASSUME NEW k \in 1..(Len(s) + 1) PROVE Earlier(t, s2, k) = Earlier(t, s, k)
  <2>1. \A j \in 1..(k - 1) : j \in 1..Len(s) BY <1>1
  <2>2. \A j \in 1..(k - 1) : Favourable(s2[j], t.side) = Favourable(s[j], t.side) BY <1>1, <2>1
  <2> QED BY <2>2 DEF Earlier
<1>3. ASSUME NEW k \in 1..Len(s) PROVE Quiet(t, s2, k) <=> Quiet(t, s, k)
  <2>1. s2[k] = s[k] BY <1>1
  <2>2. BestOf(t, s2, k) = BestOf(t, s, k) BY <1>1, <1>2 DEF BestOf
  <2>3. FlipsAt(t, s2, k) <=> FlipsAt(t, s, k)
    <3> SUFFICES ASSUME k >= FlipBars
                 PROVE \A j \in (k - FlipBars + 1)..k : s2[j] = s[j]
      BY DEF FlipsAt
    <3>1. FlipBars \in Nat BY ExitAssumption
    <3>2. \A j \in (k - FlipBars + 1)..k : j \in 1..Len(s) BY <1>1, <3>1
    <3> QED BY <1>1, <3>2
  <2> QED BY <2>1, <2>2, <2>3 DEF Quiet, Liquidates, StopsAt, TrailsAt
<1> QED BY <1>2, <1>3 DEF s2

(* The new bar, seen with the running extreme and count.                   *)
LEMMA CountIsFlip ==
  ASSUME NEW t, NEW s \in Seq(TradeBars), NEW b \in TradeBars, NEW c, IsCount(t, s, c)
  PROVE /\ FlipsAt(t, Append(s, b), Len(s) + 1) <=> _update_regime_flip(t, b, c) >= FlipBars
        /\ IsCount(t, Append(s, b), _update_regime_flip(t, b, c))
<1> DEFINE s2 == Append(s, b)
           k == Len(s) + 1
<1>1. /\ Len(s) \in Nat /\ Len(s2) = k /\ s2[k] = b
      /\ \A j \in 1..Len(s) : s2[j] = s[j]
  BY AppendFacts
<1>2. c \in 0..Len(s) /\ FlipBars \in Nat \ {0} BY ExitAssumption DEF IsCount
<1> HIDE DEF s2
<1>3. CASE Against(t, b)
  <2>1. _update_regime_flip(t, b, c) = c + 1 BY <1>3 DEF _update_regime_flip
  <2>2. \A j \in (k - c)..k : Against(t, s2[j])
    <3> SUFFICES ASSUME NEW j \in (k - c)..k PROVE Against(t, s2[j]) OBVIOUS
    <3>1. CASE j = k BY <1>1, <1>3, <3>1
    <3>2. CASE j # k
      <4>1. j \in (Len(s) - c + 1)..Len(s) /\ j \in 1..Len(s) BY <1>1, <1>2, <3>2
      <4> QED BY <1>1, <4>1 DEF IsCount
    <3> QED BY <3>1, <3>2
  <2>3. ASSUME c < Len(s) PROVE ~ Against(t, s2[Len(s) - c])
    <3>1. Len(s) - c \in 1..Len(s) BY <1>1, <1>2, <2>3
    <3> QED BY <1>1, <2>3, <3>1 DEF IsCount
  <2>4. IsCount(t, s2, c + 1)
    <3>1. c + 1 \in 0..Len(s2) BY <1>1, <1>2
    <3>2. Len(s2) - (c + 1) + 1 = k - c /\ Len(s2) - (c + 1) = Len(s) - c BY <1>1, <1>2
    <3>3. c + 1 < Len(s2) => c < Len(s) BY <1>1, <1>2
    <3> QED BY <1>1, <2>2, <2>3, <3>1, <3>2, <3>3 DEF IsCount
  <2>5. ASSUME c + 1 >= FlipBars PROVE FlipsAt(t, s2, k)
    <3>1. k >= FlipBars BY <1>1, <1>2, <2>5
    <3>2. \A j \in (k - FlipBars + 1)..k : j \in (k - c)..k BY <1>1, <1>2, <2>5
    <3> QED BY <2>2, <3>1, <3>2 DEF FlipsAt
  <2>6. ASSUME ~ (c + 1 >= FlipBars), FlipsAt(t, s2, k) PROVE FALSE
    <3>1. k >= FlipBars /\ \A j \in (k - FlipBars + 1)..k : Against(t, s2[j]) BY <2>6 DEF FlipsAt
    <3>2. c < Len(s) /\ Len(s) - c \in (k - FlipBars + 1)..k BY <1>1, <1>2, <2>6, <3>1
    <3> QED BY <2>3, <3>1, <3>2
  <2> QED BY <2>1, <2>4, <2>5, <2>6 DEF s2
<1>4. CASE ~ Against(t, b)
  <2>1. _update_regime_flip(t, b, c) = 0 BY <1>4 DEF _update_regime_flip
  <2>2. IsCount(t, s2, 0)
    <3>1. 0 \in 0..Len(s2) /\ (Len(s2) - 0 + 1)..Len(s2) = {} /\ Len(s2) - 0 = k BY <1>1
    <3> QED BY <1>1, <1>4, <3>1 DEF IsCount
  <2>3. ~ FlipsAt(t, s2, k)
    <3>1. k \in (k - FlipBars + 1)..k BY <1>1, <1>2
    <3> QED BY <1>1, <1>4, <3>1 DEF FlipsAt
  <2>4. ~ (0 >= FlipBars) BY <1>2
  <2> QED BY <2>1, <2>2, <2>3, <2>4 DEF s2
<1> QED BY <1>3, <1>4

LEMMA BestFollows ==
  ASSUME NEW t, t.side \in Sides, NEW s \in Seq(TradeBars), NEW b \in TradeBars, NEW x,
         IsBest(t, s, Len(s) + 1, x)
  PROVE IsBest(t, Append(s, b), Len(s) + 2, BestAfter(t, x, b))
<1> DEFINE s2 == Append(s, b)
           n == Len(s)
           x2 == BestAfter(t, x, b)
           S == Earlier(t, s, n + 1)
           f == Favourable(b, t.side)
<1>1. n \in Nat /\ s2[n + 1] = b /\ \A j \in 1..n : s2[j] = s[j] BY AppendFacts
<1>2. S \subseteq Int /\ x \in S /\ \A y \in S : t.side * (y - x) <= 0
  BY <1>1, EarlierIsInt DEF IsBest
<1>3. Earlier(t, s2, n + 2) = S \cup {f}
  <2>1. (n + 2) - 1 = n + 1 /\ (n + 1) - 1 = n BY <1>1
  <2>2. Earlier(t, s2, n + 2) = {Favourable(s2[j], t.side) : j \in 1..(n + 1)} \cup {Unit}
    BY <2>1 DEF Earlier
  <2>3. S = {Favourable(s[j], t.side) : j \in 1..n} \cup {Unit} BY <2>1 DEF Earlier
  <2>4. 1..(n + 1) = 1..n \cup {n + 1} BY <1>1
  <2> HIDE DEF s2, S, n
  <2>5. {Favourable(s2[j], t.side) : j \in 1..(n + 1)}
          = {Favourable(s[j], t.side) : j \in 1..n} \cup {f}
    BY <1>1, <2>4
  <2> QED BY <2>2, <2>3, <2>5
<1>4. f \in Int BY BarsAreTyped DEF Favourable
<1> HIDE DEF s2, n, S
<1>5. CASE t.side = 1
  <2>1. x2 = Larger(x, f) BY <1>5 DEF BestAfter, Favourable
  <2>2. x2 \in S \cup {f} /\ \A y \in S \cup {f} : y - x2 <= 0
    <3> HIDE DEF f, x2
    <3> QED BY <1>2, <1>4, <1>5, <2>1 DEF Larger
  <2>3. \A y \in S \cup {f} : t.side * (y - x2) <= 0
    <3> HIDE DEF f, x2
    <3> QED BY <1>2, <1>4, <1>5, <2>2
  <2> QED BY <1>3, <2>2, <2>3 DEF IsBest, s2, n
<1>6. CASE t.side = -1
  <2>1. x2 = Smaller(x, f) BY <1>6 DEF BestAfter, Favourable
  <2>2. x2 \in S \cup {f} /\ \A y \in S \cup {f} : x2 - y <= 0
    <3> HIDE DEF f, x2
    <3> QED BY <1>2, <1>4, <1>6, <2>1 DEF Smaller
  <2>3. \A y \in S \cup {f} : t.side * (y - x2) <= 0
    <3> HIDE DEF f, x2
    <3> QED BY <1>2, <1>4, <1>6, <2>2
  <2> QED BY <1>3, <2>2, <2>3 DEF IsBest, s2, n
<1> QED BY <1>5, <1>6 DEF Sides

LEMMA BarExitFacts ==
  ASSUME NEW t, NEW best, NEW count, NEW b
  PROVE LET liq   == Touches(Adverse(b, t.side), t.liq, t.side)
            hit   == Touches(Adverse(b, t.side), t.sl, t.side)
            trail == Touches(Adverse(b, t.side), trail_stop(t, best, b), t.side)
            flip  == _update_regime_flip(t, b, count) >= FlipBars
            r     == BarExit(t, best, count, b)
        IN /\ r = "LIQUIDATION" <=> liq
           /\ r = "SL" => hit
           /\ r = "TRAIL" => trail /\ ~ hit
           /\ r = "REGIME_FLIP" => flip /\ ~ trail
           /\ r = "NONE" <=> ~ liq /\ ~ hit /\ ~ trail /\ ~ flip
<1> DEFINE liq   == Touches(Adverse(b, t.side), t.liq, t.side)
           hit   == Touches(Adverse(b, t.side), t.sl, t.side)
           trail == Touches(Adverse(b, t.side), trail_stop(t, best, b), t.side)
           flip  == _update_regime_flip(t, b, count) >= FlipBars
<1>1. BarExit(t, best, count, b) =
        IF liq THEN "LIQUIDATION" ELSE IF hit THEN "SL" ELSE IF trail THEN "TRAIL"
        ELSE IF flip THEN "REGIME_FLIP" ELSE "NONE"
  BY DEF BarExit, BestBefore
<1> HIDE DEF liq, hit, trail, flip
<1>2. /\ BarExit(t, best, count, b) = "LIQUIDATION" <=> liq
      /\ BarExit(t, best, count, b) = "SL" => hit
      /\ BarExit(t, best, count, b) = "TRAIL" => trail /\ ~ hit
      /\ BarExit(t, best, count, b) = "REGIME_FLIP" => flip /\ ~ trail
      /\ BarExit(t, best, count, b) = "NONE" <=> ~ liq /\ ~ hit /\ ~ trail /\ ~ flip
  BY <1>1
<1> QED BY <1>2 DEF liq, hit, trail, flip

(* ExitIsFirst of a sequence of bars.                                      *)
First(t, s, reason) ==
  LET k == Len(s) IN
  /\ \A j \in 1..(k - 1) : ~ (StopsAt(t, s, j) \/ TrailsAt(t, s, j) \/ FlipsAt(t, s, j))
  /\ reason = "LIQUIDATION" <=> k > 0 /\ Liquidates(t, s, k)
  /\ reason = "SL" => StopsAt(t, s, k)
  /\ reason = "TRAIL" => TrailsAt(t, s, k) /\ ~ StopsAt(t, s, k)
  /\ reason = "REGIME_FLIP" => FlipsAt(t, s, k) /\ ~ TrailsAt(t, s, k)
  /\ reason = "TIME_STOP" => k = 0 \/ ~ (StopsAt(t, s, k) \/ TrailsAt(t, s, k) \/ FlipsAt(t, s, k))

LEMMA FirstIsExitIsFirst == ExitIsFirst <=> (Ended => First(terms, seen, record.reason))
BY DEF ExitIsFirst, First, LiquidatedAt, StoppedAt, TrailedAt, FlippedAt, BestBy,
       Liquidates, StopsAt, TrailsAt, FlipsAt, BestOf, Earlier

(* While the trade is open nothing has ended it.                           *)
OpenIsQuiet ==
  stage = "open" => /\ \A j \in 1..Len(seen) : Quiet(terms, seen, j)
                    /\ IsBest(terms, seen, Len(seen) + 1, extreme)
                    /\ IsCount(terms, seen, flips)

FirstKnown == OpenIsQuiet /\ (Ended => First(terms, seen, record.reason))

(* What the next bar is to the properties, and to the code.                *)
LEMMA NextBar ==
  ASSUME NEW t, t.side \in Sides, NEW s \in Seq(TradeBars), NEW b \in TradeBars, NEW x, NEW c,
         IsBest(t, s, Len(s) + 1, x), IsCount(t, s, c)
  PROVE LET s2 == Append(s, b)
            k == Len(s) + 1
            r == BarExit(t, x, c, b)
        IN /\ r = "LIQUIDATION" <=> Liquidates(t, s2, k)
           /\ r = "SL" => StopsAt(t, s2, k)
           /\ r = "TRAIL" => TrailsAt(t, s2, k) /\ ~ StopsAt(t, s2, k)
           /\ r = "REGIME_FLIP" => FlipsAt(t, s2, k) /\ ~ TrailsAt(t, s2, k)
           /\ r = "NONE" <=> Quiet(t, s2, k)
<1> DEFINE s2 == Append(s, b)
           k == Len(s) + 1
<1>1. Len(s) \in Nat /\ s2[k] = b BY AppendFacts
<1>2. BestOf(t, s2, k) = x
  <2>1. k \in 1..(Len(s) + 1) BY <1>1
  <2>2. BestOf(t, s, k) = x BY <2>1, BestIsUnique
  <2>3. Earlier(t, s2, k) = Earlier(t, s, k) BY <2>1, PastStays
  <2> QED BY <2>2, <2>3 DEF BestOf
<1>3. FlipsAt(t, s2, k) <=> _update_regime_flip(t, b, c) >= FlipBars BY CountIsFlip
<1> HIDE DEF s2, k
<1>4. /\ Liquidates(t, s2, k) = Touches(Adverse(b, t.side), t.liq, t.side)
      /\ StopsAt(t, s2, k) = Touches(Adverse(b, t.side), t.sl, t.side)
      /\ TrailsAt(t, s2, k) = Touches(Adverse(b, t.side), trail_stop(t, x, b), t.side)
  BY <1>1, <1>2 DEF Liquidates, StopsAt, TrailsAt
<1>5. /\ BarExit(t, x, c, b) = "LIQUIDATION" <=> Liquidates(t, s2, k)
      /\ BarExit(t, x, c, b) = "SL" => StopsAt(t, s2, k)
      /\ BarExit(t, x, c, b) = "TRAIL" => TrailsAt(t, s2, k) /\ ~ StopsAt(t, s2, k)
      /\ BarExit(t, x, c, b) = "REGIME_FLIP" => FlipsAt(t, s2, k) /\ ~ TrailsAt(t, s2, k)
      /\ BarExit(t, x, c, b) = "NONE" <=> Quiet(t, s2, k)
  BY <1>3, <1>4, BarExitFacts DEF Quiet
<1> QED BY <1>5 DEF s2, k

LEMMA HoldKeeps ==
  ASSUME TermsKnown, FirstKnown, NEW b \in TradeBars, HoldOn(b) PROVE FirstKnown'
<1> DEFINE s2 == Append(seen, b)
<1>1. /\ stage = "open" /\ stage' = stage /\ terms' = terms /\ seen' = s2
      /\ extreme' = BestAfter(terms, extreme, b)
      /\ flips' = _update_regime_flip(terms, b, flips)
      /\ BarExit(terms, extreme, flips, b) = "NONE"
  BY DEF HoldOn, HasNext
<1>2. terms.side \in Sides /\ seen \in Seq(TradeBars) BY <1>1 DEF TermsKnown
<1>3. /\ \A j \in 1..Len(seen) : Quiet(terms, seen, j)
      /\ IsBest(terms, seen, Len(seen) + 1, extreme) /\ IsCount(terms, seen, flips)
  BY <1>1 DEF FirstKnown, OpenIsQuiet
<1>4. Len(seen) \in Nat /\ Len(s2) = Len(seen) + 1 BY <1>2, AppendFacts
<1>5. Quiet(terms, s2, Len(seen) + 1) BY <1>1, <1>2, <1>3, NextBar
<1>6. \A j \in 1..Len(seen) : Quiet(terms, s2, j) BY <1>2, <1>3, PastStays
<1>7. IsBest(terms, s2, Len(seen) + 2, extreme') BY <1>1, <1>2, <1>3, BestFollows
<1>8. IsCount(terms, s2, flips') BY <1>1, <1>2, <1>3, CountIsFlip
<1> HIDE DEF s2
<1>9. \A j \in 1..Len(s2) : Quiet(terms, s2, j)
  <2>1. \A j \in 1..Len(s2) : j \in 1..Len(seen) \/ j = Len(seen) + 1 BY <1>4
  <2> QED BY <1>5, <1>6, <2>1
<1>10. Len(s2) + 1 = Len(seen) + 2 BY <1>4
<1> QED BY <1>1, <1>7, <1>8, <1>9, <1>10 DEF FirstKnown, OpenIsQuiet, Ended

LEMMA ExitKeeps ==
  ASSUME TermsKnown, FirstKnown, NEW b \in TradeBars, ExitOn(b) PROVE FirstKnown'
<1> DEFINE s2 == Append(seen, b)
           r == BarExit(terms, extreme, flips, b)
<1>1. /\ stage = "open" /\ stage' = "closed" /\ terms' = terms /\ seen' = s2
      /\ record' = [reason |-> r, exit |-> Len(seen) + 1, truncated |-> FALSE]
  BY DEF ExitOn, HasNext, Exit
<1>2. terms.side \in Sides /\ seen \in Seq(TradeBars) BY <1>1 DEF TermsKnown
<1>3. /\ \A j \in 1..Len(seen) : Quiet(terms, seen, j)
      /\ IsBest(terms, seen, Len(seen) + 1, extreme) /\ IsCount(terms, seen, flips)
  BY <1>1 DEF FirstKnown, OpenIsQuiet
<1>4. Len(seen) \in Nat /\ Len(s2) = Len(seen) + 1 BY <1>2, AppendFacts
<1>5. \A j \in 1..Len(seen) : Quiet(terms, s2, j) BY <1>2, <1>3, PastStays
<1>6. /\ r = "LIQUIDATION" <=> Liquidates(terms, s2, Len(seen) + 1)
      /\ r = "SL" => StopsAt(terms, s2, Len(seen) + 1)
      /\ r = "TRAIL" => TrailsAt(terms, s2, Len(seen) + 1) /\ ~ StopsAt(terms, s2, Len(seen) + 1)
      /\ r = "REGIME_FLIP" => FlipsAt(terms, s2, Len(seen) + 1) /\ ~ TrailsAt(terms, s2, Len(seen) + 1)
  BY <1>2, <1>3, NextBar
<1>7. r # "TIME_STOP" BY ExitKinds
<1>8. record'.reason = r BY <1>1
<1> HIDE DEF s2, r
<1>9. First(terms, s2, r)
  <2>1. Len(s2) > 0 /\ Len(s2) - 1 = Len(seen) BY <1>4
  <2>2. \A j \in 1..(Len(s2) - 1) : ~ (StopsAt(terms, s2, j) \/ TrailsAt(terms, s2, j) \/ FlipsAt(terms, s2, j))
    BY <1>5, <2>1 DEF Quiet
  <2> QED BY <1>4, <1>6, <1>7, <2>1, <2>2 DEF First
<1> QED BY <1>1, <1>8, <1>9 DEF FirstKnown, OpenIsQuiet

LEMMA TimeStopKeeps == ASSUME TermsKnown, FirstKnown, TimeStop PROVE FirstKnown'
<1>1. /\ stage = "open" /\ stage' = "closed" /\ terms' = terms /\ seen' = seen
      /\ record'.reason = "TIME_STOP"
  BY DEF TimeStop, Exit
<1>2. Len(seen) \in Nat BY DEF TermsKnown
<1>3. \A j \in 1..Len(seen) : Quiet(terms, seen, j) BY <1>1 DEF FirstKnown, OpenIsQuiet
<1>4. First(terms, seen, "TIME_STOP")
  <2>1. \A j \in 1..(Len(seen) - 1) : j \in 1..Len(seen) BY <1>2
  <2>2. Len(seen) > 0 => Len(seen) \in 1..Len(seen) BY <1>2
  <2>3. Len(seen) = 0 \/ Quiet(terms, seen, Len(seen)) BY <1>2, <1>3, <2>2
  <2> QED BY <1>2, <1>3, <2>1, <2>3 DEF First, Quiet
<1> QED BY <1>1, <1>4 DEF FirstKnown, OpenIsQuiet

LEMMA FirstKeeps == TermsKnown /\ FirstKnown /\ [TradeNext]_tradeVars => FirstKnown'
<1> SUFFICES ASSUME TermsKnown, FirstKnown, [TradeNext]_tradeVars PROVE FirstKnown' OBVIOUS
<1>1. ASSUME NEW e \in Events, Resolve(e) PROVE FirstKnown'
  <2>1. /\ seen' = <<>> /\ extreme' = Unit /\ flips' = 0
        /\ stage' \in {"skipped", "raised", "open"}
    <3>1. stage = "idle" /\ seen' = seen /\ extreme' = extreme /\ flips' = flips BY <1>1 DEF Resolve
    <3>2. stage' \in {"skipped", "raised", "open"} BY <1>1, ResolvedFacts DEF Resolve
    <3> QED BY <3>1, <3>2 DEF TermsKnown
  <2>2. ASSUME stage' = "open" PROVE IsBest(terms', <<>>, 1, Unit) /\ IsCount(terms', <<>>, 0)
    <3>1. terms'.side \in Sides BY <2>2, KnownKeeps DEF TermsKnown
    <3>2. Earlier(terms', <<>>, 1) = {Unit} BY DEF Earlier
    <3>3. terms'.side * (Unit - Unit) <= 0 BY <3>1 DEF Sides, Unit
    <3>4. IsCount(terms', <<>>, 0) BY DEF IsCount
    <3> QED BY <3>2, <3>3, <3>4 DEF IsBest
  <2>3. Len(<<>>) = 0 /\ 1..0 = {} OBVIOUS
  <2> QED BY <2>1, <2>2, <2>3 DEF FirstKnown, OpenIsQuiet, Ended
<1>2. ASSUME NEW b \in TradeBars, ExitOn(b) \/ HoldOn(b) PROVE FirstKnown'
  BY <1>2, HoldKeeps, ExitKeeps
<1>3. CASE TimeStop BY <1>3, TimeStopKeeps
<1>4. ASSUME NEW close, finalize_trade_record(close) PROVE FirstKnown'
  <2>1. /\ stage = "closed" /\ stage' = "recorded" /\ terms' = terms /\ seen' = seen
        /\ record'.reason = record.reason
    BY <1>4 DEF finalize_trade_record
  <2> QED BY <2>1 DEF FirstKnown, OpenIsQuiet, Ended
<1>5. CASE UNCHANGED tradeVars BY <1>5 DEF FirstKnown, OpenIsQuiet, Ended, tradeVars
<1> QED BY <1>1, <1>2, <1>3, <1>4, <1>5 DEF TradeNext, Done

(* A trade ends at the first bar that ends it, for the first reason in the *)
(* order liquidation, stop, trailing stop, flip.                           *)
THEOREM FirstExitWins == TradeSpec => []ExitIsFirst
<1>1. TradeInit => FirstKnown BY DEF TradeInit, FirstKnown, OpenIsQuiet, Ended
<1>2. TermsKnown /\ FirstKnown /\ [TradeNext]_tradeVars => (TermsKnown /\ FirstKnown)'
  BY KnownKeeps, FirstKeeps
<1>3. FirstKnown => ExitIsFirst BY FirstIsExitIsFirst DEF FirstKnown
<1> QED BY <1>1, <1>2, <1>3, InitIsKnown, PTL DEF TradeSpec
-----------------------------------------------------------------------------
(* The paper trading engine.                                               *)

(* A verdict of the second tier or above is a frozen one.                  *)
LEMMA HighTierIsFrozen ==
  ASSUME NEW c, NEW equity, NEW time
  PROVE update_equity(c, equity, time).tier \in {2, 3} => update_equity(c, equity, time).frozen
BY DEF update_equity

LEMMA TierIsSmall ==
  ASSUME NEW c, NEW equity, NEW time
  PROVE update_equity(c, equity, time).tier \in 0..3
BY DEF update_equity

(* A breaker that tripped closes the position of its bar.                  *)
LEMMA TrippedBarExits ==
  ASSUME NEW b, ExitReason(b) = "NONE", pos # NoPos
  PROVE ~ State(b).frozen /\ ~ (State(b).tier >= 2)
BY DEF ExitReason, force_flatten

LEMMA FlatKeeps == FlatWhileTripped /\ [Next]_vars => FlatWhileTripped'
<1> SUFFICES ASSUME FlatWhileTripped, [Next]_vars PROVE FlatWhileTripped' OBVIOUS
<1>1. CASE UNCHANGED <<account, verdict>>
  BY <1>1 DEF FlatWhileTripped, account
<1>2. ASSUME NEW b \in Bars, on_bar(b) PROVE FlatWhileTripped'
  <2>1. CASE Incomplete(b) BY <2>1, <1>1 DEF Incomplete
  <2>2. CASE Close(b) BY <2>2 DEF Close, FlatWhileTripped
  <2>3. ASSUME Survives(b), pos = NoPos, pos' = Kept(b) PROVE FlatWhileTripped'
    BY <2>3 DEF Kept, FlatWhileTripped
  <2>4. ASSUME Survives(b), pos # NoPos PROVE FlatWhileTripped'
    <3>1. ~ State(b).frozen /\ ~ (State(b).tier >= 2)
      BY <2>4, TrippedBarExits DEF Survives
    <3> QED BY <2>4, <3>1 DEF Survives, Judged, VerdictOf, FlatWhileTripped
  <2>5. CASE Blocked(b) BY <2>3, <2>4, <2>5 DEF Blocked
  <2>6. ASSUME Looks(b) PROVE FlatWhileTripped'
    <3>1. ~ State(b).frozen /\ State(b).tier # 3 BY <2>6 DEF Looks
    <3>2. State(b).tier \in 0..3 BY TierIsSmall DEF State
    <3>3. State(b).tier # 2 BY <3>1, HighTierIsFrozen DEF State
    <3>4. ~ (State(b).tier >= 2) BY <3>1, <3>2, <3>3
    <3>5. Judged(b) BY <2>6 DEF Looks, Survives
    <3> QED BY <3>1, <3>4, <3>5 DEF Judged, VerdictOf, FlatWhileTripped
  <2>7. CASE NoTrigger(b) \/ Declined(b) \/ Raises(b) \/ Open(b)
    BY <2>6, <2>7 DEF NoTrigger, Declined, Raises, Open, Triggered
  <2> QED BY <1>2, <2>1, <2>2, <2>5, <2>7 DEF on_bar
<1>3. CASE UNCHANGED vars BY <1>3, <1>1 DEF vars
<1>4. ASSUME NEW m \in BOOLEAN, NEW w \in BOOLEAN, NEW d \in BOOLEAN, Start(m, w, d)
      PROVE FlatWhileTripped'
  BY <1>4, <1>1 DEF Start
<1>5. CASE sig_handler \/ End \/ Over BY <1>5, <1>1, <1>3 DEF sig_handler, End, Over
<1> QED BY <1>2, <1>3, <1>4, <1>5 DEF Next

(* The breaker is told what the account is worth, and ten percent below    *)
(* the peak it freezes.                                                    *)
LEMMA DeepFallFreezes ==
  ASSUME NEW b,
         LET peak == Larger(breaker.peak, Worth(b))
         IN 100 * (peak - Worth(b)) >= 10 * peak /\ ~ (peak <= 0)
  PROVE State(b).frozen
BY DEF State, update_equity, margin_balance, Worth

LEMMA PeakIsRaised ==
  ASSUME NEW b, ~ breaker.dead, "peak" \in DOMAIN breaker
  PROVE State(b).next.peak = Larger(breaker.peak, Worth(b))
BY DEF State, update_equity, margin_balance, Worth

(* What is left of a position by a bar that closes it, or finds a frozen   *)
(* breaker.                                                                *)
LEMMA FrozenBarIsFlat ==
  ASSUME NEW b \in Bars, on_bar(b), b.complete, State(b).frozen PROVE pos' = NoPos
<1>1. CASE Close(b) BY <1>1 DEF Close
<1>2. CASE Blocked(b)
  <2>1. ExitReason(b) = "NONE" /\ pos' = Kept(b) BY <1>2 DEF Blocked, Survives
  <2>2. pos = NoPos BY <2>1, TrippedBarExits
  <2> QED BY <2>1, <2>2 DEF Kept
<1>3. ~ Looks(b) BY DEF Looks
<1> QED BY <1>1, <1>2, <1>3
        DEF on_bar, Incomplete, NoTrigger, Declined, Raises, Open, Triggered

LEMMA BarJudges ==
  ASSUME NEW b \in Bars, on_bar(b), b.complete PROVE breaker' = State(b).next
BY DEF on_bar, Incomplete, Close, Blocked, NoTrigger, Declined, Raises, Open, Triggered,
       Looks, Survives, Judged

BreakerKnown == DOMAIN breaker = {"peak", "dead", "until"}

LEMMA BreakerStays == BreakerKnown /\ [Next]_vars => BreakerKnown'
<1> SUFFICES ASSUME BreakerKnown, [Next]_vars PROVE BreakerKnown' OBVIOUS
<1>1. CASE UNCHANGED breaker BY <1>1 DEF BreakerKnown
<1>2. ASSUME NEW b \in Bars, on_bar(b), b.complete PROVE BreakerKnown'
  <2>1. DOMAIN State(b).next = DOMAIN breaker BY DEF State, update_equity
  <2> QED BY <1>2, <2>1, BarJudges DEF BreakerKnown
<1>3. ASSUME NEW b \in Bars, on_bar(b), ~ b.complete PROVE UNCHANGED breaker
  BY <1>3 DEF on_bar, Incomplete, Close, Blocked, NoTrigger, Declined, Raises, Open, Triggered,
              Looks, Survives
<1> QED BY <1>1, <1>2, <1>3 DEF Next, Start, sig_handler, End, Over, vars

LEMMA EveryFallIsFlattened ==
  ASSUME BreakerKnown, NEW b \in Bars, on_bar(b), b.complete PROVE FallIsFlattened(b)
<1>1. breaker.dead \/ breaker'.peak = Larger(breaker.peak, Worth(b))
  BY BarJudges, PeakIsRaised DEF BreakerKnown
<1>2. LET peak == Larger(breaker.peak, Worth(b))
      IN 100 * (peak - Worth(b)) >= 10 * peak => peak <= 0 \/ pos' = NoPos
  BY DeepFallFreezes, FrozenBarIsFlat
<1> QED BY <1>1, <1>2 DEF FallIsFlattened

(* A fall of ten percent, by what the account is worth, leaves no position *)
(* in the bar that finds it, and none is opened while the breaker is       *)
(* tripped (F7).                                                           *)
THEOREM TrippedHoldsNothing == Spec => TrippedIsFlat
<1>1. Init => FlatWhileTripped /\ BreakerKnown
  BY DEF Init, FlatWhileTripped, BreakerKnown
<1>2. BreakerKnown /\ [Next]_vars =>
        [\A b \in Bars : on_bar(b) /\ b.complete => FallIsFlattened(b)]_vars
  BY EveryFallIsFlattened
<1> QED BY <1>1, <1>2, FlatKeeps, BreakerStays, PTL DEF Spec, TrippedIsFlat
-----------------------------------------------------------------------------
(* Where the stop lies.  All prices are numbers, whatever the size of a    *)
(* position and the tier of the margin it falls into.                      *)

LEMMA QuotientIsInt == \A a \in Int, n \in Nat \ {0} : a \div n \in Int
OBVIOUS

LEMMA LargerIsInt ==
  \A a, b \in Int : Larger(a, b) \in Int /\ Larger(a, b) >= a /\ Larger(a, b) >= b
BY DEF Larger

LEMMA SmallerIsInt ==
  \A a, b \in Int : Smaller(a, b) \in Int /\ Smaller(a, b) <= a /\ Smaller(a, b) <= b
BY DEF Smaller

LEMMA ElementIsTyped ==
  ASSUME NEW S, NEW s \in Seq(S), NEW k \in 1..Len(s) PROVE s[k] \in S
OBVIOUS

LEMMA MarginRateIsInt ==
  ASSUME NEW size PROVE get_maintenance_margin_rate(size, Tiers) \in Int
<1> DEFINE fitting == {k \in DOMAIN Tiers : size <= Tiers[k].max}
<1>1. Tiers \in Seq([max : Nat, mmr : Nat]) /\ Mmr \in Int
  BY LiveAssumption, RulesAssumption
<1>3. DOMAIN Tiers = 1..Len(Tiers) /\ Len(Tiers) \in Nat
  BY <1>1
<1>2. \A k \in DOMAIN Tiers : Tiers[k].mmr \in Int
  <2>1. \A k \in DOMAIN Tiers : Tiers[k] \in [max : Nat, mmr : Nat] BY <1>1, <1>3, ElementIsTyped
  <2>2. \A r \in [max : Nat, mmr : Nat] : r.mmr \in Int OBVIOUS
  <2> QED BY <2>1, <2>2
<1>4. ASSUME Tiers # <<>> PROVE Max(DOMAIN Tiers) \in DOMAIN Tiers
  <2>1. Len(Tiers) \in DOMAIN Tiers BY <1>1, <1>3, <1>4
  <2>2. \E x \in DOMAIN Tiers : \A y \in DOMAIN Tiers : x >= y BY <1>3, <2>1
  <2> QED BY <2>2 DEF Max
<1>5. ASSUME fitting # {} PROVE Min(fitting) \in DOMAIN Tiers
  <2>1. fitting \in SUBSET Nat BY <1>3
  <2>2. \E x \in fitting : \A y \in fitting : x <= y BY <1>5, <2>1, LeastExists
  <2>3. Min(fitting) \in fitting BY <2>2 DEF Min
  <2> QED BY <2>3
<1> QED BY <1>1, <1>2, <1>4, <1>5 DEF get_maintenance_margin_rate

LEMMA PricesAreInt ==
  ASSUME NEW entry \in Nat \ {0}, NEW side \in Sides, NEW cushion \in Int,
         NEW margin \in Int, NEW funding \in Int
  PROVE /\ compute_sl_initial(entry, side, cushion, 1) \in Int
        /\ compute_liquidation_price(entry, side, margin, funding) \in Int
<1>1. side \in Int /\ Unit \in Nat \ {0} BY DEF Sides, Unit
<1>2. \A x \in Int : (entry * x) \div Unit \in Int
  BY <1>1, QuotientIsInt
<1>3. \A x \in Int : entry - side * ((entry * x) \div Unit) \in Int
  BY <1>1, <1>2
<1>4. \A x \in Int : round_sl_safe(x, 1, side) \in Int
  BY LargerIsInt, QuotientIsInt DEF round_sl_safe, CeilDiv
<1>5. Allowance(margin, funding) \in Int
  BY RulesAssumption DEF Allowance
<1>6. compute_sl_initial(entry, side, cushion, 1) \in Int
  <2>1. entry - side * ((entry * cushion) \div Unit) \in Int BY <1>3
  <2>2. Larger(1, entry - side * ((entry * cushion) \div Unit)) \in Int BY <2>1, LargerIsInt
  <2> QED BY <1>4, <2>2 DEF compute_sl_initial
<1>7. compute_liquidation_price(entry, side, margin, funding) \in Int
  <2> DEFINE raw == entry - side * ((entry * Allowance(margin, funding)) \div Unit)
  <2>1. raw \in Int BY <1>3, <1>5
  <2>2. Larger(1, raw) \in Int /\ entry \in Int BY <2>1, LargerIsInt
  <2>3. compute_liquidation_price(entry, side, margin, funding)
          = IF Allowance(margin, funding) <= 0 THEN entry ELSE Larger(1, raw)
    BY DEF compute_liquidation_price
  <2> HIDE DEF raw
  <2> QED BY <2>2, <2>3
<1> QED BY <1>6, <1>7

(* A position that is kept has prices that are numbers, and a side.        *)
Fields == {"side", "sl0", "sl", "size", "entry", "best", "held", "liq", "funding", "funded", "safe"}

Position(p) ==
  /\ DOMAIN p = Fields /\ p = [f \in Fields |-> p[f]]
  /\ p.side \in Sides /\ p.sl \in Int /\ p.liq \in Int /\ p.best \in Int
  /\ p.side * (p.sl - p.liq) > 0

Guarded == pos = NoPos \/ Position(pos)

LEMMA BarIsTyped ==
  ASSUME NEW b \in Bars
  PROVE /\ b.c \in Nat \ {0} /\ b.h \in Int /\ b.l \in Int
        /\ b.atr \in Nat /\ b.trend \in Sides
BY LiveAssumption

(* The stop is only ever tightened.                                        *)
LEMMA KeptIsGuarded ==
  ASSUME Guarded, NEW b \in Bars PROVE Kept(b) = NoPos \/ Position(Kept(b))
<1>1. CASE pos = NoPos BY <1>1 DEF Kept
<1>2. CASE pos # NoPos
  <2>1. Position(pos) BY <1>2 DEF Guarded
  <2> DEFINE best == IF pos.side = 1 THEN Larger(pos.best, b.h) ELSE Smaller(pos.best, b.l)
             raw  == best - pos.side * MTrail * b.atr
             sl   == IF pos.side = 1 THEN Larger(pos.sl, raw) ELSE Smaller(pos.sl, raw)
             held == pos.held + 1
             f1   == Marked(b).funding
             f2   == Marked(b).funded
  <2>2. best \in Int BY <2>1, BarIsTyped, LargerIsInt, SmallerIsInt DEF Position
  <2>3. pos.side \in Int /\ pos.side \in {1, -1} /\ MTrail \in Nat /\ b.atr \in Nat
    BY <2>1, BarIsTyped, RulesAssumption DEF Position, Sides
  <2>4. pos.side * MTrail \in Int BY <2>3
  <2>5. pos.side * MTrail * b.atr \in Int BY <2>3, <2>4
  <2>6. raw \in Int BY <2>2, <2>5
  <2>7. sl \in Int /\ pos.side * (sl - pos.sl) >= 0
    <3> HIDE DEF raw
    <3> QED BY <2>1, <2>3, <2>6, LargerIsInt, SmallerIsInt DEF Position
  <2>8. Kept(b) = [f \in Fields |-> CASE f = "best" -> best [] f = "sl" -> sl [] f = "held" -> held
                                      [] f = "funding" -> f1 [] f = "funded" -> f2 [] OTHER -> pos[f]]
    <3>1. Kept(b) = [[pos EXCEPT !.best = best, !.sl = sl] EXCEPT !.held = @ + 1, !.funding = f1, !.funded = f2]
      BY <1>2 DEF Kept, Trailed
    <3>2. pos = [f \in Fields |-> pos[f]] BY <2>1 DEF Position
    <3> HIDE DEF best, sl, raw, f1, f2
    <3> QED BY <3>1, <3>2 DEF Fields
  <2> HIDE DEF best, sl, raw, f1, f2, held
  <2>9. /\ Kept(b).side = pos.side /\ Kept(b).liq = pos.liq
        /\ Kept(b).sl = sl /\ Kept(b).best = best
    BY <2>8 DEF Fields
  <2>10. DOMAIN Kept(b) = Fields /\ Kept(b) = [f \in Fields |-> Kept(b)[f]]
    BY <2>8
  <2>11. pos.side * (sl - pos.liq) > 0
    BY <2>1, <2>3, <2>7 DEF Position
  <2> QED BY <2>1, <2>2, <2>7, <2>9, <2>10, <2>11 DEF Position
<1> QED BY <1>1, <1>2

(* What is opened was checked against its own liquidation price.           *)
LEMMA EntryIsGuarded ==
  ASSUME Buffer # 0, NEW b \in Bars, Accepted(b) PROVE Position(Entry(b))
<1> DEFINE side == SideOf(_lookup_kelly(b).mode, b.trend)
           sl == compute_sl_initial(b.c, side, CushionAt(b), 1)
           size == size_notional(b)
           funding == ExpectedFunding + get_maintenance_margin_rate(size, Tiers) - Mmr
           check == validate_leverage_against_sl(b.c, side, sl, LiveMargin, funding)
           liq == compute_liquidation_price(b.c, side, LiveMargin, funding)
<1>1. b.c \in Nat \ {0} /\ b.c \in Int /\ side \in Sides
  BY BarIsTyped DEF SideOf, Sides
<1>2. CushionAt(b) \in Int
  <2>1. MSl \in Nat /\ CTrade \in Nat /\ b.atr \in Nat /\ b.c \in Nat \ {0}
    BY BarIsTyped, LiveAssumption
  <2>2. MSl * b.atr \in Int BY <2>1
  <2>3. MSl * b.atr * Unit \in Int BY <2>2 DEF Unit
  <2>4. (MSl * b.atr * Unit) \div b.c \in Int BY <2>1, <2>3, QuotientIsInt
  <2> QED BY <2>1, <2>4 DEF CushionAt, CushionOf
<1>3. funding \in Int /\ LiveMargin \in Int
  <2>1. get_maintenance_margin_rate(size, Tiers) \in Int BY MarginRateIsInt
  <2>2. ExpectedFunding \in Int /\ Mmr \in Int /\ LiveMargin \in Int
    BY LiveAssumption, RulesAssumption
  <2> HIDE DEF size
  <2> QED BY <2>1, <2>2
<1>4. sl \in Int /\ liq \in Int
  <2> HIDE DEF side, funding
  <2> QED BY <1>1, <1>2, <1>3, PricesAreInt
<1>5. Entry(b) = [side |-> side, sl0 |-> sl, sl |-> sl, size |-> size, entry |-> b.c, best |-> b.c,
                  held |-> 0, liq |-> check.liq, funding |-> 0, funded |-> Hour,
                  safe |-> StopOnRightSide(b.c, side, sl) /\ check.is_safe]
  BY DEF Entry
<1>6. check.liq = liq
  <2> HIDE DEF side, sl, funding
  <2> QED BY DEF validate_leverage_against_sl
<1>7. check.is_safe = (side * (b.c - liq) > 0 /\ 100 * (side * (b.c - sl)) <= side * (b.c - liq) * (100 - Buffer))
  <2> HIDE DEF side, sl, funding
  <2> QED BY DEF validate_leverage_against_sl
<1> HIDE DEF side, sl, size, funding, check, liq
<1>8. check.is_safe
  <2>1. Entry(b).safe BY DEF Accepted
  <2>2. Entry(b).safe = (StopOnRightSide(b.c, side, sl) /\ check.is_safe) BY <1>5
  <2> QED BY <2>1, <2>2
<1>9. side * (sl - liq) > 0
  <2> DEFINE toLiq == side * (b.c - liq)
             toStop == side * (b.c - sl)
  <2>1. side \in {1, -1} BY <1>1 DEF Sides
  <2>2. toLiq \in Int /\ toStop \in Int /\ side * (sl - liq) = toLiq - toStop
    BY <1>1, <1>4, <2>1
  <2>3. toLiq > 0 /\ 100 * toStop <= toLiq * (100 - Buffer) BY <1>7, <1>8
  <2>4. Buffer \in 1..90 BY RulesAssumption
  <2> HIDE DEF toLiq, toStop
  <2>5. toLiq * (100 - Buffer) <= toLiq * 99 BY <2>2, <2>3, <2>4
  <2>6. toLiq * (100 - Buffer) \in Int BY <2>2, <2>4
  <2>7. toStop < toLiq BY <2>2, <2>3, <2>5, <2>6
  <2> QED BY <2>2, <2>7
<1>10. DOMAIN Entry(b) = Fields /\ Entry(b) = [f \in Fields |-> Entry(b)[f]]
  BY <1>5 DEF Fields
<1> QED BY <1>1, <1>4, <1>5, <1>6, <1>9, <1>10 DEF Position

LEMMA GuardKeeps == ASSUME Buffer # 0 PROVE Guarded /\ [Next]_vars => Guarded'
<1> SUFFICES ASSUME Guarded, [Next]_vars PROVE Guarded' OBVIOUS
<1>1. CASE UNCHANGED pos BY <1>1 DEF Guarded, Position, NoPos
<1>2. ASSUME NEW b \in Bars, pos' = Kept(b) PROVE Guarded'
  BY <1>2, KeptIsGuarded DEF Guarded, Position, NoPos
<1>3. ASSUME NEW b \in Bars, Open(b) PROVE Guarded'
  BY <1>3, EntryIsGuarded DEF Open, Guarded, Position, NoPos
<1>4. ASSUME NEW b \in Bars, Close(b) PROVE Guarded'
  BY <1>4 DEF Close, Guarded, NoPos
<1>5. ASSUME NEW b \in Bars, on_bar(b) PROVE Guarded'
  BY <1>1, <1>2, <1>3, <1>4, <1>5
     DEF on_bar, Incomplete, Blocked, NoTrigger, Declined, Raises, account
<1>6. ASSUME NEW m \in BOOLEAN, NEW w \in BOOLEAN, NEW d \in BOOLEAN, Start(m, w, d) PROVE Guarded'
  BY <1>6, <1>1 DEF Start, account
<1>7. CASE sig_handler \/ End \/ Over \/ UNCHANGED vars
  BY <1>7, <1>1 DEF sig_handler, End, Over, vars, account
<1> QED BY <1>5, <1>6, <1>7 DEF Next

(* The exchange never gets to a position before its own stop (F8), for     *)
(* every safety buffer that is not zero: with none at all the code takes   *)
(* a stop that lies on the liquidation price itself.                       *)
THEOREM StopComesFirst == Buffer # 0 => (Spec => []StopBeforeLiquidation)
<1> SUFFICES ASSUME Buffer # 0 PROVE Spec => []StopBeforeLiquidation OBVIOUS
<1>1. Init => Guarded BY DEF Init, Guarded
<1>2. Guarded => StopBeforeLiquidation BY DEF Guarded, Position, StopBeforeLiquidation
<1>3. Guarded /\ [Next]_vars => Guarded' BY GuardKeeps
<1> QED BY <1>1, <1>2, <1>3, PTL DEF Spec
=============================================================================
