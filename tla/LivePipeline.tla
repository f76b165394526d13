---------------------------- MODULE LivePipeline ----------------------------
(***************************************************************************)
(* The paper trading engine of main.py: one bar at a time it marks its     *)
(* position to the market, asks the circuit breaker, manages the exit, and *)
(* looks for an entry.  on_bar is one step; its ways out are the actions.  *)
(*                                                                         *)
(* Prices and money are integers; log(x / y) is (x - y) / y.  Which bars   *)
(* come, and what the model predicts on them, is the environment's choice. *)
(***************************************************************************)
EXTENDS KellyTables

CONSTANTS Bars,            \* [o, h, l, c, atr, trend, chop, p, rate, complete, vector, toxic]
          MaxBars,         \* bound: the length of the data
          Capital,         \* initial_capital
          Kelly,           \* kelly_dict: [grid, p_edges, chop_edges] of each mode
          MSl,             \* m_sl
          CTrade,          \* c_trade
          TMaxLive,        \* t_max_live
          LiveMargin,      \* Unit / max_safe_leverage
          Lot,             \* lot_step_size
          Tiers,           \* margin_tier_table
          ExpectedFunding, \* expected_funding_pct
          CooldownBars,    \* cooldown_bars
          FreezeHours      \* freeze_duration_ms

ASSUME LiveAssumption ==
  /\ \A b \in Bars : /\ {b.o, b.h, b.l, b.c} \subseteq Nat \ {0}
                     /\ b.l <= b.o /\ b.o <= b.h /\ b.l <= b.c /\ b.c <= b.h
                     /\ b.atr \in Nat /\ b.rate \in Int /\ b.trend \in Sides
                     /\ b.chop \in 0..100 /\ b.p \in 0..100
                     /\ {b.complete, b.vector, b.toxic} \subseteq BOOLEAN
  /\ MaxBars \in Nat /\ Capital \in Nat \ {0}
  /\ MSl \in Nat /\ CTrade \in Nat /\ TMaxLive \in Nat \ {0}
  /\ LiveMargin \in 1..Unit /\ Lot \in Nat \ {0} /\ ExpectedFunding \in Nat
  /\ CooldownBars \in Nat /\ FreezeHours \in Nat
  /\ Tiers \in Seq([max : Nat, mmr : Nat])

VARIABLES phase,    \* off, running, ended, refused, crashed
          stop,     \* stop_requested
          now,      \* number of bars received
          wallet,   \* wallet_balance
          used,     \* used_initial_margin
          pos,      \* current_position
          breaker,  \* the CircuitBreaker: peak_equity, is_dead, frozen_until_ms
          verdict,  \* the CircuitBreakerState of the last complete bar
          cusum     \* s_plus, s_minus, last_price, last_event_idx, last_event_price

account == <<wallet, used, pos>>
vars == <<phase, stop, now, account, breaker, verdict, cusum>>

NoPos == [side |-> 0]
Never == -1
Normal == [tier |-> 0, multiplier |-> 100, frozen |-> FALSE]

Init ==
  /\ phase = "off" /\ stop = FALSE /\ now = 0
  /\ wallet = Capital /\ used = 0 /\ pos = NoPos
  /\ breaker = [peak |-> Capital, dead |-> FALSE, until |-> 0]
  /\ verdict = Normal
  /\ cusum = [plus |-> 0, minus |-> 0, last |-> 0, event |-> Never, at |-> 0]

(* main: never on synthetic data, never without a trained model.           *)
Start(hasModel, artifactsWhole, hasData) ==
  /\ phase = "off"
  /\ phase' = CASE ~hasModel                              -> "refused"
                [] hasModel /\ ~artifactsWhole            -> "crashed"
                [] hasModel /\ artifactsWhole /\ ~hasData -> "refused"
                [] OTHER                                  -> "running"
  /\ UNCHANGED <<stop, now, account, breaker, verdict, cusum>>
-----------------------------------------------------------------------------
(* The account, marked to the close of bar b.                              *)

Hour == now * BarHours
Settled(rate, from) == [t \in funding_timestamps_between(from, Hour) |-> rate]

Marked(b) ==
  IF pos = NoPos THEN NoPos
  ELSE [pos EXCEPT
          !.funding = @ + compute_funding_accrued_usd(pos.size, pos.side, pos.funded, Hour,
                                                      Settled(b.rate, pos.funded)),
          !.funded  = Hour]

unrealized_pnl(b) ==
  IF pos = NoPos THEN 0
  ELSE (PriceMove(pos.entry, b.c, pos.side) * pos.size) \div Unit - Marked(b).funding

(* Mutant: what F7 repaired, the wallet alone is judged.                   *)
WalletAlone(b) == wallet

margin_balance(b) == wallet + unrealized_pnl(b)
available_margin == Larger(0, wallet - used)
-----------------------------------------------------------------------------
(* The circuit breaker.                                                    *)

update_equity(c, equity, time) ==
  LET peak     == Larger(c.peak, equity)
      Down(pct) == 100 * (peak - equity) >= pct * peak
      frozen   == time < c.until
      high     == [c EXCEPT !.peak = peak]
  IN  IF c.dead THEN [tier |-> 3, multiplier |-> 0, frozen |-> TRUE, next |-> c]
      ELSE IF peak <= 0 THEN [tier |-> 0, multiplier |-> 100, frozen |-> FALSE, next |-> high]
      ELSE IF Down(15)
      THEN [tier |-> 3, multiplier |-> 0, frozen |-> TRUE, next |-> [high EXCEPT !.dead = TRUE]]
      ELSE IF Down(10)
      THEN [tier |-> 2, multiplier |-> 0, frozen |-> TRUE,
            next |-> [high EXCEPT !.until = Larger(c.until, time + FreezeHours)]]
      ELSE [tier |-> IF Down(5) THEN 1 ELSE 0, frozen |-> frozen, next |-> high,
            multiplier |-> IF frozen THEN 0 ELSE IF Down(5) THEN 50 ELSE 100]

State(b) == update_equity(breaker, margin_balance(b), Hour)
VerdictOf(s) == [tier |-> s.tier, multiplier |-> s.multiplier, frozen |-> s.frozen]
-----------------------------------------------------------------------------
(* The exit, tried in this order.                                          *)

force_flatten(b) == State(b).frozen \/ State(b).tier >= 2

ExitReason(b) ==
  LET worst == IF pos.side = 1 THEN b.l ELSE b.h
      Hit(level) == pos.side * (worst - level) <= 0
  IN  CASE pos = NoPos -> "NONE"
        [] pos # NoPos /\ Hit(pos.liq) -> "LIQUIDATION"
        [] pos # NoPos /\ ~Hit(pos.liq) /\ Hit(pos.sl) ->
             IF pos.sl = pos.sl0 THEN "SL" ELSE "TRAIL"
        [] OTHER -> IF pos.held + 1 >= TMaxLive THEN "TIME_STOP"
                    ELSE IF force_flatten(b) THEN "CIRCUIT_BREAKER_FLATTEN" ELSE "NONE"

(* An order at the market pays the slippage, but never beyond the bar.     *)
_exit_slippage_pct(price) == price - pos.side * ((price * Slippage) \div Unit)

FillExit(b) ==
  LET reason  == ExitReason(b)
      stopped == IF pos.side = 1 THEN Smaller(pos.sl, b.o) ELSE Larger(pos.sl, b.o)
  IN  CASE reason = "LIQUIDATION" -> pos.liq
        [] reason \in {"SL", "TRAIL"} ->
             IF pos.side = 1 THEN Larger(_exit_slippage_pct(stopped), b.l)
                             ELSE Smaller(_exit_slippage_pct(stopped), b.h)
        [] reason = "TIME_STOP" -> b.c
        [] OTHER -> _exit_slippage_pct(b.c)

(* A bar survived: the stop follows the best price, and only tightens.     *)
Trailed(b) ==
  LET best == IF pos.side = 1 THEN Larger(pos.best, b.h) ELSE Smaller(pos.best, b.l)
      sl   == best - pos.side * MTrail * b.atr
  IN  [pos EXCEPT !.best = best,
                  !.sl = IF pos.side = 1 THEN Larger(@, sl) ELSE Smaller(@, sl)]

Kept(b) == IF pos = NoPos THEN NoPos
           ELSE [Trailed(b) EXCEPT !.held = @ + 1, !.funding = Marked(b).funding,
                                   !.funded = Marked(b).funded]

(* An isolated position loses its margin at most, the wallet what it has.  *)
NetPnl(b) ==
  LET reason == IF ExitReason(b) = "CIRCUIT_BREAKER_FLATTEN" THEN "TIME_STOP" ELSE ExitReason(b)
      res    == compute_realized_pnl(pos.entry, FillExit(b), pos.side, pos.size, LiveMargin,
                                     reason, Marked(b).funding)
  IN  Larger(res.net_pnl, -((pos.size * LiveMargin) \div Unit))
-----------------------------------------------------------------------------
(* The trigger: cumulated returns beyond twice the volatility, not too     *)
(* soon and not too near after the last one.                               *)
_check_cusum_trigger(b) ==
  LET r     == ((b.c - cusum.last) * Unit) \div cusum.last
      plus  == Larger(0, cusum.plus + r)
      minus == Smaller(0, cusum.minus + r)
      h     == Larger((2 * b.atr * Unit) \div b.c, 1)
      side  == IF plus > h THEN 1 ELSE IF minus < -h THEN -1 ELSE 0
      far   == \/ cusum.event = Never
               \/ /\ now - cusum.event >= CooldownBars
                  /\ 2 * (IF b.c >= cusum.at THEN b.c - cusum.at ELSE cusum.at - b.c) >= b.atr
  IN  IF cusum.last = 0 THEN [fires |-> FALSE, next |-> [cusum EXCEPT !.last = b.c]]
      ELSE IF side = 0
      THEN [fires |-> FALSE,
            next |-> [cusum EXCEPT !.last = b.c, !.plus = plus, !.minus = minus]]
      ELSE [fires |-> far,
            next |-> [cusum EXCEPT !.last = b.c, !.plus = 0, !.minus = 0,
                                   !.event = IF far THEN now ELSE @,
                                   !.at = IF far THEN b.c ELSE @]]
-----------------------------------------------------------------------------
(* The entry that bar b offers.  The tier's maintenance rate enters with   *)
(* the expected funding: both use up the margin.                           *)

_lookup_kelly(b) ==
  LET mode  == classify_trade_mode(b.p, b.chop)
      table == Kelly[mode]
  IN  IF mode = "none" THEN [mode |-> "none", f_target |-> 0]
      ELSE compute_bi_directional_kelly_v14_unified(b.p, b.chop, table.grid, table.p_edges,
                                                    table.chop_edges)

size_notional(b) ==
  (compute_position_size(_lookup_kelly(b).f_target, available_margin, LiveMargin, Lot)
     * State(b).multiplier) \div 100

CushionAt(b) == CushionOf((MSl * b.atr * Unit) \div b.c, CTrade)

Entry(b) ==
  LET side == SideOf(_lookup_kelly(b).mode, b.trend)
      sl   == compute_sl_initial(b.c, side, CushionAt(b), 1)
      size == size_notional(b)
      mmr  == get_maintenance_margin_rate(size, Tiers)
      check == validate_leverage_against_sl(b.c, side, sl, LiveMargin,
                                            ExpectedFunding + mmr - Mmr)
  IN  [side |-> side, sl0 |-> sl, sl |-> sl, size |-> size, entry |-> b.c, best |-> b.c,
       held |-> 0, liq |-> check.liq, funding |-> 0, funded |-> Hour,
       safe |-> StopOnRightSide(b.c, side, sl) /\ check.is_safe]

margin_required(size) == (size * LiveMargin) \div Unit

(* Mutant: an unsafe leverage is traded all the same.                      *)
AcceptedUnsafe(b) == margin_required(size_notional(b)) <= available_margin

Accepted(b) == Entry(b).safe /\ margin_required(size_notional(b)) <= available_margin
-----------------------------------------------------------------------------
(* One bar.                                                                *)

Receives(b) == /\ phase = "running" /\ ~stop /\ now < MaxBars
            /\ now' = now + 1
            /\ UNCHANGED stop

Judged(b) == breaker' = State(b).next /\ verdict' = VerdictOf(State(b))

(* A bar that lacks a raw column: nothing is looked at, the position       *)
(* included.                                                               *)
Incomplete(b) == /\ Receives(b) /\ ~b.complete
                 /\ UNCHANGED <<phase, account, breaker, verdict, cusum>>

Close(b) ==
  /\ Receives(b) /\ b.complete /\ ExitReason(b) # "NONE"
  /\ Judged(b)
  /\ wallet' = Larger(0, wallet + NetPnl(b))
  /\ used' = 0 /\ pos' = NoPos
  /\ UNCHANGED <<phase, cusum>>

(* No exit: on to the entry, whether or not a position is open.            *)
Survives(b) == Receives(b) /\ b.complete /\ ExitReason(b) = "NONE" /\ Judged(b)

Blocked(b) ==
  /\ Survives(b)
  /\ State(b).frozen \/ State(b).tier = 3 \/ b.toxic
  /\ pos' = Kept(b)
  /\ UNCHANGED <<phase, wallet, used, cusum>>

Looks(b) == Survives(b) /\ ~(State(b).frozen \/ State(b).tier = 3 \/ b.toxic)

Triggered(b) == Looks(b) /\ _check_cusum_trigger(b).fires /\ cusum' = _check_cusum_trigger(b).next

NoTrigger(b) ==
  /\ Looks(b) /\ ~_check_cusum_trigger(b).fires
  /\ cusum' = _check_cusum_trigger(b).next
  /\ pos' = Kept(b)
  /\ UNCHANGED <<phase, wallet, used>>

Wanted(b) == b.vector /\ _lookup_kelly(b).f_target > 0 /\ size_notional(b) > 0

Declined(b) ==
  /\ Triggered(b)
  /\ ~Wanted(b) \/ (CushionAccepted(CushionAt(b)) /\ ~Accepted(b))
  /\ pos' = Kept(b)
  /\ UNCHANGED <<phase, wallet, used>>

(* compute_sl_initial raises, and nothing catches it.                      *)
Raises(b) ==
  /\ Triggered(b) /\ Wanted(b) /\ ~CushionAccepted(CushionAt(b))
  /\ phase' = "crashed"
  /\ pos' = Kept(b)
  /\ UNCHANGED <<wallet, used>>

Open(b) ==
  /\ Triggered(b) /\ Wanted(b) /\ CushionAccepted(CushionAt(b)) /\ Accepted(b)
  /\ used' = margin_required(size_notional(b))
  /\ pos' = Entry(b)
  /\ UNCHANGED <<phase, wallet>>

(* SIGINT is noticed between two bars.                                     *)
sig_handler == /\ phase = "running" /\ ~stop /\ stop' = TRUE
               /\ UNCHANGED <<phase, now, account, breaker, verdict, cusum>>

End == /\ phase = "running" /\ (stop \/ now = MaxBars)
       /\ phase' = "ended"
       /\ UNCHANGED <<stop, now, account, breaker, verdict, cusum>>

Over == phase \in {"ended", "refused", "crashed"} /\ UNCHANGED vars

on_bar(b) == \/ Incomplete(b) \/ Close(b) \/ Blocked(b) \/ NoTrigger(b)
             \/ Declined(b) \/ Raises(b) \/ Open(b)

Next == \/ \E model, whole, data \in BOOLEAN : Start(model, whole, data)
        \/ \E b \in Bars : on_bar(b)
        \/ sig_handler \/ End \/ Over

Spec == Init /\ [][Next]_vars
-----------------------------------------------------------------------------
(* While the breaker is tripped there is no position.                      *)
FlatWhileTripped == verdict.frozen \/ verdict.tier >= 2 => pos = NoPos

(* Whatever the breaker was told: what the account is worth at the close   *)
(* of a bar raises the peak, and ten percent below the peak the same bar   *)
(* ends without a position.                                                *)
Worth(b) == wallet + unrealized_pnl(b)

FallIsFlattened(b) ==
  LET peak == Larger(breaker.peak, Worth(b))
  IN /\ breaker.dead \/ breaker'.peak = peak
     /\ 100 * (peak - Worth(b)) >= 10 * peak => peak <= 0 \/ pos' = NoPos

(* A fall of the equity, marked to the market and with the funding it owes *)
(* (F7), leaves no position in the bar that finds it, and nothing is       *)
(* opened until the breaker lets go.                                       *)
TrippedIsFlat ==
  /\ []FlatWhileTripped
  /\ [][\A b \in Bars : on_bar(b) /\ b.complete => FallIsFlattened(b)]_vars

(* The exchange never gets to a position before its own stop (F8): opened  *)
(* safe, and kept safe by a stop that only tightens.                       *)
StopBeforeLiquidation == pos # NoPos => pos.side * (pos.sl - pos.liq) > 0
=============================================================================
