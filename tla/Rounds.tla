------------------------------- MODULE Rounds -------------------------------
(***************************************************************************)
(* An account that plays for a target, beat by beat: the market moves, an  *)
(* operator asks preflight.py, the daemon calls run_once, and a rebalance  *)
(* leaves its record for readiness_gate.py.  The policy of the overlay is  *)
(* solved before the game (build_goal_policy.py) and only looked up in it. *)
(*                                                                         *)
(* A beat is one bar of the policy; a rebalance is due every Rhythm beats. *)
(***************************************************************************)
EXTENDS GoalPolicy, Readiness

CONSTANTS Start,       \* start_equity, in half steps above the floor
          Rhythm,      \* rebalance_hours, in beats
          Tier1, Tier2, Tier3,  \* drawdowns from the peak, in half steps
          Possible,    \* the troubles that may be met
          Deaths,      \* where a process may die
          MaxMishaps,  \* bound: beats in which something goes wrong
          MaxRounds    \* bound: rounds that send orders

ASSUME RoundsAssumption ==
  /\ Start \in Nat /\ Floor < Start /\ Start < Target
  /\ Rhythm \in Nat \ {0} /\ {Tier1, Tier2, Tier3} \subseteq Nat
  /\ 0 < Tier1 /\ Tier1 <= Tier2 /\ Tier2 <= Tier3
  /\ Possible \subseteq Troubles \ {"books"} /\ MaxMishaps \in Nat
  /\ Deaths \subseteq {"sending", "judging", "recording", "writing"}
  /\ MaxRounds \in Nat

VARIABLES phase,    \* solving the policy; a beat: the market, then the round
          sol,      \* goal_policy.npz: the chances, the policy by the periods left
          wealth, peak, left, since,
          account,  \* live_state.json: dead, frozen, last_error
          held,     \* the book on the exchange
          state,    \* the book in live_state.json
          rebalanced, \* live_state.json: rebalance_count is not zero
          log,      \* execution_log.jsonl
          best,     \* history: the best chances with as many periods left
          last,     \* history: the last beat
          mishaps,  \* history: the beats in which something went wrong
          rounds,   \* history: the rounds that sent orders
          locked    \* history: the leverages of the books closed at the target, since the policy was missed

market == <<wealth, left>>
disk == <<peak, since, account, state, rebalanced, log>>
history == <<best, last, mishaps, rounds, locked>>
vars == <<phase, sol, market, disk, held, history>>

Hitches == {"none", "refused", "uncancelled", "raised", "unread"}
Outcomes == {"none", "raised", "mismatch", "breaker", "heartbeat", "stale", "no_capital", "rebalanced"}

TypeOK ==
  /\ phase \in {"solve", "market", "round"}
  /\ wealth \in Reach /\ peak \in Reach /\ left \in 0..Horizon /\ since \in 0..Rhythm
  /\ account \in [dead : BOOLEAN, frozen : BOOLEAN, error : BOOLEAN]
  /\ held \in Book /\ state \in Book
  /\ last \in [tier : Tiers, troubles : SUBSET Troubles, verdict : 0..2, demand : 0..3,
               outcome : Outcomes]
  /\ \A i \in DOMAIN rounds : rounds[i] \in [good : BOOLEAN, closing : BOOLEAN, kept : BOOLEAN]
  /\ mishaps \in 0..MaxMishaps /\ locked \subseteq 0..BaseLeverage /\ rebalanced \in BOOLEAN

NoBeat == [tier |-> 0, troubles |-> {}, verdict |-> 0, demand |-> 0, outcome |-> "none"]

Init ==
  /\ phase = "solve" /\ sol = [value |-> AtDeadline, policy |-> <<>>] /\ best = BestAtDeadline
  /\ wealth = Start /\ peak = Start /\ left = Horizon /\ since = Rhythm
  /\ account = [dead |-> FALSE, frozen |-> FALSE, error |-> FALSE]
  /\ held = Nothing /\ state = Nothing /\ rebalanced = FALSE /\ log = <<>>
  /\ last = NoBeat
  /\ mishaps = 0 /\ rounds = <<>> /\ locked = {}

(* build_goal_policy.py, one period of the backward pass; policy[k] is for *)
(* k periods left.                                                         *)
Solves ==
  /\ phase = "solve" /\ Len(sol.policy) < Horizon
  /\ sol' = LET more == Solved(sol.value)
            IN [value |-> more.value, policy |-> Append(sol.policy, more.policy)]
  /\ best' = BestBefore(best)
  /\ UNCHANGED <<phase, market, disk, held, last, mishaps, rounds, locked>>

(* save_policy: the game begins with what is on the disk.                  *)
Saves ==
  /\ phase = "solve" /\ Len(sol.policy) = Horizon
  /\ phase' = "round" /\ sol' = [sol EXCEPT !.value = <<>>] /\ best' = <<>>
  /\ UNCHANGED <<market, disk, held, last, mishaps, rounds, locked>>
-----------------------------------------------------------------------------
(* A bar of the market: the book that is held earns or loses.              *)
Bar ==
  /\ phase = "market" /\ phase' = "round"
  /\ left > 0 /\ left' = left - 1
  /\ since' = Min({since + 1, Rhythm})
  /\ \E r \in Moves : wealth' = OnReach(wealth + held.leverage * r)
  /\ last' = NoBeat
  /\ UNCHANGED <<sol, peak, account, state, rebalanced, log, held, best, mishaps, rounds, locked>>

(* The freeze of a day is over.                                            *)
Thaws ==
  /\ account.frozen /\ account' = [account EXCEPT !.frozen = FALSE]
  /\ UNCHANGED <<phase, sol, market, peak, since, state, rebalanced, log, held, history>>
-----------------------------------------------------------------------------
(* LiveState.drawdown, of the peak that the round has just brought up to   *)
(* date.                                                                   *)
Tier(p) ==
  LET dd == p - wealth
  IN IF dd >= Tier3 THEN 3 ELSE IF dd >= Tier2 THEN 2 ELSE IF dd >= Tier1 THEN 1 ELSE 0

(* _position_multiplier times the base leverage: half of it in a drawdown, *)
(* no more than the goal asks for.  The overlay is told the leverage that  *)
(* is meant, not the one that is held.                                     *)
_position_multiplier(tier, troubles) ==
  LET dd == IF tier >= 1 THEN BaseLeverage \div 2 ELSE BaseLeverage
  IN IF "policy" \in troubles THEN dd
     ELSE Min({dd, multiplier(TRUE, sol.policy, wealth, left, dd)})

(* What the exchange makes of a plan: all of it, nothing, the same part of *)
(* both legs, or more of one leg than of the other.                        *)
Filled(target) ==
  {held, [leverage |-> target, neutral |-> TRUE]}
    \cup {b \in Book : /\ b.leverage = (held.leverage + target) \div 2
                       /\ b.leverage = 0 => b.neutral}

(* A rebalance, from the orders to the record.  A death leaves the rest of *)
(* the round undone: the book and what was raised are saved first, what    *)
(* check_neutrality says of the book after that, the record comes last.    *)
Trades(target, hitch, death) ==
  LET meant == [leverage |-> target, neutral |-> TRUE]
      sends == held # meant
      saved == death # "sending"
      read == IF hitch = "unread" THEN Nothing ELSE held'
      r == Record(sends, hitch, read, target)
      done == [good |-> hitch \in {"none", "unread"} /\ held' = meant,
               closing |-> target = 0, kept |-> death = "none" /\ ~ CutOff(log)]
  IN /\ held' \in Filled(target) /\ (sends \/ (held' = held /\ hitch = "none"))
     /\ rounds' = IF sends THEN Append(rounds, done) ELSE rounds
     /\ IF saved
        THEN /\ state' = read /\ rebalanced' = TRUE /\ since' = 0 /\ peak' = Max({peak, wealth})
             /\ account' = [account EXCEPT !.error = \/ r.exec_error
                                                     \/ death # "judging" /\ ~ (r.net_ok /\ r.gross_ok)]
        ELSE UNCHANGED <<state, rebalanced, since, peak, account>>
     /\ log' = CASE death = "none" -> Appended(log, r)
                 [] death = "writing" -> Appended(log, Torn)
                 [] OTHER -> log
     /\ wealth' = OnReach(wealth - Cost * Distance(held.leverage, held'.leverage))

(* What the rest of the outcomes leave: the peak is saved unless run_once  *)
(* raised or met a mismatch before it, and with it the book that the first *)
(* round found; a mismatch is the standing error, the breaker may trip.    *)
Stops(outcome, tier, first) ==
  /\ account' = CASE outcome = "mismatch" -> [account EXCEPT !.error = TRUE]
                  [] outcome = "breaker" -> Tripped(account, tier)
                  [] OTHER -> account
  /\ peak' = IF outcome \in {"raised", "mismatch"} THEN peak ELSE Max({peak, wealth})
  /\ state' = IF first /\ outcome \notin {"raised", "mismatch"} THEN held ELSE state
  /\ UNCHANGED <<wealth, since, rebalanced, log, held, rounds>>

Counted(wrong) ==
  mishaps' = mishaps + (IF wrong THEN 1 ELSE 0) /\ mishaps' <= MaxMishaps

(* What may go wrong inside a round, and at once: one of the hitches, one  *)
(* of the deaths; not in a beat that already has its trouble.              *)
Smooth == <<"none", "none">>
Slips(bad) ==
  IF bad = {} /\ mishaps < MaxMishaps THEN Hitches \X (Deaths \cup {"none"}) ELSE {Smooth}

(* The leverage of the book that this beat closes at the target.           *)
ClosedAtTarget ==
  IF held # Nothing /\ held' = Nothing /\ LockIn(wealth) THEN {held.leverage} ELSE {}

(* A beat: preflight.py, and run_once right after it.                      *)
Beat(bad) ==
  LET troubles == bad \cup (IF held # state THEN {"books"} ELSE {})
      tier == Tier(Max({peak, wealth}))
      first == state = Nothing /\ ~ rebalanced
      due == since = Rhythm \/ ~ rebalanced
      target == _position_multiplier(tier, troubles)
      derisk == ~ due /\ state # Nothing /\ target = 0
      outcome == Outcome(troubles, account, tier, first, due, derisk, target)
  IN /\ phase = "round" /\ phase' = "market"
     /\ last' = [tier |-> tier, troubles |-> troubles, verdict |-> Preflight(troubles, account),
                 demand |-> target, outcome |-> outcome]
     /\ IF outcome = "rebalanced"
        THEN /\ Len(rounds) < MaxRounds
             /\ \E slip \in Slips(bad) :
                  /\ Trades(target, slip[1], slip[2])
                  /\ Counted(bad # {} \/ slip # Smooth \/ held' # [leverage |-> target, neutral |-> TRUE])
        ELSE Stops(outcome, tier, first) /\ Counted(bad # {})
     /\ locked' = IF "policy" \in troubles THEN {} ELSE locked \cup ClosedAtTarget
     /\ UNCHANGED <<sol, left, best>>

(* The deadline has passed, and its last round too; or the bound is met.   *)
Over ==
  /\ phase # "solve" /\ ((phase = "market" /\ left = 0) \/ Len(rounds) = MaxRounds)
  /\ UNCHANGED vars

Next ==
  \/ Solves \/ Saves \/ Bar \/ Thaws \/ Over
  \/ \E bad \in {{}} \cup {{t} : t \in IF mishaps < MaxMishaps THEN Possible ELSE {}} : Beat(bad)

Spec == Init /\ [][Next]_vars
-----------------------------------------------------------------------------
(* When preflight.py does not say stop, a rebalance attempted at that      *)
(* moment is not stopped either and does not raise, unless by one of the   *)
(* four things it cannot see: a drawdown at the second tier, symbols too   *)
(* dear for the equity, old data on the other exchange, and an overlay     *)
(* that wants no position at a round that is due.                          *)
PreflightForetells ==
  last.verdict # 1 /\ last.outcome # "none"
    => \/ last.outcome \in {"heartbeat", "rebalanced"}
       \/ last.tier >= 2 \/ {"dear", "feed"} \cap last.troubles # {}
       \/ last.demand = 0 /\ last.outcome = "raised"

(* The gate is not opened by what went wrong and was not written down as   *)
(* such: as long as every round that sent orders left its record, on a     *)
(* line of its own, an open gate means that the last N of them that sent   *)
(* orders to build a book sent all of them, left none alive, did not raise *)
(* and ended on that book.  (A line that a death cut off swallows the one  *)
(* after it: append writes no newline first.)                              *)
Window == (Len(rounds) - N + 1)..Len(rounds)

GateIsHonest ==
  (\A i \in DOMAIN rounds : rounds[i].kept) /\ Passes(log, account)
    => /\ Len(rounds) >= N
       /\ \A i \in Window : rounds[i].good \/ rounds[i].closing

(* What was locked in stays: once a book was closed at the target, the     *)
(* cost of closing it and everything the daemon does until the deadline    *)
(* leave the account at the target or above, as long as the policy file is *)
(* there and lock_in_buffer was enough for the leverage that was held: it  *)
(* must pay the fee of closing it, and the fee the policy reckons with     *)
(* next, of the leverage it is told (half the base leverage or all of it). *)
(* Nothing in the code ties the buffer to the leverage: 0.2% is enough up  *)
(* to a base leverage of 2 at 0.05% a turn, and beyond that only for the   *)
(* smaller books.                                                          *)
Affords(h) ==
  \A l \in {BaseLeverage, BaseLeverage \div 2} : Cost * h + Cost * NearestLeverage(l) <= LockInBuffer

LockedIsKept == (\E h \in locked : Affords(h)) => wealth >= Target

(* The chance the overlay reports is the best chance there is, to within   *)
(* half a step of the grid for every period left and one: no way to play   *)
(* promises more, and the policy does not promise what none can keep.      *)
PromiseIsBest ==
  phase = "solve" =>
    LET k == Len(sol.policy)
    IN \A x \in Floor..Top, j \in leverage_grid :
         /\ p_success(sol.value, x, j) >= 2 * best[<<OnReach(x - k - 1), j>>]
         /\ p_success(sol.value, x, j) <= 2 * best[<<OnReach(x + k + 1), j>>]
=============================================================================
