----------------------------- MODULE Rebalance -----------------------------
(***************************************************************************)
(* The book of a round, all symbols of it: the cut of the targets to the   *)
(* capital, build_rebalance_plan with its no-trade band, the repair of the *)
(* plan's neutrality, and the orders of the plan on their way through      *)
(* submit's own checks into the account.                                   *)
(*                                                                         *)
(* Symbols are numbered in the order in which the code sorts them.         *)
(* Quantities are signed numbers of lots (step_size), prices the value of  *)
(* a lot, and ratios percentages, compared by cross-multiplication; the    *)
(* prices stand still.                                                     *)
(***************************************************************************)
EXTENDS Integers, Sequences, FiniteSets, FiniteSetsExt, Functions

CONSTANTS N,            \* the number of symbols
          Price,        \* the value of a lot of each symbol
          MinNotional,  \* the smallest value of an order the exchange takes
          MinPosition,  \* min_notional * min_notional_safety
          Band,         \* no_trade_band, in percent
          Tolerance,    \* neutrality_tolerance = max_net_exposure, in percent
          Holdings,     \* positions the account may start with
          Weights,      \* weights compute_target_weights may return
          Budgets,      \* values of equity * leverage
          Multipliers   \* values of _position_multiplier, in percent

Symbols == 1..N

ASSUME RebalanceAssumption ==
  /\ N \in Nat \ {0}
  /\ Price \in [Symbols -> Nat \ {0}]
  /\ MinNotional \in Nat \ {0} /\ MinPosition \in Nat \ {0}
  /\ Band \in Nat /\ Tolerance \in Nat
  /\ Holdings \subseteq [Symbols -> Int] /\ Weights \subseteq [Symbols -> Int]
  /\ Budgets \subseteq Nat \ {0} /\ Multipliers \subseteq Nat

VARIABLES held,   \* the account's position of each symbol
          plan    \* the round's plan

vars == <<held, plan>>

Abs(n) == IF n < 0 THEN -n ELSE n
Net(q) == SumFunction([s \in Symbols |-> q[s] * Price[s]])
Gross(q) == SumFunction([s \in Symbols |-> Abs(q[s]) * Price[s]])

is_tradeable(s, qty) == Abs(qty) * Price[s] >= MinNotional

Within(net, gross) == 100 * Abs(net) <= Tolerance * gross

(* The order of a sort by size, the largest first: it is stable, and the   *)
(* symbols come in their own order.  The rank of a symbol in S is the      *)
(* number of those before it.                                              *)
Before(size, r, s) == size[r] > size[s] \/ (size[r] = size[s] /\ r < s)
Rank(size, S, s) == Cardinality({r \in S : Before(size, r, s)})
-----------------------------------------------------------------------------
(* The capital holds so many positions (max_positions_for_capital); the    *)
(* rest of the targets is cut, as many of the one leg as of the other, and *)
(* the legs are scaled to the same sum (F43).                              *)

max_positions_for_capital(budget) == budget \div MinPosition

Leg(w, sign) == {s \in Symbols : w[s] * sign > 0}

Strongest(w, S, k) == {s \in S : Rank([t \in Symbols |-> Abs(w[t])], S, s) < k}

per_side(w, budget) ==
  Min({max_positions_for_capital(budget) \div 2,
       Cardinality(Leg(w, 1)), Cardinality(Leg(w, -1))})

TooMany(w, budget) ==
  Cardinality(Leg(w, 1) \cup Leg(w, -1)) > max_positions_for_capital(budget)

(* Mutant: what F43 repaired, the strongest whatever their side.           *)
CutToStrongest(w, budget) ==
  LET kept == Strongest(w, Leg(w, 1) \cup Leg(w, -1), max_positions_for_capital(budget))
  IN [s \in Symbols |-> IF s \in kept THEN w[s] ELSE 0]

Cut(w, budget) ==
  LET longs == Strongest(w, Leg(w, 1), per_side(w, budget))
      shorts == Strongest(w, Leg(w, -1), per_side(w, budget))
      sum_l == SumFunction([s \in longs |-> w[s]])
      sum_s == SumFunction([s \in shorts |-> -w[s]])
  IN [s \in Symbols |-> CASE s \in longs -> w[s] * sum_s
                          [] s \in shorts -> w[s] * sum_l
                          [] OTHER -> 0]

Sized(w, budget) == IF TooMany(w, budget) THEN Cut(w, budget) ELSE w
-----------------------------------------------------------------------------
(* build_rebalance_plan *)

(* The targets: each symbol's share of the budget, rounded towards zero to *)
(* whole lots, and nothing if that is too little for the exchange; a       *)
(* symbol without a price or filters stays as it is.                       *)
Targets(w, budget, priced, have) ==
  LET total == SumFunction([r \in Symbols |-> Abs(w[r])])
      lots(s) == IF total = 0 THEN 0 ELSE (Abs(w[s]) * budget) \div (total * Price[s])
  IN [s \in Symbols |-> IF s \notin priced THEN have[s]
                         ELSE IF ~ is_tradeable(s, lots(s)) THEN 0
                         ELSE IF w[s] < 0 THEN -lots(s) ELSE lots(s)]

is_closing(from, to) ==
  \/ from # 0 /\ to = 0
  \/ Abs(to) < Abs(from) /\ from * to >= 0

(* The adjustments that are dropped: those in the no-trade band, and those *)
(* that would open a position by less than the exchange takes.             *)
InBand(from, to) == to # 0 /\ from # to /\ 100 * Abs(to - from) < Band * Abs(to)

TooSmall(s, from, to) ==
  from # to /\ ~ InBand(from, to) /\ ~ is_closing(from, to) /\ ~ is_tradeable(s, to - from)

(* The position with which a symbol enters the plan's net and gross.       *)
Booked(s, from, to) ==
  CASE InBand(from, to) -> from
    [] TooSmall(s, from, to) -> 0
    [] OTHER -> to

(* The symbols of a plan by what becomes of their adjustment.              *)
Skipped(have, t, priced) == {s \in priced : InBand(have[s], t[s])}
Forgotten(have, t, priced) == {s \in priced : TooSmall(s, have[s], t[s])}
Ordered(have, t, priced) ==
  {s \in priced : have[s] # t[s]} \ (Skipped(have, t, priced) \cup Forgotten(have, t, priced))

(* Mutant: it takes what makes the plan worse.                             *)
ConsidersBlindly(have, t, b, s) ==
  IF Within(b.net, b.gross) \/ ~ is_tradeable(s, t[s] - have[s]) THEN b
  ELSE [net |-> b.net + (t[s] - have[s]) * Price[s],
        gross |-> b.gross + (Abs(t[s]) - Abs(have[s])) * Price[s],
        back |-> b.back \cup {s}]

(* Mutant: the first that will do, and no more.                            *)
ConsidersOnce(have, t, b, s) ==
  IF \/ Within(b.net, b.gross) \/ b.back # {}
     \/ ~ is_tradeable(s, t[s] - have[s])
     \/ Abs(b.net + (t[s] - have[s]) * Price[s]) >= Abs(b.net)
    THEN b
    ELSE [net |-> b.net + (t[s] - have[s]) * Price[s],
          gross |-> b.gross + (Abs(t[s]) - Abs(have[s])) * Price[s],
          back |-> b.back \cup {s}]

(* The next candidate of the repair: taken back into the plan if the plan  *)
(* is still off, the order is large enough and the plan gets nearer to     *)
(* neutral.                                                                *)
Considers(have, t, b, s) ==
  IF \/ Within(b.net, b.gross)
     \/ ~ is_tradeable(s, t[s] - have[s])
     \/ Abs(b.net + (t[s] - have[s]) * Price[s]) >= Abs(b.net)
    THEN b
    ELSE [net |-> b.net + (t[s] - have[s]) * Price[s],
          gross |-> b.gross + (Abs(t[s]) - Abs(have[s])) * Price[s],
          back |-> b.back \cup {s}]

(* The adjustments in the band that pull against the plan's net, the       *)
(* largest first.                                                          *)
Pulling(have, t, priced, net) ==
  {s \in Skipped(have, t, priced) : (t[s] - have[s]) * net < 0}

Candidates(have, t, priced, net) ==
  LET S == Pulling(have, t, priced, net)
      size == [s \in Symbols |-> Abs((t[s] - have[s]) * Price[s])]
  IN [i \in 1..Cardinality(S) |-> CHOOSE s \in S : Rank(size, S, s) = i - 1]

_repair_neutrality(have, t, priced, b) ==
  LET next == Candidates(have, t, priced, b.net)
      after[i \in 0..Len(next)] ==
        IF i = 0 THEN b ELSE Considers(have, t, after[i - 1], next[i])
  IN after[Len(next)]

Planned(have, t, priced) ==
  LET booked == [s \in Symbols |-> IF s \in priced THEN Booked(s, have[s], t[s]) ELSE 0]
      b == _repair_neutrality(have, t, priced,
             [net |-> Net(booked), gross |-> Gross(booked), back |-> {}])
  IN [net |-> b.net, gross |-> b.gross, unrepaired |-> Net(booked),
      target |-> t, back |-> b.back,
      orders |-> Ordered(have, t, priced) \cup b.back,
      kept |-> Skipped(have, t, priced) \ b.back,
      forgotten |-> Forgotten(have, t, priced) \cup (Symbols \ priced)]

build_rebalance_plan(w, budget, priced, have) ==
  Planned(have, Targets(w, budget, priced, have), priced)

Flat == [s \in Symbols |-> 0]

(* What the book is sized with.  A multiplier of nothing means to close    *)
(* everything; there is nothing to size then.                              *)
plan_budget(budget, multiplier) ==
  IF multiplier = 0 THEN budget ELSE (budget * multiplier) \div 100

NoPlan == [asked |-> Flat, weights |-> Flat, budget |-> 0, sized |-> 0, priced |-> {}, book |->
             [net |-> 0, gross |-> 0, unrepaired |-> 0, target |-> Flat, back |-> {},
              orders |-> {}, kept |-> {}, forgotten |-> {}]]
-----------------------------------------------------------------------------
TypeOK ==
  /\ held \in [Symbols -> Int]
  /\ plan \in [asked : [Symbols -> Int], weights : [Symbols -> Int], budget : Nat,
               sized : Nat, priced : SUBSET Symbols,
               book : [net : Int, gross : Nat, unrepaired : Int, target : [Symbols -> Int],
                       back : SUBSET Symbols, orders : SUBSET Symbols,
                       kept : SUBSET Symbols, forgotten : SUBSET Symbols]]

Init ==
  /\ held \in Holdings
  /\ plan = NoPlan

(* A round plans; one symbol may have no price or no filters.  A capital   *)
(* that does not hold one symbol on each side halts the round, and targets *)
(* with a multiplier of nothing are an error.  The multiplier comes after  *)
(* the cut.                                                                *)
Plans ==
  /\ plan = NoPlan
  /\ \E w \in Weights, budget \in Budgets, multiplier \in Multipliers,
        priced \in {Symbols} \cup {Symbols \ {s} : s \in Symbols} :
       /\ TooMany(w, budget) => per_side(w, budget) > 0
       /\ multiplier = 0 => w = Flat
       /\ plan' = [asked |-> w, weights |-> Sized(w, budget), budget |-> budget,
                   sized |-> plan_budget(budget, multiplier), priced |-> priced,
                   book |-> build_rebalance_plan(Sized(w, budget),
                              plan_budget(budget, multiplier), priced, held)]
  /\ UNCHANGED held

(* _preflight: submit refuses what is_tradeable refuses.                   *)
Placed == {s \in plan.book.orders : is_tradeable(s, plan.book.target[s] - held[s])}

(* Any of the orders placed are filled in the end.                         *)
Executes ==
  /\ plan # NoPlan
  /\ \E filled \in SUBSET Placed :
       held' = [s \in Symbols |-> IF s \in filled THEN plan.book.target[s] ELSE held[s]]
  /\ plan' = NoPlan

Next == Plans \/ Executes

Spec == Init /\ [][Next]_vars
-----------------------------------------------------------------------------
(* The book there will be after the plan.                                  *)
After == [s \in Symbols |-> IF s \in plan.book.orders THEN plan.book.target[s] ELSE held[s]]

(* The repair brings the book nearer to neutral, if nothing was skipped,   *)
(* and leaves a plan alone that is neutral enough (F42).                   *)
RepairHelps ==
  plan # NoPlan /\ plan.book.back # {} /\ plan.book.forgotten = {} =>
    Abs(Net(After)) < Abs(plan.book.unrepaired)

(* A plan that is still off neutral after the repair could not be brought  *)
(* nearer by any adjustment in the band that pulls against its net.        *)
RepairIsComplete ==
  plan # NoPlan /\ ~ Within(plan.book.net, plan.book.gross) =>
    \A s \in plan.book.kept :
      LET move == plan.book.target[s] - held[s]
      IN \/ ~ is_tradeable(s, move)
         \/ move * plan.book.unrepaired >= 0
         \/ Abs(plan.book.net + move * Price[s]) >= Abs(plan.book.net)

(* What the repair takes back helps, and nothing that would help is left.  *)
RepairWorks == RepairHelps /\ RepairIsComplete

(* Targets cut to the capital are neutral, fit into it, keep every sign    *)
(* and hold as many symbols of the one leg as of the other (F43).          *)
CutIsNeutral ==
  plan # NoPlan /\ plan.weights # plan.asked =>
    LET longs == Leg(plan.weights, 1)
        shorts == Leg(plan.weights, -1)
    IN /\ SumFunction(plan.weights) = 0
       /\ longs \subseteq Leg(plan.asked, 1) /\ shorts \subseteq Leg(plan.asked, -1)
       /\ Cardinality(longs) = Cardinality(shorts)
       /\ Cardinality(longs \cup shorts) <= max_positions_for_capital(plan.budget)

(* With all of the plan's orders filled, the same targets make no more     *)
(* orders: the book comes to rest, unless the repair went past neutral.    *)
ComesToRest ==
  plan # NoPlan /\ plan.book.net * plan.book.unrepaired >= 0 =>
    build_rebalance_plan(plan.weights, plan.sized, plan.priced, After).orders = {}
=============================================================================
