----------------------------- MODULE GoalPolicy -----------------------------
(***************************************************************************)
(* The leverage that gives the best chance of reaching a target before a   *)
(* deadline: goal_dp.py solves the game backwards on a grid of log wealth, *)
(* and goal_overlay.py looks the answer up for a round of the account.     *)
(*                                                                         *)
(* Wealth is counted in half steps of the grid, its nodes are the even     *)
(* numbers from Floor to Top.  A chance is a count, with k periods left in *)
(* units of one in (2 * Cardinality(Moves)) ^ k.                           *)
(***************************************************************************)
EXTENDS Integers, FiniteSets, FiniteSetsExt, Functions

CONSTANTS Target,          \* log_target
          Top,             \* the upper end of wealth_grid
          Horizon,         \* horizon_periods
          MinExecutable, MaxLeverage,
          Moves,           \* the quantiles of the unlevered return, in half steps
          Cost,            \* cost_per_leverage_turn, in half steps
          BaseLeverage, LockInBuffer, MaxMultiplier

Floor == 0   \* log_floor: the account is gone

ASSUME GoalAssumption ==
  /\ Target \in Nat /\ Top \in Nat /\ 0 < Target /\ Target <= Top
  /\ Target % 2 = 0 /\ Top % 2 = 0
  /\ Horizon \in Nat \ {0}
  /\ MinExecutable \in Nat \ {0} /\ MaxLeverage \in Nat /\ MinExecutable <= MaxLeverage
  /\ Moves \subseteq Int /\ Moves # {} /\ IsFiniteSet(Moves)
  /\ Cost \in Nat /\ BaseLeverage \in Nat \ {0} /\ LockInBuffer \in Nat
  /\ MaxMultiplier \in Nat \ {0}

wealth_grid == {2 * i : i \in (Floor \div 2)..(Top \div 2)}

(* Out of the market, or at least what the exchange accepts an order for.  *)
leverage_grid == {0} \cup MinExecutable..MaxLeverage

(* wealth_headroom: the grid goes on above the target by more than it      *)
(* costs to close any book (by 6%, where a turn of 1 costs 0.05%).         *)
ASSUME HeadroomAssumption == \A j \in leverage_grid : Target + Cost * j <= Top

Clip(lo, x, hi) == IF x < lo THEN lo ELSE IF x > hi THEN hi ELSE x
Distance(a, b) == IF a < b THEN b - a ELSE a - b

(* One period with the leverage a after the leverage j: the return, less   *)
(* what it costs to change the size of the book.                           *)
Step(j, a, r) == a * r - Cost * Distance(j, a)

(* np.interp on the grid, twice the value: ends are held.                  *)
Interp(v, x, j) ==
  IF x <= Floor THEN 2 * v[<<Floor, j>>]
  ELSE IF x >= Top THEN 2 * v[<<Top, j>>]
  ELSE IF x % 2 = 0 THEN 2 * v[<<x, j>>]
  ELSE v[<<x - 1, j>>] + v[<<x + 1, j>>]

(* The chance after the action a.                                          *)
Expected(v, x, j, a) == SumFunction([r \in Moves |-> Interp(v, x + Step(j, a, r), a)])

(* The best of the actions; the first of equals, in rising order.          *)
Best(v, x, j) ==
  LET top == Max({Expected(v, x, j, a) : a \in leverage_grid})
  IN [chance |-> top,
      leverage |-> Min({a \in leverage_grid : Expected(v, x, j, a) = top})]

(* With no period left.                                                    *)
AtDeadline == [s \in wealth_grid \X leverage_grid |-> IF s[1] >= Target THEN 1 ELSE 0]

(* Mutant: an account at the floor goes on playing.                        *)
SolvedUnpinned(v) ==
  LET best == [s \in wealth_grid \X leverage_grid |-> Best(v, s[1], s[2])]
  IN [value |-> [s \in DOMAIN best |-> best[s].chance],
      policy |-> [s \in DOMAIN best |-> best[s].leverage]]

(* solve_goal_dp, one pass of its loop: the chance and the leverage to set *)
(* with one more period left.  Nothing comes back from the floor.          *)
Solved(v) ==
  LET best == [s \in wealth_grid \X leverage_grid |-> Best(v, s[1], s[2])]
  IN [value |-> [s \in DOMAIN best |-> IF s[1] = Floor THEN 0 ELSE best[s].chance],
      policy |-> [s \in DOMAIN best |-> best[s].leverage]]
-----------------------------------------------------------------------------
(* Looking it up: the solution is an argument, read once from the disk.    *)

(* np.argmin of the distance: the first of two equally near ones.          *)
NearestLeverage(l) ==
  LET d == Min({Distance(a, l) : a \in leverage_grid})
  IN Min({a \in leverage_grid : Distance(a, l) = d})

(* np.searchsorted: the node at or above.                                  *)
NodeAbove(x) == Clip(Floor, x + (x % 2), Top)

leverage_for(policy, x, left, current) ==
  policy[Clip(1, left, Horizon)][<<NodeAbove(x), NearestLeverage(current)>>]

p_success(value, x, current) == Interp(value, x, NearestLeverage(current))

(* Mutant: the target is locked in when it is touched.                     *)
LockInAtTouch(x) == x >= Target

(* The target is reached, and what it costs to close the book too.         *)
LockIn(x) == x >= Target + LockInBuffer

(* GoalOverlay.multiplier, times the base leverage: what the goal asks for *)
(* (nothing, once the target is safe or the time is over), and no more     *)
(* than the base while derisk_only is on.                                  *)
Demand(policy, x, left, current) ==
  IF LockIn(x) \/ left <= 0 THEN 0 ELSE leverage_for(policy, x, left, current)

multiplier(derisk_only, policy, x, left, current) ==
  LET dp == Demand(policy, x, left, current)
  IN IF derisk_only /\ dp > BaseLeverage THEN BaseLeverage
     ELSE Clip(0, dp, MaxMultiplier * BaseLeverage)
-----------------------------------------------------------------------------
(* The game as it is played, on any wealth up to twice the grid, where the *)
(* target is safe: the account is                                          *)
(* gone when it touches the floor, and the best way to play is the best    *)
(* first move followed by the best of the rest.                            *)
Reach == Floor..(2 * Top)

BestAtDeadline == [s \in Reach \X leverage_grid |-> IF s[1] >= Target THEN 1 ELSE 0]

OnReach(x) == Clip(Floor, x, 2 * Top)

Played(best, x, j, a) == SumFunction([r \in Moves |-> 2 * best[<<OnReach(x + Step(j, a, r)), a>>]])

BestBefore(best) ==
  [s \in Reach \X leverage_grid |->
     IF s[1] = Floor THEN 0 ELSE Max({Played(best, s[1], s[2], a) : a \in leverage_grid})]
=============================================================================
