------------------------------ MODULE Backtest ------------------------------
(***************************************************************************)
(* How the signals of engine v3 become one, by what each earned so far,    *)
(* and what the research says the outcome earns: operators on a history of *)
(* the market, one bar for each mark of the rebalance grid.                *)
(*                                                                         *)
(* A bar gives each symbol its return in per cent; mark i is the close of  *)
(* bar i.  Weights are parts of Unit.                                      *)
(***************************************************************************)
EXTENDS Integers, FiniteSets, FiniteSetsExt, Functions, SequencesExt

CONSTANTS N,              \* the number of symbols
          TopFrac,
          Unit,
          Signals,        \* names of the signals
          Signal(_, _),   \* what a signal makes of the bars up to a mark
          Lookback, MinPeriods, MaxStep, MaxShare, \* CombinerSpec
          Threshold       \* t_threshold, squared

Symbols == 1..N

ASSUME BacktestAssumption ==
  /\ N \in Nat \ {0} /\ TopFrac \in 1..49 /\ Unit \in Nat \ {0}
  /\ Signals # {} /\ IsFiniteSet(Signals)
  /\ Lookback \in Nat \ {0} /\ MinPeriods \in Nat
  /\ MaxStep \in 1..Unit /\ MaxShare \in 1..Unit /\ Threshold \in Nat

Magnitude(n) == IF n < 0 THEN -n ELSE n
Part(w, num, den) == IF w < 0 THEN -(((-w) * num) \div den) ELSE (w * num) \div den
Size(w) == SumFunction([s \in DOMAIN w |-> Magnitude(w[s])])

(* A function with all of its values: to compare it, TLC computes them,    *)
(* once for all.                                                           *)
Eager(f) == CHOOSE g \in {f} : g = f

(* Python's round: a half goes to the even neighbour.                      *)
Percent(pct, n) ==
  LET q == (pct * n) \div 100
      r == (pct * n) % 100
  IN IF r > 50 \/ (r = 50 /\ q % 2 = 1) THEN q + 1 ELSE q

k_in(n) == Max({1, Percent(TopFrac, n)})

(* The symbols from the lowest to the highest value.                       *)
Ranked(value) ==
  LET Below(s) == {t \in DOMAIN value : value[t] < value[s] \/ (value[t] = value[s] /\ t < s)}
  IN [i \in 1..Cardinality(DOMAIN value) |-> CHOOSE s \in DOMAIN value : Cardinality(Below(s)) = i - 1]
-----------------------------------------------------------------------------
(* What a signal has earned: between each mark and the next one, its       *)
(* highest symbols less its lowest.  The last mark has no next one.        *)
Spread(r, bar) ==
  LET k == k_in(Len(r))
  IN SumFunction([i \in 1..k |-> bar[r[Len(r) + 1 - i]] - bar[r[i]]])

factor_returns(name, bars) ==
  [i \in 1..(Len(bars) - 1) |-> Spread(Ranked(Signal(name, SubSeq(bars, 1, i))), bars[i + 1])]

(* _score: nothing for a window that does not vary or has no t-statistic   *)
(* over the threshold, and otherwise as much as the mean (the code shrinks *)
(* the Sharpe ratio, of the same sign).                                    *)
_score(window) ==
  LET n == Len(window)
      sum == FoldSeq(LAMBDA x, acc : x + acc, 0, window)
      squares == FoldSeq(LAMBDA x, acc : x * x + acc, 0, window)
      spread == n * squares - sum * sum
  IN IF spread > 0 /\ sum * sum * (n - 1) > Threshold * spread THEN sum ELSE 0

Equal == [n \in Signals |-> Unit \div Cardinality(Signals)]
Unweighted == [n \in Signals |-> 0]

Rescaled(w, size) ==
  LET all == Size(w)
  IN IF all = 0 THEN w ELSE Eager([n \in Signals |-> Part(w[n], size, all)])

Clip(x, most) == IF x > most THEN most ELSE IF x < -most THEN -most ELSE x

(* The share each signal should have, after the rows of a window.          *)
Target(window) ==
  LET raw == Eager([n \in Signals |-> _score(window[n])])
      share == Rescaled(raw, Unit)
  IN IF \E n \in Signals : Len(window[n]) < MinPeriods THEN Equal
     ELSE IF Size(raw) = 0 THEN Equal
     ELSE IF \A n \in Signals : Magnitude(share[n]) <= MaxShare THEN share
     ELSE Rescaled(Eager([n \in Signals |-> Clip(share[n], MaxShare)]), Unit)

(* Mutant: the row itself belongs to its window.                           *)
WindowToo(fac, i) == Eager([n \in Signals |-> SubSeq(fac[n], Max({1, i - Lookback}), i)])

(* The rows before row i.                                                  *)
Window(fac, i) == Eager([n \in Signals |-> SubSeq(fac[n], Max({1, i - Lookback}), i - 1)])

(* adaptive_weights: towards the target, by no more than MaxStep a row.    *)
Stepped(prev, target) ==
  Rescaled(Eager([n \in Signals |-> prev[n] + Clip(target[n] - prev[n], MaxStep)]), Size(target))

adaptive_weights(fac, rows) ==
  LET weights[i \in 0..rows] ==
        IF i = 0 THEN Unweighted ELSE Stepped(weights[i - 1], Target(Window(fac, i)))
  IN weights

(* combine_adaptive: the signals of each mark with the weights of its row; *)
(* the last mark, which has no row, takes over the one before.  Without    *)
(* weights there is nothing.                                               *)
combine_adaptive(bars) ==
  LET fac == Eager([n \in Signals |-> factor_returns(n, bars)])
      W == adaptive_weights(fac, Len(bars) - 1)
      Mark(i) == LET w == IF i = Len(bars) THEN W[i - 1] ELSE W[i]
                     sig == Eager([n \in Signals |-> Signal(n, SubSeq(bars, 1, i))])
                 IN Eager([s \in DOMAIN bars[i] |-> SumFunction([n \in Signals |-> w[n] * sig[n][s]])])
  IN IF Len(bars) < 2 THEN <<>> ELSE [i \in 1..Len(bars) |-> Mark(i)]
-----------------------------------------------------------------------------
(* The book of a mark in the mode rank_binary, and what it earns.          *)
rank_binary(value) ==
  LET r == Ranked(value)
      k == k_in(Len(r))
  IN Eager([s \in DOMAIN value |->
       CASE s \in {r[i] : i \in 1..k} -> -(Unit \div (2 * k))
         [] s \in {r[Len(r) + 1 - i] : i \in 1..k} -> Unit \div (2 * k)
         [] OTHER -> 0])

Flat(bar) == [s \in DOMAIN bar |-> 0]
Earned(w, bar) == SumFunction([s \in DOMAIN w |-> w[s] * bar[s]])
Traded(w, prev) == SumFunction([s \in DOMAIN w |-> Magnitude(w[s] - prev[s])])

(* drift_weights: the weights after a bar nothing was traded in.           *)
drift_weights(w, bar) ==
  LET value == 100 * Unit + Earned(w, bar)
  IN Eager([s \in DOMAIN w |-> Part(w[s] * (100 + bar[s]), Unit, value)])

(* simulate: each mark trades to its book and earns the bar that follows;  *)
(* the last one earns nothing yet.                                         *)
simulate(books, bars) ==
  LET n == Len(bars)
      after[i \in 0..n] ==
        IF i = 0 THEN [prev |-> Flat(bars[1]), turnover |-> <<>>, gross |-> <<>>]
        ELSE LET acc == after[i - 1]
             IN [prev |-> IF i = n THEN books[i] ELSE drift_weights(books[i], bars[i + 1]),
                 turnover |-> Append(acc.turnover, Traded(books[i], acc.prev)),
                 gross |-> IF i = n THEN acc.gross ELSE Append(acc.gross, Earned(books[i], bars[i + 1]))]
  IN after[n]

(* Mutant: the bar is earned by the book of its own close.                 *)
MarkedAfterTrading(books, bars) ==
  LET after[i \in 0..Len(bars)] ==
        IF i = 0 THEN [held |-> Flat(bars[1]), turnover |-> <<>>, gross |-> <<>>]
        ELSE LET acc == after[i - 1]
             IN [held |-> books[i],
                 turnover |-> Append(acc.turnover, Traded(books[i], acc.held)),
                 gross |-> Append(acc.gross, Earned(books[i], bars[i]))]
  IN after[Len(bars)]

(* simulate_marked_to_market: each bar is earned by what was held before,  *)
(* which then drifts, and only then is traded to the book of the mark.     *)
simulate_marked_to_market(books, bars) ==
  LET after[i \in 0..Len(bars)] ==
        IF i = 0 THEN [held |-> Flat(bars[1]), turnover |-> <<>>, gross |-> <<>>]
        ELSE LET acc == after[i - 1]
                 drifted == IF i = 1 THEN acc.held ELSE drift_weights(acc.held, bars[i])
             IN [held |-> books[i],
                 turnover |-> Append(acc.turnover, Traded(books[i], drifted)),
                 gross |-> Append(acc.gross, IF i = 1 THEN 0 ELSE Earned(acc.held, bars[i]))]
  IN after[Len(bars)]
=============================================================================
