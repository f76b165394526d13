----------------------------- MODULE Selection ------------------------------
(***************************************************************************)
(* Which symbols a round wants and how much of each: the filters of the    *)
(* universe, the ranking with its buffer (engine v1) and the weights of    *)
(* build_weights (engine v3), next to the selection the research tested    *)
(* the strategy with, and what the account then holds.                     *)
(*                                                                         *)
(* A row is the sequence of the symbols whose signal is known, from the    *)
(* lowest to the highest.  Fractions are percentages, money is in dollars, *)
(* a weight is a part of Unit.                                             *)
(***************************************************************************)
EXTENDS Backtest, Subsequences

CONSTANTS ExitFrac,
          n_positions,
          MinUniverse,      \* resolve_universe wants as many (10)
          MinHistory,       \* min_history_bars
          Ratio,            \* bars of the source interval in one of the traded interval
          Kinds,            \* what a symbol may be on the exchanges and on the disk
          OddSymbols,       \* those that may be of any of the Kinds
          Standard,         \* the usual minimum of an order
          Budgets,          \* values of equity * leverage
          Engines,
          Orders,           \* how the signal may rank all of the symbols
          MaxMissed,        \* bound: orders of a round that are not filled
          MaxWeight,        \* max_weight, in parts of Unit
          Bars,             \* what a bar may be
          MaxBars,          \* bound: length of the history
          Vols              \* realised volatilities of the symbols, or Unknown

Unknown == -1

ASSUME SelectionAssumption ==
  /\ ExitFrac \in 1..49
  /\ n_positions \in Nat /\ n_positions >= 4
  /\ MinUniverse \in Nat /\ MinHistory \in Nat /\ Ratio \in Nat \ {0}
  /\ Standard \in Nat \ {0}
  /\ Kinds \subseteq [trading : BOOLEAN, liquid : BOOLEAN, min : Nat, source : Nat, direct : Nat]
  /\ OddSymbols \subseteq Symbols
  /\ Orders \subseteq Seq(Symbols) /\ \A o \in Orders : Range(o) = Symbols /\ Len(o) = N
  /\ Budgets \subseteq Nat \ {0} /\ Engines \subseteq {"v1", "v3"} /\ MaxMissed \in Nat
  /\ MaxWeight \in 1..Unit /\ Bars \subseteq [Symbols -> Int] /\ MaxBars \in Nat
  /\ \A v \in Vols : \A s \in Symbols : v[s] \in Nat \cup {Unknown}

VARIABLES engine,
          phase,     \* idle; the universe is resolved; the book is picked
          ask,       \* the round: its universe, its budget, the minimums
          pick,
          bars,      \* the history of the market
          held,      \* the account's positions
          research,  \* the positions of rank_to_weights_buffered on the same rows
          intact     \* history: every round so far was traded as it was picked

selectVars == <<engine, phase, ask, pick, bars, held, research, intact>>

Nothing == [long |-> {}, short |-> {}]
Names(b) == b.long \cup b.short
-----------------------------------------------------------------------------
(* The universe.                                                           *)

Good == [trading |-> TRUE, liquid |-> TRUE, min |-> Standard,
         source |-> MinHistory * Ratio, direct |-> 0]

(* The minimum plus its safety of a fifth, how many positions of it the    *)
(* capital holds, and how many there will be at most.                      *)
MinPosition == (Standard * 6) \div 5
max_positions_for_capital(budget) == budget \div MinPosition
n_eff(budget) == Min({n_positions, max_positions_for_capital(budget)})

(* What each of as many positions can pay, less the safety.                *)
Affordable(min, budget) == 6 * min * n_eff(budget) <= 5 * budget

(* history_lengths: the bars of the finer file, or else those of the file  *)
(* of the interval itself.                                                 *)
history_lengths(kind) ==
  IF kind.source \div Ratio > 0 THEN kind.source \div Ratio ELSE kind.direct

(* Mutant: what F40 repaired, one minimum for all.                         *)
UniverseForAnyMinimum(listed, ends, budget) ==
  {s \in Symbols :
     /\ listed[s].trading
     /\ ends.tickers => listed[s].liquid
     /\ history_lengths(listed[s]) >= MinHistory}

(* build_universe.  Without an answer the volume does not matter, nor do   *)
(* the minimums; nor do these when the capital holds no position at all.   *)
build_universe(listed, ends, budget) ==
  LET liquid == {s \in Symbols : listed[s].liquid}
  IN {s \in Symbols :
        /\ listed[s].trading
        /\ ends.tickers /\ liquid # {} => s \in liquid
        /\ ends.minimums /\ n_eff(budget) >= 1 => Affordable(listed[s].min, budget)
        /\ history_lengths(listed[s]) >= MinHistory}
-----------------------------------------------------------------------------
(* Ranking.                                                                *)

k_out(n) == Max({k_in(n), Percent(ExitFrac, n)})

Lowest(r, k) == {r[i] : i \in 1..k}
Highest(r, k) == {r[i] : i \in (Len(r) - k + 1)..Len(r)}

Place(r, s) == CHOOSE i \in DOMAIN r : r[i] = s
StrongestLong(r, S, k) == {s \in S : Cardinality({t \in S : Place(r, t) > Place(r, s)}) < k}
StrongestShort(r, S, k) == {s \in S : Cardinality({t \in S : Place(r, t) < Place(r, s)}) < k}

Room(r, S) == Max({0, k_in(Len(r)) - Cardinality(S)})

rank_to_weights(r) ==
  IF Len(r) < 4 THEN Nothing
  ELSE [long |-> Highest(r, k_in(Len(r))), short |-> Lowest(r, k_in(Len(r)))]

(* rank_to_weights_buffered: who is held stays while in the exit zone, the *)
(* room that is left goes to those in the entry zone.                      *)
rank_to_weights_buffered(r, have) ==
  LET n == Len(r)
      long == (have.long \cap Highest(r, k_out(n))) \ (have.short \cap Lowest(r, k_out(n)))
      short == (have.short \cap Lowest(r, k_out(n))) \ long
      cand_long == Highest(r, k_in(n)) \ (long \cup short)
      cand_short == Lowest(r, k_in(n)) \ (long \cup short)
  IN IF n < 4 THEN Nothing
     ELSE [long |-> StrongestLong(r, long \cup StrongestLong(r, cand_long, Room(r, long)), k_in(n)),
           short |-> StrongestShort(r, short \cup StrongestShort(r, cand_short, Room(r, short)), k_in(n))]

(* Mutant: the rest of the candidates is not taken up.                     *)
BufferedFirstComes(r, have) ==
  LET n == Len(r)
      long == (have.long \cap Highest(r, k_out(n))) \ have.short
      short == (have.short \cap Lowest(r, k_out(n))) \ have.long
  IN [long |-> IF long # {} THEN long ELSE Highest(r, k_in(n)) \ short,
      short |-> IF short # {} THEN short ELSE Lowest(r, k_in(n)) \ long]

(* The same in compute_target_weights, on the positions of the account.    *)
Buffered(r, have) ==
  LET n == Len(r)
      long == (have.long \cap Highest(r, k_out(n))) \ have.short
      short == (have.short \cap Lowest(r, k_out(n))) \ have.long
      cand_long == Highest(r, k_in(n)) \ (long \cup short)
      cand_short == Lowest(r, k_in(n)) \ (long \cup short)
  IN [long |-> StrongestLong(r, long \cup StrongestLong(r, cand_long, Room(r, long)), k_in(n)),
      short |-> StrongestShort(r, short \cup StrongestShort(r, cand_short, Room(r, short)), k_in(n))]

(* compute_target_weights: a plain ranking for an account that is flat,    *)
(* for a row that is too short, and when the buffer would empty a leg.     *)
UsesBuffer(r, have) ==
  /\ have # Nothing /\ ExitFrac > TopFrac /\ Len(r) >= 4
  /\ Buffered(r, have).long # {} /\ Buffered(r, have).short # {}

compute_target_weights(r, have) ==
  IF UsesBuffer(r, have) THEN Buffered(r, have) ELSE rank_to_weights(r)

(* The cut to the capital (F43).  All weights of a leg are equal: who is   *)
(* kept is the stronger one after the buffer, where the legs were sorted,  *)
(* and the one of the first column after a plain ranking.                  *)
FirstColumns(S, k) == {s \in S : Cardinality({t \in S : t < s}) < k}

Cut(r, have, b, budget) ==
  LET cap == max_positions_for_capital(budget)
      side == Min({cap \div 2, Cardinality(b.long), Cardinality(b.short)})
  IN IF Cardinality(Names(b)) <= cap THEN b
     ELSE IF UsesBuffer(r, have)
     THEN [long |-> StrongestLong(r, b.long, side), short |-> StrongestShort(r, b.short, side)]
     ELSE [long |-> FirstColumns(b.long, side), short |-> FirstColumns(b.short, side)]
-----------------------------------------------------------------------------
(* The weights of engine v3.                                               *)

Net(w) == SumFunction(w)
Total(w, S) == SumFunction([s \in S |-> Magnitude(w[s])])

Zero == [s \in Symbols |-> 0]

side_count(n) == Max({1, Min({n_positions \div 2, n \div 2})})

_selection_mask(r) ==
  IF Len(r) < 4 THEN Nothing
  ELSE [long |-> Highest(r, side_count(Len(r))), short |-> Lowest(r, side_count(Len(r)))]

(* The floor of the volatility, in tenths: the lowest decile of the known  *)
(* ones, or their median when that is nothing.                             *)
Known(vol) == Ranked([s \in {t \in Symbols : vol[t] # Unknown} |-> vol[s]])
vol_floor(vol) ==
  LET k == Known(vol)
      n == Len(k)
      decile == IF n < 2 THEN 10 * vol[k[1]]
                ELSE 10 * vol[k[1]] + (n - 1) * (vol[k[2]] - vol[k[1]])
      median == 5 * (vol[k[(n + 1) \div 2]] + vol[k[n \div 2 + 1]])
  IN IF n = 0 THEN 0 ELSE IF decile > 0 THEN decile ELSE median

(* The strength of the signal by the risk of the symbol.                   *)
inverse_vol_weights(vol, z, mask) ==
  LET floor == vol_floor(vol)
      Raw(s) == (10 * Magnitude(z[s])) \div (IF 10 * vol[s] > floor THEN 10 * vol[s] ELSE floor)
  IN Eager([s \in Symbols |-> CASE s \in mask.long -> Raw(s)
                                [] s \in mask.short -> -Raw(s)
                                [] OTHER -> 0])

_dollar_neutralize(w) ==
  LET long == {s \in Symbols : w[s] > 0}
      short == {s \in Symbols : w[s] < 0}
      up == Total(w, long)
      down == Total(w, short)
  IN IF long = {} \/ short = {} THEN Zero
     ELSE Eager([s \in Symbols |-> Part(w[s], Unit \div 2, IF s \in long THEN up ELSE down)])

Scaled(w) == LET all == Total(w, Symbols)
             IN IF all = 0 THEN Zero ELSE Eager([s \in Symbols |-> Part(w[s], Unit, all)])

(* One pass of the loop of _cap_and_scale: what is over the cap is capped, *)
(* the rest takes up what that leaves.                                     *)
Capped(w) ==
  LET over == {s \in Symbols : Magnitude(w[s]) > MaxWeight}
      free == Total(w, Symbols \ over)
      residual == Unit - MaxWeight * Cardinality(over)
  IN IF over = {} THEN w
     ELSE Eager([s \in Symbols |->
            IF s \in over THEN IF w[s] < 0 THEN -MaxWeight ELSE MaxWeight
            ELSE IF free = 0 \/ residual <= 0 THEN w[s]
            ELSE Part(w[s], residual, free)])

_cap_and_scale(w) ==
  LET pass[i \in 0..8] == IF i = 0 THEN Scaled(w) ELSE Capped(pass[i - 1])
  IN pass[8]

(* Without a beta: the mean of the weights in use is taken off each.       *)
project_neutral(w) ==
  LET active == {s \in Symbols : w[s] # 0}
      n == Cardinality(active)
  IN IF n < 3 THEN Zero
     ELSE Eager([s \in Symbols |-> IF s \in active THEN w[s] - Part(Net(w), 1, n) ELSE 0])

(* Mutant: the cap has the last word.                                      *)
ProjectedThenCapped(w) ==
  LET Round(v) == _cap_and_scale(project_neutral(v)) IN Round(Round(Round(w)))

Balanced(w) ==
  LET Round(v) == project_neutral(_cap_and_scale(v)) IN Round(Round(Round(w)))

(* The z-scores of a row, but for their common scale (few names are within *)
(* its clip).                                                              *)
Score(value) ==
  Eager([s \in DOMAIN value |-> Cardinality(DOMAIN value) * value[s] - Net(value)])

(* build_weights, its last row.  Too few names, no volatility or no spread *)
(* of the signal: no book.                                                 *)
build_weights(value, vol) ==
  LET r == Ranked(value)
      z == Score(value)
      mask == _selection_mask(r)
  IN IF \/ Cardinality(Names(mask)) < Min({6, n_positions})
        \/ vol_floor(vol) <= 0
        \/ \A s \in DOMAIN z : z[s] = 0
     THEN Zero
     ELSE Scaled(Balanced(_dollar_neutralize(inverse_vol_weights(vol, z, mask))))
-----------------------------------------------------------------------------
NoAsk == [universe |-> {}, budget |-> 0, min |-> <<>>, told |-> TRUE]
NoPick == [book |-> Nothing, chosen |-> Nothing, weights |-> Zero]

SelectTypeOK ==
  /\ engine \in Engines /\ phase \in {"idle", "resolved", "picked"}
  /\ ask.universe \subseteq Symbols /\ ask.told \in BOOLEAN
  /\ {held, research, pick.book, pick.chosen} \subseteq [long : SUBSET Symbols, short : SUBSET Symbols]
  /\ held.long \cap held.short = {}
  /\ intact \in BOOLEAN

SelectInit ==
  /\ engine \in Engines
  /\ phase = "idle" /\ ask = NoAsk /\ pick = NoPick
  /\ bars = <<>>
  /\ held = Nothing /\ research = Nothing /\ intact = TRUE

(* A round the account does not trade as it was picked parts it from the   *)
(* research for good.                                                      *)
Parted == intact' = FALSE /\ research' = Nothing

Worlds == {[s \in Symbols |-> IF s \in odd THEN kind ELSE Good] : odd \in SUBSET OddSymbols, kind \in Kinds}

(* resolve_universe.  With too few symbols it raises.  Only the cut of     *)
(* engine v1 looks at the capital again.                                   *)
Resolves ==
  /\ phase = "idle"
  /\ \E listed \in Worlds, budget \in Budgets,
        ends \in [tickers : BOOLEAN, minimums : BOOLEAN] :
       LET universe == build_universe(listed, ends, budget)
       IN IF Cardinality(universe) < MinUniverse
          THEN intact /\ Parted /\ UNCHANGED <<phase, ask>>
          ELSE /\ phase' = "resolved"
               /\ ask' = IF engine = "v3" THEN [NoAsk EXCEPT !.universe = universe]
                         ELSE [universe |-> universe, budget |-> budget, told |-> ends.minimums,
                               min |-> [s \in universe |-> listed[s].min]]
               /\ UNCHANGED <<research, intact>>
  /\ UNCHANGED <<engine, pick, bars, held>>

(* The rows there may be: a signal may be missing.                         *)
Rows == [U \in SUBSET Symbols |->
           {Only(order, V) :
              order \in Orders, V \in {W \in SUBSET U : Cardinality(W) >= 3}}]

(* Engine v1, up to the cut.  A capital too small for one symbol on each   *)
(* side halts the round.                                                   *)
Ranks ==
  /\ phase = "resolved" /\ engine = "v1"
  /\ \E r \in Rows[ask.universe] :
       LET chosen == compute_target_weights(r, held)
           cut == Cut(r, held, chosen, ask.budget)
       IN IF chosen # Nothing /\ (cut.long = {} \/ cut.short = {})
          THEN phase' = "idle" /\ Parted /\ UNCHANGED pick
          ELSE /\ phase' = "picked"
               /\ pick' = [book |-> cut, chosen |-> chosen, weights |-> Zero]
               /\ research' = IF intact THEN rank_to_weights_buffered(r, research) ELSE Nothing
               /\ UNCHANGED intact
  /\ ask' = NoAsk
  /\ UNCHANGED <<engine, bars, held>>

(* Engine v3: the book of the last mark.  Without a history of the signals *)
(* or without a book it raises.                                            *)
Latest(rows) == IF rows = <<>> THEN <<>> ELSE Last(rows)
History(universe) == [i \in DOMAIN bars |-> [s \in universe |-> bars[i][s]]]

Weighs ==
  /\ phase = "resolved" /\ engine = "v3"
  /\ \E value \in {Latest(combine_adaptive(History(ask.universe)))}, vol \in Vols :
       \E w \in {IF value = <<>> THEN Zero
                 ELSE build_weights(value, [s \in Symbols |-> IF s \in ask.universe THEN vol[s] ELSE Unknown])} :
         IF w = Zero
         THEN phase' = "idle" /\ UNCHANGED pick
         ELSE /\ phase' = "picked"
              /\ pick' = [NoPick EXCEPT !.weights = w]
  /\ ask' = NoAsk
  /\ UNCHANGED <<engine, bars, held, research, intact>>

(* The market moves on by one mark.                                        *)
BarCloses ==
  /\ engine = "v3" /\ phase = "idle" /\ Len(bars) < MaxBars
  /\ \E bar \in Bars : bars' = Append(bars, bar)
  /\ UNCHANGED <<engine, phase, ask, pick, held, research, intact>>

(* The orders of the round: some may stay unfilled.                        *)
Position(b, s) == IF s \in b.long THEN 1 ELSE IF s \in b.short THEN -1 ELSE 0
Differ == {s \in Symbols : Position(held, s) # Position(pick.book, s)}

Trades ==
  /\ phase = "picked" /\ phase' = "idle"
  /\ \E missed \in SUBSET Differ :
       /\ Cardinality(missed) <= MaxMissed
       /\ held' = [long |-> (pick.book.long \ missed) \cup (held.long \cap missed),
                   short |-> (pick.book.short \ missed) \cup (held.short \cap missed)]
       /\ IF missed = {} /\ pick.book = pick.chosen THEN UNCHANGED <<intact, research>> ELSE Parted
  /\ pick' = NoPick
  /\ UNCHANGED <<engine, ask, bars>>

SelectNext == Resolves \/ Ranks \/ Weighs \/ Trades \/ BarCloses

SelectSpec == SelectInit /\ [][SelectNext]_selectVars
-----------------------------------------------------------------------------
(* What is traded is what was tested: as long as every round was traded as *)
(* it was picked, the account picks what the research picks on the same    *)
(* rows from its own positions (F3, F37).                                  *)
LiveFollowsResearch ==
  engine = "v1" /\ phase = "picked" /\ intact => pick.chosen = research

(* No leg is lost at the exchange: when the minimums were read, each       *)
(* position that is picked can pay the minimum of its own symbol with its  *)
(* share of the capital (F40).  The universe is filtered for n_positions   *)
(* of them and engine v1 ranks in top_frac of it a side: of a book of more *)
(* than n_positions it is only sure that n_positions of them could pay.    *)
Shares(book) == Min({Cardinality(Names(book)), n_positions})

EveryLegIsPaid ==
  [][phase' = "picked" /\ engine = "v1" /\ ask.told =>
       \A s \in Names(pick'.book) : ask.budget >= ask.min[s] * Shares(pick'.book)]_selectVars

(* Whatever the signals and the risks, the book of engine v3 is neutral    *)
(* and of full size, and where the cap can be met no name is over it by    *)
(* more than a tenth (a few per cent, says the comment), to within the     *)
(* rounding of the weights.                                                *)
BookIsNeutral ==
  engine = "v3" /\ phase = "picked" =>
    LET w == pick.weights
        Feasible(side) == 2 * MaxWeight * Cardinality(side) >= Unit
    IN /\ Magnitude(Net(w)) <= 2 * N
       /\ Magnitude(Size(w) - Unit) <= 2 * N
       /\ Feasible({s \in Symbols : w[s] > 0}) /\ Feasible({s \in Symbols : w[s] < 0}) =>
            \A s \in Symbols : 10 * Magnitude(w[s]) <= 11 * MaxWeight + 20 * N

(* The market up to mark k, with what bar k brought turned around.         *)
Turned(k) == [i \in 1..k |-> IF i = k THEN [s \in Symbols |-> -bars[k][s]] ELSE bars[i]]

(* Per bar what was earned, per mark what was traded.                      *)
Books(rows) == [i \in DOMAIN rows |-> rank_binary(rows[i])]

(* The research does not look ahead: what a bar brings has no influence on *)
(* the combined signal of the marks before it, nor on what was held in it: *)
(* turned around, it earns the opposite.                                   *)
NoPeek ==
  phase = "idle" /\ Len(bars) >= 2 =>
    \A k \in {Len(bars)}, rows \in {combine_adaptive(bars)}, other \in {combine_adaptive(Turned(Len(bars)))} :
      /\ \A i \in 1..(k - 1) : rows[i] = other[i]
      /\ simulate_marked_to_market(Books(other), Turned(k)).gross[k]
           = -simulate_marked_to_market(Books(rows), bars).gross[k]

(* The two simulations of the research, one by periods and one by bars,    *)
(* earn and trade the same where every bar is a period.                    *)
SimulationsAgree ==
  phase = "idle" /\ Len(bars) >= 2 =>
    \A books \in {Books(combine_adaptive(bars))} :
      \A coarse \in {simulate(books, bars)}, fine \in {simulate_marked_to_market(books, bars)} :
        coarse.gross = Tail(fine.gross) /\ coarse.turnover = fine.turnover
=============================================================================
