---------------------------- MODULE KellyTables ----------------------------
(***************************************************************************)
(* The sizing tables: how much to bet on a probability of the model and a  *)
(* probability of the choppy regime, built from the records of the         *)
(* cross-validation and looked up by the paper trading engine.             *)
(*                                                                         *)
(* Probabilities and returns are percentages, fractions to bet are         *)
(* percentages of the equity.  Edges are written in steps of 1 / EdgeScale *)
(* percent; a step is the 1e-12 by which the code keeps edges apart.       *)
(***************************************************************************)
EXTENDS TradeRules, Sequences, Functions, Subsequences, TLC

CONSTANTS NumBins,     \* num_bins
          EdgeScale,
          FMax,        \* DEFAULT_F_MAX
          PriorF,      \* prior_f
          Confidence   \* confidence_constant_C

ASSUME TablesAssumption ==
  /\ NumBins \in Nat \ {0}
  /\ EdgeScale \in Nat /\ EdgeScale > NumBins * NumBins
  /\ FMax \in Nat \ {0} /\ PriorF \in Nat /\ Confidence \in Nat \ {0}

Infinite == 101 * EdgeScale
Bins == 0..(NumBins - 1)
-----------------------------------------------------------------------------
(* The bet that maximises the expected logarithm of the growth.            *)

(* The sign of the derivative of the growth at f; a denominator that is    *)
(* used up counts as a fall.                                               *)
growth_derivative(returns, f) ==
  IF \E i \in DOMAIN returns : 10000 + f * returns[i] <= 0 THEN -1000000
  ELSE MapThenSumSet(LAMBDA i : (returns[i] * 10000000) \div (10000 + f * returns[i]),
                     DOMAIN returns)

Worst(returns) == Min(Range(returns))

(* No bet can lose more than 99.9% of the equity on the worst return.      *)
f_max_safe(returns, fmax) ==
  IF Worst(returns) < 0 THEN Smaller(fmax, 9990 \div (-Worst(returns))) ELSE fmax

(* A sample with a return below -100% is refused (raise).                  *)
Canary(returns) == Len(returns) >= 5 /\ Worst(returns) < -100

(* The bet just below the root; growth_derivative falls in f.              *)
solve_empirical_kelly_fraction(returns, fmax) ==
  IF Len(returns) < 5 THEN 0
  ELSE LET cap     == f_max_safe(returns, fmax)
           growing == {f \in 0..cap : growth_derivative(returns, f) > 0}
       IN  IF growing = {} THEN 0 ELSE Max(growing)

(* The lower quartile of what resamples of the returns would bet.  Which   *)
(* resamples are drawn is left open: one is a choice of as many returns.   *)
Resample(returns, draw) == [i \in DOMAIN returns |-> returns[draw[i]]]

LowerQuartile(bets) ==
  CHOOSE b \in Range(bets) :
    /\ 4 * Cardinality({i \in DOMAIN bets : bets[i] <= b}) >= Len(bets)
    /\ 4 * Cardinality({i \in DOMAIN bets : bets[i] < b}) <= Len(bets)

solve_empirical_kelly_fraction_with_confidence(returns, fmax, draws) ==
  IF Len(returns) < 5 THEN 0
  ELSE LowerQuartile([k \in DOMAIN draws |->
         solve_empirical_kelly_fraction(Resample(returns, draws[k]), fmax)])

(* floor(sqrt(n)) in percent: the cap grows with the sample.               *)
f_max_dynamic(n, fmax) ==
  Smaller(fmax, 100 * Larger(1, Max({r \in 0..n : r * r <= n})))

(* The data and the prior share the bet as n to Confidence.                *)
f_bayesian(n, cons) == (n * cons + Confidence * PriorF) \div (n + Confidence)
-----------------------------------------------------------------------------
(* Cells of equal weight: quantiles of the probability, and within each of *)
(* them quantiles of the regime's.                                         *)

InOrder(s) == SortSeq(s, LAMBDA a, b : a < b)

(* The k-th of NumBins quantiles of sorted values, interpolated.           *)
Quantile(sorted, k) ==
  LET place == k * (Len(sorted) - 1)
      i     == place \div NumBins + 1
      above == IF i < Len(sorted) THEN sorted[i + 1] ELSE sorted[i]
  IN  sorted[i] * EdgeScale + ((above - sorted[i]) * EdgeScale * (place % NumBins)) \div NumBins

(* Edges rise strictly; the outermost catch everything.                    *)
RisingEdges(values) ==
  LET sorted == InOrder(values)
      edge[k \in 0..NumBins] ==
        CASE k = 0 -> -Infinite
          [] k = NumBins -> Infinite
          [] OTHER -> Larger(Quantile(sorted, k), edge[k - 1] + 1)
  IN  edge

UniformEdges(open) ==
  [k \in 0..NumBins |->
     CASE k = 0 /\ open       -> -Infinite
       [] k = NumBins /\ open -> Infinite
       [] OTHER               -> (k * 100 * EdgeScale) \div NumBins]

(* searchsorted on the right, less one, clipped to the table.              *)
CellOf(edges, x) ==
  Clip(Cardinality({k \in DOMAIN edges : edges[k] <= x * EdgeScale}) - 1, 0, NumBins - 1)

Column(records, field) == [i \in DOMAIN records |-> records[i][field]]

(* The returns of every cell, and the edges the live engine will use.      *)
trade_records_to_kelly_table_inputs(records) ==
  LET valid   == Only(records, {r \in Range(records) : ~r.truncated})
      pEdges  == RisingEdges(Column(valid, "p"))
      Row(i)  == Only(valid, {r \in Range(valid) : CellOf(pEdges, r.p) = i})
      ChopEdges(i) == IF Row(i) = <<>> THEN UniformEdges(TRUE)
                      ELSE RisingEdges(Column(Row(i), "chop"))
      chop    == [i \in Bins |-> ChopEdges(i)]
      Cell(i, j) == Only(Row(i), {r \in Range(Row(i)) : CellOf(chop[i], r.chop) = j})
  IN  IF valid = <<>>
      THEN [cells  |-> [i \in Bins |-> [j \in Bins |-> <<>>]],
            pEdges |-> UniformEdges(FALSE),
            chop   |-> [i \in Bins |-> UniformEdges(FALSE)]]
      ELSE [cells  |-> [i \in Bins |-> [j \in Bins |-> Column(Cell(i, j), "ret")]],
            pEdges |-> pEdges,
            chop   |-> chop]

(* No table is built when the sample of one of its cells is refused.       *)
Refuses(inputs) == \E i, j \in Bins : Canary(inputs.cells[i][j])

(* A cell with fewer than five returns bets the prior.                     *)
build_empirical_kelly_table_v2(inputs, draws) ==
  [i \in Bins, j \in Bins |->
     LET returns == inputs.cells[i][j]
         n       == Len(returns)
     IN  IF n < 5 THEN PriorF
         ELSE Larger(0, f_bayesian(n, solve_empirical_kelly_fraction_with_confidence(
                                        returns, f_max_dynamic(n, FMax), draws[n])))]
-----------------------------------------------------------------------------
(* Mutant: the edges of the first row are used in every row.               *)
CellInFirstRow(pEdges, chop, p, pChop) == <<CellOf(pEdges, p), CellOf(chop[0], pChop)>>

(* The live engine's lookup.                                               *)
CellFor(pEdges, chop, p, pChop) ==
  LET i == CellOf(pEdges, p) IN <<i, CellOf(chop[i], pChop)>>

compute_bi_directional_kelly_v14_unified(p, pChop, table, pEdges, chop) ==
  LET mode == classify_trade_mode(p, pChop)
  IN  [mode     |-> mode,
       f_target |-> IF mode = "none" THEN 0
                    ELSE Larger(0, table[CellFor(pEdges, chop, p, pChop)])]
=============================================================================
