----------------------------- MODULE Labelling -----------------------------
(***************************************************************************)
(* What the research pipeline computes on a series of bars: the events at  *)
(* which a trade is considered, the label of each event, the weight of     *)
(* each label, and the folds that keep training and test apart.            *)
(*                                                                         *)
(* Bars are numbered from 0.  Rates are whole basis points of Unit,        *)
(* probabilities percentages, and a log return is a simple return.  The    *)
(* missing values (NaN) that the pipelines replace by a default have been  *)
(* replaced; rejections of malformed arrays have no counterpart.           *)
(***************************************************************************)
EXTENDS TradeRules, Sequences, SequencesExt, Subsequences

CONSTANTS Multiplier,     \* cusum_multiplier, in tenths
          Span,           \* anchor_span
          MinThreshold,   \* min_rel_threshold
          MaxThreshold,   \* max_rel_threshold
          Cooldown,       \* cooldown_bars
          SpatialDelta,   \* spatial_delta_atr, in tenths
          TWindow,        \* t_window: bars a label may look ahead
          Cost,           \* c_trade
          Shares          \* what a bar is divided into by its labels

ASSUME LabellingAssumption ==
  /\ Multiplier \in Nat \ {0} /\ Span \in Nat \ {0}
  /\ MinThreshold \in Nat \ {0} /\ MaxThreshold \in Nat /\ MinThreshold < MaxThreshold
  /\ Cooldown \in Nat /\ SpatialDelta \in Nat
  /\ TWindow \in Nat /\ Cost \in Nat /\ Shares \in Nat \ {0}

Abs(x) == IF x < 0 THEN -x ELSE x
LastBar(bars) == Max(DOMAIN bars)
-----------------------------------------------------------------------------
(* Events: the cumulative sum of the returns leaves a band that follows    *)
(* the volatility.                                                         *)

inst_rel_vol(bar) == (bar.atr * Unit) \div bar.cl

compute_dynamic_cusum_thresholds(bars) ==
  LET sigma[t \in DOMAIN bars] ==
        IF t = 0 \/ bars[t].short THEN inst_rel_vol(bars[t])
        ELSE (2 * inst_rel_vol(bars[t]) + (Span - 1) * sigma[t - 1]) \div (Span + 1)
  IN  [t \in DOMAIN bars |-> Clip((Multiplier * sigma[t]) \div 10, MinThreshold, MaxThreshold)]

(* A candidate is confirmed far enough from the last event in time and in  *)
(* price; the first needs neither.                                         *)
Confirmed(bars, i, last) ==
  last = -1 \/ /\ i - last >= Cooldown
               /\ 10 * Abs(bars[i].cl - bars[last].cl) > SpatialDelta * bars[i].atr

(* One bar.  The sums start again at every candidate, confirmed or not.    *)
CusumStep(bars, threshold, before, i) ==
  LET r         == ((bars[i].cl - bars[i - 1].cl) * Unit) \div bars[i - 1].cl
      plus      == Larger(0, before.plus + r)
      minus     == Smaller(0, before.minus + r)
      candidate == plus > threshold[i] \/ minus < -threshold[i]
      event     == candidate /\ Confirmed(bars, i, before.last)
  IN  [plus   |-> IF candidate THEN 0 ELSE plus,
       minus  |-> IF candidate THEN 0 ELSE minus,
       last   |-> IF event THEN i ELSE before.last,
       events |-> IF event THEN Append(before.events, i) ELSE before.events]

(* The pipelines classify with the fade mode off; they use the event's bar *)
(* only.                                                                   *)
filter_cusum_events_dynamic(bars) ==
  LET threshold == compute_dynamic_cusum_thresholds(bars)
      scan[i \in DOMAIN bars] ==
        IF i = 0 THEN [plus |-> 0, minus |-> 0, last |-> -1, events |-> <<>>]
        ELSE CusumStep(bars, threshold, scan[i - 1], i)
  IN  scan[LastBar(bars)].events

(* The first bar with enough history; bar 0 when there is none.            *)
valid_start(bars) ==
  LET ready == {t \in DOMAIN bars : ~bars[t].short} IN IF ready = {} THEN 0 ELSE Min(ready)

(* Too few events give way to a grid.                                      *)
Grid(from, to, step) ==
  [k \in 1..Larger(0, CeilDiv(to - from, step)) |-> from + (k - 1) * step]

EventsOrGrid(bars, fewest, parts) ==
  LET start == valid_start(bars)
      n     == LastBar(bars) + 1
      found == Only(filter_cusum_events_dynamic(bars), start..LastBar(bars))
  IN  IF Len(found) >= fewest THEN found
      ELSE Grid(start, n - 5, Larger(1, (n - start) \div parts))
-----------------------------------------------------------------------------
(* Labels: which of target, stop and horizon the price reaches first.      *)

compute_dynamic_barriers(bar, side) ==
  LET sigma  == (bar.atr * Unit) \div bar.cl
      target == ((150 * bar.chop + 300 * bar.p) * sigma) \div Unit
      stop   == ((150 * bar.chop + 200 * bar.p) * sigma) \div Unit
                  + (Cost * (IF bar.toxic THEN 15 ELSE 10)) \div 10
  IN  [tp |-> bar.cl + side * ((bar.cl * target) \div Unit),
       sl |-> bar.cl - side * ((bar.cl * stop) \div Unit)]

HitsStop(bar, side, sl) == IF side = 1 THEN bar.lo <= sl ELSE bar.hi >= sl
HitsTarget(bar, side, tp) == IF side = 1 THEN bar.hi >= tp ELSE bar.lo <= tp

(* Mutant: within a bar the target is taken to come before the stop.       *)
TargetBeforeStop(bar, side, price) ==
  IF HitsTarget(bar, side, price.tp) THEN "TP"
  ELSE IF HitsStop(bar, side, price.sl) THEN "SL" ELSE "NONE"

(* A bar that reaches both is taken to reach the stop first.               *)
BarrierHit(bar, side, price) ==
  IF HitsStop(bar, side, price.sl) THEN "SL"
  ELSE IF HitsTarget(bar, side, price.tp) THEN "TP" ELSE "NONE"

Outcome(bars, t0, side, t1, barrier, exit) ==
  LET gain == side * (exit - bars[t0].cl)
  IN  [t0 |-> t0, t1 |-> t1, side |-> side, hit_barrier |-> barrier,
       ret |-> PriceMove(bars[t0].cl, exit, side),
       label |-> IF barrier = "TP" \/ (barrier = "TIME" /\ gain > 0) THEN 1 ELSE 0]

(* The bars after t0, up to end.                                           *)
apply_triple_barrier_single_event(bars, t0, side, end) ==
  LET price == compute_dynamic_barriers(bars[t0], side)
      walk[t \in (t0 + 1)..end] ==
        LET hit == BarrierHit(bars[t], side, price)
        IN  CASE hit = "SL" -> Outcome(bars, t0, side, t, "SL", price.sl)
              [] hit = "TP" -> Outcome(bars, t0, side, t, "TP", price.tp)
              [] hit = "NONE" /\ t = end -> Outcome(bars, t0, side, t, "TIME", bars[t].cl)
              [] OTHER -> walk[t + 1]
  IN  IF end = t0 THEN Outcome(bars, t0, side, t0 + 1, "TIME", bars[t0].cl)
      ELSE walk[t0 + 1]

(* The last bar has no future and gets no label.                           *)
generate_meta_labels_triple_barrier(bars, events, side) ==
  LET last == LastBar(bars)
      open == Only(events, 0..(last - 1))
  IN  [i \in DOMAIN open |->
         apply_triple_barrier_single_event(bars, open[i], side[open[i]],
                                           Smaller(open[i] + TWindow, last))]
-----------------------------------------------------------------------------
(* Weights: a label counts less where others live at the same time.        *)

(* Mutant: the last bar of a label is not counted.                         *)
LeavesEarly(label) == label.t1

(* The bar at which a label no longer counts.                              *)
EndOf(label) == label.t1 + 1

compute_num_concurrent_events(labels, last) ==
  LET delta(t) == Cardinality({i \in DOMAIN labels : labels[i].t0 = t})
                    - Cardinality({i \in DOMAIN labels : EndOf(labels[i]) = t})
      alive[t \in 0..last] == IF t = 0 THEN delta(0) ELSE alive[t - 1] + delta(t)
  IN  [t \in 0..last |-> alive[t]]

(* Every bar is divided among the labels alive in it; average uniqueness   *)
(* is the mean of a label's parts.                                         *)
PartsOf(label, c) == SumFunction([t \in label.t0..label.t1 |-> Shares \div c[t]])
compute_average_uniqueness(label, c) == PartsOf(label, c) \div (label.t1 - label.t0 + 1)

(* In percent, and 100 on average; a label over a bar without any label is *)
(* an error, and an error or no return at all gives equal weights.         *)
compute_sample_weights(labels, c) ==
  LET raw == [i \in DOMAIN labels |->
                Abs(labels[i].ret) * compute_average_uniqueness(labels[i], c)]
      total == SumFunction(raw)
      torn  == \E i \in DOMAIN labels :
                 \E t \in labels[i].t0..labels[i].t1 : c[t] = 0
  IN  [i \in DOMAIN labels |->
         IF torn \/ total = 0 THEN 100 ELSE (raw[i] * Len(labels) * 100) \div total]
-----------------------------------------------------------------------------
(* Folds.  Samples are numbered from 1.                                    *)

(* array_split: the first n % parts groups hold one sample more.           *)
Group(n, parts, g) ==
  LET size == n \div parts
      from == (g - 1) * size + Smaller(g - 1, n % parts)
  IN  (from + 1)..(from + size + (IF g <= n % parts THEN 1 ELSE 0))

Overlaps(a0, a1, b0, b1) == ~(a1 <= b0 \/ a0 >= b1)

(* CombinatorialPurgedKFold: every choice of test groups.  Their order     *)
(* decides nothing but the order of the records.                           *)
GroupChoices(groups, k) == SetToSeq(kSubset(k, 1..groups))

Refused(groups, k, n) == groups < 3 \/ k < 1 \/ k >= groups \/ n < groups

split(t0, t1, groups, k, embargo) ==
  LET n == Len(t0)
      Test(choice) == UNION {Group(n, groups, g) : g \in choice}
      Near(i, g) ==
        LET block == Group(n, groups, g)
            start == t0[Min(block)]
            end   == t1[Max(block)]
        IN  \/ Overlaps(t0[i], t1[i], start, end)
            \/ end <= t0[i] /\ t0[i] < end + embargo
  IN  [f \in DOMAIN GroupChoices(groups, k) |->
         LET choice == GroupChoices(groups, k)[f]
         IN  [test  |-> Test(choice),
              train |-> {i \in (1..n) \ Test(choice) : \A g \in choice : ~Near(i, g)}]]

(* PurgedKFold, around one block at a time: what opened before must be     *)
(* over when the block opens, what opens after must clear the embargo.     *)
(* embargo_bars, when given, wins over the lag and the percentage.         *)
None == -1
embargo_step(bars, lag, pct, n) ==
  IF bars # None THEN bars ELSE IF lag > 0 THEN lag ELSE (pct * n) \div 100

purged_split(t0, t1, splits, step) ==
  LET n == Len(t0)
      Fold(g) ==
        LET test == Group(n, splits, g)
            end  == Max({t1[i] : i \in test})
        IN  [test  |-> test,
             train |-> {i \in 1..n : \/ i < Min(test) /\ t1[i] <= t0[Min(test)]
                                     \/ i > Max(test) /\ t0[i] > end + step}]
  IN  [g \in 1..splits |-> Fold(g)]
=============================================================================
