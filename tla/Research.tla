------------------------------ MODULE Research ------------------------------
(***************************************************************************)
(* The research pipeline: events, labels and weights on a series of bars,  *)
(* a model and its calibration, then the combinatorial cross-validation    *)
(* that simulates the trades out of sample and builds the sizing tables    *)
(* the live engine will use.                                               *)
(*                                                                         *)
(* The trades end as in TrailingExit, the tables are KellyTables', events,   *)
(* labels, weights and folds Labelling.  What the forests learn is left    *)
(* open: a fitted forest is any member of Forests.  Returns of records are *)
(* whole percentages.                                                      *)
(***************************************************************************)
EXTENDS Labelling, KellyTables, TrailingExit

CONSTANTS Series,         \* the series of bars: functions on 0..n-1
          Groups, TestGroups, Embargo,
          MinTrain,       \* labels a fold needs for a fit (10)
          MinCalibrate,   \* labels the calibration needs (15)
          CalibratePer,   \* labels per calibration fold (10)
          Direction,      \* primary_direction
          Forests,        \* what a fitted forest may answer: trend -> probability
          MSl,            \* m_sl
          Draws,          \* the resamples of the bootstrap, by sample size
          TMax, Margin, Notional, Rates   \* as in TradeSim

Directions == {1, -1}
ASSUME ResearchAssumption ==
  /\ \A s \in Series : LastBar(s) \in Nat /\ DOMAIN s = 0..LastBar(s)
  /\ TMax \in [{"follow", "fade"} -> Nat \ {0}]
  /\ Groups \in Nat /\ Groups >= 3 /\ TestGroups \in 1..(Groups - 1)
  /\ Embargo \in Nat /\ MinTrain \in Nat /\ MinCalibrate \in Nat
  /\ CalibratePer \in Nat \ {0} /\ Direction \in Directions /\ MSl \in Nat

VARIABLES part,       \* "research", then "cpcv"
          stage,
          bars, events, labels, weights,
          folds,      \* the folds of the calibration, then of the cross-validation
          at,         \* the fold being worked on
          forest,     \* the fold's model
          model,      \* the model to be exported
          records,    \* the trades, in the order of the folds
          fits, starved,
          tables

vars == <<part, stage, bars, events, labels, weights, folds, at, forest, model,
          records, fits, starved, tables>>

NoForest == <<>>
NoTables == <<>>
LastOf == LastBar(bars)
-----------------------------------------------------------------------------
Init ==
  /\ part = "research" /\ stage = "bars" /\ bars \in Series
  /\ events = <<>> /\ labels = <<>> /\ weights = <<>> /\ folds = <<>> /\ at = 1
  /\ forest = NoForest /\ model = "none" /\ records = <<>>
  /\ fits = 0 /\ starved = 0 /\ tables = NoTables

(* Both pipelines look for events, with grids of their own when there are  *)
(* few; the cross-validation refuses a short series.                       *)
Detect ==
  /\ stage = "bars"
  /\ IF part = "cpcv" /\ LastOf + 1 < Groups * 5
     THEN stage' = "raised" /\ UNCHANGED events
     ELSE /\ stage' = "events"
          /\ events' = IF part = "research" THEN EventsOrGrid(bars, 5, 20)
                       ELSE EventsOrGrid(bars, 2 * Groups, Larger(3 * Groups, 10))
  /\ UNCHANGED <<part, bars, labels, weights, folds, at, forest, model, records,
                 fits, starved, tables>>

TrendSide(t) == IF bars[t].trend >= 0 THEN 1 ELSE -1
PrimarySide(t) == IF part = "research" THEN TrendSide(t) ELSE TrendSide(t) * Direction

(* Without a single label there is nothing to learn from.                  *)
Label ==
  /\ stage = "events"
  /\ labels' = generate_meta_labels_triple_barrier(bars, events, [t \in DOMAIN bars |-> PrimarySide(t)])
  /\ stage' = IF labels' = <<>> THEN "raised" ELSE "labels"
  /\ UNCHANGED <<part, bars, events, weights, folds, at, forest, model, records,
                 fits, starved, tables>>

Weigh ==
  /\ stage = "labels"
  /\ weights' = compute_sample_weights(labels, compute_num_concurrent_events(labels, LastOf))
  /\ stage' = "weights"
  /\ UNCHANGED <<part, bars, events, labels, folds, at, forest, model, records,
                 fits, starved, tables>>

Starts(ls) == [i \in DOMAIN ls |-> ls[i].t0]
Ends(ls) == [i \in DOMAIN ls |-> ls[i].t1]
-----------------------------------------------------------------------------
(* What becomes of the forest: every fold must have something to learn     *)
(* from, and the calibration may fail all the same.                        *)
build_calibrated_classifier(fs) ==
  IF \A f \in DOMAIN fs : fs[f].train # {} THEN {"forest", "calibrated"} ELSE {"forest"}

(* The production model: fitted on everything, calibrated over purged      *)
(* folds; a calibration that fails leaves the forest as it is.             *)
FitModel ==
  /\ part = "research" /\ stage = "weights"
  /\ LET n     == Len(labels)
         parts == Smaller(3, Larger(2, n \div CalibratePer))
     IN  IF n < MinCalibrate THEN model' = "forest" /\ UNCHANGED folds
         ELSE /\ folds' = purged_split(Starts(labels), Ends(labels), parts,
                                       embargo_step(Embargo, 0, 0, n))
              /\ model' \in build_calibrated_classifier(folds')
  /\ stage' = "fitted"
  /\ UNCHANGED <<part, bars, events, labels, weights, at, forest, records, fits,
                 starved, tables>>

(* CPCVPipeline.run starts from the bars again.                            *)
StartCPCV ==
  /\ stage = "fitted"
  /\ part' = "cpcv" /\ stage' = "bars" /\ folds' = <<>>
  /\ UNCHANGED <<bars, events, labels, weights, at, forest, model, records, fits,
                 starved, tables>>
-----------------------------------------------------------------------------
(* Mutant: the horizon the purge had before it covered the holding time.   *)
PurgeShort == 1

(* The purge covers the longest time a trade may be held.                  *)
purge_horizon == Larger(TMax["follow"], TMax["fade"])

PurgeEnd(t) == Clip(t + purge_horizon, 0, LastOf)

(* Few events make few groups, and fewer than three are refused.           *)
Split ==
  /\ part = "cpcv" /\ stage = "weights"
  /\ LET n      == Len(events)
         groups == Smaller(Groups, Larger(2, n \div 2))
         test   == Smaller(TestGroups, Larger(1, groups \div 2))
     IN  IF Refused(groups, test, n) THEN stage' = "raised" /\ UNCHANGED folds
         ELSE /\ folds' = split(events, [i \in DOMAIN events |-> PurgeEnd(events[i])],
                                groups, test, Embargo)
              /\ stage' = "fold"
  /\ UNCHANGED <<part, bars, events, labels, weights, at, forest, model, records,
                 fits, starved, tables>>

(* The labels of the events of a fold's training set.                      *)
TrainLabels(f) == {i \in DOMAIN labels : \E e \in folds[f].train : events[e] = labels[i].t0}

(* A fold with few labels, one class, or a fit that fails has no model.    *)
FitFold ==
  /\ stage = "fold" /\ at \in DOMAIN folds
  /\ LET train == TrainLabels(at)
         able  == Cardinality(train) >= MinTrain /\ {0, 1} = {labels[i].label : i \in train}
     IN  forest' \in (IF able THEN Forests ELSE {}) \cup {NoForest}
  /\ IF forest' = NoForest THEN starved' = starved + 1 /\ UNCHANGED fits
     ELSE fits' = fits + 1 /\ UNCHANGED starved
  /\ stage' = "simulate"
  /\ UNCHANGED <<part, bars, events, labels, weights, folds, at, model, records, tables>>
-----------------------------------------------------------------------------
(* A bar in basis points of the entry price.                               *)
Scaled(bar, entry) ==
  [hi |-> (bar.hi * Unit) \div entry, lo |-> (bar.lo * Unit) \div entry,
   cl |-> (bar.cl * Unit) \div entry, atr |-> (bar.atr * Unit) \div entry, p |-> bar.p]

(* Bar k of a trade that opened at bar t; nothing after its end.           *)
WalkStep(t, trade, s, k) ==
  LET b == Scaled(bars[t + k], bars[t].cl)
  IN  IF s.reason # "NONE" THEN s
      ELSE [reason |-> BarExit(trade, s.best, s.flips, b), exit |-> k,
            best   |-> BestAfter(trade, s.best, b),
            flips  |-> _update_regime_flip(trade, b, s.flips)]

run_trailing_exit_for_oos_event(t, trade, window) ==
  LET n == SliceLength(trade, window)
      walk[k \in 0..n] ==
        IF k = 0 THEN [reason |-> "NONE", exit |-> 0, best |-> Unit, flips |-> 0]
        ELSE WalkStep(t, trade, walk[k - 1], k)
      end == walk[n]
  IN  IF end.reason # "NONE"
      THEN [reason |-> end.reason, exit |-> end.exit, truncated |-> FALSE]
      ELSE [reason |-> "TIME_STOP", exit |-> Larger(n, 1),
            truncated |-> TruncatedWindow(trade, window)]

(* What the trade returned, its funding charged.                           *)
realized_return(t, trade, r) ==
  LET exit    == Smaller(t + r.exit, LastOf)
      fill    == FillOf(trade, r, (bars[exit].cl * Unit) \div bars[t].cl)
      funding == compute_funding_accrued_usd(Notional, trade.side, t * BarHours,
                                             exit * BarHours, Rates)
  IN  compute_realized_pnl(Unit, fill, trade.side, Notional, trade.margin, r.reason,
                           funding).realized_return

(* The terms of an event's trade; the stop is MSl volatilities away.       *)
TermsAt(t) ==
  resolve_trade_execution_params(
    forest[TrendSide(t)], bars[t].chop, Unit, PrimarySide(t),
    CushionOf(MSl * inst_rel_vol(bars[t]), Cost), TMax, Margin)

(* The test events of a fold that trade: a label, and two bars to go.      *)
Candidates(f) ==
  Only(events, {events[e] : e \in folds[f].test} \cap 0..(LastOf - 2))

TradeAt(f, t) ==
  LET trained == SetToSeq(folds[f].train)
      trainP  == [i \in DOMAIN trained |-> bars[events[trained[i]]].p]
      window  == Max({PurgeEnd(events[e]) : e \in folds[f].test}) - t
      trade   == ForFold(TermsAt(t), LastOf + 1 - t, trainP)
      r       == run_trailing_exit_for_oos_event(t, trade, window)
  IN  [fold |-> f, t0 |-> t, exit |-> Smaller(t + r.exit, LastOf), mode |-> trade.mode,
       p |-> forest[TrendSide(t)], chop |-> bars[t].chop, truncated |-> r.truncated,
       ret |-> realized_return(t, trade, r) \div 100]

(* A fold without a model trades nothing; parameters that are refused end  *)
(* the run.                                                                *)
Simulate ==
  /\ stage = "simulate"
  /\ LET open   == IF forest = NoForest THEN <<>> ELSE Candidates(at)
         traded == Only(open, {t \in Range(open) : TermsAt(t).result # "none"})
     IN  IF \E i \in DOMAIN traded : TermsAt(traded[i]).result = "raise"
         THEN stage' = "raised" /\ UNCHANGED <<records, at>>
         ELSE /\ records' = records \o [i \in DOMAIN traded |-> TradeAt(at, traded[i])]
              /\ at' = at + 1
              /\ stage' = IF at = Len(folds) THEN "simulated" ELSE "fold"
  /\ forest' = NoForest
  /\ UNCHANGED <<part, bars, events, labels, weights, folds, model, fits, starved, tables>>
-----------------------------------------------------------------------------
filter_boundary_truncated_for_kelly_table(rs) == Only(rs, {r \in Range(rs) : ~r.truncated})

(* One table for each mode, from the records that saw their own end; a     *)
(* sample that is refused ends the run.                                    *)
BuildTables ==
  /\ stage = "simulated"
  /\ LET clean == filter_boundary_truncated_for_kelly_table(records)
         Inputs(mode) == trade_records_to_kelly_table_inputs(
                           Only(clean, {r \in Range(clean) : r.mode = mode}))
         modes == {"follow", "fade"}
     IN  IF \E mode \in modes : Refuses(Inputs(mode))
         THEN stage' = "raised" /\ UNCHANGED tables
         ELSE /\ stage' = "tables"
              /\ tables' = [mode \in modes |->
                             LET inputs == Inputs(mode)
                             IN  [inputs |-> inputs,
                                  grid   |-> build_empirical_kelly_table_v2(inputs, Draws)]]
  /\ UNCHANGED <<part, bars, events, labels, weights, folds, at, forest, model,
                 records, fits, starved>>

Done == stage \in {"tables", "raised"} /\ UNCHANGED vars

Next == \/ Detect \/ Label \/ Weigh \/ FitModel \/ StartCPCV \/ Split
        \/ FitFold \/ Simulate \/ BuildTables \/ Done

Spec == Init /\ [][Next]_vars
-----------------------------------------------------------------------------
(* No fold's model has seen its own test: the bars that decided the label  *)
(* of a training event and the bars of a trade of the same fold do not     *)
(* overlap, and after the trade the embargo has passed.  Likewise between  *)
(* the labels of a calibration fold (split of CombinatorialPurgedKFold and *)
(* of PurgedKFold; assert_temporal_purging_invariant).                     *)
Apart(label, from, to) == label.t1 <= from \/ label.t0 >= to + Embargo

NoLeak ==
  /\ part = "cpcv" => \A k \in DOMAIN records :
       \A i \in TrainLabels(records[k].fold) : Apart(labels[i], records[k].t0, records[k].exit)
  /\ part = "research" => \A f \in DOMAIN folds : \A i \in folds[f].train, j \in folds[f].test :
       Apart(labels[i], labels[j].t0, labels[j].t1)

(* A label is what the price did first within the bars it may look at: it  *)
(* is 1 exactly when the target was touched in a bar before any that       *)
(* touched the stop, or when nothing was touched and the horizon closed    *)
(* with a gain; its end is the bar that decided it.                        *)
LabelIsFirstTouch ==
  stage = "labels" => \A i \in DOMAIN labels :
    LET l      == labels[i]
        price  == compute_dynamic_barriers(bars[l.t0], l.side)
        ahead  == (l.t0 + 1)..Smaller(l.t0 + TWindow, LastOf)
        stops  == {t \in ahead : HitsStop(bars[t], l.side, price.sl)}
        goals  == {t \in ahead : HitsTarget(bars[t], l.side, price.tp)}
        quiet  == stops \cup goals = {}
        gained == l.side * (bars[l.t1].cl - bars[l.t0].cl) > 0
    IN  /\ l.label = 1 <=> \/ goals # {} /\ \A s \in stops : Min(goals) < s
                           \/ quiet /\ gained
        /\ l.t1 = IF quiet THEN Max(ahead) ELSE Min(stops \cup goals)

(* Every bar under some label is shared out exactly once among the labels  *)
(* that are alive in it (compute_average_uniqueness).                      *)
BarsAreSharedOnce ==
  stage = "weights" =>
    LET c == compute_num_concurrent_events(labels, LastOf)
        covered == UNION {labels[i].t0..labels[i].t1 : i \in DOMAIN labels}
    IN  /\ \A t \in covered : c[t] > 0
        /\ SumFunction([i \in DOMAIN labels |-> PartsOf(labels[i], c)])
             = Shares * Cardinality(covered)

(* The live lookup of a record's probabilities finds the cell that was     *)
(* built with the record's return, and no record is counted twice or lost. *)
TrainCellIsLiveCell ==
  stage = "tables" => \A mode \in DOMAIN tables :
    LET in    == tables[mode].inputs
        mine  == Only(records, {r \in Range(records) : r.mode = mode /\ ~r.truncated})
        Found(cell) == Only(mine, {r \in Range(mine) :
                                    CellFor(in.pEdges, in.chop, r.p, r.chop) = cell})
    IN  \A i, j \in Bins :
          in.cells[i][j] = Column(Found(<<i, j>>), "ret")
=============================================================================
