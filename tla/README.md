# A verification of Aegis, the live trading system

TLA+ specifications of this repository: the managed order and its life on the
exchange, the router, the plan of a rebalance, what a round picks, the processes
that trade one account, the programs that watch them, the owner's bot, the
policy that plays for a target, the paper trading engine, and the research that
builds its tables. TLC checks each on small instances; TLAPS proves the most
important safety properties for every value of the constants.

Every definition is written from the source; `PROJECT.json` maps it to its
lines. `src/` below is the repository's root, `aegis/` is `src/src/aegis/`.

## 1. The system

The live system is a market-neutral rebalancer of a Binance USD-M account. Every
`rebalance_hours` a round (`XSLivePipeline.run_once`) reads the account, compares
it with its state file, asks the circuit breaker and the goal overlay, selects
symbols and weights, turns them into a plan of orders, executes the plan with passive
quotes and, in the end, market orders, reads the account again, saves and leaves a record.
Rounds are started by a daemon, by cron, by a person and by a Telegram bot: separate
processes that share the account, the file `artifacts/live_state.json`, and
(except the bot) a process lock. `healthcheck.py`, `preflight.py` and
`readiness_gate.py` read what the rounds leave behind. An older engine
(`main.py`, `live_pipeline.py`) trades one symbol on paper with sizing tables
that the cross-validation pipeline builds from simulated trades.

### Components, their state and operations

| Component | State | Operations | Talks to | Modelled in |
|---|---|---|---|---|
| Order state machine (`aegis/oms/state_machine.py`) | `ManagedOrder`: state, filled, price, error | `transition`, `apply_exchange_status` | router | OrderStates, OrderLifecycle |
| REST client (`aegis/data/ingestion/binance_rest.py`) | attempts, clock offset | `_request` with retries | exchange | OrderLifecycle |
| Order router (`aegis/oms/order_router.py`) | `book`, `_cycle_orders`, `uncancelled`, `unfinished` | `submit`, `_passive_wait_loop`, `_requote_one`, `_cleanup_and_fallback`, `cancel_all`, `execute_with_fallback`, `kill_switch` | REST client, plan | OrderRouter, LiveCycle |
| Rebalance plan (`aegis/execution/portfolio_rebalancer.py`) | none | `build_rebalance_plan`, `_repair_neutrality`, `max_positions_for_capital` | round, router | Rebalance |
| Round (`aegis/pipelines/xs_live_pipeline.py`) | its copy of `LiveState`, what it read | `run_once`, `resolve_universe`, `compute_target_weights`, `_check_circuit_breaker`, `_settle_positions`, `kill` | everything above, store, overlay, log | LiveCycle, Rebalance, Selection, Rounds |
| Universe, portfolio, combiner (`aegis/data/universe.py`, `aegis/risk/portfolio.py`, `aegis/research/cross_sectional.py`, `adaptive_combiner.py`, `backtest_v2.py`) | none | filters, ranking with a buffer, weights, combined signals, two backtests | round | Selection, Backtest |
| State store, process lock, reconciliation (`aegis/core/state_store.py`, `process_lock.py`, `aegis/oms/reconciliation.py`) | the JSON file, an flock | `load`, atomic `save`, `acquire_lock`, the comparison | round, scripts, bot | LiveCycle |
| Command line and daemon (`scripts/run_daily.py`) | loop, failure count, heartbeat file, flag | normal, forced and dry run, `--kill`, `--sync`, `--loop` | round, lock, store, Telegram | LiveCycle, Watch |
| Health check, alerts (`scripts/healthcheck.py`, `aegis/monitoring/alerts.py`) | none | age of the heartbeat less the sleep of the machine, messages | files of the daemon | Watch |
| Telegram bot (`scripts/telegram_bot.py`, `aegis/monitoring/position_report.py`) | `last_update_id` in memory, a pipeline of its own | polling, commands that may fail or die half done, answers in pieces | Telegram, round, store (no lock) | Commands, LiveCycle |
| Goal overlay and policy (`aegis/risk/goal_overlay.py`, `aegis/research/goal_dp.py`) | deadline, policy file | backward recursion, lookup, lock-in, multiplier | round | GoalPolicy, Rounds, LiveCycle |
| Preflight, execution log, readiness gate (`scripts/preflight.py`, `readiness_gate.py`, `aegis/core/execution_log.py`) | the log | checks before a round, record after it, verdict | round, store | Readiness, Rounds |
| Paper engine (`aegis/pipelines/live_pipeline.py`, `aegis/risk/circuit_breaker.py`, `src/main.py`) | position, equity, breaker, cooldown | `on_bar` | sizing tables | LivePipeline, TradeRules |
| Trade simulation (`aegis/labeling/trailing_exit.py`, `aegis/meta_labeling/sizing/`, `aegis/execution/pnl.py`) | one trade | parameters, exits, settlement | research, paper engine | TradeRules, TrailingExit, TradeSim |
| Research (`aegis/pipelines/research_pipeline.py`, `cpcv_pipeline.py`, `aegis/labeling/`, `aegis/validation/cpcv.py`, `kelly_empirical.py`) | events, labels, folds, records, tables | labelling, purged folds, calibration, tables | paper engine | Labelling, Research, KellyTables |

Components that are left out are in section 8 and in `PROJECT.json`.

### What is hard about it

* **Two writers of one file.** A round loads the state, works for minutes and
  saves its copy. Whatever somebody else saved in between (a kill, a new peak)
  is overwritten unless the lock keeps them apart.
* **Answers that do not come.** A POST may arrive though its answer is lost; the
  retry is refused as a duplicate; a cancel may not be confirmed; a query may
  fail after the fill. Telegram delivers a command again after a death of the bot,
  and a handler swallows the exception of a command that was half done.
* **Fills at any time.** Between the poll, the cancel and the next quote, and in
  leftover orders of a dead process.
* **Death between two steps**, above all after the orders and before the save or
  the record, and of the daemon itself: it must be seen from outside, and a
  machine that only sleeps must not look dead.
* **The same rule written twice.** Preflight against the round, live selection against
  the backtest, the policy against its lookup, the table's cell against the
  lookup of the live engine, the simulation of a trade against the engine that trades.
* **Looking ahead.** Folds, labels, trailing stops and adaptive weights may use only what
  was known.
* **Numbers at a boundary.** Orders too small for the exchange, an odd number of
  positions, a stop near the liquidation price, the target of the goal less
  the cost of closing at it.

`PROJECT.json` lists each hazard at the line where it bites and the properties
that watch over it.

## 2. Modules

```
OrderStates ── OrderLifecycle ─────────────────────┬── OrdersProofs
     └──────── OrderRouter ────────────────────────┘
               OrderRouter  ⟹ (refines)  ExecuteIntent
                                             │ its promise is the step "Works" of a round
Rebalance ─┬── RebalanceProofs   LiveCycle <─┘── LiveProofs
           └── MCRebalance
Backtest ───── Selection ─────── LiveProofs, MCSelection
Readiness ─┐
GoalPolicy ┴── Rounds ────────── RoundsProofs, MCRounds
Watch ─────┬── OperationsProofs
Commands ──┴── MCCommands
TradeRules ─┬─ TrailingExit ──┬─ TradeSim ────── TradeProofs, MCTradeSim
            ├─ Labelling ─────┼─ Research ────── ResearchProofs, MCResearch
            └─ KellyTables ───┴─ LivePipeline ── TradeProofs, MCLivePipeline
```
(`Research` extends `Labelling`, `KellyTables` and `TrailingExit`;
`LivePipeline` extends `KellyTables`; `Labelling`, `KellyTables` and `Selection` filter
lists with `Subsequences`.) The modules `...Proofs` hold theorems
only, and **Foundations** the lemmas they share (sums, filters, recursive functions); the
`MC...` modules give the sets that a cfg cannot write.

### Orders and the account

**OrderStates** holds the states, the transition table and `transition`: an
illegal report leaves the order as it is and is recorded in `error`.

**OrderLifecycle** is one order from `submit()` to its end: `_request` sends,
retries and gives up; each request or answer may be lost; the exchange accepts
or refuses, fills, cancels and expires; answers and reports are read late,
twice and out of order. Once `submit` has returned, the router looks at the order a
bounded number of times (`MaxLooks`, counted in `looks`: the code asks at most so often, and
once more in the clean-up) and then never again; a look may fail or bring an old report
(`last`). Two copies of the order (`order`, the router's, and
`remote`, the exchange's) are what its properties relate. The exchange is
modelled from the use the code makes of it: it refuses a client order id it has
seen, a final state is final. (What this module and OrderRouter would both call
`Init`, `Next` and so on is called `OrderInit`, `OrderNext` here, so that one module can
speak about the two.)

**OrderRouter** is `execute_with_fallback` for one symbol and one intent:
`submit` with its back-off at -5022, the wait loop, `_requote_one`,
`_cleanup_and_fallback`, the market order, the last poll and the report. The
program counter names the call it is in; `trouble` remembers which fault
occurred. Whether the chase cap or the neutrality valve
across symbols allows a requote or the market order is an open choice, so every
outcome of theirs is covered.

**ExecuteIntent** is what a round relies on: the position moves towards the
intent, not beyond it unless the round reports it, and the round ends.
`KeepsPromise` is the refinement; a round that reported a problem or met a
fault is excused from all but its end.

**Rebalance** is the plan over several symbols, in whole lots: rounding and
minimum, the no-trade band, closing orders, the repair of neutrality (F42) as a
recursive function over the candidates in the code's order (a sort is given by the
rank of each symbol: how many come before it), the cut to the capital (F43), the
multiplier, and the router's own preflight. Plans and executions alternate and
any subset of the orders may be filled.

**LiveCycle** composes the processes: each has a program counter, a job, its
copy `mem` of the file, what it has read (`view`) and its order (`work`); they
share `lock`, `file` and the account (`book`, `stray` orders). Its actions are
the operations on shared state in the code's order: `Starts` (lock), `Wakes`
(daemon), `Loads`, `Reads`, `Reconciles` with the breaker, `Plans`, `Cancels`,
`Posts`, `Works`, `Settles`, `Records`, `Saves`, the kill switch (`KillReads`,
`KillCloses`, `KillMarks`) and sync. The portfolio is one symbol; what the
router does to it is the step `ExecuteIntent` promises.

### What a round decides

**Backtest** has the combined signal of engine v3 (`combine_adaptive`: what
each signal earned in the window before a mark gives its weight), `rank_binary`,
and the two simulations of `backtest_v2.py`, by periods and by bars, as operators on a history.

**Selection** is a round before its plan: `build_universe` with its filters and
minimums, the ranking with exit buffer of engine v1 on the positions held,
the weights of engine v3 (inverse volatility, projection, cap, neutrality), next
to the selection the research made on the same rows. Rounds are executed whole, or
with orders missed, so that research and account part as they do live. (Its
specification is called `SelectSpec`, its parts `SelectInit`, `SelectNext`, so that one
module can speak about it and `LiveCycle`.)

**GoalPolicy** is `goal_dp.py` on a small grid (wealth in half steps, chances
as counts, so that no fraction is needed), its interpolation and lookup, and
`GoalOverlay.multiplier`; **Readiness** has the conditions of `preflight.py`,
those of `run_once`, the execution log with lines a death cut off, and the
gate. **Rounds** plays the two together: the market moves, an operator asks
preflight, the round follows, and its record is written or lost. Whether a round is due is
decided as the code decides it, by the saved time or by a `rebalance_count` of zero with no positions
(`rebalanced`); a round that traded saves, judges the neutrality of what it got, and saves
once more with the breach, and a death may fall between the two (`"judging"`).

### Those who watch and command

**Watch** is `run_daily --loop` (heartbeat, count of failures, flag, exit and
restart), the machine that sleeps, the network, and `healthcheck.py`; one tick
is one interval of the loop. `_slept_since` reads the power log line by line, and
so does the model: `unslept` is the time since the heartbeat that the log does not call sleep,
`sleep_at` the last line if it is about falling asleep, and of the lines all are read, some, or none (`pmset`).

**Commands** is the queue of Telegram, the bot's polls and offset, and the commands. A
/rebalance, a /kill or a /sync is a round of steps on the account (`Loads`, then `Rests` or
`Trades`, `Saves`, `SavesAgain`; `KillSaves`), each of which may fail (`SaveFails`, `KillFails`; the handler
swallows the exception and answers), and the bot may die between any two. The rounds of the daemon run
beside them without a lock, so either may save an old copy over what the other saved (`overwrote`). The
pace and the kill mark are the saved state; what the overlay does out of turn is in `Rounds`. `chunk_message`
cuts the long answer. One tick is a day. (The definitions that both have
are called `BotInit`, `BotNext` and so on in Commands, so that one module can
speak about the two.)

### One trade and the research

**TradeRules** has what the simulation and the paper engine share (direction,
stop, liquidation price, the leverage that is safe, fees, funding, profit);
**TrailingExit** the exits of a bar in the code's order; **TradeSim** one trade
of the cross-validation bar by bar. **KellyTables** builds the sizing tables and
looks them up; returns on which `solve_empirical` raises (`Refuses`) end the build of the tables in `Research`. **LivePipeline** is `on_bar`: one action for each of its ways out. (What it and
TradeSim would both call `Init`, `Next` and so on is called `TradeInit`, `TradeNext` in TradeSim.)
**Labelling** has CUSUM events, the triple barrier, uniqueness weights and the
purged folds; **Research** runs them in order up to the calibrated model, the
combinatorial folds with their simulated trades, and the tables. A fitted
forest is a value that knows what it was fitted on.

### Names and abstractions that matter everywhere

The definitions keep the source's names. Prices, rates and probabilities are
integers (lots, basis points, percentages) and ratios are compared by
cross-multiplication; `exp` and `log` of small moves are written to first
order. Definitions marked "Mutant" are plausible bugs, used to see that a
property can fail; they belong to no specification.

## 3. Runs

Eleven runs pass and one is a disagreement.

| Run | Question | Properties | Bounds (distinct states) |
|---|---|---|---|
| `order` | Does the router's copy of an order stay behind the exchange's and end as it did? | `LocalNeverAhead`, `TerminalMatchesExchange`, `Converges` | 3 lots, 3 attempts, 3 looks: a partial fill, a second one and the rest; a first, a repeated and a last attempt (6,891) |
| `router` | Does a round trade the intent, end, and report what it does not know to be done; what can lost answers cost? | `ReportIsComplete`, `LostAnswersCostOnce`, `KeepsPromise` | 3 lots with a minimum of 2, so that remainders above and below it occur; one requote, one back-off, any two of seven faults, with and without market order (70,214) |
| `cycle` | Do the processes of one account keep apart, keep the pace, obey the kill and the breaker? | `OneTrader`, `NoTradeWhenStopped`, `PlanIsCurrent`, `PaceKept`, `KillIsForever`, `EveryRoundEnds` | a daemon and a shell; equities 100, 79 (tier 2), 69 (tier 3); two ticks, freeze and rebalance of one; the overlay on; one mishap of five kinds anywhere (279,399) |
| `cycle_bot_kill` | violation of `KillIsForever` by the bot | | a daemon, a bot, no mishap |
| `rebalance` | Does the plan describe the book it leads to? | `RepairWorks`, `CutIsNeutral`, `ComesToRest` | four symbols, a lot of one worth 2, starting books of up to four lots a symbol, targets of three and of four names with even and uneven legs, capital for two positions and for three (an odd number, and less than the four that are asked for), multipliers 0, 50, 100 % (394,800) |
| `selection` | Is what is traded what was tested? | `LiveFollowsResearch`, `BookIsNeutral`, `NoPeek`, `SimulationsAgree`, `EveryLegIsPaid` | five candidates, two of them odd in one of five ways, four bars, three signals, three budgets, both engines, one missed order (8,332) |
| `rounds` | Do preflight, gate, lock-in and policy keep what they say? | `PreflightForetells`, `GateIsHonest`, `LockedIsKept`, `PromiseIsBest` | wealth in 32 half steps with the target at 10, six periods, leverage up to 3, thirteen troubles, four deaths, two mishaps, four rounds, a gate of two (420,454) |
| `watch` | Is a dead daemon red and a sleeping one green? | `DeathStaysRed`, `SleepIsNotStandstill`, `OutageIsSeen` | three failures in a row end the daemon, a heartbeat is stale after two intervals, three mishaps of four kinds, three readings of the sleep log (211,000) |
| `commands` | Does each message count once? | `NothingIsDropped`, `TradesOnce`, `PiecesArrive`, `EveryMessageIsRead` | two messages of five kinds, one death, a daemon beside the bot, retention of one day against a pace of two, two reports (743,358) |
| `trade` | Does a simulated trade end where it had to? | `StopInsideLiquidation`, `ExitIsFirst`, `WindowKept` | eight kinds of bars, events of both sides and modes with three cushions, six bars, five test windows (4,419) |
| `live` | Does the paper engine obey its breaker and its stop? | `TrippedIsFlat`, `StopBeforeLiquidation` | every six bars out of thirteen kinds (33,647) |
| `research` | Is anything tested on what it was trained on? | `NoLeak`, `LabelIsFirstTouch`, `BarsAreSharedOnce`, `TrainCellIsLiveCell` | 67 series of 22 bars, four groups of which two are tested, two forests, four resamples (9,705) |

The bounds are chosen so that the interesting cases happen: every action and every
disjunct of each next-state relation fires, and each property is violated by a
change of the model that a plausible bug would be (`mutants` in
`PROJECT.json`). What they cut is repetition: a third requote, a fourth lot, a
second mishap in `cycle`. The percentages of the band and the tolerance in
`rebalance` (40 % and 2 %) fit small numbers of lots: with the code's 20 %, a
book of four lots would never be inside the band. In `commands` two messages are enough for each
to be repeated, to come before or after the other, and to be a /kill.

`order` and `router` disable the deadlock check: a finished order, and a
returned round, are ends. `MaxTime`, `MaxMishaps`, `MaxRounds`, `MaxBackoffs`,
`MaxFaults`, `MaxLooks`, `MaxBars`, `MaxMissed`, `MaxMessages`, `MaxDeaths` and `Length` are bounds of the
models and stand as guards in the actions; `MaxAttempts` and
`MAX_CONSECUTIVE_FAILURES` are the code's.

### Properties that hold only under a condition

* `ReportIsComplete` names the faults (`trouble`) after which the code's own
  information is wrong: a lost answer, a failed query, a network exception, an unconfirmed
  cancel, a refused market order. Without them TLC finds the runs of section 5.
* `LostAnswersCostOnce` says what is left to say of lost answers: the orders the router knows nothing of
  add up to one more intent at most. It does not cover a cancel or a query that failed.
* `Converges` asks nothing when the last look failed or brought an old report: no other follows.
* `PlanIsCurrent` and `PaceKept` hold while nothing went wrong (`mishaps = 0`).
* `cycle` has no bot: the bot takes no lock, and with it most of these fail.
* `RepairWorks` excepts the positions that a plan skips as too small or without
  a price, `ComesToRest` a repair that went past neutral.
* `PreflightForetells` lists the four things preflight cannot see (a drawdown
  at tier 2, symbols too dear for the equity, old data of the other exchange,
  an overlay that wants nothing at a round that is due).
* `GateIsHonest` supposes that every round that sent orders left its record, on a line of its
  own: a death before the record leaves no trace for the gate, and a line that a death cut off
  swallows the next one. Closing rounds with a leftover count as clean.
* `DeathStaysRed` excepts a flag whose write failed; the first half of `SleepIsNotStandstill` (no
  false alarm) a mishap and a sleep log that is not read whole, its second half (no standstill taken for
  sleep) a log with lines missing.
* `LiveFollowsResearch` holds as long as every round was traded as it was picked.
* `NoLeak` is checked with a label window no longer than the holding time.
* `TradesOnce` needs Telegram's retention (a day) below the pace (72 h), and holds up to the first save of
  an old copy over a newer file, which the missing lock allows: such a save takes back the mark of a trade
  or a /kill, as `cycle_bot_kill` shows. It counts the orders that no save followed, each of which the
  next delivery repeats, and excepts a /kill that answered with an error or that Telegram forgot.
* `LockedIsKept` holds as long as the policy file is there, and for a book whose closing the buffer
  affords (`Affords`): the fee of closing the leverage that was held, and the fee the policy reckons with
  for the leverage it is told. Nothing in the code ties `lock_in_buffer` to the leverage: the 0.2 % of the
  default are enough up to a base leverage of 2 at 0.05 % a turn, and beyond that only for smaller books.
* `EveryLegIsPaid` promises each position its minimum at the share of `min(names, n_positions)` positions: nothing in the
  code keeps engine v1 from ranking in more than `n_positions` names (section 5), and of such a book it is only
  sure that `n_positions` of them could pay.
* `PreflightForetells`, `LockedIsKept` and `PromiseIsBest` say nothing of whether the leverage that is
  looked up is the best first move; the chance that is reported is.

### Fairness

`OrderLifecycle`: the client's steps (retry, give up, read an answer), its looks (one of an answer,
an old answer and an error comes of each, and there are no more than `MaxLooks`) and
the exchange's decision on a request it received are weakly fair; loss, fills
and cancels are not. `OrderRouter`: the router's steps are weakly fair, as a
single thread that never blocks for good (every call has a timeout, the wait
loop a deadline); fills are not, except that a market order gets matched once
the round has returned. `LiveCycle`: each process that is not idle keeps
running, time passes, and the daemon is started again; nobody has to give a
command and no order has to fill. `Watch`: while the lid is open time passes, a
cycle ends one way or the other, and the daemon is started again. `Commands`: the
bot is started and gets through its batch (each call of a handler returns or times out), and it polls infinitely often
if the network is infinitely often there: strong fairness, since the network
comes and goes.

That somebody starts the daemon again is an assumption: `run_daily.py:509`
relies on launchd's KeepAlive, and the only property list in the repository
(`deploy/launchd/com.aegis.trading.plist`) starts `main.py`, at load and once.

## 4. Proofs

All theorems hold for every value of the constants that their modules assume
(the named `...Assumption`s; TLC evaluates them in each run).

**OrdersProofs** has the theorems about the order and about the router.
Of `OrderLifecycle` (any quantity, any number of attempts): `OrderTypeCorrect`,
`NeverAhead`, `TerminalIsTrue`, and `NeverBack` for an action
property. The properties are not inductive: a report in flight may be older
than both copies. The invariant `OrderIInv` adds `ReportsAreHistory`: every report,
and the answer to a request, is one of the earlier states of the exchange's
record; `InFlightBounded` and `AliveHasRoom` say what may be under way.

Of `OrderRouter` (any intent, minimum, number of requotes and back-offs,
any faults): `NothingLeftBehind` is the second part of `ReportIsComplete`, and
`QuotesAlone` says that two quotes are never alive together. The invariant
follows the maker orders through the program counter: as long as no POST was lost
and nothing reported, only the order that is waited for can live, and only
while it is waited for (`OnlyPassiveLives`); what the book calls ended has ended (`EndedIsEnded`),
which is why the cleanup may skip its cancel; nothing is under way
(`NoneDelayed`). `ReportsTellAll` adds the two parts that compare sums, with `JInv`: what is
booked of an order never exceeds what the exchange has filled, nor that what is still
at risk (`Numbers`); the orders cover the intent (`Enough`), and while every answer was heard they
ask for no more than it (`Bounded`): what is booked of the orders that are over is all that
was traded of them, so a new quote asks for exactly what is missing. `RoundKeepsPromise` is the safety part of
the refinement: the round starts as `ExecuteIntent` does, and each step is a
step of it or a stutter.

**Foundations** has what the others share. Sums over finite sets come from the community
modules as folds that take out an element chosen by `CHOOSE`. That they do not depend on the
choice, agree, split, compare and scale (`SumTakesOut`, `SumAgrees`, `SumSplits`, `SumCompares`,
`SumScales`) is proved without an induction theorem: among the sets that break the claim one has
the fewest elements, and taking one out of it gives a smaller one (`SmallestExists`). The same
argument carries the lemmas about filters (`OnlyAppend`, `OnlyTwice`), the existence of
what is defined step by step (`RecursionExists`), the foremost of a set in an order without
ties (`ForemostFacts`), and every proof below about a recursive function.

**RebalanceProofs** (any number of symbols, any prices, weights, books, capitals,
bands and tolerances): `PlansAreRepaired`, `CutsAreNeutral`, `BooksComeToRest`.
The invariant, `PlansAreFaithful`, is short: a plan is what
`build_rebalance_plan` makes of the book it was planned on. The rest is about that
function. The repair's net and gross are those of the positions with what was
taken back (`Follows`); all candidates pull the same way, so that what
would not help once does not help later either (`RefusalsStay`, `StillRefused`): hence
nothing that helps is left, and the next plan with the same targets, which sees
the adjustments the repair refused and nothing else, has nothing to do
(`RestsAfterwards`). The cut takes the first ranks of each leg; `RanksCount` says that
among the members of a set each rank below its size occurs once, so both legs have
`per_side` members, and scaled with each other's sum they cancel (`LegsCancel`).

**LiveProofs**, on `LiveCycle` (any sets of daemons and shells, targets, equities, faults,
any bounds; no bots): `LockedCopy` is `Spec => []IInv`, where `IInv` is
`TypeOK`, `HolderRuns` (a process of run_daily runs exactly while it holds the
lock) and `CopyIsCurrent` (between load and save nobody else has written the
file, so the copy is the file or goes on from it, and a round that plans read a
file that allowed it). From it: `MutualExclusion`, `StoppedMeansStopped`,
`KillIsPermanent`, `PeakIsKept`. `OrdersLeadToTarget` (`PlanIsCurrent`) and `RebalancesKeepPace`
(`PaceKept`, an action property) need `NothingAmiss`: as long as there was no mishap, no order of
a dead process is left, a process that plans has read the position the account still has, its
order leads to a target, and the file, or the copy on its way there, has the time of
the latest orders (`Remembers`). `Bots = {}` is needed: `cycle_bot_kill` is the
counterexample without it.

On `Selection` (any symbols, signals, risks, fractions, capitals, minimums, any history of the market):
* `RanksAsTested` (`LiveFollowsResearch`): the code ranks in three places, each in its own way. Without a
  tie they are one ranking (`SameRanking`), and with the held buffer the names kept and the
  names filled up are the same (`BufferFacts`), so as long as account and research held the same
  book (`Following`) they pick the same.
* `LegsArePaid` (`EveryLegIsPaid`, an action property): the cut leaves no more names than the capital holds
  at five dollars (`CutFits`), and the minimums were filtered for `min(n_positions, that many)`. It supposes
  nothing of the fraction that is ranked in.
* `BothSimulationsAgree` (`SimulationsAgree`): two recursions over the bars, both brought into
  closed form (`PeriodsEnd`, `BarsEnd`): what each mark trades and earns, drifted from the last one.
* `NothingPeeks` (`NoPeek`): the row of a bar is not in the window of its own weights, so two histories that
  agree before a mark give it the same signal (`MarksAgree`), and the last bar enters what it
  earns once, with its sign.
* `ProjectionHasTheLastWord` is about the end of `build_weights`, for any weights that go in: capping
  disturbs the neutrality, the projection that follows leaves a net below a unit a name
  (`ProjectionFacts`), and the last scaling makes the book full and enlarges the net only as much as
  the weights (`ScalingFacts`).

**OperationsProofs** has the theorems about the daemon's health and the owner's bot.
Of `Watch` (any threshold of failures, any age that is stale, any number
of mishaps): `TypeCorrect`, `DeadIsRed`, `SleepIsTold`. The invariant adds to the types
`Counting` (the count of failures is below the limit while the
daemon runs), `FlagStays` (from the moment the daemon gave up, the flag is on the disk until a
cycle ends) and `Undisturbed` (as long as nothing went wrong nothing is wrong; in
particular at most one interval lies between the last heartbeat and now, the
sleep of the machine taken off) and `LogIsTrue` (if all lines of the sleep log are read, what they do not call sleep is the
time the lid was open).

Of `Commands` (any number of messages and deaths, any retention):
`BotTypeCorrect`; `NoneIsDropped` from `Safe`, which says that the offset of the next
poll is never ahead of what was handled: the batch is held by the server
(`BatchIsHeld`), it is what comes next (`BatchIsNext`), the offset is behind it
(`OffsetIsBehind`). A step of a round is brought to one form for all of them (`RoundFacts`: what it does to
the file, the copy and the message). `EachTradesOnce` supposes `Retention < RebalanceEvery`, and adds
`Paced`: while nobody saved an old copy, an answered /kill stands in the file (`KilledIsDead`), a message that
traded, was marked and is held by Telegram is at least as old as the last rebalance (`TradeIsRecent`), so the pace refuses
its repetition, and the bot loaded a state that lets its message trade only if it may (`LoadedMayTrade`). `ReportsArrive`
(`PiecesArrive`) is about `chunk_message`: a line that is added to the pieces keeps each of
them within the limit and adds its length to their sum (`AddLineFacts`), cut or not.

**TradeProofs**, on the simulation (any bars, events, fees, windows, cushions): `LeverageSparesTheStop`
(`StopInsideLiquidation`, from the arithmetic of the safe leverage: quotients
rounded in the code's direction), `WindowIsKept`, and `FirstExitWins`, which
needs to know what the running extreme and the running count stand for
(`IsBest`: the best price of the bars before this one; `IsCount`: as many
bars in a row against the trade). On the paper engine (any bars, tables, tiers):
`TrippedHoldsNothing` (for the action of a bar: `DeepFallFreezes`, from what the account is worth to what the
breaker says; for the state between two: a frozen bar ends flat and opens nothing) and `StopComesFirst`; `Guarded` says that an open
position is a record of numbers whose stop is on the near side of its
liquidation price, which a trailing stop only improves.

**RoundsProofs** (any market of finitely many moves, grids, costs, horizons, accounts, mishaps):
* `PreflightIsRight`: the conditions of preflight and of the round are written apart in the
  code; the proof compares them case by case.
* `GateTellsTheTruth`: the lines of the log and the rounds that sent orders go along
  with each other (`Told`), as long as each round left its line; so the streak of clean lines
  is a streak of such rounds.
* `PromiseIsKept`: the best play's chance is monotone in the wealth (`Game`), and the policy's
  value at a node lies between it half a step lower and half a step higher, for each period (`Close`):
  one interpolation adds half a step on either side, and nothing else is lost.
* `LockedStays`: once locked in, the book is empty and the wealth is enough for the policy to want no
  other (`Kept`, `Locks`), for every book whose closing the buffer affords: that is part of the property, not an
  assumption on the constants. It supposes `HeadroomAssumption`, that the wealth grid reaches above the target by what
  closing costs.

**ResearchProofs** (any series of bars, thresholds, groups, windows, numbers of bins, any
answers of the forests and draws of the bootstrap): `PipelineInOrder` is the inductive
invariant, which says phase by phase that the events, labels, folds, fitted models and records
are what the phases before them computed. From it
* `NoModelSeesItsTest` (`NoLeak`): a training event is kept only if its horizon ends before the
  test group begins or it starts after the embargo, and its label ends within its
  window. It supposes `TWindow <= purge_horizon`: the purge looks `t_max_live_follow` bars ahead
  (120 against a window of 20 by default), and section 5 has the caller for which it is too short.
* `LabelsAreFirstTouches` (`LabelIsFirstTouch`): the scan over the bars after the event stops at the
  first that touches. It supposes `TWindow >= 1`; with a window of nothing the code returns a label
  that ends a bar after its event.
* `TablesAreFoundLive` (`TrainCellIsLiveCell`): a record is in the row and the cell that `CellFor`, the
  lookup of the live engine, finds for it. Filters are recursive functions (`Only`), so that a filter of a filter is the filter
  by both is proved as a lemma, again by the least counterexample.
* `EachBarIsSharedOnce` (`BarsAreSharedOnce`): the difference of labels born and labels gone, added up, is the
  number of labels alive (`ConcurrentIsLiving`); summing the shares by label or by bar gives the
  same (`CountedTwice`). Events rise and labels are short, so at most `Longest + 1` labels live in a bar
  (`FewLive`). It supposes that `Shares` divides by every number up to that: `Shares` is the unit in
  which the model counts, the code divides by floats.

`LeverageSparesTheStop` and `StopComesFirst` suppose `Buffer # 0`. With a safety buffer of zero, which the code
accepts, the stop may lie exactly on the liquidation price.

Only model-checked: liveness (`Converges`, `EveryRoundEnds`, `OutageIsSeen`,
`EveryMessageIsRead`, and the promise of `ExecuteIntent` that a round ends), since
the provers do not reach `ENABLED`; and `BookIsNeutral` as it stands. `ProjectionHasTheLastWord` is
what of it holds for every instance. Its two units a name, instead of three, and its bound on
what a name may exceed the cap by after three rounds depend on how much the projections take away,
which TLC finds out for the instance it checks.

## 5. Where the code and its documentation disagree

`cycle_bot_kill` is a run that TLC ends with a counterexample: the kill switch
is permanent, says `state_store.py:36`, but `/kill` of the bot between a round's load
and its save is overwritten.

The others were met while modelling; the models have the code's behaviour.

*Orders and rounds*
1. `order_router.py:7`: "a retry after a timeout creates no duplicate". The id
   is refused as a duplicate, the order is booked REJECTED while it lives (178-206), and its quantity
   is ordered again.
2. Tier 3 writes the kill to disk (`test_xs_live_pipeline.py:81-86`): the
   daemon's heartbeat (`run_daily.py:445-468`) announces it and does not save.
3. "Cancel every open order" (`order_router.py:789`): the kill switch visits
   only symbols with a position (795-804). A network exception in it leaves the
   account alive, since `kill()` marks it dead only afterwards (`xs_live_pipeline.py:1092`).
4. A goal reached between two rebalances reduces the risk at once
   (`test_xs_live_pipeline.py:238`): the daemon calls `run_once` only when a
   rebalance is due (452), and then the round raises (900).
5. Closing is always allowed (`test_portfolio_rebalancer.py:70-71`): the plan
   has the order and `submit` refuses it in every round (`order_router.py:113-117`).
6. The id of an order is a hash with a time bucket (`order_router.py:43`): a
   second quote of the same quantity in the same second gets an old id.
7. `--kill` needs the lock that the sleeping daemon keeps (`run_daily.py:191`); the bot
   handles one message at a time, so its `/kill` waits behind a `/rebalance`, and "immediately" is
   what it promises for a `/rebalance` that only heartbeats unless one is due.
8. An unparsable state file is loaded as a fresh one (`state_store.py:75`); `NEUTRALITY_BREACH` is
   overwritten with `REBALANCED` (1087).
9. The tiers of `docs/runbook.md:4-6` (5/10/15 %, flatten) are not those of the
   live round (10/20/30 %, freeze or stop only).
10. The valve halves the budget after the cut, so a leg can drop out (900).

*Selection and research*
1. Live engine v3 is one step behind the research's signal
   (`adaptive_combiner.py:274` against `xs_live_pipeline.py:355`), and its
   marks count from the first bar on file, so their phase shifts.
2. `project_neutral` may turn the sign of a small weight (`portfolio.py:449`);
   a leg of one name breaks the cap.
3. A failed `symbol_min_notionals`, or no liquid symbol, skips its filter.
4. A label window longer than the holding time leaks training labels into the
   test group (`cpcv_pipeline.py:189`, `cpcv.py:58`, used at `edge_hunt.py:31`).
5. `ResearchPipeline.run` writes its four artefacts one after another (259-307)
   and `from_artifacts` does not compare them.
6. The minimums are filtered for at most `n_positions` names (12), and engine v1 ranks in a tenth
   of the universe on either side: from 66 symbols on it picks 14, and a position may
   be below the minimum its symbol was admitted with (`xs_live_pipeline.py:304`, 442).

*Paper engine and operations*
1. `on_bar` may open over an open position (`live_pipeline.py:642`), an
   incomplete bar skips the stop (294), and a freeze at a loss below 10 % never
   ends (`circuit_breaker.py:68`).
2. The circuit-breaker alert is written (`alerts.py:140-163`) and never sent.
3. The daemon that crashes at start writes STARTING each time and stays green;
   a missing heartbeat with live processes is green.
4. A line of the execution log that a death cut off swallows the next record, since `append`
  writes its newline last (`execution_log.py:133-135`); a death between
   sending and recording leaves none; `manual_intervention` is never set.
5. A missing policy file after the lock-in opens the book again
   (`xs_live_pipeline.py:642-649`).

## 6. Abstractions and assumptions

* Quantities are whole lots; in `OrderRouter`, `Rebalance` and `LiveCycle` prices are constant.
* Client order ids are distinct for each submit of a round (against 5, item 6).
* A handler of the bot and a round are steps that may each fail; what a chat message fails to show is not modelled.
* `save` is atomic (a temporary file and a rename), and the file can be parsed.
* One symbol in `OrderRouter` and `LiveCycle`; several in `Rebalance` and `Selection`.
* The router's own ceiling on an order's value is left out: the planner's budget is
  assumed to be below it.
* In `LiveCycle` the overlay's wish for a flat book is a flag that stays up, as after its deadline.
* What a forest predicts and which resamples a bootstrap draws are inputs. Missing values that the
  pipelines replace by a default have been replaced.
* `Selection`: five symbols cannot reach `min_names = 10`, the clipping of z-scores or
  the twenty-row minimum of a score; the constants stand for the smaller thresholds.
* `Backtest` leaves out costs and funding of the simulations.
* `Rounds`: preflight and the round see the same world; what changes between them is in `LiveCycle`.
* `Commands`: a batch, and a round of the daemon, is processed within a day. The daemon's part is its rounds; a person's
  command line is in `LiveCycle`.
* Logging, alerts' wording and the layout of reports are left out, except the length of the pieces.

## 7. Plan

Done: the order, the router and its promise, the processes around the state
file, the plan, the selection, the policy, preflight and gate, the watchers, the
bot, one trade, the paper engine, the research up to the tables.

What would come next: how far three rounds of cap and projection may leave a name over
its cap; order ids with their time bucket and the kill switch over several symbols; rate
limits and clock offset of the REST client; the paging of the history download.

## 8. Not modelled

* *Research statistics* (features, regimes, fractional differencing,
  covariance shrinkage, the signal library, DSR, PBO, plateau, drift monitor,
  market impact, queue and latency simulators): closed formulas on floats,
  vectorised, without state, branches or interleavings that a small instance
  could exercise. What the rest depends on (who may see what) is in `Research` and `Backtest`.
* *Bars, cleaning, panels*: folds over ticks and joins of data frames in one
  thread. `resample_bars` counts a partial bar as full (`panel_v2.py:86-91`), which no
  model here shows.
* *History download*: files written by one thread and repeated from scratch.
* *Configuration, schemas, credentials, experiment and dataset records,
  dashboard*: parsing, hashing and display.
* *Stubs*: placeholders without behaviour.
* Inside modelled components: `refresh_data`, passive prices and the cost
  report of a round, `--status` and `--costs`, the texts of the bot and the
  assistant, metrics of the cross-validation, the bootstrap of the policy's
  returns, calibration curves, feature selection, the export of artefacts.
