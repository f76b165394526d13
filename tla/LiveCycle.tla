------------------------------ MODULE LiveCycle ------------------------------
(***************************************************************************)
(* The processes that trade the account: the daemon (run_daily --loop),    *)
(* the command line and cron (run_daily), and the Telegram bot, with the   *)
(* process lock, the state file and the account they share.  A round of    *)
(* run_once, a kill and a sync are sequences of file operations and calls  *)
(* to the exchange; orders fill, equity moves, time passes and processes   *)
(* die between any two of them.                                            *)
(*                                                                         *)
(* A portfolio is the signed position, in lots, of one symbol.  What       *)
(* execute_with_fallback does to it is the step ExecuteIntent promises.    *)
(***************************************************************************)
EXTENDS Integers, FiniteSets, FiniteSetsExt

CONSTANTS Daemons,     \* processes that loop and keep the lock: at most one
          Shells,      \* runs of run_daily from cron or a terminal
          Bots,        \* Telegram bots: no lock
          None,        \* the lock is free
          Targets,     \* positions compute_target_weights may ask for
          Equities,    \* values of wallet_balance + unrealized_pnl
          FREEZE,      \* FREEZE_MS in ticks
          REBALANCE,   \* rebalance_hours in ticks
          MaxTime,     \* bound: the last tick
          MaxMishaps,  \* bound: how often something goes wrong
          WithOverlay, \* the goal overlay is enabled
          Faults

FaultKinds == {"death",    \* a process dies
               "raise",    \* a call to the exchange or the data layer raises
               "cancel",   \* a cancel cannot be confirmed and has no effect
               "refusal",  \* the exchange refuses a market order
               "settle"}   \* no read of the positions succeeds

Procs == Daemons \cup Shells \cup Bots

ASSUME CycleAssumption ==
  /\ IsFiniteSet(Procs) /\ Bots \cap (Daemons \cup Shells) = {} /\ Daemons \cap Shells = {}
  /\ None \notin Procs
  /\ Targets \subseteq Int /\ Equities \subseteq Nat
  /\ FREEZE \in Nat /\ REBALANCE \in Nat \ {0}
  /\ MaxTime \in Nat \ {0} /\ MaxMishaps \in Nat
  /\ WithOverlay \in BOOLEAN /\ Faults \subseteq FaultKinds

VARIABLES pc,      \* where each process is
          job,     \* what it was started for
          mem,     \* its copy of LiveState
          view,    \* what it has read: the time, the equity, the positions
          work,    \* its round's order: lots still to trade, resting or not
          lock,    \* the holder of the process lock
          file,    \* artifacts/live_state.json
          book,    \* the account's position
          stray,   \* lots of orders on the exchange that no process looks after
          equity, clock,
          goal,    \* the goal overlay asks for a flat portfolio
          mishaps,
          posted   \* history: the time of the latest orders, or 0

process == <<pc, job, mem, view, work>>
market == <<equity, clock, goal>>
world == <<market, mishaps>>
vars == <<process, lock, file, book, stray, world, posted>>

LiveState == [peak : Nat, dead : BOOLEAN, frozen : Nat, positions : Int,
              last : Nat, ever : BOOLEAN]
Fresh == [peak |-> 0, dead |-> FALSE, frozen |-> 0, positions |-> 0,
          last |-> 0, ever |-> FALSE]
NoView == [now |-> 0, equity |-> 0, positions |-> 0, goal |-> FALSE]
NoWork == [qty |-> 0, resting |-> FALSE]
Side == {"BUY", "SELL"}
NoStray == [s \in Side |-> 0]

TypeOK ==
  /\ pc \in [Procs -> {"off", "sleep", "load", "read", "reconcile", "plan", "cancel",
                       "post", "working", "settle", "record", "save",
                       "kill", "close", "mark", "look", "sync"}]
  /\ job \in [Procs -> {"run", "force", "dry", "kill", "sync"}]
  /\ mem \in [Procs -> LiveState]
  /\ view \in [Procs -> [now : Nat, equity : Nat, positions : Int, goal : BOOLEAN]]
  /\ work \in [Procs -> [qty : Int, resting : BOOLEAN]]
  /\ lock \in Procs \cup {None}
  /\ file \in LiveState
  /\ book \in Int /\ stray \in [Side -> Nat]
  /\ equity \in Equities /\ clock \in 1..MaxTime
  /\ goal \in BOOLEAN /\ mishaps \in 0..MaxMishaps
  /\ posted \in Nat

Init ==
  /\ pc = [p \in Procs |-> "off"]
  /\ job = [p \in Procs |-> "run"]
  /\ mem = [p \in Procs |-> Fresh]
  /\ view = [p \in Procs |-> NoView]
  /\ work = [p \in Procs |-> NoWork]
  /\ lock = None
  /\ file = Fresh
  /\ book = 0 /\ stray = NoStray
  /\ equity \in Equities /\ clock = 1 /\ goal = FALSE /\ mishaps = 0
  /\ posted = 0
-----------------------------------------------------------------------------
(* Something of Faults goes wrong, as often as the bound allows. *)
Mishap(f) == f \in Faults /\ mishaps < MaxMishaps /\ mishaps' = mishaps + 1
AsUsual == UNCHANGED mishaps

(* Moving on. *)

Goto(p, l) == pc' = [pc EXCEPT ![p] = l]

Forget(p) ==
  /\ job' = [job EXCEPT ![p] = "run"]
  /\ mem' = [mem EXCEPT ![p] = Fresh]
  /\ view' = [view EXCEPT ![p] = NoView]
  /\ work' = [work EXCEPT ![p] = NoWork]

(* The process exits; the system releases its lock. *)
Exit(p) ==
  /\ Goto(p, "off")
  /\ lock' = IF lock = p THEN None ELSE lock
  /\ Forget(p)

(* The job is over: the daemon goes to sleep with the lock, others exit. *)
Return(p) ==
  IF p \in Daemons
    THEN Goto(p, "sleep") /\ Forget(p) /\ UNCHANGED lock
    ELSE Exit(p)

(* An exception ends the job; the daemon may have counted too many of them *)
(* and exit.                                                               *)
Fail(p) == Return(p) \/ (p \in Daemons /\ Exit(p))

Resting(p) == work[p].resting
SideOf(qty) == IF qty > 0 THEN "BUY" ELSE "SELL"
Abs(n) == IF n < 0 THEN -n ELSE n

(* What is left of p's order stays on the exchange with nobody to cancel it. *)
Abandon(p) ==
  stray' = IF Resting(p)
             THEN [stray EXCEPT ![SideOf(work[p].qty)] = @ + Abs(work[p].qty)]
             ELSE stray
-----------------------------------------------------------------------------
(* process_lock and the start of a job. *)

First(j) == CASE j = "kill" -> "kill" [] j = "sync" -> "look" [] OTHER -> "load"

Jobs(p) == IF p \in Daemons THEN {"run"}
           ELSE IF p \in Bots THEN {"run", "kill", "sync"}
           ELSE {"run", "force", "dry", "kill", "sync"}

(* Mutant: the lock is taken, never looked at.                             *)
StartsAnyway(p, j) ==
  /\ pc[p] = "off" /\ j \in Jobs(p)
  /\ lock' = IF p \in Bots THEN lock ELSE p
  /\ Goto(p, IF p \in Daemons THEN "sleep" ELSE First(j))
  /\ job' = [job EXCEPT ![p] = j]
  /\ UNCHANGED <<mem, view, work, file, book, stray, world, posted>>

(* run_daily takes the lock; when it is busy the command, --kill included, *)
(* ends with nothing done.  The bot has no lock to take.                   *)
Starts(p, j) ==
  /\ pc[p] = "off" /\ j \in Jobs(p)
  /\ p \in Bots \/ lock = None
  /\ lock' = IF p \in Bots THEN lock ELSE p
  /\ Goto(p, IF p \in Daemons THEN "sleep" ELSE First(j))
  /\ job' = [job EXCEPT ![p] = j]
  /\ UNCHANGED <<mem, view, work, file, book, stray, world, posted>>
-----------------------------------------------------------------------------
(* The circuit breaker. *)

TIER2_DD == 20
TIER3_DD == 30

(* drawdown(equity) >= percent / 100 *)
Down(state, eq, percent) ==
  state.peak > 0 /\ 100 * (state.peak - eq) >= percent * state.peak

(* Mutant: the stop of an earlier round is not looked at.                  *)
BreakerWithoutMemory(state, eq, now) ==
  CASE Down(state, eq, TIER3_DD) -> [stop |-> TRUE, state |-> [state EXCEPT !.dead = TRUE]]
    [] ~ Down(state, eq, TIER3_DD) /\ Down(state, eq, TIER2_DD) ->
         [stop |-> TRUE, state |-> [state EXCEPT !.frozen = now + FREEZE]]
    [] OTHER -> [stop |-> FALSE, state |-> state]

_check_circuit_breaker(state, eq, now) ==
  IF state.dead \/ now < state.frozen THEN [stop |-> TRUE, state |-> state]
  ELSE IF Down(state, eq, TIER3_DD)
    THEN [stop |-> TRUE, state |-> [state EXCEPT !.dead = TRUE]]
  ELSE IF Down(state, eq, TIER2_DD)
    THEN [stop |-> TRUE, state |-> [state EXCEPT !.frozen = now + FREEZE]]
  ELSE [stop |-> FALSE, state |-> state]

Due(state, now) == ~ state.ever \/ now - state.last >= REBALANCE

(* The daemon wakes up for a round when one is due.  When none is, it looks *)
(* at the equity, and what the breaker says then is shown and not saved.   *)
Wakes(p) ==
  /\ pc[p] = "sleep" /\ Due(file, clock)
  /\ Goto(p, "load")
  /\ UNCHANGED <<job, mem, view, work, lock, file, book, stray, world, posted>>
-----------------------------------------------------------------------------
(* run_once *)

Loads(p) ==
  /\ pc[p] = "load"
  /\ mem' = [mem EXCEPT ![p] = file]
  /\ view' = [view EXCEPT ![p].now = clock]
  /\ Goto(p, "read")
  /\ UNCHANGED <<job, work, lock, file, book, stray, world, posted>>

Reads(p) ==
  /\ pc[p] = "read"
  /\ view' = [view EXCEPT ![p].equity = equity, ![p].positions = book, ![p].goal = goal]
  /\ Goto(p, "reconcile")
  /\ UNCHANGED <<job, mem, work, lock, file, book, stray, world, posted>>

(* The state with which the round goes on: the positions found are taken   *)
(* over on the first run, and the peak moves up.                           *)
Reconciled(p) ==
  [mem[p] EXCEPT !.positions = IF @ = book THEN @ ELSE view[p].positions,
                 !.peak = Max({@, view[p].equity})]

due(p) == job[p] = "force" \/ Due(mem[p], view[p].now)

(* derisk_now: between two rebalances the overlay may only close.          *)
derisk_now(p) == ~ due(p) /\ mem[p].positions # 0 /\ WithOverlay /\ view[p].goal

Mismatch(p) == mem[p].positions # book
FirstRun(p) == ~ mem[p].ever /\ mem[p].positions = 0

(* The breaker, and what kind of round this is.                            *)
GoesOn(p) ==
  LET b == _check_circuit_breaker(Reconciled(p), view[p].equity, view[p].now)
  IN /\ mem' = [mem EXCEPT ![p] = b.state]
     /\ Goto(p, IF ~ b.stop /\ (due(p) \/ derisk_now(p)) THEN "plan" ELSE "save")

(* Mutant: after a mismatch the positions are read again until they agree. *)
ReconcilesAgain(p) ==
  /\ pc[p] = "reconcile"
  /\ IF Mismatch(p) /\ ~ FirstRun(p)
       THEN Goto(p, "read") /\ UNCHANGED mem
       ELSE GoesOn(p)
  /\ UNCHANGED <<job, view, work, lock, file, book, stray, world, posted>>

(* The second read of the positions against the state file: a mismatch     *)
(* halts, except on the first run.                                         *)
Reconciles(p) ==
  /\ pc[p] = "reconcile"
  /\ IF Mismatch(p) /\ ~ FirstRun(p)
       THEN Goto(p, "save") /\ UNCHANGED mem
       ELSE GoesOn(p)
  /\ UNCHANGED <<job, view, work, lock, file, book, stray, world, posted>>

(* The plan is the way from the positions read first to the target; a      *)
(* target with an overlay that wants none is an error.  A dry run ends.    *)
Plans(p) ==
  /\ pc[p] = "plan"
  /\ derisk_now(p) \/ ~ (WithOverlay /\ view[p].goal)
  /\ \E t \in IF derisk_now(p) THEN {0} ELSE Targets :
       IF job[p] = "dry" THEN Return(p)
       ELSE /\ work' = [work EXCEPT ![p].qty = t - view[p].positions]
            /\ Goto(p, "cancel")
            /\ UNCHANGED <<job, mem, view, lock>>
  /\ UNCHANGED <<file, book, stray, world, posted>>

(* Stale data or too little capital: halt. *)
PlanHalts(p) ==
  /\ pc[p] = "plan" /\ ~ derisk_now(p)
  /\ Goto(p, "save")
  /\ UNCHANGED <<job, mem, view, work, lock, file, book, stray, world, posted>>

(* An exception before the orders: the round ends, and nothing is saved.   *)
Raises(p) ==
  /\ \/ pc[p] \in {"read", "reconcile", "plan", "kill", "close", "look"} /\ Mishap("raise")
     \/ pc[p] = "plan" /\ ~ derisk_now(p) /\ WithOverlay /\ view[p].goal /\ AsUsual
  /\ Fail(p)
  /\ UNCHANGED <<file, book, stray, market, posted>>

(* cancel_all takes every order of the symbol off, whoever sent it.        *)
AllCanceled ==
  /\ stray' = NoStray
  /\ work' = [q \in Procs |-> [work[q] EXCEPT !.resting = FALSE]]

(* The orders left over by an earlier round; the answer is not looked at.  *)
Cancels(p) ==
  /\ pc[p] = "cancel"
  /\ IF work[p].qty # 0 \/ view[p].positions # 0
       THEN \/ AllCanceled /\ AsUsual
            \/ Mishap("cancel") /\ UNCHANGED <<stray, work>>
       ELSE AsUsual /\ UNCHANGED <<stray, work>>
  /\ Goto(p, "post")
  /\ UNCHANGED <<job, mem, view, lock, file, book, market, posted>>

(* execute_with_fallback: the order goes out, ... *)
Posts(p) ==
  /\ pc[p] = "post"
  /\ work' = [work EXCEPT ![p].resting = work[p].qty # 0]
  /\ posted' = view[p].now
  /\ Goto(p, "working")
  /\ UNCHANGED <<job, mem, view, lock, file, book, stray, world>>

(* ... and in the end it is off the book, and a market order has traded    *)
(* what was missing or nothing has; or the cancel had no effect.           *)
Works(p) ==
  /\ pc[p] = "working"
  /\ \/ Resting(p) /\ Mishap("cancel") /\ Abandon(p)
     \/ AsUsual /\ UNCHANGED stray
  /\ book' \in {book, book + work[p].qty}
  /\ work' = [work EXCEPT ![p] = NoWork]
  /\ Goto(p, "settle")
  /\ UNCHANGED <<job, mem, view, lock, file, market, posted>>

Settled(p, positions) ==
  [mem[p] EXCEPT !.positions = positions, !.last = view[p].now, !.ever = TRUE]

(* Mutant: the round is not counted.                                       *)
SettlesUncounted(p) ==
  /\ pc[p] = "settle"
  /\ mem' = [mem EXCEPT ![p].positions = book]
  /\ Goto(p, "record")
  /\ UNCHANGED <<job, view, work, lock, file, book, stray, world, posted>>

(* _settle_positions, in the finally branch: the book as it is, or empty   *)
(* when it cannot be read.                                                 *)
Settles(p) ==
  /\ pc[p] = "settle"
  /\ \/ mem' = [mem EXCEPT ![p] = Settled(p, book)] /\ AsUsual
     \/ mem' = [mem EXCEPT ![p] = Settled(p, 0)] /\ Mishap("settle")
  /\ Goto(p, "record")
  /\ UNCHANGED <<job, view, work, lock, file, book, stray, market, posted>>

(* StateStore.save: the file is replaced in one step.  A book that is not  *)
(* neutral after the round makes it save the same state once more.         *)
Records(p) ==
  /\ pc[p] = "record"
  /\ file' = mem[p]
  /\ Return(p) \/ (Goto(p, "save") /\ UNCHANGED <<job, mem, view, work, lock>>)
  /\ UNCHANGED <<book, stray, world, posted>>

Saves(p) ==
  /\ pc[p] = "save"
  /\ file' = mem[p]
  /\ Return(p)
  /\ UNCHANGED <<book, stray, world, posted>>
-----------------------------------------------------------------------------
(* kill() and sync *)

KillReads(p) ==
  /\ pc[p] = "kill"
  /\ view' = [view EXCEPT ![p].positions = book]
  /\ Goto(p, "close")
  /\ UNCHANGED <<job, mem, work, lock, file, book, stray, world, posted>>

(* What a reduce-only market order of size amt makes of the position.      *)
Reduced(amt) ==
  IF amt * book <= 0 THEN book
  ELSE IF Abs(amt) >= Abs(book) THEN 0 ELSE book - amt

(* kill_switch: only a symbol with a position has its orders canceled.     *)
KillCloses(p) ==
  /\ pc[p] = "close"
  /\ IF view[p].positions = 0 THEN AsUsual /\ UNCHANGED <<stray, work, book>>
     ELSE \/ AllCanceled /\ book' = Reduced(view[p].positions) /\ AsUsual
          \/ UNCHANGED <<stray, work>> /\ book' = Reduced(view[p].positions)
             /\ Mishap("cancel")
          \/ AllCanceled /\ UNCHANGED book /\ Mishap("refusal")
  /\ Goto(p, "mark")
  /\ UNCHANGED <<job, mem, view, lock, file, market, posted>>

KillMarks(p) ==
  /\ pc[p] = "mark"
  /\ mem' = [mem EXCEPT ![p] = [file EXCEPT !.dead = TRUE, !.positions = 0]]
  /\ Goto(p, "save")
  /\ UNCHANGED <<job, view, work, lock, file, book, stray, world, posted>>

(* The command line loads the state before it asks the exchange, the bot   *)
(* afterwards.                                                             *)
SyncReads(p) ==
  /\ pc[p] = "look"
  /\ view' = [view EXCEPT ![p].positions = book, ![p].equity = equity]
  /\ mem' = IF p \in Bots THEN mem ELSE [mem EXCEPT ![p] = file]
  /\ Goto(p, "sync")
  /\ UNCHANGED <<job, work, lock, file, book, stray, world, posted>>

Synced(p) ==
  [(IF p \in Bots THEN file ELSE mem[p]) EXCEPT
     !.positions = view[p].positions, !.peak = Max({@, view[p].equity})]

(* Mutant: the state is written anew, not the one found.                   *)
SyncsAnew(p) ==
  /\ pc[p] = "sync"
  /\ mem' = [mem EXCEPT ![p] = [Fresh EXCEPT !.positions = view[p].positions,
                                             !.peak = view[p].equity]]
  /\ Goto(p, "save")
  /\ UNCHANGED <<job, view, work, lock, file, book, stray, world, posted>>

(* The book and the peak are brought up to date, everything else stays.    *)
Syncs(p) ==
  /\ pc[p] = "sync"
  /\ mem' = [mem EXCEPT ![p] = Synced(p)]
  /\ Goto(p, "save")
  /\ UNCHANGED <<job, view, work, lock, file, book, stray, world, posted>>
-----------------------------------------------------------------------------
(* The world. *)

OneLot(qty) == IF qty > 0 THEN 1 ELSE -1

OrderFills(p) ==
  /\ Resting(p)
  /\ book' = book + OneLot(work[p].qty)
  /\ work' = [work EXCEPT ![p] = [qty |-> @.qty - OneLot(@.qty),
                                  resting |-> @.qty # OneLot(@.qty)]]
  /\ UNCHANGED <<pc, job, mem, view, lock, file, stray, world, posted>>

StrayFills(s) ==
  /\ stray[s] > 0
  /\ stray' = [stray EXCEPT ![s] = @ - 1]
  /\ book' = IF s = "BUY" THEN book + 1 ELSE book - 1
  /\ UNCHANGED <<process, lock, file, world, posted>>

Dies(p) ==
  /\ pc[p] # "off" /\ Mishap("death")
  /\ Abandon(p) /\ Exit(p)
  /\ UNCHANGED <<file, book, market, posted>>

EquityMoves ==
  /\ equity' \in Equities
  /\ UNCHANGED <<process, lock, file, book, stray, clock, goal, mishaps, posted>>

Ticks ==
  /\ clock < MaxTime /\ clock' = clock + 1
  /\ UNCHANGED <<process, lock, file, book, stray, equity, goal, mishaps, posted>>

(* The deadline of the overlay passes. *)
GoalEnds ==
  /\ WithOverlay /\ goal' = TRUE
  /\ UNCHANGED <<process, lock, file, book, stray, equity, clock, mishaps, posted>>
-----------------------------------------------------------------------------
RunStep(p) ==
  \/ Loads(p) \/ Reads(p) \/ Reconciles(p) \/ Plans(p) \/ PlanHalts(p) \/ Raises(p)
  \/ Cancels(p) \/ Posts(p) \/ Works(p) \/ Settles(p) \/ Records(p) \/ Saves(p)

CommandStep(p) ==
  KillReads(p) \/ KillCloses(p) \/ KillMarks(p) \/ SyncReads(p) \/ Syncs(p)

Step(p) == Wakes(p) \/ RunStep(p) \/ CommandStep(p)

Next ==
  \/ \E p \in Procs : \/ Step(p) \/ Dies(p) \/ OrderFills(p)
                      \/ \E j \in Jobs(p) : Starts(p, j)
  \/ \E s \in Side : StrayFills(s)
  \/ EquityMoves \/ Ticks \/ GoalEnds

Spec == Init /\ [][Next]_vars

(* A process that runs keeps running, time passes, launchd starts the      *)
(* daemon again; nobody has to give a command.                             *)
FairSpec ==
  /\ Spec
  /\ WF_vars(Ticks)
  /\ \A p \in Procs : WF_vars(Step(p))
  /\ \A p \in Daemons : \A j \in Jobs(p) : WF_vars(Starts(p, j))
-----------------------------------------------------------------------------
Idle(p) == pc[p] \in {"off", "sleep"}
Trading(p) == pc[p] \in {"cancel", "post", "working", "settle"}

(* A process of run_daily runs exactly as long as it holds the lock.       *)
HolderRuns == \A p \in Daemons \cup Shells : pc[p] # "off" <=> lock = p

(* What a process that holds the lock knows of the state file: its copy is *)
(* the file, or goes on from it, and a round that plans or trades read a   *)
(* file that allows it.                                                    *)
CopyIsCurrent == \A p \in Procs :
  /\ pc[p] \in {"read", "reconcile", "sync"} => mem[p] = file
  /\ pc[p] \in {"plan", "cancel", "post", "working", "settle", "record", "save"} =>
       mem[p].peak >= file.peak /\ (file.dead => mem[p].dead)
  /\ pc[p] \in {"plan", "cancel", "post", "working", "settle"} =>
       /\ ~ mem[p].dead /\ file.frozen <= view[p].now
       /\ ~ Down(mem[p], view[p].equity, TIER2_DD)

(* The inductive invariant of the processes that take the lock.            *)
IInv == TypeOK /\ HolderRuns /\ CopyIsCurrent

(* Two processes never touch the money at the same time (F28).             *)
OneTrader == \A p, q \in Procs : ~ Idle(p) /\ ~ Idle(q) => p = q

(* No round sends orders while the state file says that the account is     *)
(* dead or frozen, or lost more than TIER 2 from the peak it remembers.    *)
NoTradeWhenStopped == \A p \in Procs :
  Trading(p) => /\ ~ file.dead
                /\ file.frozen <= view[p].now
                /\ ~ Down(file, view[p].equity, TIER2_DD)

(* The kill switch is permanent: whatever runs, mishaps or saves later, it *)
(* stays in the file.                                                      *)
KillIsForever == [][file.dead => file'.dead]_vars

(* The peak that the drawdown is measured from is never forgotten.         *)
PeakNeverDrops == [][file'.peak >= file.peak]_vars

(* As long as nothing goes wrong, the orders lead from the account's       *)
(* position to the target, whatever has filled on the way: with the round's *)
(* own order filled, the position is the one planned.                      *)
PlanIsCurrent == mishaps = 0 => \A p \in Procs :
  pc[p] \in {"post", "working"} /\ Resting(p) =>
    book + work[p].qty \in Targets \cup {0}

(* A rebalance that nobody forced comes at least rebalance_hours after the *)
(* orders of the last one, unless it closes the book or the last one never *)
(* got to save its time (F30).                                             *)
PaceKept == [][mishaps = 0 => \A p \in Procs :
  pc[p] = "post" /\ pc'[p] = "working" /\ job[p] = "run" /\ ~ derisk_now(p) /\ posted > 0
    => view[p].now - posted >= REBALANCE]_vars

(* Every round, kill and sync ends.                                        *)
EveryRoundEnds == \A p \in Procs : ~ Idle(p) ~> Idle(p)
=============================================================================
