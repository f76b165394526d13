----------------------------- MODULE LiveProofs -----------------------------
(***************************************************************************)
(* Theorems about the live rounds: who may run one, and which book it      *)
(* picks.                                                                  *)
(*                                                                         *)
(* The first part is about LiveCycle without bots: what the process lock   *)
(* and the state file guarantee for every number of processes, every       *)
(* schedule and every fault.  The inductive invariant IInv says that a     *)
(* process runs exactly as long as it holds the lock, so that the copy it  *)
(* loaded stays the file until it saves.                                   *)
(*                                                                         *)
(* The second part is about Selection, for every number of symbols, every  *)
(* signal, fraction, capital and minimum.  That the account picks what the *)
(* research picks rests on the three rankings of the code being one and    *)
(* the same wherever the account uses them (SameRanking); that every leg   *)
(* is paid, on the cut leaving no more names than the capital holds        *)
(* (CutFits) and a ranking no more than it ranks in (ChosenFacts).  The    *)
(* backtest is two recursions over the bars.  Both are given in closed     *)
(* form (PeriodsEnd, BarsEnd), from which they agree; and what a mark is   *)
(* combined of agrees between two histories that agree before it, because  *)
(* the row of a bar is not in the window of that row (MarksAgree).  The    *)
(* weights of engine v3 are counted with what each rounding loses          *)
(* (ProjectionFacts, ScalingFacts).                                        *)
(***************************************************************************)
EXTENDS LiveCycle, Selection, Foundations, TLAPS

USE DEF Procs

(* The larger of two numbers.                                              *)
LEMMA LargerOfTwo ==
  ASSUME NEW a \in Int, NEW b \in Int
  PROVE  Max({a, b}) = IF a >= b THEN a ELSE b
<1>1. \E x \in {a, b} : \A y \in {a, b} : x >= y
  <2>1. CASE a >= b BY <2>1
  <2>2. CASE b >= a BY <2>2
  <2> QED BY <2>1, <2>2
<1> QED BY <1>1 DEF Max

LEMMA MaxOfTwo == ASSUME NEW a \in Nat, NEW b \in Nat
                  PROVE /\ Max({a, b}) \in Nat
                        /\ Max({a, b}) >= a /\ Max({a, b}) >= b
<1>1. a \in Int /\ b \in Int OBVIOUS
<1>2. Max({a, b}) = IF a >= b THEN a ELSE b BY <1>1, LargerOfTwo
<1> QED BY <1>2

(* The breaker returns a state; it never revives, never lowers the peak,   *)
(* and lets the round go on only if nothing stops it.                      *)
LEMMA BreakerFacts ==
  ASSUME NEW s \in LiveState, NEW e \in Nat, NEW n \in Nat
  PROVE LET b == _check_circuit_breaker(s, e, n)
        IN /\ b.state \in LiveState
           /\ b.state.peak = s.peak
           /\ s.dead => b.state.dead
           /\ b.stop \in BOOLEAN
           /\ ~ b.stop => /\ b.state = s /\ ~ s.dead /\ s.frozen <= n
                          /\ ~ Down(s, e, TIER2_DD)
<1>1. CASE s.dead \/ n < s.frozen
  BY <1>1 DEF _check_circuit_breaker, LiveState
<1>2. CASE ~ (s.dead \/ n < s.frozen) /\ Down(s, e, TIER3_DD)
  BY <1>2 DEF _check_circuit_breaker, LiveState
<1>3. CASE ~ (s.dead \/ n < s.frozen) /\ ~ Down(s, e, TIER3_DD) /\ Down(s, e, TIER2_DD)
  BY <1>3, CycleAssumption DEF _check_circuit_breaker, LiveState
<1>4. CASE ~ (s.dead \/ n < s.frozen) /\ ~ Down(s, e, TIER3_DD) /\ ~ Down(s, e, TIER2_DD)
  BY <1>4 DEF _check_circuit_breaker, LiveState
<1> QED BY <1>1, <1>2, <1>3, <1>4

(* A process that exits or goes to sleep leaves well-typed variables and   *)
(* the lock with nobody or with its holder.                                *)
LEMMA ReturnFacts ==
  ASSUME TypeOK, NEW p \in Procs, Return(p) \/ Exit(p)
  PROVE /\ pc' \in [Procs -> {"off", "sleep", "load", "read", "reconcile", "plan", "cancel",
                       "post", "working", "settle", "record", "save",
                       "kill", "close", "mark", "look", "sync"}]
        /\ job' \in [Procs -> {"run", "force", "dry", "kill", "sync"}]
        /\ mem' \in [Procs -> LiveState]
        /\ view' \in [Procs -> [now : Nat, equity : Nat, positions : Int, goal : BOOLEAN]]
        /\ work' \in [Procs -> [qty : Int, resting : BOOLEAN]]
        /\ lock' \in Procs \cup {None}
        /\ pc'[p] \in {"off", "sleep"}
        /\ \A q \in Procs : q # p => /\ pc'[q] = pc[q] /\ mem'[q] = mem[q]
                                     /\ view'[q] = view[q] /\ work'[q] = work[q]
        /\ \/ pc'[p] = "sleep" /\ lock' = lock
           \/ pc'[p] = "off" /\ lock' = IF lock = p THEN None ELSE lock
<1>1. Fresh \in LiveState /\ NoView \in [now : Nat, equity : Nat, positions : Int, goal : BOOLEAN]
      /\ NoWork \in [qty : Int, resting : BOOLEAN]
  BY DEF Fresh, LiveState, NoView, NoWork
<1>2. Forget(p)
  BY DEF Return, Exit
<1>3. \/ Goto(p, "sleep") /\ lock' = lock
      \/ Goto(p, "off") /\ lock' = IF lock = p THEN None ELSE lock
  BY DEF Return, Exit
<1> QED BY <1>1, <1>2, <1>3 DEF TypeOK, Forget, Goto

(* What leaves the exchange is counted, not lost: the stray orders stay    *)
(* natural numbers.                                                        *)
LEMMA AbandonFacts ==
  ASSUME TypeOK, NEW p \in Procs, Abandon(p)
  PROVE stray' \in [Side -> Nat]
<1>1. work[p].qty \in Int /\ Abs(work[p].qty) \in Nat /\ SideOf(work[p].qty) \in Side
  BY DEF TypeOK, Abs, SideOf, Side
<1> QED BY <1>1 DEF TypeOK, Abandon

(* cancel_all empties the exchange's book and turns every order of a      *)
(* process into one that no longer rests.                                  *)
LEMMA CanceledFacts ==
  ASSUME TypeOK, AllCanceled
  PROVE stray' \in [Side -> Nat] /\ work' \in [Procs -> [qty : Int, resting : BOOLEAN]]
<1>1. \A q \in Procs : [work[q] EXCEPT !.resting = FALSE] \in [qty : Int, resting : BOOLEAN]
  <2>1. \A q \in Procs : work[q] \in [qty : Int, resting : BOOLEAN]
    BY DEF TypeOK
  <2>2. \A w \in [qty : Int, resting : BOOLEAN] :
          [w EXCEPT !.resting = FALSE] \in [qty : Int, resting : BOOLEAN]
    OBVIOUS
  <2> QED BY <2>1, <2>2, Zenon
<1> QED BY <1>1 DEF AllCanceled, NoStray

(* The state a round goes on with is well typed, keeps what stops trading, *)
(* and has at least the old peak.                                          *)
LEMMA ReconciledFacts ==
  ASSUME TypeOK, NEW p \in Procs
  PROVE /\ Reconciled(p) \in LiveState
        /\ Reconciled(p).peak >= mem[p].peak
        /\ Reconciled(p).dead = mem[p].dead
        /\ Reconciled(p).frozen = mem[p].frozen
<1>1. mem[p] \in LiveState /\ view[p].equity \in Nat /\ view[p].positions \in Int
  BY DEF TypeOK
<1>2. mem[p].peak \in Nat
  BY <1>1 DEF LiveState
<1>3. /\ Max({mem[p].peak, view[p].equity}) \in Nat
      /\ Max({mem[p].peak, view[p].equity}) >= mem[p].peak
  BY <1>1, <1>2, MaxOfTwo, Zenon
<1> DEFINE m == Max({mem[p].peak, view[p].equity})
           q == IF mem[p].positions = book THEN mem[p].positions ELSE view[p].positions
<1>4. Reconciled(p) = [mem[p] EXCEPT !.positions = q, !.peak = m]
  BY DEF Reconciled
<1>5. q \in Int
  BY <1>1 DEF LiveState
<1> HIDE DEF m, q
<1> QED BY <1>1, <1>3, <1>4, <1>5 DEF LiveState, m

(* A sync writes a well-typed state; if what it loaded is still the file,  *)
(* it is dead if the file was and has at least the file's peak.            *)
LEMMA SyncedFacts ==
  ASSUME TypeOK, NEW p \in Procs
  PROVE /\ Synced(p) \in LiveState
        /\ p \in Bots \/ mem[p] = file =>
             Synced(p).peak >= file.peak /\ Synced(p).dead = file.dead
<1> DEFINE loaded == IF p \in Bots THEN file ELSE mem[p]
           m == Max({loaded.peak, view[p].equity})
<1>1. loaded \in LiveState /\ view[p].equity \in Nat /\ view[p].positions \in Int
  BY DEF TypeOK
<1>2. Synced(p) = [loaded EXCEPT !.positions = view[p].positions, !.peak = m]
  BY DEF Synced
<1>3. p \in Bots \/ mem[p] = file => loaded = file
  OBVIOUS
<1> HIDE DEF loaded
<1>4. loaded.peak \in Nat
  BY <1>1 DEF LiveState
<1>5. m \in Nat /\ m >= loaded.peak
  BY <1>1, <1>4, MaxOfTwo, Zenon
<1> HIDE DEF m
<1> QED BY <1>1, <1>2, <1>3, <1>5 DEF LiveState

(* Every step of a process, the exchange or the clock keeps the types.     *)
LEMMA TypeStep == TypeOK /\ [Next]_vars => TypeOK'
<1> SUFFICES ASSUME TypeOK, [Next]_vars PROVE TypeOK'
  OBVIOUS
<1> USE CycleAssumption
<1>1. CASE UNCHANGED vars
  BY <1>1 DEF vars, process, world, market, TypeOK
<1>2. ASSUME NEW p \in Procs, NEW j \in Jobs(p), Starts(p, j) PROVE TypeOK'
  <2>1. j \in {"run", "force", "dry", "kill", "sync"}
    BY DEF Jobs
  <2> QED BY <1>2, <2>1 DEF Starts, Goto, First, TypeOK, world, market
<1>4. ASSUME NEW p \in Procs, Wakes(p) PROVE TypeOK'
  BY <1>4 DEF Wakes, Goto, TypeOK, world, market
<1>5. ASSUME NEW p \in Procs, Loads(p) PROVE TypeOK'
  BY <1>5 DEF Loads, Goto, TypeOK, world, market
<1>6. ASSUME NEW p \in Procs, Reads(p) PROVE TypeOK'
  <2>1. equity \in Nat /\ book \in Int /\ goal \in BOOLEAN
    BY Zenon DEF TypeOK
  <2>2. view' \in [Procs -> [now : Nat, equity : Nat, positions : Int, goal : BOOLEAN]]
    BY <1>6, <2>1 DEF Reads, TypeOK
  <2> QED BY <1>6, <2>2 DEF Reads, Goto, TypeOK, world, market
<1>7. ASSUME NEW p \in Procs, Reconciles(p) PROVE TypeOK'
  <2> DEFINE b == _check_circuit_breaker(Reconciled(p), view[p].equity, view[p].now)
  <2>1. view[p].equity \in Nat /\ view[p].now \in Nat
    BY DEF TypeOK
  <2>2. b.state \in LiveState /\ b.state.dead \in BOOLEAN
    BY <2>1, ReconciledFacts, BreakerFacts DEF LiveState
  <2>3. CASE Mismatch(p) /\ ~ FirstRun(p)
    BY <1>7, <2>3 DEF Reconciles, Goto, TypeOK, world, market
  <2>4. CASE ~ (Mismatch(p) /\ ~ FirstRun(p))
    <3>1. GoesOn(p) /\ UNCHANGED <<job, view, work, lock, file, book, stray, world, posted>>
      BY <1>7, <2>4 DEF Reconciles
    <3>2. \E l \in {"plan", "save"} : Goto(p, l)
      BY <3>1 DEF GoesOn
    <3>3. mem' = [mem EXCEPT ![p] = b.state]
      BY <3>1 DEF GoesOn
    <3> HIDE DEF b
    <3> QED BY <2>2, <3>1, <3>2, <3>3 DEF Goto, TypeOK, world, market
  <2> QED BY <2>3, <2>4
<1>8. ASSUME NEW p \in Procs, Plans(p) PROVE TypeOK'
  <2>1. PICK t \in Int :
          IF job[p] = "dry" THEN Return(p)
          ELSE /\ work' = [work EXCEPT ![p].qty = t - view[p].positions]
               /\ Goto(p, "cancel")
               /\ UNCHANGED <<job, mem, view, lock>>
    BY <1>8 DEF Plans
  <2>2. UNCHANGED <<file, book, stray, world, posted>>
    BY <1>8 DEF Plans
  <2>3. CASE job[p] = "dry"
    <3>1. Return(p)
      BY <2>1, <2>3
    <3> QED BY <2>2, <3>1, ReturnFacts DEF TypeOK, world, market
  <2>4. CASE job[p] # "dry"
    <3>1. /\ work' = [work EXCEPT ![p].qty = t - view[p].positions]
          /\ Goto(p, "cancel")
          /\ UNCHANGED <<job, mem, view, lock>>
      BY <2>1, <2>4
    <3>2. t - view[p].positions \in Int
      BY DEF TypeOK
    <3>3. work' \in [Procs -> [qty : Int, resting : BOOLEAN]]
      BY <3>1, <3>2 DEF TypeOK
    <3> QED BY <2>2, <3>1, <3>3 DEF Goto, TypeOK, world, market
  <2> QED BY <2>3, <2>4
<1>9. ASSUME NEW p \in Procs, PlanHalts(p) PROVE TypeOK'
  BY <1>9 DEF PlanHalts, Goto, TypeOK, world, market
<1>10. ASSUME NEW p \in Procs, Raises(p) PROVE TypeOK'
  <2>1. Return(p) \/ Exit(p)
    BY <1>10 DEF Raises, Fail
  <2>2. UNCHANGED <<file, book, stray, market, posted>> /\ mishaps' \in 0..MaxMishaps
    BY <1>10 DEF Raises, Mishap, AsUsual, TypeOK
  <2> QED BY <2>1, <2>2, ReturnFacts DEF TypeOK, market
<1>11. ASSUME NEW p \in Procs, Cancels(p) PROVE TypeOK'
  <2>1. (AllCanceled \/ UNCHANGED <<stray, work>>) /\ mishaps' \in 0..MaxMishaps
    BY <1>11 DEF Cancels, Mishap, AsUsual, TypeOK
  <2>2. stray' \in [Side -> Nat] /\ work' \in [Procs -> [qty : Int, resting : BOOLEAN]]
    BY <2>1, CanceledFacts DEF TypeOK
  <2> QED BY <1>11, <2>1, <2>2 DEF Cancels, Goto, TypeOK, market
<1>12. ASSUME NEW p \in Procs, Posts(p) PROVE TypeOK'
  <2> DEFINE r == work[p].qty # 0
  <2>1. r \in BOOLEAN /\ work' = [work EXCEPT ![p].resting = r]
    BY <1>12 DEF Posts
  <2> HIDE DEF r
  <2>2. work' \in [Procs -> [qty : Int, resting : BOOLEAN]]
    BY <2>1 DEF TypeOK
  <2> QED BY <1>12, <2>2 DEF Posts, Goto, TypeOK, world, market
<1>13. ASSUME NEW p \in Procs, Works(p) PROVE TypeOK'
  <2>1. stray' \in [Side -> Nat] /\ mishaps' \in 0..MaxMishaps
    BY <1>13, AbandonFacts DEF Works, Mishap, AsUsual, TypeOK
  <2>2. book' \in Int
    BY <1>13 DEF Works, TypeOK
  <2> QED BY <1>13, <2>1, <2>2 DEF Works, NoWork, Goto, TypeOK, market
<1>14. ASSUME NEW p \in Procs, Settles(p) PROVE TypeOK'
  <2>1. \A n \in Int : Settled(p, n) \in LiveState
    BY DEF Settled, LiveState, TypeOK
  <2>2. mishaps' \in 0..MaxMishaps
    BY <1>14 DEF Settles, Mishap, AsUsual, TypeOK
  <2>3. \E n \in Int : mem' = [mem EXCEPT ![p] = Settled(p, n)]
    BY <1>14 DEF Settles, TypeOK
  <2> QED BY <1>14, <2>1, <2>2, <2>3 DEF Settles, Goto, TypeOK, market
<1>15. ASSUME NEW p \in Procs, Saves(p) PROVE TypeOK'
  <2>1. Return(p)
    BY <1>15 DEF Saves
  <2> QED BY <1>15, <2>1, ReturnFacts DEF Saves, TypeOK, world, market
<1>27. ASSUME NEW p \in Procs, Records(p) PROVE TypeOK'
  <2>1. CASE Return(p)
    BY <1>27, <2>1, ReturnFacts DEF Records, TypeOK, world, market
  <2>2. CASE Goto(p, "save") /\ UNCHANGED <<job, mem, view, work, lock>>
    BY <1>27, <2>2 DEF Records, Goto, TypeOK, world, market
  <2> QED BY <1>27, <2>1, <2>2 DEF Records
<1>16. ASSUME NEW p \in Procs, KillReads(p) PROVE TypeOK'
  BY <1>16 DEF KillReads, Goto, TypeOK, world, market
<1>17. ASSUME NEW p \in Procs, KillCloses(p) PROVE TypeOK'
  <2>1. Reduced(view[p].positions) \in Int
    BY DEF Reduced, TypeOK
  <2>2. book' \in Int /\ mishaps' \in 0..MaxMishaps
    BY <1>17, <2>1 DEF KillCloses, Mishap, AsUsual, TypeOK
  <2>3. stray' \in [Side -> Nat] /\ work' \in [Procs -> [qty : Int, resting : BOOLEAN]]
    <3>1. AllCanceled \/ UNCHANGED <<stray, work>>
      BY <1>17 DEF KillCloses
    <3> QED BY <3>1, CanceledFacts DEF TypeOK
  <2> QED BY <1>17, <2>2, <2>3 DEF KillCloses, Goto, TypeOK, market
<1>18. ASSUME NEW p \in Procs, KillMarks(p) PROVE TypeOK'
  <2>1. [file EXCEPT !.dead = TRUE, !.positions = 0] \in LiveState
    <3>1. file \in LiveState
      BY DEF TypeOK
    <3>2. \A s \in LiveState : [s EXCEPT !.dead = TRUE] \in LiveState
      BY DEF LiveState
    <3>3. \A s \in LiveState : [s EXCEPT !.positions = 0] \in LiveState
      BY DEF LiveState
    <3>4. [file EXCEPT !.dead = TRUE, !.positions = 0]
            = [[file EXCEPT !.dead = TRUE] EXCEPT !.positions = 0]
      OBVIOUS
    <3> QED BY <3>1, <3>2, <3>3, <3>4
  <2> QED BY <1>18, <2>1 DEF KillMarks, Goto, TypeOK, world, market
<1>19. ASSUME NEW p \in Procs, SyncReads(p) PROVE TypeOK'
  BY <1>19 DEF SyncReads, Goto, TypeOK, world, market
<1>20. ASSUME NEW p \in Procs, Syncs(p) PROVE TypeOK'
  BY <1>20, SyncedFacts DEF Syncs, Goto, TypeOK, world, market
<1>21. ASSUME NEW p \in Procs, OrderFills(p) PROVE TypeOK'
  <2>1. OneLot(work[p].qty) \in Int
    BY DEF OneLot
  <2> QED BY <1>21, <2>1 DEF OrderFills, TypeOK, world, market
<1>22. ASSUME NEW p \in Procs, Dies(p) PROVE TypeOK'
  <2>1. Exit(p) /\ Abandon(p)
    BY <1>22 DEF Dies
  <2>2. UNCHANGED <<file, book, market, posted>> /\ mishaps' \in 0..MaxMishaps
    BY <1>22 DEF Dies, Mishap, TypeOK
  <2> QED BY <2>1, <2>2, ReturnFacts, AbandonFacts DEF TypeOK, market
<1>23. ASSUME NEW s \in Side, StrayFills(s) PROVE TypeOK'
  BY <1>23 DEF StrayFills, TypeOK, process, world, market
<1>24. CASE EquityMoves
  BY <1>24 DEF EquityMoves, TypeOK, process
<1>25. CASE Ticks
  BY <1>25 DEF Ticks, TypeOK, process
<1>26. CASE GoalEnds
  BY <1>26 DEF GoalEnds, TypeOK, process
<1> QED
  BY <1>1, <1>2, <1>4, <1>5, <1>6, <1>7, <1>8, <1>9, <1>10, <1>11, <1>12, <1>13,
     <1>14, <1>15, <1>16, <1>17, <1>18, <1>19, <1>20, <1>21, <1>22, <1>23, <1>24, <1>25, <1>26,
     <1>27
     DEF Next, Step, RunStep, CommandStep
-----------------------------------------------------------------------------
(* A step of a running process leaves it running and the lock alone, or    *)
(* ends its job.                                                           *)
LEMMA StepShape ==
  ASSUME TypeOK, NEW p \in Procs, Step(p)
  PROVE /\ pc[p] # "off"
        /\ \/ Return(p) \/ Exit(p)
           \/ (UNCHANGED pc \/ \E l \in {"sleep", "load", "read", "reconcile", "plan",
                 "cancel", "post", "working", "settle", "record", "save", "kill", "close", "mark",
                 "look", "sync"} : Goto(p, l)) /\ UNCHANGED lock
<1>1. CASE Wakes(p) \/ Loads(p) \/ Reads(p) \/ PlanHalts(p) \/ Cancels(p) \/ Posts(p)
           \/ Works(p) \/ Settles(p)
  BY <1>1 DEF Wakes, Loads, Reads, PlanHalts, Cancels, Posts, Works, Settles
<1>2. CASE CommandStep(p)
  BY <1>2 DEF CommandStep, KillReads, KillCloses, KillMarks, SyncReads, Syncs
<1>3. CASE Reconciles(p)
  BY <1>3 DEF Reconciles, GoesOn
<1>4. CASE Plans(p)
  BY <1>4 DEF Plans
<1>5. CASE Raises(p)
  BY <1>5 DEF Raises, Fail
<1>6. CASE Saves(p) \/ Records(p)
  BY <1>6 DEF Saves, Records
<1> QED BY <1>1, <1>2, <1>3, <1>4, <1>5, <1>6 DEF Step, RunStep

(* Mutual exclusion: without bots, who runs holds the lock.                *)
LEMMA HolderStep ==
  ASSUME Bots = {}, TypeOK, HolderRuns, [Next]_vars
  PROVE HolderRuns'
<1> USE CycleAssumption
<1>1. CASE UNCHANGED vars
  BY <1>1 DEF vars, process, HolderRuns
<1>2. ASSUME NEW p \in Procs, Return(p) \/ Exit(p), pc[p] # "off" PROVE HolderRuns'
  BY <1>2, ReturnFacts DEF HolderRuns
<1>3. ASSUME NEW p \in Procs, Step(p) PROVE HolderRuns'
  <2>1. pc[p] # "off"
    BY <1>3, StepShape
  <2>2. CASE Return(p) \/ Exit(p)
    BY <1>2, <2>1, <2>2
  <2>3. CASE (UNCHANGED pc \/ \E l \in {"sleep", "load", "read", "reconcile", "plan",
                 "cancel", "post", "working", "settle", "record", "save", "kill", "close", "mark",
                 "look", "sync"} : Goto(p, l)) /\ UNCHANGED lock
    BY <2>1, <2>3 DEF Goto, TypeOK, HolderRuns
  <2> QED BY <1>3, <2>2, <2>3, StepShape
<1>4. ASSUME NEW p \in Procs, Dies(p) PROVE HolderRuns'
  BY <1>2, <1>4 DEF Dies
<1>5. ASSUME NEW p \in Procs, NEW j \in Jobs(p), Starts(p, j) PROVE HolderRuns'
  <2>1. \E l \in {"sleep", "load", "kill", "look"} : Goto(p, l)
    BY <1>5 DEF Starts, First
  <2>2. pc[p] = "off" /\ lock = None /\ lock' = p
    BY <1>5 DEF Starts
  <2> QED BY <2>1, <2>2 DEF Goto, TypeOK, HolderRuns
<1>6. ASSUME UNCHANGED <<pc, lock>> PROVE HolderRuns'
  BY <1>6 DEF HolderRuns
<1> QED
  BY <1>1, <1>3, <1>4, <1>5, <1>6
     DEF Next, OrderFills, StrayFills, EquityMoves, Ticks, GoalEnds, process

(* Hence the others are off while one runs.                                *)
LEMMA AloneWithLock ==
  ASSUME Bots = {}, HolderRuns, NEW p \in Procs, NEW q \in Procs,
         pc[p] # "off", pc[q] # "off"
  PROVE p = q
BY DEF HolderRuns

(* What CopyIsCurrent says of one process.                                 *)
Current(p) ==
  /\ pc[p] \in {"read", "reconcile", "sync"} => mem[p] = file
  /\ pc[p] \in {"plan", "cancel", "post", "working", "settle", "record", "save"} =>
       mem[p].peak >= file.peak /\ (file.dead => mem[p].dead)
  /\ pc[p] \in {"plan", "cancel", "post", "working", "settle"} =>
       /\ ~ mem[p].dead /\ file.frozen <= view[p].now
       /\ ~ Down(mem[p], view[p].equity, TIER2_DD)

(* CopyIsCurrent, process by process.                                      *)
LEMMA CopyIsCurrentEverywhere == CopyIsCurrent <=> \A p \in Procs : Current(p)
BY DEF CopyIsCurrent, Current

(* A process that a step leaves alone stays current, unless the file moves. *)
LEMMA OthersStayCurrent ==
  ASSUME NEW q \in Procs, Current(q), pc'[q] = pc[q], mem'[q] = mem[q],
         view'[q] = view[q], file' = file
  PROVE Current(q)'
BY DEF Current, Down

(* The breaker's answer makes the process current: a round goes on only    *)
(* with a file that lets it, and keeps whatever the file says.             *)
LEMMA ReconcileStaysCurrent ==
  ASSUME TypeOK, NEW p \in Procs, Current(p), Reconciles(p)
  PROVE Current(p)'
<1> DEFINE r == Reconciled(p)
           b == _check_circuit_breaker(r, view[p].equity, view[p].now)
<1>1. mem[p] = file /\ mem[p] \in LiveState /\ view[p].equity \in Nat /\ view[p].now \in Nat
  BY DEF Reconciles, Current, TypeOK
<1>2. mem[p].peak \in Nat /\ mem[p].frozen \in Nat
  BY <1>1 DEF LiveState
<1>3. r \in LiveState /\ r.peak >= file.peak /\ r.dead = file.dead /\ r.frozen = file.frozen
  BY <1>1, ReconciledFacts
<1>4. /\ b.state.peak = r.peak /\ (r.dead => b.state.dead)
      /\ ~ b.stop => /\ b.state = r /\ ~ r.dead /\ r.frozen <= view[p].now
                     /\ ~ Down(r, view[p].equity, TIER2_DD)
  BY <1>1, <1>3, BreakerFacts
<1>5. view' = view /\ file' = file
  BY DEF Reconciles
<1>6. CASE Mismatch(p) /\ ~ FirstRun(p)
  <2>1. pc'[p] = "save" /\ mem' = mem
    BY <1>6 DEF Reconciles, Goto, TypeOK
  <2> QED BY <1>1, <1>2, <1>5, <2>1 DEF Current
<1>7. CASE ~ (Mismatch(p) /\ ~ FirstRun(p))
  <2>1. GoesOn(p)
    BY <1>7 DEF Reconciles
  <2>2. mem'[p] = b.state
    BY <2>1 DEF GoesOn, TypeOK
  <2>3. pc'[p] = "save" \/ (pc'[p] = "plan" /\ ~ b.stop)
    BY <2>1 DEF GoesOn, Goto, TypeOK
  <2> HIDE DEF b, r
  <2> QED BY <1>3, <1>4, <1>5, <2>2, <2>3 DEF Current, Down
<1> QED BY <1>6, <1>7

(* A step of p other than a save keeps p current and touches no copy of    *)
(* another process.                                                        *)
LEMMA RunnerStaysCurrent ==
  ASSUME Bots = {}, TypeOK, NEW p \in Procs, Current(p), Step(p), ~ (Saves(p) \/ Records(p))
  PROVE /\ Current(p)' /\ file' = file
        /\ \A q \in Procs : q # p => /\ pc'[q] = pc[q] /\ mem'[q] = mem[q]
                                     /\ view'[q] = view[q]
<1>1. ASSUME Return(p) \/ Exit(p), file' = file
      PROVE /\ Current(p)' /\ file' = file
            /\ \A q \in Procs : q # p => /\ pc'[q] = pc[q] /\ mem'[q] = mem[q]
                                         /\ view'[q] = view[q]
  BY <1>1, ReturnFacts DEF Current
<1>2. CASE Wakes(p)
  BY <1>2 DEF Wakes, Goto, Current, TypeOK
<1>3. CASE Loads(p)
  BY <1>3 DEF Loads, Goto, Current, TypeOK
<1>4. CASE Reads(p)
  BY <1>4 DEF Reads, Goto, Current, TypeOK
<1>5. CASE Reconciles(p)
  <2>1. Current(p)'
    BY <1>5, ReconcileStaysCurrent
  <2> QED BY <1>5, <2>1 DEF Reconciles, GoesOn, Goto, TypeOK
<1>6. CASE Plans(p)
  <2>1. CASE Return(p)
    BY <1>1, <1>6, <2>1 DEF Plans
  <2>2. CASE Goto(p, "cancel") /\ UNCHANGED <<job, mem, view, lock>>
    BY <1>6, <2>2 DEF Plans, Goto, Current, Down, TypeOK
  <2> QED BY <1>6, <2>1, <2>2 DEF Plans
<1>7. CASE PlanHalts(p)
  BY <1>7 DEF PlanHalts, Goto, Current, TypeOK
<1>8. CASE Raises(p)
  BY <1>1, <1>8 DEF Raises, Fail
<1>9. CASE Cancels(p)
  BY <1>9 DEF Cancels, Goto, Current, Down, TypeOK
<1>10. CASE Posts(p)
  BY <1>10 DEF Posts, Goto, Current, Down, TypeOK
<1>11. CASE Works(p)
  BY <1>11 DEF Works, Goto, Current, Down, TypeOK
<1>12. CASE Settles(p)
  <2>1. /\ mem'[p].peak = mem[p].peak /\ mem'[p].dead = mem[p].dead
        /\ \A q \in Procs : q # p => mem'[q] = mem[q]
    <3>1. PICK n : mem' = [mem EXCEPT ![p] = Settled(p, n)]
      BY <1>12 DEF Settles
    <3>2. mem[p] \in LiveState /\ mem'[p] = Settled(p, n)
      BY <3>1 DEF TypeOK
    <3>3. Settled(p, n).peak = mem[p].peak /\ Settled(p, n).dead = mem[p].dead
      BY <3>2 DEF Settled, LiveState
    <3> QED BY <3>1, <3>2, <3>3
  <2>2. pc[p] = "settle" /\ pc'[p] = "record" /\ file' = file /\ view' = view
        /\ \A q \in Procs : q # p => pc'[q] = pc[q]
    BY <1>12 DEF Settles, Goto, TypeOK
  <2> QED BY <2>1, <2>2 DEF Current
<1>13. CASE KillReads(p)
  BY <1>13 DEF KillReads, Goto, Current, TypeOK
<1>14. CASE KillCloses(p)
  BY <1>14 DEF KillCloses, Goto, Current, TypeOK
<1>15. CASE KillMarks(p)
  <2>1. file \in LiveState /\ file.peak \in Nat
    BY DEF TypeOK, LiveState
  <2>2. mem'[p].peak = file.peak /\ mem'[p].dead
    BY <1>15, <2>1 DEF KillMarks, LiveState, TypeOK
  <2> QED BY <1>15, <2>1, <2>2 DEF KillMarks, Goto, Current, TypeOK
<1>16. CASE SyncReads(p)
  BY <1>16 DEF SyncReads, Goto, Current, TypeOK
<1>17. CASE Syncs(p)
  <2>1. mem'[p] = Synced(p)
    BY <1>17 DEF Syncs, TypeOK
  <2> QED BY <1>17, <2>1, SyncedFacts DEF Syncs, Goto, Current, TypeOK
<1> QED
  BY <1>2, <1>3, <1>4, <1>5, <1>6, <1>7, <1>8, <1>9, <1>10, <1>11, <1>12, <1>13,
     <1>14, <1>15, <1>16, <1>17 DEF Step, RunStep, CommandStep

(* A step of the program, the exchange or the clock keeps every copy       *)
(* current: only the lock's holder runs, so only it can save.              *)
LEMMA CopyStep ==
  ASSUME Bots = {}, TypeOK, HolderRuns, \A q \in Procs : Current(q), [Next]_vars,
         NEW q \in Procs
  PROVE Current(q)'
<1>1. ASSUME UNCHANGED <<pc, mem, view, file>> PROVE Current(q)'
  BY <1>1, OthersStayCurrent
<1>2. ASSUME NEW p \in Procs, Step(p), ~ (Saves(p) \/ Records(p)) PROVE Current(q)'
  <2>1. CASE q = p
    BY <1>2, <2>1, RunnerStaysCurrent
  <2>2. CASE q # p
    <3>1. pc'[q] = pc[q] /\ mem'[q] = mem[q] /\ view'[q] = view[q] /\ file' = file
      BY <1>2, <2>2, RunnerStaysCurrent
    <3> QED BY <3>1, OthersStayCurrent
  <2> QED BY <2>1, <2>2
<1>3. ASSUME NEW p \in Procs, Saves(p) PROVE Current(q)'
  <2>1. pc[p] # "off" /\ Return(p)
    BY <1>3 DEF Saves
  <2>2. pc'[q] \in {"off", "sleep"}
    BY <2>1, ReturnFacts, AloneWithLock
  <2> QED BY <2>2 DEF Current
<1>7. ASSUME NEW p \in Procs, Records(p) PROVE Current(q)'
  <2>1. CASE Return(p)
    <3>1. pc'[q] \in {"off", "sleep"}
      BY <1>7, <2>1, ReturnFacts, AloneWithLock DEF Records
    <3> QED BY <3>1 DEF Current
  <2>2. CASE Goto(p, "save") /\ mem' = mem
    <3>1. q # p => pc[q] = "off" /\ pc'[q] = "off"
      BY <1>7, <2>2, AloneWithLock DEF Records, Goto, TypeOK
    <3>2. q = p => /\ pc'[q] = "save" /\ file' = mem[p] /\ mem'[q] = mem[p]
      BY <1>7, <2>2 DEF Records, Goto, TypeOK
    <3>3. mem[p].peak \in Nat
      BY DEF TypeOK, LiveState
    <3> QED BY <3>1, <3>2, <3>3 DEF Current
  <2> QED BY <1>7, <2>1, <2>2 DEF Records
<1>4. ASSUME NEW p \in Procs, Dies(p) PROVE Current(q)'
  <2>1. Exit(p) /\ file' = file
    BY <1>4 DEF Dies
  <2>2. CASE q = p
    BY <2>1, <2>2, ReturnFacts DEF Current
  <2>3. CASE q # p
    <3>1. pc'[q] = pc[q] /\ mem'[q] = mem[q] /\ view'[q] = view[q]
      BY <2>1, <2>3, ReturnFacts
    <3> QED BY <2>1, <3>1, OthersStayCurrent
  <2> QED BY <2>2, <2>3
<1>5. ASSUME NEW p \in Procs, NEW j \in Jobs(p), Starts(p, j) PROVE Current(q)'
  <2>1. \E l \in {"sleep", "load", "kill", "look"} : Goto(p, l)
    BY <1>5 DEF Starts, First
  <2>2. UNCHANGED <<mem, view, file>>
    BY <1>5 DEF Starts
  <2>3. CASE q = p
    BY <2>1, <2>3 DEF Goto, Current, TypeOK
  <2>4. CASE q # p
    <3>1. pc'[q] = pc[q]
      BY <2>1, <2>4 DEF Goto, TypeOK
    <3> QED BY <2>2, <3>1, OthersStayCurrent
  <2> QED BY <2>3, <2>4
<1>6. CASE UNCHANGED vars
  BY <1>1, <1>6 DEF vars, process
<1> QED
  BY <1>1, <1>2, <1>3, <1>4, <1>5, <1>6, <1>7
     DEF Next, OrderFills, StrayFills, EquityMoves, Ticks, GoalEnds, process
-----------------------------------------------------------------------------
(* The inductive invariant holds in every run without bots: the lock is    *)
(* held by who runs, and the holder's copy of the state is the file's or   *)
(* goes on from it.                                                        *)
THEOREM LockedCopy == ASSUME Bots = {} PROVE Spec => []IInv
<1>1. Init => IInv
  <2> SUFFICES ASSUME Init PROVE IInv
    OBVIOUS
  <2>1. TypeOK
    <3>1. Fresh \in LiveState /\ NoStray \in [Side -> Nat]
          /\ NoView \in [now : Nat, equity : Nat, positions : Int, goal : BOOLEAN]
          /\ NoWork \in [qty : Int, resting : BOOLEAN]
      BY DEF Fresh, LiveState, NoView, NoWork, NoStray
    <3>2. clock \in 1..MaxTime /\ mishaps \in 0..MaxMishaps
      BY CycleAssumption DEF Init
    <3>3. posted \in Nat
      BY DEF Init
    <3>4. /\ mem \in [Procs -> LiveState]
          /\ view \in [Procs -> [now : Nat, equity : Nat, positions : Int, goal : BOOLEAN]]
          /\ work \in [Procs -> [qty : Int, resting : BOOLEAN]]
          /\ file \in LiveState /\ stray \in [Side -> Nat]
      BY <3>1 DEF Init
    <3>5. /\ lock \in Procs \cup {None} /\ book \in Int
          /\ equity \in Equities
      BY DEF Init
    <3>7. goal \in BOOLEAN
      BY Zenon DEF Init
    <3>6. /\ pc \in [Procs -> {"off", "sleep", "load", "read", "reconcile", "plan", "cancel",
                       "post", "working", "settle", "record", "save",
                       "kill", "close", "mark", "look", "sync"}]
          /\ job \in [Procs -> {"run", "force", "dry", "kill", "sync"}]
      BY DEF Init
    <3> QED BY <3>2, <3>3, <3>4, <3>5, <3>6, <3>7 DEF TypeOK
  <2>2. HolderRuns /\ CopyIsCurrent
    BY CycleAssumption DEF Init, HolderRuns, CopyIsCurrent
  <2> QED BY <2>1, <2>2 DEF IInv
<1>2. IInv /\ [Next]_vars => IInv'
  <2> SUFFICES ASSUME IInv, [Next]_vars PROVE IInv'
    OBVIOUS
  <2>1. TypeOK /\ HolderRuns /\ \A q \in Procs : Current(q)
    BY CopyIsCurrentEverywhere DEF IInv
  <2>2. TypeOK'
    BY <2>1, TypeStep
  <2>3. HolderRuns'
    BY <2>1, HolderStep
  <2>4. \A q \in Procs : Current(q)'
    BY <2>1, CopyStep
  <2>5. CopyIsCurrent'
    BY <2>4 DEF CopyIsCurrent, Current
  <2> QED BY <2>2, <2>3, <2>5 DEF IInv
<1> QED BY <1>1, <1>2, PTL DEF Spec

(* F28: two processes that take the lock never touch the money together.   *)
THEOREM MutualExclusion == ASSUME Bots = {} PROVE Spec => []OneTrader
<1>1. IInv => OneTrader
  BY AloneWithLock DEF IInv, OneTrader, Idle
<1> QED BY <1>1, LockedCopy, PTL

(* No round trades on a dead, frozen or too far fallen account.            *)
THEOREM StoppedMeansStopped == ASSUME Bots = {} PROVE Spec => []NoTradeWhenStopped
<1>1. IInv => NoTradeWhenStopped
  <2> SUFFICES ASSUME IInv, NEW p \in Procs, Trading(p)
               PROVE /\ ~ file.dead /\ file.frozen <= view[p].now
                     /\ ~ Down(file, view[p].equity, TIER2_DD)
    BY DEF NoTradeWhenStopped
  <2>1. /\ mem[p].peak >= file.peak /\ (file.dead => mem[p].dead)
        /\ ~ mem[p].dead /\ file.frozen <= view[p].now
        /\ ~ Down(mem[p], view[p].equity, TIER2_DD)
    BY DEF IInv, CopyIsCurrent, Trading
  <2>2. mem[p].peak \in Nat /\ file.peak \in Nat /\ view[p].equity \in Nat
    BY DEF IInv, TypeOK, LiveState
  <2> QED BY <2>1, <2>2 DEF Down, TIER2_DD
<1> QED BY <1>1, LockedCopy, PTL

(* What a save may do to the file.                                         *)
LEMMA FileStep ==
  ASSUME IInv, [Next]_vars
  PROVE file' = file \/ (file'.peak >= file.peak /\ (file.dead => file'.dead))
<1>1. ASSUME NEW p \in Procs, Saves(p) \/ Records(p)
      PROVE file'.peak >= file.peak /\ (file.dead => file'.dead)
  BY <1>1 DEF Saves, Records, IInv, CopyIsCurrent
<1>2. ASSUME NEW p \in Procs, Step(p), ~ (Saves(p) \/ Records(p)) PROVE file' = file
  BY <1>2 DEF Step, RunStep, CommandStep, Wakes, Loads, Reads, Reconciles, Plans, PlanHalts,
     Raises, Cancels, Posts, Works, Settles, KillReads, KillCloses, KillMarks, SyncReads, Syncs
<1> QED
  BY <1>1, <1>2
     DEF Next, Starts, Dies, OrderFills, StrayFills, EquityMoves, Ticks,
         GoalEnds, vars

(* The kill switch is permanent.                                           *)
THEOREM KillIsPermanent == ASSUME Bots = {} PROVE Spec => KillIsForever
<1>1. IInv /\ [Next]_vars => [file.dead => file'.dead]_vars
  BY FileStep
<1> QED BY <1>1, LockedCopy, PTL DEF Spec, KillIsForever

(* The peak never drops.                                                   *)
THEOREM PeakIsKept == ASSUME Bots = {} PROVE Spec => PeakNeverDrops
<1>1. IInv /\ [Next]_vars => [file'.peak >= file.peak]_vars
  <2> SUFFICES ASSUME IInv, [Next]_vars PROVE file'.peak >= file.peak
    OBVIOUS
  <2>1. file.peak \in Nat
    BY DEF IInv, TypeOK, LiveState
  <2> QED BY <2>1, FileStep
<1> QED BY <1>1, LockedCopy, PTL DEF Spec, PeakNeverDrops
-----------------------------------------------------------------------------
(* The state s knows the time of the latest orders.                        *)
Remembers(s) == posted > 0 => s.ever /\ s.last = posted

(* What holds of a process while nothing has gone wrong: its order rests   *)
(* only while execute_with_fallback runs, the positions it read are the    *)
(* book until it trades, its order leads to a target, and its copy of the  *)
(* state knows the time of the latest orders.                              *)
Undisturbed(p) ==
  /\ Resting(p) => pc[p] = "working"
  /\ pc[p] \in {"reconcile", "plan"} => view[p].positions = book
  /\ pc[p] \in {"cancel", "post"} \/ Resting(p) => book + work[p].qty \in Targets \cup {0}
  /\ pc[p] \in {"plan", "cancel", "post"} => due(p) \/ derisk_now(p)
  /\ pc[p] \in {"working", "settle"} => view[p].now = posted
  /\ pc[p] \in {"read", "reconcile", "plan", "cancel", "post", "record", "save", "sync"} =>
       Remembers(mem[p])

Fine(p) ==
  /\ stray = NoStray
  /\ Undisturbed(p)
  /\ pc[p] \notin {"working", "settle", "record"} => Remembers(file)

NothingAmiss == mishaps = 0 =>
  /\ stray = NoStray
  /\ (\A p \in Procs : pc[p] \notin {"working", "settle", "record"}) => Remembers(file)
  /\ \A p \in Procs : Undisturbed(p)

(* What the breaker and the reconciliation leave alone.                    *)
LEMMA ReconcileKeepsTime ==
  ASSUME TypeOK, NEW p \in Procs
  PROVE  LET b == _check_circuit_breaker(Reconciled(p), view[p].equity, view[p].now)
         IN /\ b.state.ever = mem[p].ever /\ b.state.last = mem[p].last
            /\ mem[p].positions = book => b.state.positions = mem[p].positions
<1> DEFINE r == Reconciled(p)
           b == _check_circuit_breaker(r, view[p].equity, view[p].now)
<1>1. mem[p] \in LiveState /\ r \in LiveState
  BY ReconciledFacts DEF TypeOK
<1>2. /\ r.ever = mem[p].ever /\ r.last = mem[p].last
      /\ mem[p].positions = book => r.positions = mem[p].positions
  <2> DEFINE m == Max({mem[p].peak, view[p].equity})
             q == IF mem[p].positions = book THEN mem[p].positions ELSE view[p].positions
  <2>1. r = [mem[p] EXCEPT !.positions = q, !.peak = m]
    BY DEF Reconciled
  <2>2. mem[p].positions = book => q = mem[p].positions
    OBVIOUS
  <2> HIDE DEF m, q, r
  <2> QED BY <1>1, <2>1, <2>2 DEF LiveState
<1>3. b.state.ever = r.ever /\ b.state.last = r.last /\ b.state.positions = r.positions
  <2> HIDE DEF r
  <2> QED BY <1>1 DEF _check_circuit_breaker, LiveState
<1> QED BY <1>2, <1>3

LEMMA ReconcilesFine ==
  ASSUME TypeOK, NEW p \in Procs, Fine(p), Reconciles(p)
  PROVE  Fine(p)'
<1> DEFINE b == _check_circuit_breaker(Reconciled(p), view[p].equity, view[p].now)
<1>1. /\ b.state.ever = mem[p].ever /\ b.state.last = mem[p].last
      /\ mem[p].positions = book => b.state.positions = mem[p].positions
  BY ReconcileKeepsTime
<1>2. /\ pc[p] = "reconcile" /\ ~ Resting(p) /\ view[p].positions = book
      /\ Remembers(mem[p]) /\ Remembers(file) /\ stray = NoStray
      /\ UNCHANGED <<job, view, work, lock, file, book, stray, world, posted>>
  BY DEF Fine, Undisturbed, Reconciles
<1> HIDE DEF b
<1>3. CASE Mismatch(p) /\ ~ FirstRun(p)
  <2>1. pc'[p] = "save" /\ mem' = mem
    BY <1>3 DEF Reconciles, Goto, TypeOK
  <2> QED BY <1>2, <2>1 DEF Fine, Undisturbed, Remembers, Resting
<1>4. CASE ~ (Mismatch(p) /\ ~ FirstRun(p))
  <2>1. /\ mem'[p] = b.state
        /\ pc'[p] = "save" \/ (pc'[p] = "plan" /\ (due(p) \/ derisk_now(p)))
    BY <1>4 DEF Reconciles, GoesOn, Goto, TypeOK, b
  <2>2. due(p)' <=> due(p)
    BY <1>1, <1>2, <2>1 DEF due, Due
  <2>3. ASSUME derisk_now(p) PROVE derisk_now(p)'
    <3>1. mem[p].ever
      BY <2>3 DEF derisk_now, due, Due
    <3>2. mem[p].positions = book
      BY <1>4, <3>1 DEF Mismatch, FirstRun
    <3> QED BY <1>1, <1>2, <2>1, <2>2, <2>3, <3>2 DEF derisk_now
  <2>4. Remembers(mem[p])' /\ Remembers(file)'
    BY <1>1, <1>2, <2>1 DEF Remembers
  <2> QED BY <1>2, <2>1, <2>2, <2>3, <2>4 DEF Fine, Undisturbed, Resting
<1> QED BY <1>3, <1>4
(* A job that is over leaves nothing behind.                               *)
LEMMA ReturnFine ==
  ASSUME TypeOK, NEW p \in Procs, Return(p) \/ Exit(p), stray' = NoStray, Remembers(file)'
  PROVE  Fine(p)'
<1>1. pc'[p] \in {"off", "sleep"}
  BY ReturnFacts
<1>2. work'[p] = NoWork
  BY DEF Return, Exit, Forget, TypeOK
<1> QED BY <1>1, <1>2 DEF Fine, Undisturbed, Resting, NoWork

LEMMA PlansFine ==
  ASSUME TypeOK, NEW p \in Procs, Fine(p), Plans(p)
  PROVE  Fine(p)'
<1>1. /\ pc[p] = "plan" /\ ~ Resting(p) /\ view[p].positions = book
      /\ due(p) \/ derisk_now(p)
      /\ Remembers(mem[p]) /\ Remembers(file) /\ stray = NoStray
      /\ UNCHANGED <<file, book, stray, world, posted>>
  BY DEF Fine, Undisturbed, Plans
<1>2. PICK t \in Targets \cup {0} :
        IF job[p] = "dry" THEN Return(p)
        ELSE /\ work' = [work EXCEPT ![p].qty = t - view[p].positions]
             /\ Goto(p, "cancel")
             /\ UNCHANGED <<job, mem, view, lock>>
  BY DEF Plans
<1>3. CASE Return(p)
  <2>1. stray' = NoStray /\ Remembers(file)'
    BY <1>1 DEF Remembers
  <2> QED BY <1>3, <2>1, ReturnFine
<1>4. CASE /\ work' = [work EXCEPT ![p].qty = t - view[p].positions]
           /\ Goto(p, "cancel")
           /\ UNCHANGED <<job, mem, view, lock>>
  <2>1. pc'[p] = "cancel"
    BY <1>4 DEF Goto, TypeOK
  <2>2. work'[p].qty = t - book /\ work'[p].resting = work[p].resting
    BY <1>1, <1>4 DEF TypeOK
  <2>3. book + work'[p].qty \in Targets \cup {0}
    <3>1. t \in Int /\ book \in Int
      BY CycleAssumption DEF TypeOK
    <3> QED BY <2>2, <3>1
  <2>4. (due(p)' <=> due(p)) /\ (derisk_now(p)' <=> derisk_now(p))
    BY <1>4 DEF due, derisk_now
  <2>5. Remembers(mem[p])' /\ Remembers(file)'
    BY <1>1, <1>4 DEF Remembers
  <2> QED BY <1>1, <2>1, <2>2, <2>3, <2>4, <2>5 DEF Fine, Undisturbed, Resting
<1> QED BY <1>2, <1>3, <1>4

(* The steps of a round that moves on.                                     *)
LEMMA RoundFine ==
  ASSUME TypeOK, NEW p \in Procs, Fine(p),
         Wakes(p) \/ Loads(p) \/ Reads(p) \/ PlanHalts(p)
  PROVE  Fine(p)'
<1>1. /\ pc[p] \in {"sleep", "load", "read", "plan"} /\ ~ Resting(p)
      /\ Remembers(file) /\ stray = NoStray
      /\ pc[p] \in {"read", "plan"} => Remembers(mem[p])
      /\ UNCHANGED <<job, work, lock, file, book, stray, world, posted>>
  BY DEF Fine, Undisturbed, Wakes, Loads, Reads, PlanHalts
<1>2. \/ pc[p] = "sleep" /\ pc'[p] = "load"
      \/ pc[p] = "load" /\ pc'[p] = "read" /\ mem'[p] = file
      \/ pc[p] = "read" /\ pc'[p] = "reconcile" /\ mem' = mem /\ view'[p].positions = book
      \/ pc[p] = "plan" /\ pc'[p] = "save" /\ mem' = mem
  BY DEF Wakes, Loads, Reads, PlanHalts, Goto, TypeOK
<1> QED BY <1>1, <1>2 DEF Fine, Undisturbed, Remembers, Resting

LEMMA CancelsFine ==
  ASSUME TypeOK, NEW p \in Procs, Fine(p), Cancels(p)
  PROVE  Fine(p)'
<1>1. /\ pc[p] = "cancel" /\ pc'[p] = "post" /\ ~ Resting(p) /\ stray = NoStray
      /\ book + work[p].qty \in Targets \cup {0}
      /\ due(p) \/ derisk_now(p)
      /\ Remembers(mem[p]) /\ Remembers(file)
      /\ UNCHANGED <<job, mem, view, lock, file, book, posted>>
  BY DEF Fine, Undisturbed, Cancels, Goto, TypeOK
<1>2. (AllCanceled \/ UNCHANGED <<stray, work>>)
  BY DEF Cancels
<1>3. stray' = NoStray /\ work'[p].qty = work[p].qty /\ ~ Resting(p)'
  BY <1>1, <1>2 DEF AllCanceled, TypeOK, Resting
<1>4. (due(p)' <=> due(p)) /\ (derisk_now(p)' <=> derisk_now(p))
  BY <1>1 DEF due, derisk_now
<1>5. Remembers(mem[p])' /\ Remembers(file)'
  BY <1>1 DEF Remembers
<1> QED BY <1>1, <1>3, <1>4, <1>5 DEF Fine, Undisturbed

LEMMA PostsFine ==
  ASSUME TypeOK, NEW p \in Procs, Fine(p), Posts(p)
  PROVE  Fine(p)'
<1>1. /\ pc[p] = "post" /\ pc'[p] = "working" /\ stray' = NoStray
      /\ book + work[p].qty \in Targets \cup {0}
      /\ book' = book /\ view' = view /\ posted' = view[p].now
      /\ work'[p].qty = work[p].qty
  BY DEF Fine, Undisturbed, Posts, Goto, TypeOK
<1> QED BY <1>1 DEF Fine, Undisturbed

LEMMA WorksFine ==
  ASSUME TypeOK, NEW p \in Procs, Fine(p), Works(p), UNCHANGED mishaps
  PROVE  Fine(p)'
<1>1. ~ Mishap("cancel")
  BY DEF Mishap, TypeOK
<1>2. /\ pc[p] = "working" /\ pc'[p] = "settle" /\ stray' = NoStray
      /\ view[p].now = posted /\ view' = view /\ posted' = posted
      /\ work'[p] = NoWork
  BY <1>1 DEF Fine, Undisturbed, Works, Goto, TypeOK
<1> QED BY <1>2 DEF Fine, Undisturbed, Resting, NoWork

LEMMA SettlesFine ==
  ASSUME TypeOK, NEW p \in Procs, Fine(p), Settles(p)
  PROVE  Fine(p)'
<1>1. /\ pc[p] = "settle" /\ pc'[p] = "record" /\ stray' = NoStray
      /\ view[p].now = posted /\ ~ Resting(p)
      /\ UNCHANGED <<view, work, posted>>
  BY DEF Fine, Undisturbed, Settles, Goto, TypeOK
<1>2. PICK n : mem' = [mem EXCEPT ![p] = Settled(p, n)]
  BY DEF Settles
<1>3. mem[p] \in LiveState /\ mem'[p] = Settled(p, n)
  BY <1>2 DEF TypeOK
<1>4. Settled(p, n).last = view[p].now /\ Settled(p, n).ever
  BY <1>3 DEF Settled, LiveState
<1>5. Remembers(mem[p])'
  BY <1>1, <1>3, <1>4 DEF Remembers
<1> QED BY <1>1, <1>5 DEF Fine, Undisturbed, Resting

LEMMA SavesFine ==
  ASSUME TypeOK, NEW p \in Procs, Fine(p), Saves(p) \/ Records(p)
  PROVE  Fine(p)'
<1>1. /\ pc[p] \in {"save", "record"} /\ file' = mem[p] /\ stray' = NoStray
      /\ Remembers(mem[p]) /\ ~ Resting(p)
      /\ UNCHANGED <<book, stray, posted>>
  BY DEF Fine, Undisturbed, Saves, Records
<1>2. Remembers(file)'
  BY <1>1 DEF Remembers
<1>3. CASE Return(p)
  BY <1>1, <1>2, <1>3, ReturnFine DEF Fine
<1>4. CASE Goto(p, "save") /\ UNCHANGED <<job, mem, view, work, lock>>
  <2>1. pc'[p] = "save"
    BY <1>4 DEF Goto, TypeOK
  <2> QED BY <1>1, <1>2, <1>4, <2>1 DEF Fine, Undisturbed, Remembers, Resting
<1> QED BY <1>3, <1>4 DEF Saves, Records

LEMMA CommandsFine ==
  ASSUME Bots = {}, TypeOK, NEW p \in Procs, Fine(p), CommandStep(p)
  PROVE  Fine(p)'
<1>1. CASE KillReads(p) \/ KillCloses(p)
  <2>1. /\ pc[p] \in {"kill", "close"} /\ pc'[p] \in {"close", "mark"} /\ ~ Resting(p)
        /\ stray = NoStray /\ Remembers(file) /\ UNCHANGED <<file, posted>>
        /\ AllCanceled \/ UNCHANGED <<stray, work>>
    BY <1>1 DEF Fine, Undisturbed, KillReads, KillCloses, Goto, TypeOK
  <2>2. stray' = NoStray /\ ~ Resting(p)'
    BY <2>1 DEF AllCanceled, TypeOK, Resting
  <2> QED BY <2>1, <2>2 DEF Fine, Undisturbed, Remembers
<1>2. CASE KillMarks(p)
  <2>1. file \in LiveState
    BY DEF TypeOK
  <2>2. [file EXCEPT !.dead = TRUE, !.positions = 0].ever = file.ever
        /\ [file EXCEPT !.dead = TRUE, !.positions = 0].last = file.last
    BY <2>1 DEF LiveState
  <2>3. mem'[p].ever = file.ever /\ mem'[p].last = file.last
    BY <1>2, <2>2 DEF KillMarks, TypeOK
  <2>4. /\ pc[p] = "mark" /\ pc'[p] = "save" /\ ~ Resting(p) /\ stray = NoStray
        /\ Remembers(file) /\ UNCHANGED <<work, stray, file, posted>>
    BY <1>2 DEF Fine, Undisturbed, KillMarks, Goto, TypeOK
  <2> QED BY <2>3, <2>4 DEF Fine, Undisturbed, Remembers, Resting
<1>3. CASE SyncReads(p) \/ Syncs(p)
  <2>1. /\ pc[p] \in {"look", "sync"} /\ ~ Resting(p) /\ stray = NoStray
        /\ Remembers(file) /\ (pc[p] = "sync" => Remembers(mem[p]))
        /\ UNCHANGED <<work, stray, file, posted>>
    BY <1>3 DEF Fine, Undisturbed, SyncReads, Syncs
  <2>2. /\ pc'[p] \in {"sync", "save"}
        /\ \/ mem'[p] \in {mem[p], file}
           \/ pc[p] = "sync" /\ pc'[p] = "save" /\ mem'[p] = Synced(p)
        /\ pc[p] = "look" => mem'[p] = file
    BY <1>3 DEF SyncReads, Syncs, Goto, TypeOK
  <2>3. mem[p] \in LiveState
    BY DEF TypeOK
  <2>4. Synced(p).ever = mem[p].ever /\ Synced(p).last = mem[p].last
    <3> DEFINE m == Max({mem[p].peak, view[p].equity})
    <3>1. Synced(p) = [mem[p] EXCEPT !.positions = view[p].positions, !.peak = m]
      BY DEF Synced
    <3> HIDE DEF m
    <3> QED BY <2>3, <3>1 DEF LiveState
  <2>5. Remembers(mem[p])' /\ Remembers(file)'
    BY <2>1, <2>2, <2>4 DEF Remembers
  <2> QED BY <2>1, <2>2, <2>5 DEF Fine, Undisturbed, Resting
<1> QED BY <1>1, <1>2, <1>3 DEF CommandStep

LEMMA RaisesFine ==
  ASSUME TypeOK, NEW p \in Procs, Fine(p), Raises(p), UNCHANGED mishaps
  PROVE  Fine(p)'
<1>1. ~ Mishap("raise")
  BY DEF Mishap, TypeOK
<1>2. pc[p] = "plan" /\ (Return(p) \/ Exit(p)) /\ UNCHANGED <<file, stray, posted>>
  BY <1>1 DEF Raises, Fail
<1>3. stray' = NoStray /\ Remembers(file)'
  BY <1>2 DEF Fine, Remembers
<1> QED BY <1>2, <1>3, ReturnFine

LEMMA StepFine ==
  ASSUME Bots = {}, TypeOK, NEW p \in Procs, Fine(p), Step(p), UNCHANGED mishaps
  PROVE  Fine(p)'
BY ReconcilesFine, PlansFine, RoundFine, CancelsFine, PostsFine, WorksFine, SettlesFine,
   SavesFine, CommandsFine, RaisesFine
   DEF Step, RunStep

(* What a step of p does to the others: they stay where they are, and none *)
(* of their orders comes to rest on the exchange.                          *)
LEMMA OthersRest ==
  ASSUME TypeOK, NEW p \in Procs, Step(p), NEW q \in Procs, q # p
  PROVE  pc'[q] = pc[q] /\ (Resting(q)' => Resting(q))
<1>1. CASE Return(p) \/ Exit(p)
  BY <1>1, ReturnFacts DEF Resting
<1>2. CASE \E l : Goto(p, l)
  <2>1. \/ UNCHANGED work \/ AllCanceled
        \/ \E w : work' = [work EXCEPT ![p] = w]
    BY <1>2 DEF Step, RunStep, CommandStep, Wakes, Loads, Reads, Reconciles, Plans, PlanHalts,
       Raises, Cancels, Posts, Works, Settles, Records, Saves, KillReads, KillCloses, KillMarks,
       SyncReads, Syncs, Fail, Return, Exit, Forget
  <2> QED BY <1>2, <2>1 DEF Goto, AllCanceled, TypeOK, Resting
<1> QED
  BY <1>1, <1>2 DEF Step, RunStep, CommandStep, Wakes, Loads, Reads, Reconciles, GoesOn, Plans,
       PlanHalts, Raises, Cancels, Posts, Works, Settles, Records, Saves, KillReads, KillCloses,
       KillMarks, SyncReads, Syncs, Fail, Return

(* A process that runs is alone: what holds of it holds of all.            *)
LEMMA AloneIsFine ==
  ASSUME NothingAmiss, mishaps = 0, NEW p \in Procs, \A q \in Procs \ {p} : pc[q] = "off"
  PROVE  Fine(p) /\ \A q \in Procs \ {p} : ~ Resting(q)
BY DEF NothingAmiss, Fine, Undisturbed

LEMMA FineIsEnough ==
  ASSUME NEW p \in Procs, Fine(p)',
         \A q \in Procs \ {p} : pc'[q] = "off" /\ ~ Resting(q)'
  PROVE  NothingAmiss'
BY DEF NothingAmiss, Fine, Undisturbed

(* Nothing forgets a mishap.                                               *)
LEMMA MishapsCount ==
  ASSUME [Next]_vars
  PROVE  mishaps' = mishaps \/ mishaps' = mishaps + 1
BY DEF Next, vars, world, market, Starts, Step, RunStep, CommandStep, Wakes, Loads, Reads, Reconciles, Plans,
       PlanHalts, Raises, Cancels, Posts, Works, Settles, Records, Saves, KillReads, KillCloses,
       KillMarks, SyncReads, Syncs, OrderFills, StrayFills, Dies, EquityMoves, Ticks, GoalEnds,
       Mishap, AsUsual

LEMMA AmissStep ==
  ASSUME Bots = {}, TypeOK, HolderRuns, NothingAmiss, [Next]_vars
  PROVE  NothingAmiss'
<1> SUFFICES ASSUME mishaps' = 0 PROVE NothingAmiss'
  BY DEF NothingAmiss
<1>1. mishaps = 0 /\ UNCHANGED mishaps
  BY CycleAssumption, MishapsCount DEF TypeOK
<1>2. ASSUME NEW p \in Procs, pc[p] # "off"
      PROVE  Fine(p) /\ \A q \in Procs \ {p} : pc[q] = "off" /\ ~ Resting(q)
  <2>1. \A q \in Procs \ {p} : pc[q] = "off"
    BY <1>2, AloneWithLock
  <2> QED BY <1>1, <2>1, AloneIsFine
<1>3. ASSUME NEW p \in Procs, Step(p) PROVE NothingAmiss'
  <2>1. Fine(p) /\ \A q \in Procs \ {p} : pc[q] = "off" /\ ~ Resting(q)
    BY <1>2, <1>3, StepShape
  <2>2. Fine(p)'
    BY <1>1, <1>3, <2>1, StepFine
  <2> QED BY <1>3, <2>1, <2>2, OthersRest, FineIsEnough
<1>4. ASSUME NEW p \in Procs, Dies(p) PROVE NothingAmiss'
  BY <1>1, <1>4 DEF Dies, Mishap, TypeOK
<1>5. ASSUME NEW p \in Procs, NEW j \in Jobs(p), Starts(p, j) PROVE NothingAmiss'
  <2>1. \A q \in Procs : pc[q] = "off"
    BY <1>5, CycleAssumption DEF Starts, HolderRuns
  <2>2. Fine(p) /\ \A q \in Procs \ {p} : ~ Resting(q)
    BY <1>1, <2>1, AloneIsFine
  <2>3. \E l \in {"sleep", "load", "kill", "look"} : Goto(p, l)
    BY <1>5 DEF Starts, First
  <2>4. UNCHANGED <<mem, view, work, file, book, stray, posted>>
    BY <1>5 DEF Starts
  <2>5. pc'[p] \in {"sleep", "load", "kill", "look"} /\ \A q \in Procs \ {p} : pc'[q] = "off"
    BY <2>1, <2>3 DEF Goto, TypeOK
  <2>6. Fine(p)'
    BY <2>1, <2>2, <2>4, <2>5 DEF Fine, Undisturbed, Resting, Remembers
  <2> QED BY <2>2, <2>4, <2>5, <2>6, FineIsEnough DEF Resting
<1>6. ASSUME NEW p \in Procs, OrderFills(p) PROVE NothingAmiss'
  <2>1. pc[p] = "working" /\ work[p].resting
    BY <1>1, <1>6 DEF NothingAmiss, Undisturbed, OrderFills, Resting
  <2>2. Fine(p) /\ \A q \in Procs \ {p} : pc[q] = "off" /\ ~ Resting(q)
    BY <1>2, <2>1
  <2> DEFINE one == OneLot(work[p].qty)
  <2>3. one \in Int /\ work[p].qty \in Int /\ book \in Int
    BY DEF OneLot, TypeOK
  <2>4. /\ work'[p].qty = work[p].qty - one
        /\ \A q \in Procs \ {p} : work'[q] = work[q]
        /\ book' = book + one
        /\ UNCHANGED <<pc, job, mem, view, file, stray, posted>>
    BY <1>6 DEF OrderFills, TypeOK
  <2> HIDE DEF one
  <2>5. book' + work'[p].qty = book + work[p].qty
    BY <2>3, <2>4
  <2>6. Fine(p)'
    BY <2>1, <2>2, <2>4, <2>5 DEF Fine, Undisturbed, Resting
  <2> QED BY <2>2, <2>4, <2>6, FineIsEnough DEF Resting
<1>7. ASSUME NEW s \in Side, StrayFills(s) PROVE NothingAmiss'
  BY <1>1, <1>7 DEF StrayFills, NothingAmiss, NoStray
<1>8. ASSUME UNCHANGED <<process, file, book, stray, posted>> PROVE NothingAmiss'
  <2>1. \A p \in Procs : Undisturbed(p)'
    BY <1>1, <1>8 DEF NothingAmiss, process, Undisturbed, Resting, due, derisk_now, Due, Remembers
  <2> QED BY <1>1, <1>8, <2>1 DEF NothingAmiss, process, Remembers
<1> QED
  BY <1>3, <1>4, <1>5, <1>6, <1>7, <1>8 DEF Next, EquityMoves, Ticks, GoalEnds, vars

(* As long as nothing goes wrong, the orders of a round lead to its target *)
(* and its copy of the state knows the time of the latest orders.          *)
LEMMA NothingAmissHolds == ASSUME Bots = {} PROVE Spec => []NothingAmiss
<1>1. Init => NothingAmiss
  BY DEF Init, NothingAmiss, Undisturbed, Resting, NoWork, Remembers
<1>2. IInv /\ NothingAmiss /\ [Next]_vars => NothingAmiss'
  BY AmissStep DEF IInv
<1> QED BY <1>1, <1>2, LockedCopy, PTL DEF Spec

(* The orders of a round lead from the account's position to the target,   *)
(* whatever has filled in between: for every number of processes, every    *)
(* target and every schedule in which nothing goes wrong.                  *)
THEOREM OrdersLeadToTarget == ASSUME Bots = {} PROVE Spec => []PlanIsCurrent
<1>1. NothingAmiss => PlanIsCurrent
  BY DEF NothingAmiss, PlanIsCurrent, Undisturbed
<1> QED BY <1>1, NothingAmissHolds, PTL

(* F30: a rebalance that nobody forced comes at least rebalance_hours after *)
(* the orders of the last one.                                             *)
THEOREM RebalancesKeepPace == ASSUME Bots = {} PROVE Spec => PaceKept
<1> DEFINE P == mishaps = 0 => \A p \in Procs :
             pc[p] = "post" /\ pc'[p] = "working" /\ job[p] = "run" /\ ~ derisk_now(p) /\ posted > 0
               => view[p].now - posted >= REBALANCE
<1>1. IInv /\ NothingAmiss => P
  <2> SUFFICES ASSUME IInv, NothingAmiss, mishaps = 0, NEW p \in Procs,
                      pc[p] = "post", job[p] = "run", ~ derisk_now(p), posted > 0
               PROVE  view[p].now - posted >= REBALANCE
    OBVIOUS
  <2>1. due(p) /\ Remembers(mem[p])
    BY DEF NothingAmiss, Undisturbed
  <2> QED BY <2>1 DEF due, Due, Remembers
<1>2. IInv /\ NothingAmiss /\ [Next]_vars => [P]_vars
  BY <1>1
<1> HIDE DEF P
<1>3. Spec => [][P]_vars
  BY <1>2, LockedCopy, NothingAmissHolds, PTL DEF Spec
<1> QED BY <1>3 DEF P, PaceKept
-----------------------------------------------------------------------------
(* A leg that keeps some and takes up the foremost of a zone.              *)
Filled(R, keep, zone, k) ==
  Foremost(R, keep \cup Foremost(R, zone \ keep, Max({0, k - Cardinality(keep)})), k)

LegOf(R, U, keep, zone, k) ==
  /\ IsFiniteSet(U) /\ IsOrder(R, U) /\ keep \in SUBSET U /\ zone \in SUBSET U
  /\ k \in Nat \ {0}

LEMMA LegFacts ==
  ASSUME NEW R, NEW U, NEW keep, NEW zone, NEW k, LegOf(R, U, keep, zone, k)
  PROVE  /\ Filled(R, keep, zone, k) \in SUBSET (keep \cup zone)
         /\ Cardinality(Filled(R, keep, zone, k)) <= k
         /\ zone # {} => Filled(R, keep, zone, k) # {}
         /\ keep \subseteq zone /\ Cardinality(zone) <= k => Filled(R, keep, zone, k) = zone
<1> DEFINE room == Max({0, k - Cardinality(keep)})
           more == Foremost(R, zone \ keep, room)
           all == keep \cup more
<1>1. k \in Nat \ {0} /\ keep \in SUBSET U /\ zone \in SUBSET U /\ IsFiniteSet(U) /\ IsOrder(R, U)
  BY DEF LegOf
<1>2. \A S \in SUBSET U : IsFiniteSet(S) /\ Cardinality(S) \in Nat /\ IsOrder(R, S)
  BY <1>1, FS_Subset, FS_CardinalityType, OrderOfPart
<1>3. room = (IF 0 >= k - Cardinality(keep) THEN 0 ELSE k - Cardinality(keep)) /\ room \in Nat
  <2>1. k - Cardinality(keep) \in Int /\ 0 \in Int BY <1>1, <1>2
  <2>2. room = IF 0 >= k - Cardinality(keep) THEN 0 ELSE k - Cardinality(keep) BY <2>1, LargerOfTwo
  <2> QED BY <2>1, <2>2
<1>4. zone \ keep \in SUBSET U BY <1>1
<1> HIDE DEF room
<1>5. /\ more \in SUBSET (zone \ keep)
      /\ Cardinality(zone \ keep) <= room => more = zone \ keep
      /\ zone \ keep # {} /\ room # 0 => more # {}
  BY <1>2, <1>3, <1>4, ForemostFacts
<1> HIDE DEF more
<1>6. all \in SUBSET U BY <1>4, <1>5, <1>1
<1> HIDE DEF all
<1>7. /\ Foremost(R, all, k) \in SUBSET all
      /\ Cardinality(Foremost(R, all, k)) <= k
      /\ Cardinality(all) <= k => Foremost(R, all, k) = all
      /\ all # {} /\ k # 0 => Foremost(R, all, k) # {}
  BY <1>1, <1>2, <1>6, ForemostFacts
<1>8. Filled(R, keep, zone, k) = Foremost(R, all, k) BY DEF Filled, all, more, room
<1>9. all \in SUBSET (keep \cup zone) BY <1>5 DEF all
<1>10. ASSUME zone # {} PROVE all # {}
  <2>1. CASE keep # {} BY <2>1 DEF all
  <2>2. CASE keep = {}
    <3>1. room # 0 BY <1>1, <1>3, <2>2, FS_EmptySet
    <3> QED BY <1>5, <1>10, <2>2, <3>1 DEF all
  <2> QED BY <2>1, <2>2
<1>11. ASSUME keep \subseteq zone, Cardinality(zone) <= k PROVE all = zone
  <2>1. Cardinality(zone \ keep) = Cardinality(zone) - Cardinality(keep)
    <3>1. zone \cap keep = keep BY <1>11
    <3>2. IsFiniteSet(zone) BY <1>1, <1>2
    <3> QED BY <3>1, <3>2, FS_Difference
  <2>2. Cardinality(zone) \in Nat /\ Cardinality(keep) \in Nat BY <1>1, <1>2
  <2>3. Cardinality(zone \ keep) <= room BY <1>1, <1>3, <1>11, <2>1, <2>2
  <2> QED BY <1>5, <1>11, <2>3 DEF all
<1> QED BY <1>1, <1>7, <1>8, <1>9, <1>10, <1>11
-----------------------------------------------------------------------------
(* Percentages.                                                            *)
LEMMA Hundreds ==
  ASSUME NEW x \in Nat
  PROVE  x \div 100 \in Nat /\ x % 100 \in 0..99 /\ x = 100 * (x \div 100) + (x % 100)
OBVIOUS

LEMMA HalvesRound ==
  ASSUME NEW pct \in Nat, NEW n \in Nat, NEW x, x = pct * n
  PROVE  /\ Percent(pct, n) \in Nat
         /\ 100 * Percent(pct, n) <= x + 50 /\ x - 50 <= 100 * Percent(pct, n)
<1> DEFINE q == (pct * n) \div 100
           r == (pct * n) % 100
<1>1. x \in Nat OBVIOUS
<1>2. q \in Nat /\ r \in 0..99 /\ x = 100 * q + r
  <2>1. x \div 100 \in Nat /\ x % 100 \in 0..99 /\ x = 100 * (x \div 100) + (x % 100)
    BY <1>1, Hundreds
  <2> QED BY <2>1
<1>3. Percent(pct, n) = IF r > 50 \/ (r = 50 /\ q % 2 = 1) THEN q + 1 ELSE q BY DEF Percent
<1> HIDE DEF q, r
<1> QED BY <1>1, <1>2, <1>3

LEMMA PercentGrows ==
  ASSUME NEW p \in Nat, NEW a \in Nat, NEW q \in Nat, NEW b \in Nat, p <= q, a <= b
  PROVE  Percent(p, a) <= Percent(q, b)
<1> DEFINE x == p * a
           y == q * b
<1>1. x \in Nat /\ y \in Nat OBVIOUS
<1>2. x <= y
  <2>1. p * a <= p * b
    <3>1. PICK d \in Nat : b = a + d
      <4>1. b - a \in Nat /\ b = a + (b - a) OBVIOUS
      <4> QED BY <4>1
    <3>2. p * b = p * a + p * d /\ p * d \in Nat /\ p * a \in Nat BY <3>1
    <3> QED BY <3>2
  <2>2. p * b <= q * b
    <3>1. PICK d \in Nat : q = p + d
      <4>1. q - p \in Nat /\ q = p + (q - p) OBVIOUS
      <4> QED BY <4>1
    <3>2. q * b = p * b + d * b /\ d * b \in Nat /\ p * b \in Nat BY <3>1
    <3> QED BY <3>2
  <2>3. p * a \in Nat /\ p * b \in Nat /\ q * b \in Nat OBVIOUS
  <2> QED BY <2>1, <2>2, <2>3
<1>3. /\ Percent(p, a) \in Nat /\ 100 * Percent(p, a) <= x + 50 /\ x - 50 <= 100 * Percent(p, a)
      /\ Percent(q, b) \in Nat /\ 100 * Percent(q, b) <= y + 50 /\ y - 50 <= 100 * Percent(q, b)
  BY HalvesRound
<1>4. x = y => Percent(p, a) = Percent(q, b) BY DEF Percent
<1> HIDE DEF x, y
<1> QED BY <1>1, <1>2, <1>3, <1>4

(* At most half of the row.                                                *)
LEMMA PercentHalf ==
  ASSUME NEW pct \in 1..49, NEW n \in Nat
  PROVE  Percent(pct, n) \in Nat /\ 2 * Percent(pct, n) <= n
<1>1. /\ Percent(49, n) \in Nat /\ 100 * Percent(49, n) <= 49 * n + 50
  <2>1. 49 \in Nat /\ 49 * n = 49 * n OBVIOUS
  <2> QED BY <2>1, HalvesRound
<1>2. 2 * Percent(49, n) <= n BY <1>1
<1>3. Percent(pct, n) <= Percent(49, n)
  <2>1. pct \in Nat /\ 49 \in Nat /\ pct <= 49 /\ n <= n OBVIOUS
  <2> QED BY <2>1, PercentGrows
<1>4. Percent(pct, n) \in Nat
  <2>1. pct \in Nat /\ pct * n = pct * n OBVIOUS
  <2> QED BY <2>1, HalvesRound
<1> QED BY <1>1, <1>2, <1>3, <1>4

LEMMA ZoneSizes ==
  ASSUME NEW n \in Nat
  PROVE  /\ k_in(n) \in Nat \ {0} /\ k_out(n) \in Nat \ {0} /\ k_in(n) <= k_out(n)
         /\ n >= 2 => 2 * k_out(n) <= n
         /\ ExitFrac <= TopFrac => k_out(n) = k_in(n)
<1> DEFINE a == Percent(TopFrac, n)
           b == Percent(ExitFrac, n)
<1>1. TopFrac \in 1..49 /\ ExitFrac \in 1..49 BY BacktestAssumption, SelectionAssumption
<1>2. a \in Nat /\ 2 * a <= n /\ b \in Nat /\ 2 * b <= n BY <1>1, PercentHalf
<1>3. ExitFrac <= TopFrac => b <= a
  <2>1. TopFrac \in Nat /\ ExitFrac \in Nat /\ n <= n BY <1>1
  <2> QED BY <2>1, PercentGrows
<1>4. k_in(n) = Max({1, a}) /\ k_out(n) = Max({k_in(n), b}) BY DEF k_in, k_out
<1> HIDE DEF a, b
<1>5. k_in(n) = IF 1 >= a THEN 1 ELSE a
  <2>1. 1 \in Int /\ a \in Int BY <1>2
  <2> QED BY <1>4, <2>1, LargerOfTwo
<1>6. k_in(n) \in Nat \ {0} BY <1>2, <1>5
<1>7. k_out(n) = IF k_in(n) >= b THEN k_in(n) ELSE b
  <2>1. k_in(n) \in Int /\ b \in Int BY <1>2, <1>6
  <2> QED BY <1>4, <2>1, LargerOfTwo
<1> QED BY <1>2, <1>3, <1>5, <1>6, <1>7
-----------------------------------------------------------------------------
(* Rows.                                                                   *)
Row(r) == r \in Seq(Symbols) /\ Distinct(r)
Members(r) == {r[i] : i \in 1..Len(r)}

Upwards(r) == {p \in Members(r) \X Members(r) : Place(r, p[1]) > Place(r, p[2])}
Downwards(r) == {p \in Members(r) \X Members(r) : Place(r, p[1]) < Place(r, p[2])}

LEMMA PlaceFacts ==
  ASSUME NEW r, Row(r)
  PROVE  /\ \A s \in Members(r) : Place(r, s) \in Nat /\ r[Place(r, s)] = s
         /\ IsOrder(Upwards(r), Members(r)) /\ IsOrder(Downwards(r), Members(r))
<1>1. Len(r) \in Nat /\ DOMAIN r = 1..Len(r) BY SequenceIsFunction DEF Row
<1>2. \A s \in Members(r) : Place(r, s) \in 1..Len(r) /\ r[Place(r, s)] = s
  BY <1>1 DEF Place, Members
<1>3. \A s \in Members(r) : Place(r, s) \in Nat BY <1>1, <1>2
<1>4. \A s, t \in Members(r) : s # t => Place(r, s) # Place(r, t) BY <1>2
<1>5. \A s, t \in Members(r) : <<t, s>> \in Upwards(r) <=> Place(r, t) > Place(r, s) BY DEF Upwards
<1>6. \A s, t \in Members(r) : <<t, s>> \in Downwards(r) <=> Place(r, t) < Place(r, s) BY DEF Downwards
<1> DEFINE M == Members(r)
           p == [s \in M |-> Place(r, s)]
<1>7. p \in [M -> Nat] /\ \A s \in M : p[s] = Place(r, s) BY <1>3
<1> HIDE DEF M, p
<1>8. \A s, t \in M : s # t => p[s] # p[t] BY <1>4, <1>7 DEF M
<1>9. \A s, t \in M : <<t, s>> \in Upwards(r) <=> p[t] > p[s] BY <1>5, <1>7 DEF M
<1>10. \A s, t \in M : <<t, s>> \in Downwards(r) <=> p[t] < p[s] BY <1>6, <1>7 DEF M
<1>11. IsOrder(Upwards(r), M) BY <1>7, <1>8, <1>9 DEF IsOrder
<1>12. IsOrder(Downwards(r), M) BY <1>7, <1>8, <1>10 DEF IsOrder
<1> QED BY <1>2, <1>3, <1>11, <1>12 DEF M

LEMMA MembersFacts ==
  ASSUME NEW r, Row(r)
  PROVE  Members(r) \in SUBSET Symbols /\ IsFiniteSet(Members(r)) /\ IsFiniteSet(Symbols)
<1>1. Members(r) \in SUBSET Symbols
  <2>1. Len(r) \in Nat /\ r \in [1..Len(r) -> Symbols] BY SequenceIsFunction DEF Row
  <2> QED BY <2>1 DEF Members
<1>2. IsFiniteSet(Symbols)
  <2>1. 1 \in Int /\ N \in Int BY BacktestAssumption
  <2> QED BY <2>1, FS_Interval DEF Symbols
<1> QED BY <1>1, <1>2, FS_Subset

(* The strongest are the foremost of one of the two orders.                *)
LEMMA StrongestIsForemost ==
  ASSUME NEW r, Row(r), NEW S \in SUBSET Members(r), NEW k
  PROVE  /\ StrongestLong(r, S, k) = Foremost(Upwards(r), S, k)
         /\ StrongestShort(r, S, k) = Foremost(Downwards(r), S, k)
<1>1. ASSUME NEW s \in S
      PROVE  /\ {t \in S : Place(r, t) > Place(r, s)} = InFront(Upwards(r), S, s)
             /\ {t \in S : Place(r, t) < Place(r, s)} = InFront(Downwards(r), S, s)
  <2>1. ASSUME NEW t \in S
        PROVE  /\ Place(r, t) > Place(r, s) <=> <<t, s>> \in Upwards(r)
               /\ Place(r, t) < Place(r, s) <=> <<t, s>> \in Downwards(r)
    <3>1. t \in Members(r) /\ s \in Members(r) OBVIOUS
    <3> QED BY <3>1 DEF Upwards, Downwards
  <2> QED BY <2>1 DEF InFront
<1> QED BY <1>1 DEF StrongestLong, StrongestShort, Foremost

LEMMA ZoneFacts ==
  ASSUME NEW r, Row(r), NEW a \in Nat, NEW b \in Nat, a + b <= Len(r)
  PROVE  /\ Highest(r, a) \cap Lowest(r, b) = {}
         /\ Highest(r, a) \in SUBSET Members(r) /\ Lowest(r, b) \in SUBSET Members(r)
         /\ a # 0 => Highest(r, a) # {}
         /\ b # 0 => Lowest(r, b) # {}
<1>1. Len(r) \in Nat BY SequenceIsFunction DEF Row
<1>2. \A i \in (Len(r) - a + 1)..Len(r) : i \in 1..Len(r) BY <1>1
<1>3. \A i \in 1..b : i \in 1..Len(r) BY <1>1
<1>4. \A i \in (Len(r) - a + 1)..Len(r), j \in 1..b : i # j BY <1>1
<1>5. Highest(r, a) \cap Lowest(r, b) = {} BY <1>2, <1>3, <1>4 DEF Highest, Lowest, Row, Distinct
<1>6. a # 0 => Highest(r, a) # {}
  <2>1. a # 0 => Len(r) \in (Len(r) - a + 1)..Len(r) BY <1>1
  <2> QED BY <2>1 DEF Highest
<1>7. b # 0 => Lowest(r, b) # {}
  <2>1. b # 0 => 1 \in 1..b OBVIOUS
  <2> QED BY <2>1 DEF Lowest
<1> QED BY <1>2, <1>3, <1>5, <1>6, <1>7 DEF Highest, Lowest, Members

LEMMA ZoneCounts ==
  ASSUME NEW r, Row(r), NEW k \in Nat
  PROVE  /\ k <= Len(r) => Cardinality(Highest(r, k)) <= k /\ Cardinality(Lowest(r, k)) <= k
         /\ \A m \in Nat : k <= m => Highest(r, k) \subseteq Highest(r, m) /\ Lowest(r, k) \subseteq Lowest(r, m)
<1>1. Len(r) \in Nat BY SequenceIsFunction DEF Row
<1>2. Cardinality(Highest(r, k)) <= k
  <2> DEFINE I == (Len(r) - k + 1)..Len(r)
             f == [i \in I |-> r[i]]
  <2>1. IsFiniteSet(I) /\ Cardinality(I) = k
    <3> DEFINE a == Len(r) - k + 1
               b == Len(r)
    <3>1. a \in Int /\ b \in Int /\ (IF a > b THEN 0 ELSE b - a + 1) = k BY <1>1
    <3> HIDE DEF a, b
    <3>2. IsFiniteSet(a..b) /\ Cardinality(a..b) = k BY <3>1, FS_Interval
    <3> QED BY <3>2 DEF a, b
  <2>2. Highest(r, k) = {f[i] : i \in I} BY DEF Highest
  <2>3. f \in Surjection(I, Highest(r, k)) BY <2>2 DEF Surjection
  <2> QED BY <2>1, <2>3, FS_Surjection
<1>3. Cardinality(Lowest(r, k)) <= k
  <2> DEFINE I == 1..k
             f == [i \in I |-> r[i]]
  <2>1. IsFiniteSet(I) /\ Cardinality(I) = k
    <3>1. 1 \in Int /\ k \in Int OBVIOUS
    <3> QED BY <3>1, FS_Interval
  <2>2. Lowest(r, k) = {f[i] : i \in I} BY DEF Lowest
  <2>3. f \in Surjection(I, Lowest(r, k)) BY <2>2 DEF Surjection
  <2> QED BY <2>1, <2>3, FS_Surjection
<1>4. ASSUME NEW m \in Nat, k <= m
      PROVE  Highest(r, k) \subseteq Highest(r, m) /\ Lowest(r, k) \subseteq Lowest(r, m)
  <2>1. \A i \in (Len(r) - k + 1)..Len(r) : i \in (Len(r) - m + 1)..Len(r) BY <1>1, <1>4
  <2>2. \A i \in 1..k : i \in 1..m BY <1>4
  <2> QED BY <2>1, <2>2 DEF Highest, Lowest
<1> QED BY <1>2, <1>3, <1>4
-----------------------------------------------------------------------------
(* The two rankings.                                                       *)
TwoLegs == [long : SUBSET Symbols, short : SUBSET Symbols]
Apart(b) == b.long \cap b.short = {}

FilledLong(r, have) ==
  Filled(Upwards(r), have.long \cap Highest(r, k_out(Len(r))), Highest(r, k_in(Len(r))), k_in(Len(r)))
FilledShort(r, have) ==
  Filled(Downwards(r), have.short \cap Lowest(r, k_out(Len(r))), Lowest(r, k_in(Len(r))), k_in(Len(r)))

(* What a row of four or more is cut into.                                 *)
LEMMA ZonesApart ==
  ASSUME NEW r, Row(r), Len(r) >= 4
  PROVE  LET ki == k_in(Len(r))
             ko == k_out(Len(r))
         IN /\ Len(r) \in Nat /\ ki \in Nat \ {0} /\ ko \in Nat \ {0} /\ ki <= ko
            /\ Highest(r, ki) \cap Lowest(r, ki) = {}
            /\ Highest(r, ki) \cap Lowest(r, ko) = {}
            /\ Highest(r, ko) \cap Lowest(r, ki) = {}
            /\ Highest(r, ko) \cap Lowest(r, ko) = {}
            /\ Highest(r, ko) \in SUBSET Members(r) /\ Lowest(r, ko) \in SUBSET Members(r)
            /\ Highest(r, ki) \in SUBSET Highest(r, ko) /\ Lowest(r, ki) \in SUBSET Lowest(r, ko)
            /\ Highest(r, ki) # {} /\ Lowest(r, ki) # {}
            /\ Cardinality(Highest(r, ki)) <= ki /\ Cardinality(Lowest(r, ki)) <= ki
            /\ ExitFrac <= TopFrac => ko = ki
<1> DEFINE ki == k_in(Len(r))
           ko == k_out(Len(r))
<1>1. Len(r) \in Nat BY SequenceIsFunction DEF Row
<1>2. /\ ki \in Nat \ {0} /\ ko \in Nat \ {0} /\ ki <= ko /\ 2 * ko <= Len(r)
      /\ ExitFrac <= TopFrac => ko = ki
  BY <1>1, ZoneSizes
<1> HIDE DEF ki, ko
<1>3. ki \in Nat /\ ko \in Nat /\ ki <= Len(r) /\ ki + ki <= Len(r) /\ ki + ko <= Len(r)
      /\ ko + ki <= Len(r) /\ ko + ko <= Len(r)
  BY <1>1, <1>2
<1>4. /\ Highest(r, ki) \cap Lowest(r, ki) = {}
      /\ Highest(r, ki) # {} /\ Lowest(r, ki) # {}
  BY <1>2, <1>3, ZoneFacts
<1>5. Highest(r, ki) \cap Lowest(r, ko) = {} BY <1>3, ZoneFacts
<1>6. Highest(r, ko) \cap Lowest(r, ki) = {} BY <1>3, ZoneFacts
<1>7. /\ Highest(r, ko) \cap Lowest(r, ko) = {}
      /\ Highest(r, ko) \in SUBSET Members(r) /\ Lowest(r, ko) \in SUBSET Members(r)
  BY <1>3, ZoneFacts
<1>8. /\ Cardinality(Highest(r, ki)) <= ki /\ Cardinality(Lowest(r, ki)) <= ki
      /\ Highest(r, ki) \in SUBSET Highest(r, ko) /\ Lowest(r, ki) \in SUBSET Lowest(r, ko)
  BY <1>2, <1>3, ZoneCounts
<1> QED BY <1>1, <1>2, <1>4, <1>5, <1>6, <1>7, <1>8 DEF ki, ko

LEMMA FilledFits ==
  ASSUME NEW r, Row(r), Len(r) >= 4, NEW have
  PROVE  LET ki == k_in(Len(r))
             ko == k_out(Len(r))
         IN /\ LegOf(Upwards(r), Members(r), have.long \cap Highest(r, ko), Highest(r, ki), ki)
            /\ LegOf(Downwards(r), Members(r), have.short \cap Lowest(r, ko), Lowest(r, ki), ki)
<1> DEFINE ki == k_in(Len(r))
           ko == k_out(Len(r))
<1>1. /\ ki \in Nat \ {0}
      /\ Highest(r, ko) \in SUBSET Members(r) /\ Lowest(r, ko) \in SUBSET Members(r)
      /\ Highest(r, ki) \in SUBSET Highest(r, ko) /\ Lowest(r, ki) \in SUBSET Lowest(r, ko)
  BY ZonesApart
<1>2. IsFiniteSet(Members(r)) BY MembersFacts
<1>3. IsOrder(Upwards(r), Members(r)) /\ IsOrder(Downwards(r), Members(r)) BY PlaceFacts
<1> HIDE DEF ki, ko
<1>4. /\ LegOf(Upwards(r), Members(r), have.long \cap Highest(r, ko), Highest(r, ki), ki)
      /\ LegOf(Downwards(r), Members(r), have.short \cap Lowest(r, ko), Lowest(r, ki), ki)
  BY <1>1, <1>2, <1>3 DEF LegOf
<1> QED BY <1>4 DEF ki, ko

LEMMA BufferFacts ==
  ASSUME NEW r, Row(r), Len(r) >= 4, NEW have \in TwoLegs, Apart(have)
  PROVE  /\ Buffered(r, have) = [long |-> FilledLong(r, have), short |-> FilledShort(r, have)]
         /\ rank_to_weights_buffered(r, have) = Buffered(r, have)
<1> DEFINE ki == k_in(Len(r))
           ko == k_out(Len(r))
           hi == Highest(r, ki)
           lo == Lowest(r, ki)
           U == Members(r)
           long == have.long \cap Highest(r, ko)
           short == have.short \cap Lowest(r, ko)
           more_long == StrongestLong(r, hi \ long, Room(r, long))
           more_short == StrongestShort(r, lo \ short, Room(r, short))
<1>1. /\ hi \cap Lowest(r, ko) = {} /\ Highest(r, ko) \cap lo = {}
      /\ hi \in SUBSET U /\ lo \in SUBSET U
      /\ Highest(r, ko) \in SUBSET U /\ Lowest(r, ko) \in SUBSET U
  <2>1. /\ hi \in SUBSET Highest(r, ko) /\ lo \in SUBSET Lowest(r, ko)
        /\ Highest(r, ko) \in SUBSET U /\ Lowest(r, ko) \in SUBSET U
        /\ hi \cap Lowest(r, ko) = {} /\ Highest(r, ko) \cap lo = {}
    BY ZonesApart
  <2> QED BY <2>1
<1>2. /\ (have.long \cap Highest(r, ko)) \ have.short = long
      /\ (have.short \cap Lowest(r, ko)) \ have.long = short
      /\ (have.long \cap Highest(r, ko)) \ (have.short \cap Lowest(r, ko)) = long
      /\ (have.short \cap Lowest(r, ko)) \ long = short
  BY DEF Apart
<1>3. hi \ (long \cup short) = hi \ long /\ lo \ (long \cup short) = lo \ short
  <2> HIDE DEF hi, lo, ko
  <2> QED BY <1>1
<1>4. /\ long \in SUBSET U /\ short \in SUBSET U
  <2> HIDE DEF hi, lo, ko, U
  <2> QED BY <1>1
<1>5. /\ Buffered(r, have) = [long |-> StrongestLong(r, long \cup more_long, ki),
                              short |-> StrongestShort(r, short \cup more_short, ki)]
      /\ rank_to_weights_buffered(r, have) = Buffered(r, have)
  <2> DEFINE A == [long |-> StrongestLong(r, long \cup more_long, ki),
                   short |-> StrongestShort(r, short \cup more_short, ki)]
  <2>1. Buffered(r, have) = A BY <1>2, <1>3 DEF Buffered
  <2>2. ~(Len(r) < 4)
    <3>1. Len(r) \in Nat BY ZonesApart
    <3> QED BY <3>1
  <2>3. rank_to_weights_buffered(r, have) = A BY <1>2, <1>3, <2>2 DEF rank_to_weights_buffered
  <2> QED BY <2>1, <2>3
<1>6. /\ more_long = Foremost(Upwards(r), hi \ long, Room(r, long))
      /\ more_short = Foremost(Downwards(r), lo \ short, Room(r, short))
  <2>1. hi \ long \in SUBSET U /\ lo \ short \in SUBSET U BY <1>1
  <2> HIDE DEF long, short, hi, lo
  <2> QED BY <2>1, StrongestIsForemost
<1>7. more_long \in SUBSET U /\ more_short \in SUBSET U BY <1>1, <1>6 DEF Foremost
<1>8. /\ StrongestLong(r, long \cup more_long, ki) = Foremost(Upwards(r), long \cup more_long, ki)
      /\ StrongestShort(r, short \cup more_short, ki) = Foremost(Downwards(r), short \cup more_short, ki)
  <2>1. long \cup more_long \in SUBSET U /\ short \cup more_short \in SUBSET U BY <1>4, <1>7
  <2> HIDE DEF long, short, more_long, more_short, ki
  <2> QED BY <2>1, StrongestIsForemost
<1>9. /\ FilledLong(r, have) = Foremost(Upwards(r), long \cup more_long, ki)
      /\ FilledShort(r, have) = Foremost(Downwards(r), short \cup more_short, ki)
  BY <1>6 DEF FilledLong, FilledShort, Filled, Room
<1> HIDE DEF long, short, more_long, more_short, ki
<1> QED BY <1>5, <1>8, <1>9

(* The legs of a buffered ranking.                                         *)
LEMMA BufferedLegs ==
  ASSUME NEW r, Row(r), Len(r) >= 4, NEW have
  PROVE  LET long == FilledLong(r, have)
             short == FilledShort(r, have)
             ki == k_in(Len(r))
         IN /\ long \in SUBSET Members(r) /\ short \in SUBSET Members(r) /\ long \cap short = {}
            /\ long # {} /\ short # {}
            /\ Cardinality(long) <= ki /\ Cardinality(short) <= ki
            /\ (ExitFrac <= TopFrac \/ have = Nothing) =>
                  long = Highest(r, ki) /\ short = Lowest(r, ki)
<1> DEFINE ki == k_in(Len(r))
           ko == k_out(Len(r))
           long == FilledLong(r, have)
           short == FilledShort(r, have)
           kl == have.long \cap Highest(r, ko)
           ks == have.short \cap Lowest(r, ko)
<1>1. /\ Highest(r, ko) \cap Lowest(r, ko) = {}
      /\ Highest(r, ko) \in SUBSET Members(r) /\ Lowest(r, ko) \in SUBSET Members(r)
      /\ Highest(r, ki) \in SUBSET Highest(r, ko) /\ Lowest(r, ki) \in SUBSET Lowest(r, ko)
      /\ Highest(r, ki) # {} /\ Lowest(r, ki) # {}
      /\ Cardinality(Highest(r, ki)) <= ki /\ Cardinality(Lowest(r, ki)) <= ki
      /\ ExitFrac <= TopFrac => ko = ki
  BY ZonesApart
<1>2. /\ LegOf(Upwards(r), Members(r), kl, Highest(r, ki), ki)
      /\ LegOf(Downwards(r), Members(r), ks, Lowest(r, ki), ki)
  BY FilledFits
<1>3. kl \in SUBSET Highest(r, ko) /\ ks \in SUBSET Lowest(r, ko) OBVIOUS
<1>4. (ExitFrac <= TopFrac \/ have = Nothing) => kl \subseteq Highest(r, ki) /\ ks \subseteq Lowest(r, ki)
  <2>1. CASE ExitFrac <= TopFrac BY <1>1, <1>3, <2>1
  <2>2. CASE have = Nothing BY <2>2 DEF Nothing
  <2> QED BY <2>1, <2>2
<1>5. /\ long = Filled(Upwards(r), kl, Highest(r, ki), ki)
      /\ short = Filled(Downwards(r), ks, Lowest(r, ki), ki)
  BY DEF FilledLong, FilledShort
<1> HIDE DEF ki, ko, kl, ks, long, short
<1>6. /\ long \in SUBSET (kl \cup Highest(r, ki)) /\ Cardinality(long) <= ki
      /\ Highest(r, ki) # {} => long # {}
      /\ kl \subseteq Highest(r, ki) /\ Cardinality(Highest(r, ki)) <= ki => long = Highest(r, ki)
  BY <1>2, <1>5, LegFacts
<1>7. /\ short \in SUBSET (ks \cup Lowest(r, ki)) /\ Cardinality(short) <= ki
      /\ Lowest(r, ki) # {} => short # {}
      /\ ks \subseteq Lowest(r, ki) /\ Cardinality(Lowest(r, ki)) <= ki => short = Lowest(r, ki)
  BY <1>2, <1>5, LegFacts
<1>8. long \in SUBSET Highest(r, ko) /\ short \in SUBSET Lowest(r, ko) BY <1>1, <1>3, <1>6, <1>7
<1>9. long \in SUBSET Members(r) /\ short \in SUBSET Members(r) /\ long \cap short = {} BY <1>1, <1>8
<1>10. /\ long # {} /\ short # {}
       /\ (ExitFrac <= TopFrac \/ have = Nothing) => long = Highest(r, ki) /\ short = Lowest(r, ki)
  BY <1>1, <1>4, <1>6, <1>7
<1> QED BY <1>6, <1>7, <1>9, <1>10 DEF ki, long, short

(* The account ranks as the research does.                                 *)
LEMMA SameRanking ==
  ASSUME NEW r, Row(r), NEW have \in TwoLegs, Apart(have)
  PROVE  /\ compute_target_weights(r, have) = rank_to_weights_buffered(r, have)
         /\ compute_target_weights(r, have) \in TwoLegs /\ Apart(compute_target_weights(r, have))
<1> DEFINE ki == k_in(Len(r))
<1>1. Len(r) \in Nat BY SequenceIsFunction DEF Row
<1>2. CASE Len(r) < 4
  <2>1. compute_target_weights(r, have) = Nothing /\ rank_to_weights_buffered(r, have) = Nothing
    BY <1>1, <1>2 DEF compute_target_weights, UsesBuffer, rank_to_weights, rank_to_weights_buffered
  <2> QED BY <2>1 DEF Nothing, TwoLegs, Apart
<1>3. CASE ~(Len(r) < 4)
  <2>0. Len(r) >= 4 BY <1>1, <1>3
  <2> DEFINE long == FilledLong(r, have)
             short == FilledShort(r, have)
  <2>1. /\ Buffered(r, have) = [long |-> long, short |-> short]
        /\ rank_to_weights_buffered(r, have) = Buffered(r, have)
    BY <2>0, BufferFacts
  <2>2. /\ long \in SUBSET Members(r) /\ short \in SUBSET Members(r) /\ long \cap short = {}
        /\ long # {} /\ short # {}
        /\ (ExitFrac <= TopFrac \/ have = Nothing) =>
              long = Highest(r, ki) /\ short = Lowest(r, ki)
    BY <2>0, BufferedLegs
  <2>3. rank_to_weights(r) = [long |-> Highest(r, ki), short |-> Lowest(r, ki)]
    BY <1>3 DEF rank_to_weights
  <2> HIDE DEF long, short, ki
  <2>4. ExitFrac > TopFrac \/ ExitFrac <= TopFrac BY BacktestAssumption, SelectionAssumption
  <2>5. compute_target_weights(r, have) = Buffered(r, have)
    <3>1. CASE ExitFrac <= TopFrac \/ have = Nothing
      BY <2>1, <2>2, <2>3, <3>1 DEF compute_target_weights
    <3>2. CASE ~(ExitFrac <= TopFrac \/ have = Nothing)
      <4>1. Buffered(r, have).long # {} /\ Buffered(r, have).short # {} BY <2>1, <2>2
      <4>2. UsesBuffer(r, have) BY <2>0, <2>4, <3>2, <4>1 DEF UsesBuffer
      <4> QED BY <4>2 DEF compute_target_weights
    <3> QED BY <3>1, <3>2
  <2>6. Buffered(r, have) \in TwoLegs /\ Apart(Buffered(r, have))
    <3>1. Members(r) \in SUBSET Symbols BY MembersFacts
    <3> QED BY <2>1, <2>2, <3>1 DEF TwoLegs, Apart
  <2> QED BY <2>1, <2>5, <2>6
<1> QED BY <1>2, <1>3
-----------------------------------------------------------------------------
(* An order of all symbols has each of them once, a row of a universe some *)
(* of its symbols.                                                         *)
LEMMA OrdersAreRows == ASSUME NEW o \in Orders PROVE Row(o)
<1>1. o \in Seq(Symbols) /\ Range(o) = Symbols /\ Len(o) = N BY SelectionAssumption
<1>2. N \in Nat BY BacktestAssumption
<1>3. DOMAIN o = 1..N /\ o \in [1..N -> Symbols] BY <1>1, SequenceIsFunction
<1>4. o \in Surjection(1..N, Symbols)
  <2>1. \A s \in Symbols : \E i \in 1..N : o[i] = s BY <1>1, <1>3, MembersInRange
  <2> QED BY <1>3, <2>1 DEF Surjection
<1>5. IsFiniteSet(1..N) BY <1>2, FS_Interval
<1>6. o \in Injection(1..N, Symbols) BY <1>4, <1>5, FS_Surjection DEF Symbols
<1>7. \A i, j \in 1..N : i # j => o[i] # o[j] BY <1>3, <1>6 DEF Injection, IsInjective
<1> QED BY <1>1, <1>7 DEF Row, Distinct

LEMMA RowsAreRows ==
  ASSUME NEW U \in SUBSET Symbols, NEW r \in Rows[U]
  PROVE  Row(r) /\ Members(r) \in SUBSET U
<1>1. PICK o \in Orders, V \in SUBSET U : r = Only(o, V) BY DEF Rows
<1>2. Row(o) BY OrdersAreRows
<1>3. o \in Seq(Symbols) /\ Distinct(o) BY <1>2 DEF Row
<1>4. OnlyTakes(Symbols, o, V) BY <1>3, OnlyMembers
<1>5. Only(o, V) \in Seq(Symbols) /\ \A i \in 1..Len(Only(o, V)) : Only(o, V)[i] \in V
  BY <1>4 DEF OnlyTakes
<1>6. Distinct(Only(o, V)) BY <1>3, OnlyKeepsDistinct
<1> QED BY <1>1, <1>5, <1>6 DEF Row, Members
-----------------------------------------------------------------------------
(* The cut.                                                                *)
LEMMA SmallestOfThree ==
  ASSUME NEW a \in Nat, NEW b \in Nat, NEW c \in Nat
  PROVE  Min({a, b, c}) \in Nat /\ Min({a, b, c}) <= a
<1>1. \E x \in {a, b, c} : \A y \in {a, b, c} : x <= y OBVIOUS
<1>2. Min({a, b, c}) \in {a, b, c} /\ \A y \in {a, b, c} : Min({a, b, c}) <= y BY <1>1 DEF Min
<1> QED BY <1>2

LEMMA FirstColumnsFew ==
  ASSUME NEW S \in SUBSET Symbols, NEW k \in Nat
  PROVE  FirstColumns(S, k) \in SUBSET S /\ Cardinality(FirstColumns(S, k)) <= k
<1> DEFINE R == {p \in Symbols \X Symbols : p[1] < p[2]}
<1>1. N \in Nat BY BacktestAssumption
<1>2. \A s \in S : s \in Symbols /\ s \in Nat BY <1>1 DEF Symbols
<1>3. \A s, t \in S : <<t, s>> \in R <=> t < s BY <1>2
<1> HIDE DEF R
<1>4. IsOrder(R, S) BY <1>2, <1>3 DEF IsOrder
<1>5. IsFiniteSet(S)
  <2>1. IsFiniteSet(Symbols) BY <1>1, FS_Interval DEF Symbols
  <2> QED BY <2>1, FS_Subset
<1>6. FirstColumns(S, k) = Foremost(R, S, k)
  <2>1. \A s \in S : {t \in S : t < s} = InFront(R, S, s) BY <1>3 DEF InFront
  <2> QED BY <2>1 DEF FirstColumns, Foremost
<1> QED BY <1>4, <1>5, <1>6, ForemostFacts

LEMMA StrongestFew ==
  ASSUME NEW r, Row(r), NEW S \in SUBSET Members(r), NEW k \in Nat
  PROVE  /\ StrongestLong(r, S, k) \in SUBSET S /\ Cardinality(StrongestLong(r, S, k)) <= k
         /\ StrongestShort(r, S, k) \in SUBSET S /\ Cardinality(StrongestShort(r, S, k)) <= k
<1>1. IsFiniteSet(S) BY MembersFacts, FS_Subset
<1>2. IsOrder(Upwards(r), S) /\ IsOrder(Downwards(r), S) BY PlaceFacts, OrderOfPart
<1>3. /\ Foremost(Upwards(r), S, k) \in SUBSET S /\ Cardinality(Foremost(Upwards(r), S, k)) <= k
      /\ Foremost(Downwards(r), S, k) \in SUBSET S /\ Cardinality(Foremost(Downwards(r), S, k)) <= k
  BY <1>1, <1>2, ForemostFacts
<1> QED BY <1>3, StrongestIsForemost

LEMMA CapFacts ==
  ASSUME NEW budget \in Nat
  PROVE  max_positions_for_capital(budget) \in Nat
<1>1. Standard \in Nat \ {0} BY SelectionAssumption
<1>2. MinPosition \in Nat \ {0} BY <1>1 DEF MinPosition
<1> QED BY <1>2 DEF max_positions_for_capital

(* The book is a part of what was chosen, and the capital holds it.        *)
LEMMA CutFits ==
  ASSUME NEW r, Row(r), NEW have, NEW b, NEW budget \in Nat,
         b \in [long : SUBSET Members(r), short : SUBSET Members(r)]
  PROVE  /\ Cut(r, have, b, budget) \in TwoLegs
         /\ Cut(r, have, b, budget).long \in SUBSET b.long
         /\ Cut(r, have, b, budget).short \in SUBSET b.short
         /\ Cardinality(Names(Cut(r, have, b, budget))) <= max_positions_for_capital(budget)
<1> DEFINE cap == max_positions_for_capital(budget)
           side == Min({cap \div 2, Cardinality(b.long), Cardinality(b.short)})
           c == Cut(r, have, b, budget)
<1>1. cap \in Nat BY CapFacts
<1>2. b.long \in SUBSET Members(r) /\ b.short \in SUBSET Members(r) OBVIOUS
<1>3. Members(r) \in SUBSET Symbols /\ IsFiniteSet(Members(r)) BY MembersFacts
<1>4. \A S \in SUBSET Members(r) : IsFiniteSet(S) /\ Cardinality(S) \in Nat
  BY <1>3, FS_Subset, FS_CardinalityType
<1>5. side \in Nat /\ 2 * side <= cap
  <2>1. cap \div 2 \in Nat /\ 2 * (cap \div 2) <= cap
    <3> HIDE DEF cap
    <3> QED BY <1>1
  <2> HIDE DEF cap
  <2>2. Cardinality(b.long) \in Nat /\ Cardinality(b.short) \in Nat BY <1>2, <1>4
  <2>3. side \in Nat /\ side <= cap \div 2 BY <2>1, <2>2, SmallestOfThree
  <2> HIDE DEF side
  <2> QED BY <1>1, <2>1, <2>3
<1>6. c = IF Cardinality(Names(b)) <= cap THEN b
          ELSE IF UsesBuffer(r, have)
          THEN [long |-> StrongestLong(r, b.long, side), short |-> StrongestShort(r, b.short, side)]
          ELSE [long |-> FirstColumns(b.long, side), short |-> FirstColumns(b.short, side)]
  BY DEF Cut
<1> HIDE DEF cap, side, c
<1>7. CASE Cardinality(Names(b)) <= cap
  BY <1>2, <1>3, <1>6, <1>7 DEF c, cap, TwoLegs
<1>8. CASE ~(Cardinality(Names(b)) <= cap)
  <2>1. /\ StrongestLong(r, b.long, side) \in SUBSET b.long
        /\ Cardinality(StrongestLong(r, b.long, side)) <= side
        /\ StrongestShort(r, b.short, side) \in SUBSET b.short
        /\ Cardinality(StrongestShort(r, b.short, side)) <= side
    BY <1>2, <1>5, StrongestFew
  <2>2. /\ FirstColumns(b.long, side) \in SUBSET b.long /\ Cardinality(FirstColumns(b.long, side)) <= side
        /\ FirstColumns(b.short, side) \in SUBSET b.short /\ Cardinality(FirstColumns(b.short, side)) <= side
    <3>1. b.long \in SUBSET Symbols /\ b.short \in SUBSET Symbols BY <1>2, <1>3
    <3> QED BY <1>5, <3>1, FirstColumnsFew
  <2>3. /\ c.long \in SUBSET b.long /\ c.short \in SUBSET b.short
        /\ c = [long |-> c.long, short |-> c.short]
        /\ Cardinality(c.long) <= side /\ Cardinality(c.short) <= side
    BY <1>6, <1>8, <2>1, <2>2
  <2>4. c.long \in SUBSET Members(r) /\ c.short \in SUBSET Members(r) BY <1>2, <2>3
  <2>5. Cardinality(Names(c)) <= Cardinality(c.long) + Cardinality(c.short)
    <3>1. /\ IsFiniteSet(c.long) /\ IsFiniteSet(c.short)
          /\ Cardinality(c.long) \in Nat /\ Cardinality(c.short) \in Nat
          /\ Cardinality(c.long \cap c.short) \in Nat
      <4>1. c.long \cap c.short \in SUBSET Members(r) BY <2>4
      <4> QED BY <1>4, <2>4, <4>1
    <3>2. Cardinality(c.long \cup c.short)
            = Cardinality(c.long) + Cardinality(c.short) - Cardinality(c.long \cap c.short)
      BY <3>1, FS_Union
    <3> QED BY <3>1, <3>2 DEF Names
  <2>6. Cardinality(Names(c)) <= cap
    <3>1. Cardinality(c.long) \in Nat /\ Cardinality(c.short) \in Nat /\ Cardinality(Names(c)) \in Nat
      <4>1. Names(c) \in SUBSET Members(r) BY <2>4 DEF Names
      <4> QED BY <1>4, <2>4, <4>1
    <3> QED BY <1>1, <1>5, <2>3, <2>5, <3>1
  <2>7. c \in TwoLegs BY <1>3, <2>3, <2>4 DEF TwoLegs
  <2> QED BY <2>3, <2>6, <2>7 DEF c, cap
<1> QED BY <1>7, <1>8
-----------------------------------------------------------------------------
(* The rounds.                                                             *)
SoundAsk ==
  phase = "resolved" =>
    /\ ask.universe \in SUBSET Symbols
    /\ ask.budget \in Nat
    /\ engine = "v1" /\ ask.told =>
         \A s \in ask.universe :
           ask.min[s] \in Nat /\ (n_eff(ask.budget) >= 1 => Affordable(ask.min[s], ask.budget))

SoundBooks ==
  /\ held \in TwoLegs /\ research \in TwoLegs
  /\ pick.book \in TwoLegs /\ pick.chosen \in TwoLegs
  /\ Apart(held) /\ Apart(pick.book)

Following ==
  engine = "v1" /\ intact =>
    /\ phase \in {"idle", "resolved"} => held = research
    /\ phase = "picked" => pick.chosen = research

SelectInv == SelectTypeOK /\ SoundAsk /\ SoundBooks /\ Following

LEMMA TypeIs ==
  SelectTypeOK <=>
    /\ engine \in Engines /\ phase \in {"idle", "resolved", "picked"}
    /\ ask.universe \subseteq Symbols /\ ask.told \in BOOLEAN
    /\ held \in TwoLegs /\ research \in TwoLegs /\ pick.book \in TwoLegs /\ pick.chosen \in TwoLegs
    /\ Apart(held)
    /\ intact \in BOOLEAN
BY DEF SelectTypeOK, TwoLegs, Apart

LEMMA NothingIsBook == Nothing \in TwoLegs /\ Apart(Nothing)
BY DEF Nothing, TwoLegs, Apart

LEMMA SelectStarts == SelectInit => SelectInv
<1> SUFFICES ASSUME SelectInit PROVE SelectInv OBVIOUS
<1>1. SelectTypeOK BY NothingIsBook, TypeIs DEF SelectInit, NoAsk, NoPick
<1>2. SoundAsk BY DEF SelectInit, SoundAsk
<1>3. SoundBooks BY NothingIsBook DEF SelectInit, SoundBooks, NoPick
<1>4. Following BY DEF SelectInit, Following
<1> QED BY <1>1, <1>2, <1>3, <1>4 DEF SelectInv

LEMMA ResolvesKeeps ==
  ASSUME SelectInv, Resolves PROVE SelectInv'
<1>1. /\ engine \in Engines /\ held \in TwoLegs /\ research \in TwoLegs
      /\ pick.book \in TwoLegs /\ pick.chosen \in TwoLegs
      /\ ask.universe \subseteq Symbols /\ ask.told \in BOOLEAN
      /\ Apart(held) /\ Apart(pick.book) /\ intact \in BOOLEAN /\ phase = "idle"
  BY TypeIs DEF SelectInv, SoundBooks, Resolves
<1>2. PICK listed \in Worlds, budget \in Budgets, ends \in [tickers : BOOLEAN, minimums : BOOLEAN] :
        LET universe == build_universe(listed, ends, budget)
        IN IF Cardinality(universe) < MinUniverse
           THEN intact /\ Parted /\ UNCHANGED <<phase, ask>>
           ELSE /\ phase' = "resolved"
                /\ ask' = IF engine = "v3" THEN [NoAsk EXCEPT !.universe = universe]
                          ELSE [universe |-> universe, budget |-> budget, told |-> ends.minimums,
                                min |-> [s \in universe |-> listed[s].min]]
                /\ UNCHANGED <<research, intact>>
  BY DEF Resolves
<1>3. UNCHANGED <<engine, pick, bars, held>> BY DEF Resolves
<1> DEFINE universe == build_universe(listed, ends, budget)
<1>4. CASE Cardinality(universe) < MinUniverse
  <2>1. intact' = FALSE /\ research' = Nothing /\ phase' = phase /\ ask' = ask
    BY <1>2, <1>4 DEF Parted
  <2>2. SelectTypeOK' BY <1>1, <1>3, <2>1, NothingIsBook, TypeIs DEF SelectTypeOK, TwoLegs, Apart
  <2>3. SoundAsk' BY <1>1, <2>1 DEF SoundAsk
  <2>4. SoundBooks' BY <1>1, <1>3, <2>1, NothingIsBook DEF SoundBooks, Apart, TwoLegs
  <2>5. Following' BY <2>1 DEF Following
  <2> QED BY <2>2, <2>3, <2>4, <2>5 DEF SelectInv
<1>5. CASE ~(Cardinality(universe) < MinUniverse)
  <2>1. /\ phase' = "resolved" /\ UNCHANGED <<research, intact>>
        /\ ask' = IF engine = "v3" THEN [NoAsk EXCEPT !.universe = universe]
                  ELSE [universe |-> universe, budget |-> budget, told |-> ends.minimums,
                        min |-> [s \in universe |-> listed[s].min]]
    BY <1>2, <1>5
  <2>2. universe \in SUBSET Symbols BY DEF build_universe
  <2>3. ASSUME NEW s \in universe, ends.minimums, n_eff(budget) >= 1
        PROVE  Affordable(listed[s].min, budget)
    BY <2>3 DEF build_universe
  <2>4. budget \in Nat /\ ends.minimums \in BOOLEAN BY SelectionAssumption
  <2>5. \A s \in Symbols : listed[s].min \in Nat
    <3>1. PICK odd \in SUBSET OddSymbols, kind \in Kinds :
            listed = [s \in Symbols |-> IF s \in odd THEN kind ELSE Good]
      BY DEF Worlds
    <3>2. kind.min \in Nat /\ Good.min \in Nat BY SelectionAssumption DEF Good
    <3> QED BY <3>1, <3>2
  <2> HIDE DEF universe
  <2>6. /\ ask'.universe = universe /\ ask'.told \in BOOLEAN /\ ask'.budget \in Nat
        /\ engine = "v1" => /\ ask'.budget = budget /\ ask'.told = ends.minimums
                            /\ \A s \in universe : ask'.min[s] = listed[s].min
    <3>1. CASE engine = "v3" BY <2>1, <3>1 DEF NoAsk
    <3>2. CASE engine # "v3" BY <2>1, <2>4, <3>2
    <3> QED BY <3>1, <3>2
  <2>7. SelectTypeOK' BY <1>1, <1>3, <2>1, <2>2, <2>6, TypeIs DEF SelectTypeOK, TwoLegs, Apart
  <2>8. SoundAsk'
    <3>1. ASSUME engine = "v1", ask'.told, NEW s \in universe
          PROVE  ask'.min[s] \in Nat /\ (n_eff(budget) >= 1 => Affordable(ask'.min[s], budget))
      BY <2>2, <2>3, <2>5, <2>6, <3>1
    <3> QED BY <1>3, <2>2, <2>6, <3>1 DEF SoundAsk
  <2>9. SoundBooks' BY <1>1, <1>3, <2>1 DEF SoundBooks, Apart, TwoLegs
  <2>10. Following' BY <1>1, <1>3, <2>1 DEF SelectInv, Following
  <2> QED BY <2>7, <2>8, <2>9, <2>10 DEF SelectInv
<1> QED BY <1>4, <1>5

(* What Ranks does: the round halts, or it picks what a row gives.         *)
Picks(r) ==
  LET chosen == compute_target_weights(r, held)
      cut == Cut(r, held, chosen, ask.budget)
  IN /\ phase' = "picked"
     /\ pick' = [book |-> cut, chosen |-> chosen, weights |-> Zero]
     /\ research' = IF intact THEN rank_to_weights_buffered(r, research) ELSE Nothing
     /\ intact' = intact

LEMMA RanksCases ==
  ASSUME Ranks
  PROVE  /\ phase = "resolved" /\ engine = "v1" /\ ask' = NoAsk /\ UNCHANGED <<engine, bars, held>>
         /\ \/ phase' = "idle" /\ Parted /\ UNCHANGED pick
            \/ \E r \in Rows[ask.universe] : Picks(r)
BY DEF Ranks, Picks

(* The two legs of what is chosen, and of the book.                        *)
LEMMA ChosenFacts ==
  ASSUME NEW r, Row(r), NEW have \in TwoLegs, Apart(have)
  PROVE  /\ compute_target_weights(r, have) \in [long : SUBSET Members(r), short : SUBSET Members(r)]
         /\ Apart(compute_target_weights(r, have))
         /\ Cardinality(Names(compute_target_weights(r, have))) <= 2 * k_in(Len(r))
<1> DEFINE ki == k_in(Len(r))
           c == compute_target_weights(r, have)
<1>1. Len(r) \in Nat BY SequenceIsFunction DEF Row
<1>2. ki \in Nat BY <1>1, ZoneSizes
<1>3. c = rank_to_weights_buffered(r, have) BY SameRanking
<1>4. CASE Len(r) < 4
  <2>1. c = Nothing BY <1>3, <1>4 DEF rank_to_weights_buffered
  <2>2. Names(Nothing) = {} BY DEF Names, Nothing
  <2> HIDE DEF c, ki
  <2>3. Cardinality(Names(c)) <= 2 * ki BY <1>2, <2>1, <2>2, FS_EmptySet
  <2>4. c \in [long : SUBSET Members(r), short : SUBSET Members(r)] /\ Apart(c)
    BY <2>1 DEF Nothing, Apart
  <2> QED BY <2>3, <2>4 DEF c, ki
<1>5. CASE ~(Len(r) < 4)
  <2>0. Len(r) >= 4 BY <1>1, <1>5
  <2> DEFINE long == FilledLong(r, have)
             short == FilledShort(r, have)
  <2>1. /\ Buffered(r, have) = [long |-> long, short |-> short]
        /\ rank_to_weights_buffered(r, have) = Buffered(r, have)
    BY <2>0, BufferFacts
  <2>2. /\ long \in SUBSET Members(r) /\ short \in SUBSET Members(r) /\ long \cap short = {}
        /\ Cardinality(long) <= ki /\ Cardinality(short) <= ki
    BY <2>0, BufferedLegs
  <2>3. IsFiniteSet(Members(r)) BY MembersFacts
  <2> HIDE DEF long, short, ki, c
  <2>4. c = [long |-> long, short |-> short] BY <1>3, <2>1
  <2>5. /\ IsFiniteSet(long) /\ IsFiniteSet(short)
        /\ Cardinality(long) \in Nat /\ Cardinality(short) \in Nat
    BY <2>2, <2>3, FS_Subset, FS_CardinalityType
  <2>6. Cardinality(long \cup short) = Cardinality(long) + Cardinality(short) - Cardinality(long \cap short)
    BY <2>5, FS_Union
  <2>7. Cardinality(long \cap short) = 0 BY <2>2, FS_EmptySet
  <2>8. Cardinality(Names(c)) <= 2 * ki BY <1>2, <2>2, <2>4, <2>5, <2>6, <2>7 DEF Names
  <2>9. c \in [long : SUBSET Members(r), short : SUBSET Members(r)] /\ Apart(c)
    BY <2>2, <2>4 DEF Apart
  <2> QED BY <2>8, <2>9 DEF c, ki
<1> QED BY <1>4, <1>5

LEMMA RanksKeeps ==
  ASSUME SelectInv, Ranks PROVE SelectInv'
<1>1. /\ engine \in Engines /\ held \in TwoLegs /\ research \in TwoLegs
      /\ pick.book \in TwoLegs /\ pick.chosen \in TwoLegs
      /\ Apart(held) /\ Apart(pick.book) /\ intact \in BOOLEAN
      /\ ask.universe \in SUBSET Symbols /\ ask.budget \in Nat
  BY TypeIs, RanksCases DEF SelectInv, SoundBooks, SoundAsk
<1>2. /\ phase = "resolved" /\ engine = "v1" /\ ask' = NoAsk /\ UNCHANGED <<engine, bars, held>>
      /\ \/ phase' = "idle" /\ Parted /\ UNCHANGED pick
         \/ \E r \in Rows[ask.universe] : Picks(r)
  BY RanksCases
<1>3. ask'.universe \subseteq Symbols /\ ask'.told \in BOOLEAN BY <1>2 DEF NoAsk
<1>4. CASE phase' = "idle" /\ Parted /\ UNCHANGED pick
  <2>1. intact' = FALSE /\ research' = Nothing /\ phase' = "idle" /\ pick' = pick BY <1>4 DEF Parted
  <2>2. SelectTypeOK' BY <1>1, <1>2, <1>3, <2>1, NothingIsBook, TypeIs DEF SelectTypeOK, TwoLegs, Apart
  <2>3. SoundAsk' BY <2>1 DEF SoundAsk
  <2>4. SoundBooks' BY <1>1, <1>2, <2>1, NothingIsBook DEF SoundBooks, Apart, TwoLegs
  <2>5. Following' BY <2>1 DEF Following
  <2> QED BY <2>2, <2>3, <2>4, <2>5 DEF SelectInv
<1>5. CASE \E r \in Rows[ask.universe] : Picks(r)
  <2>1. PICK r \in Rows[ask.universe] : Picks(r) BY <1>5
  <2>2. Row(r) BY <1>1, RowsAreRows
  <2> DEFINE chosen == compute_target_weights(r, held)
             cut == Cut(r, held, chosen, ask.budget)
  <2>3. /\ phase' = "picked" /\ pick' = [book |-> cut, chosen |-> chosen, weights |-> Zero]
        /\ research' = IF intact THEN rank_to_weights_buffered(r, research) ELSE Nothing
        /\ intact' = intact
    BY <2>1 DEF Picks
  <2>4. /\ chosen \in [long : SUBSET Members(r), short : SUBSET Members(r)] /\ Apart(chosen)
    BY <1>1, <2>2, ChosenFacts
  <2>5. chosen = rank_to_weights_buffered(r, held) /\ chosen \in TwoLegs BY <1>1, <2>2, SameRanking
  <2> HIDE DEF chosen
  <2>6. cut \in TwoLegs /\ cut.long \in SUBSET chosen.long /\ cut.short \in SUBSET chosen.short
    BY <1>1, <2>2, <2>4, CutFits
  <2>7. Apart(cut)
    <3> HIDE DEF cut
    <3> QED BY <2>4, <2>6 DEF Apart
  <2> HIDE DEF cut
  <2>8. intact => held = research BY <1>2 DEF SelectInv, Following
  <2>9. research' \in TwoLegs /\ (intact => research' = chosen)
    BY <1>1, <2>3, <2>5, <2>8, NothingIsBook
  <2>10. pick'.book = cut /\ pick'.chosen = chosen BY <2>3
  <2>11. SelectTypeOK'
    BY <1>1, <1>2, <1>3, <2>3, <2>5, <2>6, <2>9, <2>10, TypeIs DEF SelectTypeOK, TwoLegs, Apart
  <2>12. SoundAsk' BY <2>3 DEF SoundAsk
  <2>13. SoundBooks' BY <1>1, <1>2, <2>5, <2>6, <2>7, <2>9, <2>10 DEF SoundBooks, Apart, TwoLegs
  <2>14. Following' BY <2>3, <2>9, <2>10 DEF Following
  <2> QED BY <2>11, <2>12, <2>13, <2>14 DEF SelectInv
<1> QED BY <1>2, <1>4, <1>5

LEMMA WeighsKeeps ==
  ASSUME SelectInv, Weighs PROVE SelectInv'
<1>1. /\ engine \in Engines /\ held \in TwoLegs /\ research \in TwoLegs
      /\ pick.book \in TwoLegs /\ pick.chosen \in TwoLegs
      /\ Apart(held) /\ Apart(pick.book) /\ intact \in BOOLEAN
  BY TypeIs DEF SelectInv, SoundBooks
<1>2. /\ engine = "v3" /\ ask' = NoAsk /\ UNCHANGED <<engine, bars, held, research, intact>>
      /\ phase' \in {"idle", "picked"}
      /\ pick' = pick \/ (pick'.book = Nothing /\ pick'.chosen = Nothing)
  <2>1. ASSUME NEW w PROVE LET p == [NoPick EXCEPT !.weights = w] IN p.book = Nothing /\ p.chosen = Nothing
    BY DEF NoPick
  <2> QED BY <2>1 DEF Weighs
<1>3. ask'.universe \subseteq Symbols /\ ask'.told \in BOOLEAN BY <1>2 DEF NoAsk
<1>4. pick'.book \in TwoLegs /\ pick'.chosen \in TwoLegs /\ Apart(pick'.book)
  BY <1>1, <1>2, NothingIsBook
<1>5. SelectTypeOK' BY <1>1, <1>2, <1>3, <1>4, TypeIs DEF SelectTypeOK, TwoLegs, Apart
<1>6. SoundAsk' BY <1>2 DEF SoundAsk
<1>7. SoundBooks' BY <1>1, <1>2, <1>4 DEF SoundBooks, Apart, TwoLegs
<1>8. Following' BY <1>2 DEF Following
<1> QED BY <1>5, <1>6, <1>7, <1>8 DEF SelectInv

LEMMA TradesKeeps ==
  ASSUME SelectInv, Trades PROVE SelectInv'
<1>1. /\ engine \in Engines /\ held \in TwoLegs /\ research \in TwoLegs
      /\ pick.book \in TwoLegs /\ pick.chosen \in TwoLegs
      /\ Apart(held) /\ Apart(pick.book) /\ intact \in BOOLEAN
      /\ ask.universe \subseteq Symbols /\ ask.told \in BOOLEAN
  BY TypeIs DEF SelectInv, SoundBooks
<1>2. PICK missed \in SUBSET Differ :
        /\ held' = [long |-> (pick.book.long \ missed) \cup (held.long \cap missed),
                    short |-> (pick.book.short \ missed) \cup (held.short \cap missed)]
        /\ IF missed = {} /\ pick.book = pick.chosen THEN UNCHANGED <<intact, research>> ELSE Parted
  BY DEF Trades
<1>3. phase = "picked" /\ phase' = "idle" /\ pick' = NoPick /\ UNCHANGED <<engine, ask, bars>> BY DEF Trades
<1>4. held' \in TwoLegs /\ Apart(held')
  <2>1. /\ pick.book.long \in SUBSET Symbols /\ pick.book.short \in SUBSET Symbols
        /\ held.long \in SUBSET Symbols /\ held.short \in SUBSET Symbols
        /\ pick.book.long \cap pick.book.short = {} /\ held.long \cap held.short = {}
    BY <1>1 DEF TwoLegs, Apart
  <2> DEFINE a == (pick.book.long \ missed) \cup (held.long \cap missed)
             b == (pick.book.short \ missed) \cup (held.short \cap missed)
  <2>2. a \in SUBSET Symbols /\ b \in SUBSET Symbols /\ a \cap b = {} BY <2>1
  <2>3. held' = [long |-> a, short |-> b] BY <1>2
  <2> HIDE DEF a, b
  <2> QED BY <2>2, <2>3 DEF TwoLegs, Apart
<1>5. pick'.book = Nothing /\ pick'.chosen = Nothing BY <1>3 DEF NoPick
<1>6. /\ research' \in TwoLegs /\ intact' \in BOOLEAN
      /\ engine = "v1" /\ intact' => held' = research'
  <2>1. CASE missed = {} /\ pick.book = pick.chosen
    <3>1. intact' = intact /\ research' = research BY <1>2, <2>1
    <3>2. held' = pick.book
      <4>1. held' = [long |-> pick.book.long, short |-> pick.book.short] BY <1>2, <2>1
      <4> QED BY <1>1, <4>1 DEF TwoLegs
    <3>3. engine = "v1" /\ intact => pick.chosen = research BY <1>3 DEF SelectInv, Following
    <3> QED BY <1>1, <2>1, <3>1, <3>2, <3>3
  <2>2. CASE ~(missed = {} /\ pick.book = pick.chosen)
    <3>1. intact' = FALSE /\ research' = Nothing BY <1>2, <2>2 DEF Parted
    <3> QED BY <3>1, NothingIsBook
  <2> QED BY <2>1, <2>2
<1>7. SelectTypeOK' BY <1>1, <1>3, <1>4, <1>5, <1>6, NothingIsBook, TypeIs DEF SelectTypeOK, TwoLegs, Apart
<1>8. SoundAsk' BY <1>3 DEF SoundAsk
<1>9. SoundBooks' BY <1>4, <1>5, <1>6, NothingIsBook DEF SoundBooks, Apart, TwoLegs
<1>10. Following' BY <1>3, <1>6 DEF Following
<1> QED BY <1>7, <1>8, <1>9, <1>10 DEF SelectInv

LEMMA SelectKeeps == SelectInv /\ [SelectNext]_selectVars => SelectInv'
<1> SUFFICES ASSUME SelectInv, [SelectNext]_selectVars PROVE SelectInv' OBVIOUS
<1>1. CASE Resolves BY <1>1, ResolvesKeeps
<1>2. CASE Ranks BY <1>2, RanksKeeps
<1>3. CASE Weighs BY <1>3, WeighsKeeps
<1>4. CASE Trades BY <1>4, TradesKeeps
<1>5. CASE BarCloses \/ UNCHANGED selectVars
  <2>1. UNCHANGED <<engine, phase, ask, pick, held, research, intact>> BY <1>5 DEF BarCloses, selectVars
  <2>2. SelectTypeOK' BY <2>1 DEF SelectInv, SelectTypeOK
  <2>3. SoundAsk' BY <2>1 DEF SelectInv, SoundAsk, n_eff, Affordable, max_positions_for_capital
  <2>4. SoundBooks' BY <2>1 DEF SelectInv, SoundBooks, Apart
  <2>5. Following' BY <2>1 DEF SelectInv, Following
  <2> QED BY <2>2, <2>3, <2>4, <2>5 DEF SelectInv
<1> QED BY <1>1, <1>2, <1>3, <1>4, <1>5 DEF SelectNext

(* F3, F37: what compute_target_weights picks from the account's positions *)
(* is what rank_to_weights_buffered picks from the research's, on every    *)
(* row, in every run in which no round was missed so far.                  *)
THEOREM RanksAsTested == SelectSpec => [](SelectTypeOK /\ LiveFollowsResearch)
<1>1. SelectInv => SelectTypeOK /\ LiveFollowsResearch
  BY DEF SelectInv, Following, LiveFollowsResearch
<1> QED BY <1>1, SelectStarts, SelectKeeps, PTL DEF SelectSpec
-----------------------------------------------------------------------------
(* The minimums.                                                           *)
LEMMA SmallerOfTwo ==
  ASSUME NEW a \in Nat, NEW b \in Nat
  PROVE  Min({a, b}) \in {a, b} /\ Min({a, b}) <= a /\ Min({a, b}) <= b
<1>1. \E x \in {a, b} : \A y \in {a, b} : x <= y OBVIOUS
<1> QED BY <1>1 DEF Min

(* What one position can pay, as many can.                                 *)
LEMMA AllCanPay ==
  ASSUME NEW min \in Nat, NEW many \in Nat, NEW most \in Nat, NEW budget \in Nat,
         many <= most, 6 * min * most <= 5 * budget
  PROVE  budget >= min * many
<1>1. PICK d \in Nat : most = many + d
  <2>1. most - many \in Nat /\ most = many + (most - many) OBVIOUS
  <2> QED BY <2>1
<1> DEFINE a == min * many
           b == min * d
<1>2. a \in Nat /\ b \in Nat BY <1>1
<1>3. 6 * min * most = 6 * (a + b) BY <1>1
<1> HIDE DEF a, b
<1>4. budget >= a BY <1>2, <1>3
<1> QED BY <1>4 DEF a

LEMMA PicksPay ==
  ASSUME SelectInv, phase = "resolved", engine = "v1", ask.told,
         NEW r \in Rows[ask.universe], Picks(r)
  PROVE  \A s \in Names(pick'.book) : ask.budget >= ask.min[s] * Shares(pick'.book)
<1>1. /\ ask.universe \in SUBSET Symbols /\ ask.budget \in Nat
      /\ \A s \in ask.universe :
           ask.min[s] \in Nat /\ (n_eff(ask.budget) >= 1 => Affordable(ask.min[s], ask.budget))
      /\ held \in TwoLegs /\ Apart(held)
  BY DEF SelectInv, SoundAsk, SoundBooks
<1>2. Row(r) /\ Members(r) \in SUBSET ask.universe BY <1>1, RowsAreRows
<1> DEFINE chosen == compute_target_weights(r, held)
           cut == Cut(r, held, chosen, ask.budget)
           cap == max_positions_for_capital(ask.budget)
           many == Cardinality(Names(cut))
           shares == Shares(cut)
<1>3. pick'.book = cut BY DEF Picks
<1>4. chosen \in [long : SUBSET Members(r), short : SUBSET Members(r)]
  BY <1>1, <1>2, ChosenFacts
<1> HIDE DEF chosen
<1>5. /\ cut.long \in SUBSET chosen.long /\ cut.short \in SUBSET chosen.short /\ many <= cap
  BY <1>1, <1>2, <1>4, CutFits
<1>6. cap \in Nat BY <1>1, CapFacts
<1> HIDE DEF cut, cap
<1>7. Names(cut) \in SUBSET Names(chosen) /\ Names(chosen) \in SUBSET Members(r) BY <1>4, <1>5 DEF Names
<1>8. IsFiniteSet(Names(chosen)) /\ Cardinality(Names(chosen)) \in Nat
      /\ IsFiniteSet(Names(cut)) /\ many \in Nat /\ many <= Cardinality(Names(chosen))
  BY <1>2, <1>7, MembersFacts, FS_Subset, FS_CardinalityType
<1>9. /\ shares \in {many, n_positions} /\ shares <= many /\ shares <= n_positions
      /\ shares \in Nat /\ n_positions \in Nat /\ n_positions >= 1
  <2>1. n_positions \in Nat /\ n_positions >= 1 BY SelectionAssumption
  <2>2. shares = Min({many, n_positions}) BY DEF Shares
  <2> HIDE DEF many, shares
  <2> QED BY <1>8, <2>1, <2>2, SmallerOfTwo
<1> SUFFICES ASSUME NEW s \in Names(cut) PROVE ask.budget >= ask.min[s] * shares BY <1>3
<1>10. many >= 1 BY <1>8, FS_EmptySet
<1> HIDE DEF shares
<1>11. n_eff(ask.budget) \in {n_positions, cap}
  <2>1. n_positions \in Nat BY SelectionAssumption
  <2>2. n_eff(ask.budget) = Min({n_positions, cap}) BY DEF n_eff, cap
  <2> QED BY <1>6, <2>1, <2>2, SmallerOfTwo
<1>12. n_eff(ask.budget) \in Nat /\ shares <= n_eff(ask.budget) /\ n_eff(ask.budget) >= 1
  <2> HIDE DEF many
  <2> QED BY <1>5, <1>6, <1>8, <1>9, <1>10, <1>11
<1>13. s \in ask.universe BY <1>2, <1>7
<1>14. ask.min[s] \in Nat /\ 6 * ask.min[s] * n_eff(ask.budget) <= 5 * ask.budget
  BY <1>1, <1>12, <1>13 DEF Affordable
<1> HIDE DEF many
<1> QED BY <1>1, <1>9, <1>12, <1>14, AllCanPay

(* F40: of a book of engine v1 that holds no more than n_positions names,  *)
(* every position can pay the minimum of its symbol; of a larger one, as   *)
(* many as n_positions could.  Nothing ties top_frac to n_positions: with  *)
(* 0.10 and 12 the book is larger from a universe of 66 symbols, which     *)
(* ranks in 7 a side.                                                      *)
THEOREM LegsArePaid == SelectSpec => EveryLegIsPaid
<1> DEFINE Paid == phase' = "picked" /\ engine = "v1" /\ ask.told =>
                     \A s \in Names(pick'.book) : ask.budget >= ask.min[s] * Shares(pick'.book)
<1>1. SelectInv /\ [SelectNext]_selectVars => [Paid]_selectVars
  <2> SUFFICES ASSUME SelectInv, SelectNext, phase' = "picked", engine = "v1", ask.told
               PROVE  \A s \in Names(pick'.book) : ask.budget >= ask.min[s] * Shares(pick'.book)
    BY DEF selectVars
  <2>1. Ranks
    BY DEF SelectNext, Resolves, Weighs, Trades, BarCloses
  <2>2. /\ phase = "resolved"
        /\ \/ phase' = "idle"
           \/ \E r \in Rows[ask.universe] : Picks(r)
    BY <2>1, RanksCases
  <2>3. PICK r \in Rows[ask.universe] : Picks(r) BY <2>2
  <2> QED BY <2>2, <2>3, PicksPay
<1> QED BY <1>1, SelectStarts, SelectKeeps, PTL DEF SelectSpec, EveryLegIsPaid
-----------------------------------------------------------------------------
(* What each mark trades, and what each bar earns.                         *)
EachTurnover(books, bs) ==
  [j \in 1..Len(bs) |->
     Traded(books[j], IF j = 1 THEN Flat(bs[1]) ELSE drift_weights(books[j - 1], bs[j]))]
PeriodReturns(books, bs) == [j \in 1..(Len(bs) - 1) |-> Earned(books[j], bs[j + 1])]
BarReturns(books, bs) == [j \in 1..Len(bs) |-> IF j = 1 THEN 0 ELSE Earned(books[j - 1], bs[j])]

PeriodStart(bs) == [prev |-> Flat(bs[1]), turnover |-> <<>>, gross |-> <<>>]
PeriodStep(books, bs, i, acc) ==
  [prev |-> IF i = Len(bs) THEN books[i] ELSE drift_weights(books[i], bs[i + 1]),
   turnover |-> Append(acc.turnover, Traded(books[i], acc.prev)),
   gross |-> IF i = Len(bs) THEN acc.gross ELSE Append(acc.gross, Earned(books[i], bs[i + 1]))]
ByPeriods(f, books, bs) ==
  f = [i \in 0..Len(bs) |-> IF i = 0 THEN PeriodStart(bs) ELSE PeriodStep(books, bs, i, f[i - 1])]

LEMMA SimulateIs ==
  ASSUME NEW books, NEW bs
  PROVE  simulate(books, bs) = (CHOOSE f : ByPeriods(f, books, bs))[Len(bs)]
BY DEF simulate, ByPeriods, PeriodStart, PeriodStep

PeriodAt(books, bs, i) ==
  [prev |-> IF i = 0 THEN Flat(bs[1]) ELSE IF i = Len(bs) THEN books[i]
            ELSE drift_weights(books[i], bs[i + 1]),
   turnover |-> FirstOf(EachTurnover(books, bs), i),
   gross |-> FirstOf(PeriodReturns(books, bs), IF i = Len(bs) THEN i - 1 ELSE i)]

LEMMA PeriodNext ==
  ASSUME NEW books, NEW bs, Len(bs) \in Nat \ {0}, NEW i \in 1..Len(bs)
  PROVE  PeriodStep(books, bs, i, PeriodAt(books, bs, i - 1)) = PeriodAt(books, bs, i)
<1> DEFINE n == Len(bs)
           T == EachTurnover(books, bs)
           F == PeriodReturns(books, bs)
           a == PeriodAt(books, bs, i - 1)
<1>1. /\ n \in Nat \ {0} /\ i \in Nat \ {0} /\ i - 1 \in Nat /\ i - 1 # n /\ (i - 1) + 1 = i
      /\ (i - 1 = 0 <=> i = 1)
  OBVIOUS
<1>2. a.prev = IF i = 1 THEN Flat(bs[1]) ELSE drift_weights(books[i - 1], bs[i])
  <2> HIDE DEF n
  <2>1. a.prev = IF i - 1 = 0 THEN Flat(bs[1]) ELSE IF i - 1 = n THEN books[i - 1]
                 ELSE drift_weights(books[i - 1], bs[(i - 1) + 1])
    BY DEF PeriodAt, n
  <2> QED BY <1>1, <2>1
<1>3. a.turnover = FirstOf(T, i - 1) /\ a.gross = FirstOf(F, i - 1)
  BY <1>1 DEF PeriodAt
<1>4. Traded(books[i], a.prev) = T[i] BY <1>2 DEF EachTurnover
<1>5. i # n => Earned(books[i], bs[i + 1]) = F[i]
  <2>1. i # n => i \in 1..(n - 1) BY <1>1
  <2> QED BY <2>1 DEF PeriodReturns
<1> HIDE DEF a, T, F
<1>6. Append(a.turnover, Traded(books[i], a.prev)) = FirstOf(T, i) BY <1>1, <1>3, <1>4, ListGrows
<1>7. i # n => Append(a.gross, Earned(books[i], bs[i + 1])) = FirstOf(F, i) BY <1>1, <1>3, <1>5, ListGrows
<1>8. PeriodStep(books, bs, i, a) = [prev |-> IF i = n THEN books[i] ELSE drift_weights(books[i], bs[i + 1]),
        turnover |-> FirstOf(T, i), gross |-> FirstOf(F, IF i = n THEN i - 1 ELSE i)]
  <2>1. (IF i = n THEN a.gross ELSE Append(a.gross, Earned(books[i], bs[i + 1])))
          = FirstOf(F, IF i = n THEN i - 1 ELSE i)
    BY <1>3, <1>7
  <2> QED BY <1>6, <2>1 DEF PeriodStep
<1>9. PeriodAt(books, bs, i) = [prev |-> IF i = n THEN books[i] ELSE drift_weights(books[i], bs[i + 1]),
        turnover |-> FirstOf(T, i), gross |-> FirstOf(F, IF i = n THEN i - 1 ELSE i)]
  BY <1>1 DEF PeriodAt, T, F
<1> QED BY <1>8, <1>9 DEF a

LEMMA PeriodsEnd ==
  ASSUME NEW books, NEW bs, Len(bs) \in Nat \ {0}
  PROVE  simulate(books, bs) = PeriodAt(books, bs, Len(bs))
<1> DEFINE n == Len(bs)
           c == [i \in 0..n |-> PeriodAt(books, bs, i)]
<1>1. PeriodAt(books, bs, 0) = PeriodStart(bs)
  <2>1. 0 # Len(bs) OBVIOUS
  <2> QED BY <2>1, FirstOfNone DEF PeriodAt, PeriodStart
<1>2. \A i \in 1..n : PeriodStep(books, bs, i, PeriodAt(books, bs, i - 1)) = PeriodAt(books, bs, i)
  BY PeriodNext
<1>3. \A i \in 1..n : i - 1 \in 0..n /\ i # 0 OBVIOUS
<1>4. \A i \in 0..n : i = 0 \/ i \in 1..n OBVIOUS
<1>5. ByPeriods(c, books, bs)
  <2>1. \A i \in 0..n : c[i] = PeriodAt(books, bs, i) OBVIOUS
  <2>2. \A i \in 0..n : c[i] = IF i = 0 THEN PeriodStart(bs) ELSE PeriodStep(books, bs, i, c[i - 1])
    <3> HIDE DEF c, n
    <3> QED BY <1>1, <1>2, <1>3, <1>4, <2>1
  <2>3. c = [i \in 0..n |-> c[i]] OBVIOUS
  <2> HIDE DEF c
  <2>4. c = [i \in 0..n |-> IF i = 0 THEN PeriodStart(bs) ELSE PeriodStep(books, bs, i, c[i - 1])]
    BY <2>2, <2>3
  <2> QED BY <2>4 DEF ByPeriods
<1> DEFINE f == CHOOSE g : ByPeriods(g, books, bs)
<1>6. ByPeriods(f, books, bs) BY <1>5
<1> HIDE DEF f, c
<1>7. \A i \in 0..n : f[i] = IF i = 0 THEN PeriodStart(bs) ELSE PeriodStep(books, bs, i, f[i - 1])
  BY <1>6, Zenon DEF ByPeriods
<1>8. \A i \in 0..n : f[i] = PeriodAt(books, bs, i)
  <2> DEFINE Bad == {i \in Nat : i <= n /\ f[i] # PeriodAt(books, bs, i)}
  <2>1. SUFFICES ASSUME Bad # {} PROVE FALSE OBVIOUS
  <2>2. PICK i \in Bad : \A j \in Bad : i <= j
    <3>1. Bad \in SUBSET Nat OBVIOUS
    <3> QED BY <2>1, <3>1, LeastExists
  <2>3. i \in 0..n /\ i # 0
    <3>1. i \in 0..n BY <2>2
    <3>2. 0 \in 0..n BY <3>1
    <3>3. f[0] = PeriodAt(books, bs, 0) BY <1>1, <1>7, <3>2
    <3> QED BY <2>2, <3>1, <3>3
  <2>4. i \in 1..n /\ i - 1 \in Nat /\ i - 1 <= n /\ i - 1 \notin Bad BY <2>2, <2>3
  <2>5. f[i - 1] = PeriodAt(books, bs, i - 1) BY <2>4
  <2>6. f[i] = PeriodStep(books, bs, i, f[i - 1]) BY <1>7, <2>3
  <2>7. f[i] = PeriodAt(books, bs, i) BY <1>2, <2>4, <2>5, <2>6
  <2> QED BY <2>2, <2>7
<1>9. n \in 0..n OBVIOUS
<1>10. simulate(books, bs) = f[n] BY SimulateIs DEF f
<1> QED BY <1>8, <1>9, <1>10
-----------------------------------------------------------------------------
(* The same by bars.                                                       *)
BarStart(bs) == [held |-> Flat(bs[1]), turnover |-> <<>>, gross |-> <<>>]
BarStep(books, bs, i, acc) ==
  LET drifted == IF i = 1 THEN acc.held ELSE drift_weights(acc.held, bs[i])
  IN [held |-> books[i],
      turnover |-> Append(acc.turnover, Traded(books[i], drifted)),
      gross |-> Append(acc.gross, IF i = 1 THEN 0 ELSE Earned(acc.held, bs[i]))]
ByBars(f, books, bs) ==
  f = [i \in 0..Len(bs) |-> IF i = 0 THEN BarStart(bs) ELSE BarStep(books, bs, i, f[i - 1])]

LEMMA MarkedIs ==
  ASSUME NEW books, NEW bs
  PROVE  simulate_marked_to_market(books, bs) = (CHOOSE f : ByBars(f, books, bs))[Len(bs)]
BY DEF simulate_marked_to_market, ByBars, BarStart, BarStep

BarAt(books, bs, i) ==
  [held |-> IF i = 0 THEN Flat(bs[1]) ELSE books[i],
   turnover |-> FirstOf(EachTurnover(books, bs), i),
   gross |-> FirstOf(BarReturns(books, bs), i)]

LEMMA BarNext ==
  ASSUME NEW books, NEW bs, Len(bs) \in Nat \ {0}, NEW i \in 1..Len(bs)
  PROVE  BarStep(books, bs, i, BarAt(books, bs, i - 1)) = BarAt(books, bs, i)
<1> DEFINE T == EachTurnover(books, bs)
           E == BarReturns(books, bs)
           a == BarAt(books, bs, i - 1)
           drifted == IF i = 1 THEN a.held ELSE drift_weights(a.held, bs[i])
           earned == IF i = 1 THEN 0 ELSE Earned(a.held, bs[i])
<1>1. i \in Nat \ {0} /\ i - 1 \in Nat /\ (i - 1 = 0 <=> i = 1) OBVIOUS
<1>2. a.held = IF i = 1 THEN Flat(bs[1]) ELSE books[i - 1]
  <2>1. a.held = IF i - 1 = 0 THEN Flat(bs[1]) ELSE books[i - 1] BY DEF BarAt
  <2> QED BY <1>1, <2>1
<1>3. a.turnover = FirstOf(T, i - 1) /\ a.gross = FirstOf(E, i - 1) BY DEF BarAt
<1>4. Traded(books[i], drifted) = T[i] BY <1>2 DEF EachTurnover
<1>5. earned = E[i] BY <1>2 DEF BarReturns
<1> HIDE DEF a, T, E
<1>6. Append(a.turnover, T[i]) = FirstOf(T, i) BY <1>1, <1>3, ListGrows
<1>7. Append(a.gross, E[i]) = FirstOf(E, i) BY <1>1, <1>3, ListGrows
<1>8. BarStep(books, bs, i, a) = [held |-> books[i], turnover |-> FirstOf(T, i), gross |-> FirstOf(E, i)]
  BY <1>4, <1>5, <1>6, <1>7 DEF BarStep
<1>9. BarAt(books, bs, i) = [held |-> books[i], turnover |-> FirstOf(T, i), gross |-> FirstOf(E, i)]
  BY <1>1 DEF BarAt, T, E
<1> QED BY <1>8, <1>9 DEF a

LEMMA BarsEnd ==
  ASSUME NEW books, NEW bs, Len(bs) \in Nat \ {0}
  PROVE  simulate_marked_to_market(books, bs) = BarAt(books, bs, Len(bs))
<1> DEFINE n == Len(bs)
           c == [i \in 0..n |-> BarAt(books, bs, i)]
<1>1. BarAt(books, bs, 0) = BarStart(bs) BY FirstOfNone DEF BarAt, BarStart
<1>2. \A i \in 1..n : BarStep(books, bs, i, BarAt(books, bs, i - 1)) = BarAt(books, bs, i)
  BY BarNext
<1>3. \A i \in 1..n : i - 1 \in 0..n /\ i # 0 OBVIOUS
<1>4. \A i \in 0..n : i = 0 \/ i \in 1..n OBVIOUS
<1>5. ByBars(c, books, bs)
  <2>1. \A i \in 0..n : c[i] = BarAt(books, bs, i) OBVIOUS
  <2>2. \A i \in 0..n : c[i] = IF i = 0 THEN BarStart(bs) ELSE BarStep(books, bs, i, c[i - 1])
    <3> HIDE DEF c, n
    <3> QED BY <1>1, <1>2, <1>3, <1>4, <2>1
  <2>3. c = [i \in 0..n |-> c[i]] OBVIOUS
  <2> HIDE DEF c
  <2>4. c = [i \in 0..n |-> IF i = 0 THEN BarStart(bs) ELSE BarStep(books, bs, i, c[i - 1])]
    BY <2>2, <2>3
  <2> QED BY <2>4 DEF ByBars
<1> DEFINE f == CHOOSE g : ByBars(g, books, bs)
<1>6. ByBars(f, books, bs) BY <1>5
<1> HIDE DEF f, c
<1>7. \A i \in 0..n : f[i] = IF i = 0 THEN BarStart(bs) ELSE BarStep(books, bs, i, f[i - 1])
  BY <1>6, Zenon DEF ByBars
<1>8. \A i \in 0..n : f[i] = BarAt(books, bs, i)
  <2> DEFINE Bad == {i \in Nat : i <= n /\ f[i] # BarAt(books, bs, i)}
  <2>1. SUFFICES ASSUME Bad # {} PROVE FALSE OBVIOUS
  <2>2. PICK i \in Bad : \A j \in Bad : i <= j
    <3>1. Bad \in SUBSET Nat OBVIOUS
    <3> QED BY <2>1, <3>1, LeastExists
  <2>3. i \in 0..n /\ i # 0
    <3>1. i \in 0..n BY <2>2
    <3>2. 0 \in 0..n BY <3>1
    <3>3. f[0] = BarAt(books, bs, 0) BY <1>1, <1>7, <3>2
    <3> QED BY <2>2, <3>1, <3>3
  <2>4. i \in 1..n /\ i - 1 \in Nat /\ i - 1 <= n /\ i - 1 \notin Bad BY <2>2, <2>3
  <2>5. f[i - 1] = BarAt(books, bs, i - 1) BY <2>4
  <2>6. f[i] = BarStep(books, bs, i, f[i - 1]) BY <1>7, <2>3
  <2>7. f[i] = BarAt(books, bs, i) BY <1>2, <2>4, <2>5, <2>6
  <2> QED BY <2>2, <2>7
<1>9. n \in 0..n OBVIOUS
<1>10. simulate_marked_to_market(books, bs) = f[n] BY MarkedIs DEF f
<1> QED BY <1>8, <1>9, <1>10

(* Both trade the same, and what follows a mark is what the next bar       *)
(* earns.                                                                  *)
LEMMA SimulationsFacts ==
  ASSUME NEW books, NEW bs, Len(bs) \in Nat \ {0}
  PROVE  /\ simulate(books, bs).turnover = simulate_marked_to_market(books, bs).turnover
         /\ simulate(books, bs).gross = Tail(simulate_marked_to_market(books, bs).gross)
         /\ \A k \in 2..Len(bs) : simulate_marked_to_market(books, bs).gross[k] = Earned(books[k - 1], bs[k])
<1> DEFINE n == Len(bs)
           E == BarReturns(books, bs)
           F == PeriodReturns(books, bs)
           all == FirstOf(E, n)
           V == {E[j] : j \in 1..n}
<1>1. simulate(books, bs) = PeriodAt(books, bs, n) /\ simulate_marked_to_market(books, bs) = BarAt(books, bs, n)
  BY PeriodsEnd, BarsEnd
<1>2. PeriodAt(books, bs, n).turnover = BarAt(books, bs, n).turnover BY DEF PeriodAt, BarAt
<1>3. PeriodAt(books, bs, n).gross = FirstOf(F, n - 1) /\ BarAt(books, bs, n).gross = all
  BY DEF PeriodAt, BarAt
<1>4. n \in Nat \ {0} /\ n - 1 \in Nat OBVIOUS
<1>5. \A j \in 1..(n - 1) : j + 1 \in 1..n /\ F[j] = E[j + 1]
  <2> TAKE j \in 1..(n - 1)
  <2>1. j + 1 \in 1..n /\ j + 1 # 1 /\ (j + 1) - 1 = j BY <1>4
  <2>2. E[j + 1] = Earned(books[(j + 1) - 1], bs[j + 1]) BY <2>1 DEF BarReturns
  <2> QED BY <2>1, <2>2 DEF PeriodReturns
<1>6. all \in Seq(V) /\ Len(all) = n /\ \A j \in 1..n : all[j] = E[j]
  <2>1. all \in [1..n -> V] /\ \A j \in 1..n : all[j] = E[j] BY DEF FirstOf
  <2> HIDE DEF all, V, n
  <2> QED BY <1>4, <2>1, FunctionIsSequence
<1> HIDE DEF V
<1>7. Tail(all) = FirstOf(F, n - 1)
  <2> HIDE DEF all, n, E, F
  <2>1. all # <<>> BY <1>4, <1>6
  <2>2. Tail(all) \in Seq(V) /\ Len(Tail(all)) = n - 1 /\ \A j \in 1..(n - 1) : Tail(all)[j] = all[j + 1]
    BY <1>6, <2>1, HeadTailProperties
  <2>3. Tail(all) = [j \in 1..(n - 1) |-> Tail(all)[j]] BY <1>4, <2>2, SequenceIsFunction
  <2>4. \A j \in 1..(n - 1) : Tail(all)[j] = F[j] BY <1>5, <1>6, <2>2
  <2>5. [j \in 1..(n - 1) |-> Tail(all)[j]] = [j \in 1..(n - 1) |-> F[j]] BY <2>4
  <2> QED BY <2>3, <2>5 DEF FirstOf
<1>8. \A k \in 2..n : all[k] = Earned(books[k - 1], bs[k])
  <2>1. \A k \in 2..n : k \in 1..n /\ k # 1 BY <1>4
  <2>2. \A k \in 2..n : E[k] = Earned(books[k - 1], bs[k]) BY <2>1 DEF BarReturns
  <2> HIDE DEF all, E
  <2> QED BY <1>6, <2>1, <2>2
<1> HIDE DEF all, F, E
<1> QED BY <1>1, <1>2, <1>3, <1>7, <1>8
-----------------------------------------------------------------------------
(* How the signals are combined.                                           *)
LEMMA EagerIs == ASSUME NEW f PROVE Eager(f) = f
BY DEF Eager

(* Two histories that agree but for the last of k marks.                   *)
Alike(s, t, k) ==
  /\ Len(s) = k /\ Len(t) = k
  /\ \A j \in 1..(k - 1) : s[j] = t[j]

LEMMA SameReturns ==
  ASSUME NEW s, NEW t, NEW k \in Nat, k >= 2, Alike(s, t, k), NEW name, NEW i \in 1..(k - 2)
  PROVE  factor_returns(name, s)[i] = factor_returns(name, t)[i]
<1>1. i \in 1..(k - 1) /\ i + 1 \in 1..(k - 1) /\ 1 \in Nat \ {0} /\ i \in Nat OBVIOUS
<1>2. \A j \in 1..i : s[j] = t[j]
  <2>1. \A j \in 1..i : j \in 1..(k - 1) OBVIOUS
  <2> QED BY <2>1 DEF Alike
<1>3. SubSeq(s, 1, i) = SubSeq(t, 1, i) BY <1>1, <1>2, SameParts
<1>4. s[i + 1] = t[i + 1] BY <1>1 DEF Alike
<1>5. Len(s) = k /\ Len(t) = k BY DEF Alike
<1> QED BY <1>1, <1>3, <1>4, <1>5 DEF factor_returns

LEMMA SameWindows ==
  ASSUME NEW f, NEW g, NEW i \in Nat \ {0},
         \A n \in Signals : \A j \in 1..(i - 1) : f[n][j] = g[n][j]
  PROVE  Window(f, i) = Window(g, i)
<1> DEFINE m == Max({1, i - Lookback})
<1>1. m \in Nat \ {0}
  <2>1. 1 \in Int /\ i - Lookback \in Int BY BacktestAssumption
  <2> HIDE DEF m
  <2>2. m \in {1, i - Lookback} /\ m >= 1 BY <2>1, LargerOfTwo DEF m
  <2> QED BY <2>1, <2>2
<1> HIDE DEF m
<1>2. \A n \in Signals : SubSeq(f[n], m, i - 1) = SubSeq(g[n], m, i - 1)
  <2> TAKE n \in Signals
  <2>1. \A j \in m..(i - 1) : j \in 1..(i - 1) BY <1>1
  <2>2. \A j \in m..(i - 1) : f[n][j] = g[n][j] BY <2>1
  <2>3. i - 1 \in Nat OBVIOUS
  <2> QED BY <1>1, <2>2, <2>3, SameParts
<1>3. [n \in Signals |-> SubSeq(f[n], m, i - 1)] = [n \in Signals |-> SubSeq(g[n], m, i - 1)]
  BY <1>2
<1> QED BY <1>3, EagerIs DEF Window, m

Learns(w, f, rows) ==
  w = [i \in 0..rows |-> IF i = 0 THEN Unweighted ELSE Stepped(w[i - 1], Target(Window(f, i)))]

LEMMA SameWeights ==
  ASSUME NEW f, NEW g, NEW rows \in Nat, \A i \in 1..rows : Window(f, i) = Window(g, i)
  PROVE  adaptive_weights(f, rows) = adaptive_weights(g, rows)
<1>1. adaptive_weights(f, rows) = (CHOOSE w : Learns(w, f, rows)) BY DEF adaptive_weights, Learns
<1>2. adaptive_weights(g, rows) = (CHOOSE w : Learns(w, g, rows)) BY DEF adaptive_weights, Learns
<1>3. \A w : Learns(w, f, rows) <=> Learns(w, g, rows)
  <2> TAKE w
  <2>1. \A i \in 0..rows : i = 0 \/ Window(f, i) = Window(g, i)
    <3>1. \A i \in 0..rows : i = 0 \/ i \in 1..rows OBVIOUS
    <3> QED BY <3>1
  <2>2. [i \in 0..rows |-> IF i = 0 THEN Unweighted ELSE Stepped(w[i - 1], Target(Window(f, i)))]
         = [i \in 0..rows |-> IF i = 0 THEN Unweighted ELSE Stepped(w[i - 1], Target(Window(g, i)))]
    BY <2>1, Zenon
  <2> QED BY <2>2 DEF Learns
<1>4. (CHOOSE w : Learns(w, f, rows)) = (CHOOSE w : Learns(w, g, rows)) BY <1>3, Zenon
<1> QED BY <1>1, <1>2, <1>4

(* The mark of a history: its signals with the weights of its row.         *)
MarkOf(bs, w, i) ==
  [x \in DOMAIN bs[i] |-> SumFunction([n \in Signals |-> w[n] * Signal(n, SubSeq(bs, 1, i))[x]])]

FactorRows(bs) == [n \in Signals |-> factor_returns(n, bs)]

LEMMA CombinedIs ==
  ASSUME NEW bs, Len(bs) \in Nat, Len(bs) >= 2
  PROVE  combine_adaptive(bs)
           = [i \in 1..Len(bs) |->
                MarkOf(bs, IF i = Len(bs) THEN adaptive_weights(FactorRows(bs), Len(bs) - 1)[i - 1]
                           ELSE adaptive_weights(FactorRows(bs), Len(bs) - 1)[i], i)]
<1> DEFINE fac == Eager(FactorRows(bs))
           W == adaptive_weights(fac, Len(bs) - 1)
           w(i) == IF i = Len(bs) THEN W[i - 1] ELSE W[i]
           plain(i) == [n \in Signals |-> Signal(n, SubSeq(bs, 1, i))]
           sig(i) == Eager(plain(i))
           mark(i) == [x \in DOMAIN bs[i] |-> SumFunction([n \in Signals |-> w(i)[n] * sig(i)[n][x]])]
<1>1. ~ (Len(bs) < 2) OBVIOUS
<1>2. combine_adaptive(bs) = [i \in 1..Len(bs) |-> Eager(mark(i))]
  BY <1>1, Zenon DEF combine_adaptive, FactorRows
<1>3. fac = FactorRows(bs) BY EagerIs
<1>4. ASSUME NEW i PROVE Eager(mark(i)) = MarkOf(bs, w(i), i)
  <2>1. Eager(mark(i)) = mark(i) /\ sig(i) = plain(i) BY EagerIs
  <2> HIDE DEF w, sig
  <2>2. \A n \in Signals : sig(i)[n] = Signal(n, SubSeq(bs, 1, i)) BY <2>1
  <2>3. mark(i) = MarkOf(bs, w(i), i) BY <2>2, Zenon DEF MarkOf
  <2> QED BY <2>1, <2>3
<1>5. combine_adaptive(bs) = [i \in 1..Len(bs) |-> MarkOf(bs, w(i), i)]
  <2> HIDE DEF mark, w
  <2> QED BY <1>2, <1>4, Zenon
<1> QED BY <1>3, <1>5, Zenon

(* Nothing of the last bar is in the marks before it.                      *)
LEMMA MarksAgree ==
  ASSUME NEW s, NEW t, NEW k \in Nat, k >= 2, Alike(s, t, k)
  PROVE  \A i \in 1..(k - 1) : combine_adaptive(s)[i] = combine_adaptive(t)[i]
<1>1. Len(s) = k /\ Len(t) = k /\ k - 1 \in Nat BY DEF Alike
<1> DEFINE V == adaptive_weights(FactorRows(s), k - 1)
           W == adaptive_weights(FactorRows(t), k - 1)
<1>2. V = W
  <2>1. ASSUME NEW i \in 1..(k - 1) PROVE Window(FactorRows(s), i) = Window(FactorRows(t), i)
    <3>1. \A j \in 1..(i - 1) : j \in 1..(k - 2) OBVIOUS
    <3>2. \A n \in Signals : \A j \in 1..(i - 1) : factor_returns(n, s)[j] = factor_returns(n, t)[j]
      BY <3>1, SameReturns
    <3>3. \A n \in Signals : FactorRows(s)[n] = factor_returns(n, s) /\ FactorRows(t)[n] = factor_returns(n, t)
      BY DEF FactorRows
    <3>4. \A n \in Signals : \A j \in 1..(i - 1) : FactorRows(s)[n][j] = FactorRows(t)[n][j]
      BY <3>2, <3>3, Zenon
    <3>5. i \in Nat \ {0} OBVIOUS
    <3> QED BY <3>4, <3>5, SameWindows
  <2> QED BY <1>1, <2>1, SameWeights
<1>3. TAKE i \in 1..(k - 1)
<1>4. i \in 1..k /\ i # k /\ i \in Nat /\ 1 \in Nat \ {0} BY <1>1
<1>5. \A j \in 1..i : s[j] = t[j]
  <2>1. \A j \in 1..i : j \in 1..(k - 1) OBVIOUS
  <2> QED BY <2>1 DEF Alike
<1>6. SubSeq(s, 1, i) = SubSeq(t, 1, i) BY <1>4, <1>5, SameParts
<1>7. s[i] = t[i] BY DEF Alike
<1> HIDE DEF V, W
<1>8. MarkOf(s, V[i], i) = MarkOf(t, W[i], i) BY <1>2, <1>6, <1>7, Zenon DEF MarkOf
<1>9. combine_adaptive(s)[i] = MarkOf(s, V[i], i)
  BY <1>1, <1>4, CombinedIs DEF V
<1>10. combine_adaptive(t)[i] = MarkOf(t, W[i], i)
  BY <1>1, <1>4, CombinedIs DEF W
<1> QED BY <1>8, <1>9, <1>10

(* The book of a mark gives every symbol a whole number.                   *)
LEMMA BooksAreWhole ==
  ASSUME NEW value, DOMAIN value = Symbols
  PROVE  DOMAIN rank_binary(value) = Symbols /\ \A x \in Symbols : rank_binary(value)[x] \in Int
<1> DEFINE r == Ranked(value)
           k == k_in(Len(r))
           u == Unit \div (2 * k)
           T == {r[i] : i \in 1..N}
           f == [x \in DOMAIN value |->
                   CASE x \in {r[i] : i \in 1..k} -> -u
                     [] x \in {r[Len(r) + 1 - i] : i \in 1..k} -> u
                     [] OTHER -> 0]
<1>1. Cardinality(Symbols) = N
  <2>1. 1 \in Int /\ N \in Int /\ N \in Nat \ {0} BY BacktestAssumption
  <2> QED BY <2>1, FS_Interval DEF Symbols
<1>2. Len(r) = N
  <2>1. r \in [1..N -> T] BY <1>1 DEF Ranked
  <2>2. N \in Nat BY BacktestAssumption
  <2> HIDE DEF r, T
  <2> QED BY <2>1, <2>2, FunctionIsSequence
<1> HIDE DEF r, T
<1>3. k \in Nat \ {0}
  <2>1. N \in Nat BY BacktestAssumption
  <2> QED BY <1>2, <2>1, ZoneSizes
<1> HIDE DEF k
<1>4. u \in Int BY <1>3, BacktestAssumption
<1> HIDE DEF u
<1>5. -u \in Int /\ 0 \in Int BY <1>4
<1>6. rank_binary(value) = Eager(f) BY DEF rank_binary, r, k, u
<1>7. rank_binary(value) = f BY <1>6, EagerIs
<1>8. \A x \in Symbols : f[x] \in {-u, u, 0} BY Zenon
<1>9. DOMAIN f = Symbols OBVIOUS
<1> HIDE DEF f
<1> QED BY <1>4, <1>5, <1>7, <1>8, <1>9

(* A bar turned around earns the opposite.                                 *)
LEMMA TurnedEarns ==
  ASSUME NEW w, DOMAIN w = Symbols, \A x \in Symbols : w[x] \in Int,
         NEW bar \in [Symbols -> Int]
  PROVE  Earned(w, [x \in Symbols |-> -bar[x]]) = -Earned(w, bar)
<1> DEFINE minus == [x \in Symbols |-> -bar[x]]
           f == [x \in DOMAIN w |-> w[x] * minus[x]]
           g == [x \in DOMAIN w |-> w[x] * bar[x]]
<1>1. IsFiniteSet(Symbols) BY BacktestAssumption, FS_Interval DEF Symbols
<1>2. \A x \in Symbols : g[x] \in Int /\ f[x] = g[x] * (-1)
  <2> TAKE x \in Symbols
  <2>1. w[x] \in Int /\ bar[x] \in Int /\ minus[x] = -bar[x] OBVIOUS
  <2>2. \A a, b \in Int : a * b \in Int /\ a * (-b) = (a * b) * (-1) OBVIOUS
  <2>3. f[x] = w[x] * minus[x] /\ g[x] = w[x] * bar[x] OBVIOUS
  <2> HIDE DEF f, g, minus
  <2> QED BY <2>1, <2>2, <2>3
<1>3. Earned(w, minus) = SumFunctionOnSet(f, Symbols) /\ Earned(w, bar) = SumFunctionOnSet(g, Symbols)
  <2>1. DOMAIN f = Symbols /\ DOMAIN g = Symbols OBVIOUS
  <2>2. Earned(w, minus) = SumFunction(f) /\ Earned(w, bar) = SumFunction(g) BY DEF Earned
  <2> HIDE DEF f, g
  <2> QED BY <2>1, <2>2 DEF SumFunction
<1> HIDE DEF f, g
<1>4. -1 \in Int OBVIOUS
<1>5. SumFunctionOnSet(f, Symbols) = SumFunctionOnSet(g, Symbols) * (-1) BY <1>1, <1>2, <1>4, SumScales
<1>6. SumFunctionOnSet(g, Symbols) \in Int BY <1>1, <1>2, SumIsInt
<1> QED BY <1>3, <1>5, <1>6
-----------------------------------------------------------------------------
(* The history of the market is one of bars.                               *)
MarketIsBars == bars \in Seq(Bars)

LEMMA MarketKeeps ==
  /\ SelectInit => MarketIsBars
  /\ MarketIsBars /\ [SelectNext]_selectVars => MarketIsBars'
<1>1. SelectInit => MarketIsBars BY DEF SelectInit, MarketIsBars
<1> SUFFICES ASSUME MarketIsBars, [SelectNext]_selectVars PROVE MarketIsBars' BY <1>1
<1>2. CASE BarCloses BY <1>2 DEF BarCloses, MarketIsBars
<1>3. CASE Resolves \/ Ranks \/ Weighs \/ Trades \/ UNCHANGED selectVars
  <2>1. bars' = bars BY <1>3 DEF Resolves, Ranks, Weighs, Trades, selectVars
  <2> QED BY <2>1 DEF MarketIsBars
<1> QED BY <1>2, <1>3 DEF SelectNext

(* The two simulations of the research, by periods and by bars, earn and   *)
(* trade the same for every history of the market and every signal.        *)
THEOREM BothSimulationsAgree == SelectSpec => []SimulationsAgree
<1>1. MarketIsBars => SimulationsAgree
  <2> SUFFICES ASSUME MarketIsBars, Len(bars) >= 2
               PROVE  \A books \in {Books(combine_adaptive(bars))} :
                        \A coarse \in {simulate(books, bars)}, fine \in {simulate_marked_to_market(books, bars)} :
                          coarse.gross = Tail(fine.gross) /\ coarse.turnover = fine.turnover
    BY DEF SimulationsAgree
  <2>1. Len(bars) \in Nat \ {0} BY DEF MarketIsBars
  <2> QED BY <2>1, SimulationsFacts
<1> QED BY <1>1, MarketKeeps, PTL DEF SelectSpec

(* A bar is earned by the book of the mark before it.                      *)
LEMMA BookBefore ==
  ASSUME NEW s, NEW k \in Nat, k >= 2, Len(s) = k, DOMAIN s[k - 1] = Symbols
  PROVE  LET books == Books(combine_adaptive(s))
         IN /\ simulate_marked_to_market(books, s).gross[k] = Earned(books[k - 1], s[k])
            /\ books[k - 1] = rank_binary(combine_adaptive(s)[k - 1])
            /\ DOMAIN books[k - 1] = Symbols /\ \A x \in Symbols : books[k - 1][x] \in Int
<1> DEFINE rows == combine_adaptive(s)
           books == Books(rows)
<1>1. Len(s) \in Nat \ {0} /\ k \in 2..Len(s) /\ k - 1 \in 1..k OBVIOUS
<1>2. simulate_marked_to_market(books, s).gross[k] = Earned(books[k - 1], s[k])
  <2> HIDE DEF books
  <2> QED BY <1>1, SimulationsFacts
<1>3. DOMAIN rows = 1..k /\ DOMAIN rows[k - 1] = Symbols
  <2>1. Len(s) \in Nat /\ Len(s) >= 2 OBVIOUS
  <2>2. rows = [i \in 1..Len(s) |->
                  MarkOf(s, IF i = Len(s) THEN adaptive_weights(FactorRows(s), Len(s) - 1)[i - 1]
                            ELSE adaptive_weights(FactorRows(s), Len(s) - 1)[i], i)]
    BY <2>1, CombinedIs
  <2>3. \A w : DOMAIN MarkOf(s, w, k - 1) = DOMAIN s[k - 1] BY DEF MarkOf
  <2> HIDE DEF rows
  <2> QED BY <1>1, <2>2, <2>3
<1> HIDE DEF rows
<1>4. books[k - 1] = rank_binary(rows[k - 1]) BY <1>1, <1>3 DEF Books
<1>5. DOMAIN books[k - 1] = Symbols /\ \A x \in Symbols : books[k - 1][x] \in Int
  BY <1>3, <1>4, BooksAreWhole
<1> HIDE DEF books
<1> QED BY <1>2, <1>4, <1>5 DEF books, rows

(* What a bar brings is in no combined signal of the marks before it, nor  *)
(* in the book that earns it: for every history, every signal that is      *)
(* computed from the bars up to its mark, every lookback and threshold.    *)
THEOREM NothingPeeks == SelectSpec => []NoPeek
<1>1. MarketIsBars => NoPeek
  <2> SUFFICES ASSUME MarketIsBars, Len(bars) >= 2 PROVE NoPeek BY DEF NoPeek
  <2> DEFINE k == Len(bars)
             other == Turned(k)
             rows == combine_adaptive(bars)
             rows2 == combine_adaptive(other)
             minus == [x \in Symbols |-> -bars[k][x]]
  <2>1. k \in Nat /\ k >= 2 /\ k - 1 \in 1..(k - 1) /\ k \in 1..k /\ k - 1 \in 1..k
    BY DEF MarketIsBars
  <2>2. \A i \in 1..k : bars[i] \in [Symbols -> Int]
    <3>1. Bars \subseteq [Symbols -> Int] BY SelectionAssumption
    <3>2. \A i \in 1..k : bars[i] \in Bars BY DEF MarketIsBars
    <3> QED BY <3>1, <3>2
  <2>3. Len(other) = k /\ other[k] = minus /\ \A i \in 1..(k - 1) : other[i] = bars[i]
    <3> DEFINE T == {other[i] : i \in 1..k}
    <3>1. other \in [1..k -> T] BY DEF Turned
    <3>2. \A i \in 1..k : other[i] = IF i = k THEN minus ELSE bars[i] BY DEF Turned
    <3>3. \A i \in 1..(k - 1) : i \in 1..k /\ i # k BY <2>1
    <3> HIDE DEF other, k, T, minus
    <3>4. Len(other) = k BY <2>1, <3>1, FunctionIsSequence
    <3> QED BY <2>1, <3>2, <3>3, <3>4
  <2>4. Len(bars) = k OBVIOUS
  <2> HIDE DEF k, other
  <2>5. Alike(bars, other, k) BY <2>3, <2>4 DEF Alike
  <2>6. \A i \in 1..(k - 1) : rows[i] = rows2[i] BY <2>1, <2>5, MarksAgree
  <2>7. DOMAIN bars[k - 1] = Symbols /\ other[k - 1] = bars[k - 1] BY <2>1, <2>2, <2>3
  <2>8. /\ simulate_marked_to_market(Books(rows), bars).gross[k] = Earned(Books(rows)[k - 1], bars[k])
        /\ Books(rows)[k - 1] = rank_binary(rows[k - 1])
        /\ DOMAIN Books(rows)[k - 1] = Symbols /\ \A x \in Symbols : Books(rows)[k - 1][x] \in Int
    BY <2>1, <2>4, <2>7, BookBefore
  <2>9. /\ simulate_marked_to_market(Books(rows2), other).gross[k] = Earned(Books(rows2)[k - 1], other[k])
        /\ Books(rows2)[k - 1] = rank_binary(rows2[k - 1])
    BY <2>1, <2>3, <2>7, BookBefore
  <2> HIDE DEF rows, rows2
  <2>10. Earned(Books(rows)[k - 1], minus) = -Earned(Books(rows)[k - 1], bars[k])
    BY <2>1, <2>2, <2>8, TurnedEarns
  <2> HIDE DEF minus
  <2>11. simulate_marked_to_market(Books(rows2), other).gross[k]
           = -simulate_marked_to_market(Books(rows), bars).gross[k]
    BY <2>1, <2>3, <2>6, <2>8, <2>9, <2>10
  <2> QED BY <2>6, <2>11 DEF NoPeek, k, other, rows, rows2
<1> QED BY <1>1, MarketKeeps, PTL DEF SelectSpec
-----------------------------------------------------------------------------
(* The weights of engine v3.                                               *)
(* A part is rounded towards zero.                                         *)
LEMMA PartFacts ==
  ASSUME NEW w \in Int, NEW num \in Nat, NEW den \in Nat \ {0}
  PROVE  /\ Part(w, num, den) \in Int
         /\ -den < w * num - den * Part(w, num, den) /\ w * num - den * Part(w, num, den) < den
         /\ Magnitude(Part(w, num, den)) = (Magnitude(w) * num) \div den
<1>1. CASE w >= 0
  <2> DEFINE q == (w * num) \div den
  <2>1. w * num \in Nat BY <1>1
  <2> HIDE DEF q
  <2>2. q \in Nat /\ den * q <= w * num /\ w * num < den * q + den BY <2>1, Quotients DEF q
  <2>3. Part(w, num, den) = q /\ Magnitude(w) = w BY <1>1 DEF Part, Magnitude, q
  <2>4. den * q \in Int /\ w * num \in Int /\ Magnitude(q) = q BY <2>1, <2>2 DEF Magnitude
  <2> QED BY <2>2, <2>3, <2>4 DEF q
<1>2. CASE w < 0
  <2> DEFINE q == ((-w) * num) \div den
  <2>1. (-w) * num \in Nat /\ w * num = -((-w) * num) BY <1>2
  <2> HIDE DEF q
  <2>2. q \in Nat /\ den * q <= (-w) * num /\ (-w) * num < den * q + den BY <2>1, Quotients DEF q
  <2>3. Part(w, num, den) = -q /\ Magnitude(w) = -w BY <1>2 DEF Part, Magnitude, q
  <2>4. den * q \in Int /\ den * (-q) = -(den * q) /\ Magnitude(-q) = q BY <2>2 DEF Magnitude
  <2> QED BY <2>1, <2>2, <2>3, <2>4 DEF q
<1> QED BY <1>1, <1>2

WeightsOf == [Symbols -> Int]

LEMMA SymbolsAre == IsFiniteSet(Symbols) /\ Cardinality(Symbols) = N /\ N \in Nat \ {0} /\ Unit \in Nat \ {0}
<1>1. N \in Nat \ {0} /\ Unit \in Nat \ {0} BY BacktestAssumption DEF BacktestAssumption
<1>2. 1 \in Int /\ N \in Int /\ ~(1 > N) /\ N - 1 + 1 = N BY <1>1
<1>3. IsFiniteSet(1..N) /\ Cardinality(1..N) = N BY <1>2, FS_Interval
<1> QED BY <1>1, <1>3 DEF Symbols

LEMMA NetIs ==
  ASSUME NEW w \in WeightsOf
  PROVE  Net(w) = SumFunctionOnSet(w, Symbols) /\ Net(w) \in Int
<1>1. DOMAIN w = Symbols /\ \A s \in Symbols : w[s] \in Int BY DEF WeightsOf
<1>2. SumFunctionOnSet(w, Symbols) \in Int BY <1>1, SymbolsAre, SumIsInt
<1> QED BY <1>1, <1>2 DEF Net, SumFunction

LEMMA TotalIs ==
  ASSUME NEW w \in WeightsOf, NEW S \in SUBSET Symbols
  PROVE  /\ Total(w, S) = SumFunctionOnSet([s \in S |-> Magnitude(w[s])], S) /\ Total(w, S) \in Nat
         /\ Total(w, Symbols) = Size(w)
<1> DEFINE m == [s \in S |-> Magnitude(w[s])]
<1>1. DOMAIN w = Symbols /\ \A s \in Symbols : w[s] \in Int BY DEF WeightsOf
<1>2. \A s \in S : m[s] \in Nat BY <1>1 DEF Magnitude
<1>3. IsFiniteSet(S) BY SymbolsAre, FS_Subset
<1>4. DOMAIN m = S /\ Total(w, S) = SumFunction(m) BY DEF Total
<1>5. Total(w, Symbols) = Size(w) BY <1>1 DEF Total, Size
<1> HIDE DEF m
<1>6. SumFunctionOnSet(m, S) \in Nat BY <1>2, <1>3, SumIsNat
<1> QED BY <1>4, <1>5, <1>6 DEF SumFunction, m

(* What the projection leaves of the net is less than a unit a name.       *)
LEMMA ProjectionFacts ==
  ASSUME NEW w \in WeightsOf
  PROVE  /\ project_neutral(w) \in WeightsOf
         /\ Magnitude(Net(project_neutral(w))) < N
<1> DEFINE A == {s \in Symbols : w[s] # 0}
           n == Cardinality(A)
           q == Part(Net(w), 1, n)
           v == [s \in Symbols |-> IF s \in A THEN w[s] - q ELSE 0]
           k == [s \in A |-> q]
<1>1. \A s \in Symbols : w[s] \in Int BY DEF WeightsOf
<1>2. IsFiniteSet(A) /\ n \in Nat /\ n <= N
  <2>1. A \in SUBSET Symbols OBVIOUS
  <2> HIDE DEF A
  <2> QED BY <2>1, SymbolsAre, FS_Subset, FS_CardinalityType
<1>3. project_neutral(w) = IF n < 3 THEN Zero ELSE v
  BY EagerIs DEF project_neutral
<1>4. CASE n < 3
  <2>1. project_neutral(w) = Zero /\ Zero \in WeightsOf BY <1>3, <1>4 DEF Zero, WeightsOf
  <2>2. \A s \in Symbols : Zero[s] = 0 BY DEF Zero
  <2>3. SumFunctionOnSet(Zero, Symbols) = 0 * Cardinality(Symbols)
    <3>1. 0 \in Int OBVIOUS
    <3> QED BY <2>2, <3>1, SymbolsAre, SumOfSame
  <2>4. Net(Zero) = 0 BY <2>1, <2>3, NetIs, SymbolsAre
  <2> QED BY <2>1, <2>4, SymbolsAre DEF Magnitude
<1>5. CASE ~ (n < 3)
  <2>1. q \in Int /\ -n < Net(w) - n * q /\ Net(w) - n * q < n
    <3>1. n \in Nat \ {0} /\ 1 \in Nat /\ Net(w) \in Int BY <1>2, <1>5, NetIs
    <3> HIDE DEF n
    <3>2. q \in Int /\ -n < Net(w) * 1 - n * q /\ Net(w) * 1 - n * q < n BY <3>1, PartFacts
    <3> QED BY <3>1, <3>2
  <2> HIDE DEF q
  <2>2. v \in WeightsOf BY <1>1, <2>1 DEF WeightsOf
  <2>3. /\ \A s \in A : v[s] \in Int /\ k[s] = q /\ w[s] = v[s] + k[s]
        /\ \A s \in Symbols \ A : v[s] = 0 /\ w[s] = 0
        /\ \A s \in Symbols : v[s] \in Int
    BY <1>1, <2>1
  <2>4. A \in SUBSET Symbols OBVIOUS
  <2> HIDE DEF A, v, k
  <2>5. SumFunctionOnSet(w, A) = SumFunctionOnSet(v, A) + SumFunctionOnSet(k, A)
    <3>1. \A s \in A : v[s] \in Int /\ k[s] \in Int /\ w[s] = v[s] + k[s] BY <2>1, <2>3
    <3> QED BY <1>2, <3>1, SumAdds
  <2>6. SumFunctionOnSet(k, A) = q * n BY <1>2, <2>1, <2>3, SumOfSame
  <2>7. SumFunctionOnSet(w, Symbols) = SumFunctionOnSet(w, A)
    BY <1>1, <2>3, <2>4, SymbolsAre, SumSkipsZeros
  <2>8. SumFunctionOnSet(v, Symbols) = SumFunctionOnSet(v, A)
    BY <2>3, <2>4, SymbolsAre, SumSkipsZeros
  <2>9. Net(w) = Net(v) + n * q
    <3>1. Net(w) = Net(v) + q * n BY <2>2, <2>5, <2>6, <2>7, <2>8, NetIs
    <3>2. q * n = n * q BY <1>2, <2>1
    <3> QED BY <3>1, <3>2
  <2>10. Net(v) \in Int /\ Net(w) \in Int /\ n * q \in Int BY <1>2, <2>1, <2>2, NetIs
  <2>11. -n < Net(v) /\ Net(v) < n BY <2>1, <2>9, <2>10
  <2>12. Magnitude(Net(v)) < N BY <1>2, <2>10, <2>11, SymbolsAre DEF Magnitude
  <2> QED BY <1>3, <1>5, <2>2, <2>12
<1> QED BY <1>4, <1>5

LEMMA ScaledIs ==
  ASSUME NEW w \in WeightsOf
  PROVE  Scaled(w) \in WeightsOf
         /\ (Size(w) # 0 => Scaled(w) = [s \in Symbols |-> Part(w[s], Unit, Size(w))])
<1>1. Size(w) \in Nat /\ Total(w, Symbols) = Size(w) BY TotalIs
<1>2. CASE Size(w) = 0
  <2>1. Scaled(w) = Zero BY <1>1, <1>2 DEF Scaled
  <2> QED BY <1>2, <2>1 DEF Zero, WeightsOf
<1>3. CASE Size(w) # 0
  <2>1. Scaled(w) = [s \in Symbols |-> Part(w[s], Unit, Size(w))]
    BY <1>1, <1>3, EagerIs DEF Scaled
  <2>2. \A s \in Symbols : Part(w[s], Unit, Size(w)) \in Int
    <3> TAKE s \in Symbols
    <3>1. w[s] \in Int /\ Unit \in Nat /\ Size(w) \in Nat \ {0} BY <1>1, <1>3, SymbolsAre DEF WeightsOf
    <3> QED BY <3>1, PartFacts
  <2> QED BY <2>1, <2>2 DEF WeightsOf
<1> QED BY <1>2, <1>3

LEMMA CappedIs ==
  ASSUME NEW w \in WeightsOf PROVE Capped(w) \in WeightsOf
<1> DEFINE over == {s \in Symbols : Magnitude(w[s]) > MaxWeight}
           free == Total(w, Symbols \ over)
           residual == Unit - MaxWeight * Cardinality(over)
           F(s) == IF s \in over THEN IF w[s] < 0 THEN -MaxWeight ELSE MaxWeight
                   ELSE IF free = 0 \/ residual <= 0 THEN w[s]
                   ELSE Part(w[s], residual, free)
<1>1. MaxWeight \in Int BY SelectionAssumption, SymbolsAre DEF SelectionAssumption
<1>2. free \in Nat
  <2>1. Symbols \ over \in SUBSET Symbols OBVIOUS
  <2> HIDE DEF over
  <2> QED BY <2>1, TotalIs
<1>3. residual \in Int
  <2>1. over \in SUBSET Symbols OBVIOUS
  <2> HIDE DEF over
  <2>2. Cardinality(over) \in Nat BY <2>1, SymbolsAre, FS_Subset, FS_CardinalityType
  <2> QED BY <1>1, <2>2, SymbolsAre
<1>4. Capped(w) = w \/ Capped(w) = [s \in Symbols |-> F(s)]
  BY EagerIs DEF Capped
<1> HIDE DEF over, free, residual
<1>5. \A s \in Symbols : F(s) \in Int
  <2> TAKE s \in Symbols
  <2>1. w[s] \in Int BY DEF WeightsOf
  <2>2. CASE ~ (free = 0 \/ residual <= 0)
    <3>1. residual \in Nat /\ free \in Nat \ {0} BY <1>2, <1>3, <2>2
    <3>2. Part(w[s], residual, free) \in Int BY <2>1, <3>1, PartFacts
    <3> QED BY <1>1, <2>1, <3>2
  <2>3. CASE free = 0 \/ residual <= 0 BY <1>1, <2>1, <2>3
  <2> QED BY <2>2, <2>3
<1> HIDE DEF F
<1> QED BY <1>4, <1>5 DEF WeightsOf

Passes(f, w) == f = [i \in 0..8 |-> IF i = 0 THEN Scaled(w) ELSE Capped(f[i - 1])]

LEMMA CapAndScaleIs ==
  ASSUME NEW w \in WeightsOf PROVE _cap_and_scale(w) \in WeightsOf
<1> DEFINE g == CHOOSE f : Passes(f, w)
           step == [i \in 1..8 |-> [v \in WeightsOf |-> Capped(v)]]
<1>1. _cap_and_scale(w) = g[8] BY DEF _cap_and_scale, Passes
<1>2. \E f : Passes(f, w)
  <2>1. Scaled(w) \in WeightsOf BY ScaledIs
  <2>2. step \in [1..8 -> [WeightsOf -> WeightsOf]] BY CappedIs
  <2>3. 8 \in Nat OBVIOUS
  <2> HIDE DEF step
  <2>4. PICK f \in [0..8 -> WeightsOf] : Steps(f, Scaled(w), step, 8)
    BY <2>1, <2>2, <2>3, RecursionExists
  <2>5. \A i \in 1..8 : f[i] = Capped(f[i - 1])
    <3> TAKE i \in 1..8
    <3>1. f[i] = step[i][f[i - 1]] BY <2>4 DEF Steps
    <3>2. f[i - 1] \in WeightsOf BY <2>4
    <3> QED BY <3>1, <3>2 DEF step
  <2>6. f[0] = Scaled(w) BY <2>4 DEF Steps
  <2>7. \A i \in 0..8 : f[i] = IF i = 0 THEN Scaled(w) ELSE Capped(f[i - 1]) BY <2>5, <2>6
  <2>8. f = [i \in 0..8 |-> f[i]] BY <2>4
  <2>9. f = [i \in 0..8 |-> IF i = 0 THEN Scaled(w) ELSE Capped(f[i - 1])] BY <2>7, <2>8
  <2> QED BY <2>9 DEF Passes
<1>3. Passes(g, w) BY <1>2
<1> HIDE DEF g
<1>4. \A i \in 0..8 : g[i] = IF i = 0 THEN Scaled(w) ELSE Capped(g[i - 1]) BY <1>3, Zenon DEF Passes
<1>5. g[0] \in WeightsOf BY <1>4, ScaledIs
<1>6. \A i \in 0..7 : g[i] \in WeightsOf => g[i + 1] \in WeightsOf
  <2> TAKE i \in 0..7
  <2>1. g[i + 1] = Capped(g[i]) BY <1>4
  <2> QED BY <2>1, CappedIs
<1>7. g[8] \in WeightsOf
  <2>1. g[2] \in WeightsOf BY <1>5, <1>6
  <2>2. g[4] \in WeightsOf BY <2>1, <1>6
  <2>3. g[6] \in WeightsOf BY <2>2, <1>6
  <2> QED BY <2>3, <1>6
<1> QED BY <1>1, <1>7

LEMMA BalancedIs ==
  ASSUME NEW w \in WeightsOf
  PROVE  Balanced(w) \in WeightsOf /\ Magnitude(Net(Balanced(w))) < N
<1> DEFINE Round(v) == project_neutral(_cap_and_scale(v))
<1>1. ASSUME NEW v \in WeightsOf
      PROVE  Round(v) \in WeightsOf /\ Magnitude(Net(Round(v))) < N
  BY <1>1, CapAndScaleIs, ProjectionFacts
<1>2. Balanced(w) = Round(Round(Round(w))) BY DEF Balanced
<1> HIDE DEF Round
<1> QED BY <1>1, <1>2

(* Scaled to Unit, each weight is rounded by less than a unit, and the net *)
(* grows as the weights do.                                                *)
LEMMA ScalingFacts ==
  ASSUME NEW b \in WeightsOf, Size(b) # 0
  PROVE  /\ Magnitude(Size(Scaled(b)) - Unit) <= N
         /\ Magnitude(Size(b) * Net(Scaled(b)) - Unit * Net(b)) <= N * Size(b)
<1> DEFINE a == Size(b)
           w == Scaled(b)
           m == [s \in Symbols |-> Magnitude(w[s])]
           l == [s \in Symbols |-> Magnitude(b[s])]
           bu == [s \in Symbols |-> b[s] * Unit]
           lu == [s \in Symbols |-> l[s] * Unit]
           wa == [s \in Symbols |-> w[s] * a]
           ma == [s \in Symbols |-> m[s] * a]
           d == [s \in Symbols |-> bu[s] - wa[s]]
           e == [s \in Symbols |-> lu[s] - ma[s]]
<1>1. a \in Nat \ {0} /\ Unit \in Nat \ {0} /\ N \in Nat \ {0} BY TotalIs, SymbolsAre
<1>2. w \in WeightsOf /\ w = [s \in Symbols |-> Part(b[s], Unit, a)] BY ScaledIs
<1>3. \A s \in Symbols : b[s] \in Int /\ w[s] \in Int /\ w[s] = Part(b[s], Unit, a)
  <2>1. \A s \in Symbols : b[s] \in Int BY DEF WeightsOf
  <2> HIDE DEF w
  <2>2. \A s \in Symbols : w[s] \in Int BY <1>2 DEF WeightsOf
  <2> QED BY <1>2, <2>1, <2>2
<1>4. /\ SumFunctionOnSet(l, Symbols) = a /\ SumFunctionOnSet(m, Symbols) = Size(w)
      /\ SumFunctionOnSet(b, Symbols) = Net(b) /\ SumFunctionOnSet(w, Symbols) = Net(w)
      /\ Net(b) \in Int /\ Net(w) \in Int /\ Size(w) \in Nat
  <2> HIDE DEF w
  <2>1. Symbols \in SUBSET Symbols OBVIOUS
  <2> QED BY <1>2, <2>1, NetIs, TotalIs
<1> HIDE DEF a, w
<1>5. \A s \in Symbols : /\ bu[s] \in Int /\ wa[s] \in Int /\ d[s] \in Int /\ bu[s] = wa[s] + d[s]
                         /\ -a <= d[s] /\ d[s] <= a
  <2> TAKE s \in Symbols
  <2>1. /\ -a < b[s] * Unit - a * Part(b[s], Unit, a) /\ b[s] * Unit - a * Part(b[s], Unit, a) < a
    <3>1. b[s] \in Int /\ Unit \in Nat /\ a \in Nat \ {0} BY <1>1, <1>3
    <3> QED BY <3>1, PartFacts
  <2>2. a * Part(b[s], Unit, a) = w[s] * a BY <1>1, <1>3
  <2>3. bu[s] = b[s] * Unit /\ wa[s] = w[s] * a /\ d[s] = bu[s] - wa[s] OBVIOUS
  <2>4. bu[s] \in Int /\ wa[s] \in Int BY <1>1, <1>3, <2>3
  <2> HIDE DEF bu, wa, d
  <2> QED BY <1>1, <2>1, <2>2, <2>3, <2>4
<1>6. \A s \in Symbols : /\ l[s] \in Nat /\ m[s] \in Nat /\ lu[s] \in Int /\ ma[s] \in Int /\ e[s] \in Int
                         /\ lu[s] = ma[s] + e[s] /\ -a <= e[s] /\ e[s] <= a
  <2> TAKE s \in Symbols
  <2>1. l[s] = Magnitude(b[s]) /\ m[s] = Magnitude(w[s]) OBVIOUS
  <2>2. l[s] \in Nat /\ m[s] \in Nat BY <1>3, <2>1 DEF Magnitude
  <2>3. lu[s] = l[s] * Unit /\ ma[s] = m[s] * a /\ e[s] = lu[s] - ma[s] OBVIOUS
  <2> HIDE DEF l, m, lu, ma, e
  <2>4. m[s] = (l[s] * Unit) \div a
    <3>1. b[s] \in Int /\ Unit \in Nat /\ a \in Nat \ {0} BY <1>1, <1>3
    <3>2. Magnitude(Part(b[s], Unit, a)) = (Magnitude(b[s]) * Unit) \div a BY <3>1, PartFacts
    <3> QED BY <1>3, <2>1, <3>2
  <2>5. lu[s] \in Nat BY <1>1, <2>2, <2>3
  <2>6. a * m[s] <= lu[s] /\ lu[s] < a * m[s] + a
    <3>1. m[s] = lu[s] \div a BY <2>3, <2>4
    <3> QED BY <1>1, <2>5, <3>1, Quotients
  <2>7. ma[s] = a * m[s] /\ ma[s] \in Nat BY <1>1, <2>2, <2>3
  <2> QED BY <1>1, <2>2, <2>3, <2>5, <2>6, <2>7
<1>7. /\ \A s \in Symbols : bu[s] = b[s] * Unit /\ wa[s] = w[s] * a
      /\ \A s \in Symbols : lu[s] = l[s] * Unit /\ ma[s] = m[s] * a
  OBVIOUS
<1> HIDE DEF bu, lu, wa, ma, d, e, l, m
<1>8. SumFunctionOnSet(bu, Symbols) = Net(b) * Unit /\ SumFunctionOnSet(wa, Symbols) = Net(w) * a
  <2>1. \A s \in Symbols : b[s] \in Int /\ bu[s] = b[s] * Unit BY <1>3, <1>7
  <2>2. \A s \in Symbols : w[s] \in Int /\ wa[s] = w[s] * a BY <1>3, <1>7
  <2>3. Unit \in Int /\ a \in Int BY <1>1
  <2>4. SumFunctionOnSet(bu, Symbols) = SumFunctionOnSet(b, Symbols) * Unit BY <2>1, <2>3, SymbolsAre, SumScales
  <2>5. SumFunctionOnSet(wa, Symbols) = SumFunctionOnSet(w, Symbols) * a BY <2>2, <2>3, SymbolsAre, SumScales
  <2> QED BY <1>4, <2>4, <2>5
<1>9. SumFunctionOnSet(lu, Symbols) = a * Unit /\ SumFunctionOnSet(ma, Symbols) = Size(w) * a
  <2>1. \A s \in Symbols : l[s] \in Int /\ lu[s] = l[s] * Unit BY <1>6, <1>7
  <2>2. \A s \in Symbols : m[s] \in Int /\ ma[s] = m[s] * a BY <1>6, <1>7
  <2>3. Unit \in Int /\ a \in Int BY <1>1
  <2>4. SumFunctionOnSet(lu, Symbols) = SumFunctionOnSet(l, Symbols) * Unit BY <2>1, <2>3, SymbolsAre, SumScales
  <2>5. SumFunctionOnSet(ma, Symbols) = SumFunctionOnSet(m, Symbols) * a BY <2>2, <2>3, SymbolsAre, SumScales
  <2> QED BY <1>4, <2>4, <2>5
<1>10. SumFunctionOnSet(bu, Symbols) = SumFunctionOnSet(wa, Symbols) + SumFunctionOnSet(d, Symbols)
  <2>1. \A s \in Symbols : wa[s] \in Int /\ d[s] \in Int /\ bu[s] = wa[s] + d[s] BY <1>5
  <2> QED BY <2>1, SymbolsAre, SumAdds
<1>11. SumFunctionOnSet(lu, Symbols) = SumFunctionOnSet(ma, Symbols) + SumFunctionOnSet(e, Symbols)
  <2>1. \A s \in Symbols : ma[s] \in Int /\ e[s] \in Int /\ lu[s] = ma[s] + e[s] BY <1>6
  <2> QED BY <2>1, SymbolsAre, SumAdds
<1> DEFINE sd == SumFunctionOnSet(d, Symbols)
           se == SumFunctionOnSet(e, Symbols)
<1>12. /\ sd \in Int /\ -(a * N) <= sd /\ sd <= a * N
       /\ se \in Int /\ -(a * N) <= se /\ se <= a * N
  <2>1. a \in Nat /\ (\A s \in Symbols : d[s] \in Int /\ -a <= d[s] /\ d[s] <= a) BY <1>1, <1>5
  <2>2. \A s \in Symbols : e[s] \in Int /\ -a <= e[s] /\ e[s] <= a BY <1>6
  <2> QED BY <2>1, <2>2, SymbolsAre, SumIsSmall
<1> HIDE DEF sd, se
<1>13. Net(b) * Unit = Net(w) * a + sd /\ a * Unit = Size(w) * a + se
  BY <1>8, <1>9, <1>10, <1>11 DEF sd, se
<1>14. /\ Net(b) * Unit = Unit * Net(b) /\ Net(w) * a = a * Net(w) /\ Size(w) * a = a * Size(w) /\ a * N = N * a
       /\ a * N \in Int /\ a * Net(w) \in Int /\ Unit * Net(b) \in Int /\ a * Unit \in Int /\ a * Size(w) \in Int
  BY <1>1, <1>4
<1>15. Magnitude(a * Net(w) - Unit * Net(b)) <= N * a
  <2>1. a * Net(w) - Unit * Net(b) = -sd BY <1>12, <1>13, <1>14
  <2> QED BY <1>12, <1>14, <2>1 DEF Magnitude
<1>16. Size(w) - Unit <= N /\ Unit - Size(w) <= N
  <2>1. a * (Size(w) - Unit) = a * Size(w) - a * Unit /\ a * (Unit - Size(w)) = a * Unit - a * Size(w)
    BY <1>1, <1>4
  <2>2. a * (Size(w) - Unit) <= a * N /\ a * (Unit - Size(w)) <= a * N
    BY <1>12, <1>13, <1>14, <2>1
  <2>3. Size(w) - Unit \in Int /\ Unit - Size(w) \in Int /\ N \in Int BY <1>1, <1>4
  <2> QED BY <1>1, <2>2, <2>3, DividesOut
<1>17. Magnitude(Size(w) - Unit) <= N BY <1>1, <1>4, <1>16 DEF Magnitude
<1> QED BY <1>15, <1>17 DEF a, w

(* What build_weights ends with: the cap disturbs the neutrality, so the   *)
(* projection comes last.  Whatever weights go in, the net after it is     *)
(* less than a unit a name, and the book scaled from it is of full size    *)
(* and no less neutral but for the scale and the rounding of each name: if *)
(* the projection has taken no more than half of the book away, to within  *)
(* three units a name.                                                     *)
THEOREM ProjectionHasTheLastWord ==
  ASSUME NEW w \in [Symbols -> Int], Size(Balanced(w)) # 0
  PROVE  LET b == Balanced(w)
             scaled == Scaled(b)
         IN  /\ Magnitude(Net(b)) < N
             /\ Magnitude(Size(scaled) - Unit) <= N
             /\ Size(b) * Magnitude(Net(scaled)) <= Unit * Magnitude(Net(b)) + N * Size(b)
             /\ 2 * Size(b) >= Unit => Magnitude(Net(scaled)) <= 3 * N
<1> DEFINE b == Balanced(w)
           scaled == Scaled(b)
           a == Size(b)
           x == Net(scaled)
           y == Net(b)
<1>1. b \in WeightsOf /\ Magnitude(y) < N
  <2>1. w \in WeightsOf BY DEF WeightsOf
  <2> QED BY <2>1, BalancedIs
<1> HIDE DEF b
<1>2. a \in Nat \ {0} /\ y \in Int /\ N \in Nat \ {0} /\ Unit \in Nat \ {0}
  <2>1. a # 0 BY DEF b
  <2> QED BY <1>1, <2>1, TotalIs, NetIs, SymbolsAre
<1>3. x \in Int BY <1>1, ScaledIs, NetIs
<1>4. Magnitude(Size(scaled) - Unit) <= N /\ Magnitude(a * x - Unit * y) <= N * a
  BY <1>1, <1>2, ScalingFacts
<1> HIDE DEF a, x, y, scaled
<1>5. /\ a * x \in Int /\ Unit * y \in Int /\ N * a \in Int
      /\ a * Magnitude(x) = Magnitude(a * x) /\ Unit * Magnitude(y) = Magnitude(Unit * y)
  <2>1. \A c \in Nat \ {0}, z \in Int : c * z \in Int /\ c * Magnitude(z) = Magnitude(c * z)
    <3> SUFFICES ASSUME NEW c \in Nat \ {0}, NEW z \in Int
                 PROVE  c * z \in Int /\ c * Magnitude(z) = Magnitude(c * z)
      OBVIOUS
    <3>1. CASE z >= 0
      <4>1. c * z >= 0 /\ c * z \in Int BY <3>1
      <4> QED BY <3>1, <4>1 DEF Magnitude
    <3>2. CASE z < 0
      <4>1. c * (-z) > 0 /\ c * (-z) = -(c * z) /\ c * z \in Int BY <3>2
      <4> QED BY <3>2, <4>1 DEF Magnitude
    <3> QED BY <3>1, <3>2
  <2> QED BY <1>2, <1>3, <2>1
<1>6. a * Magnitude(x) <= Unit * Magnitude(y) + N * a
  <2>1. \A p, q, r \in Int : Magnitude(p - q) <= r => Magnitude(p) <= Magnitude(q) + r BY DEF Magnitude
  <2> QED BY <1>4, <1>5, <2>1
<1>7. ASSUME 2 * a >= Unit PROVE Magnitude(x) <= 3 * N
  <2>1. Magnitude(x) \in Nat /\ Magnitude(y) \in Nat BY <1>2, <1>3 DEF Magnitude
  <2>2. Unit * Magnitude(y) <= (2 * a) * Magnitude(y)
    <3>1. PICK k \in Nat : 2 * a = Unit + k
      <4>1. 2 * a - Unit \in Nat /\ 2 * a = Unit + (2 * a - Unit) BY <1>2, <1>7
      <4> QED BY <4>1
    <3>2. (2 * a) * Magnitude(y) = Unit * Magnitude(y) + k * Magnitude(y) /\ k * Magnitude(y) \in Nat
      BY <1>2, <2>1, <3>1
    <3>3. Unit * Magnitude(y) \in Int BY <1>2, <2>1
    <3> QED BY <3>2, <3>3
  <2>3. (2 * a) * Magnitude(y) <= (2 * a) * N
    <3>1. PICK k \in Nat : N = Magnitude(y) + k
      <4>1. N - Magnitude(y) \in Nat /\ N = Magnitude(y) + (N - Magnitude(y)) BY <1>1, <1>2, <2>1 DEF y
      <4> QED BY <4>1
    <3>2. (2 * a) * N = (2 * a) * Magnitude(y) + (2 * a) * k /\ (2 * a) * k \in Nat BY <1>2, <2>1, <3>1
    <3>3. (2 * a) * Magnitude(y) \in Int BY <1>2, <2>1
    <3> QED BY <3>2, <3>3
  <2>4. a * Magnitude(x) <= a * (3 * N)
    <3>1. a * (3 * N) = (2 * a) * N + N * a /\ (2 * a) * N \in Int /\ N * a \in Int BY <1>2
    <3>2. Unit * Magnitude(y) \in Int /\ (2 * a) * Magnitude(y) \in Int /\ a * Magnitude(x) \in Int
      BY <1>2, <2>1
    <3> QED BY <1>6, <2>2, <2>3, <3>1, <3>2
  <2>5. 3 * N \in Int /\ Magnitude(x) \in Int BY <1>2, <2>1
  <2> QED BY <1>2, <2>4, <2>5, DividesOut
<1> QED BY <1>1, <1>4, <1>6, <1>7 DEF a, x, y, scaled, b
=============================================================================
