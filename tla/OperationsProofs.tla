--------------------------- MODULE OperationsProofs ---------------------------
(***************************************************************************)
(* Theorems about the two programs that stand beside the rounds.           *)
(*                                                                         *)
(* Watch: what the heartbeat file and the flag tell the health check, for  *)
(* every number of failures that ends the daemon, every age that counts as *)
(* stale, and any number of mishaps of any kind.  The inductive invariant  *)
(* says that the flag is on the disk from the moment the daemon gave up,   *)
(* and that nothing is wrong as long as nothing went wrong; in particular  *)
(* no more than one interval lies between a running daemon and its last    *)
(* heartbeat, the sleep of the machine not counted.  Of the sleep log it   *)
(* says that all its lines together tell the intervals the machine was     *)
(* awake.                                                                  *)
(*                                                                         *)
(* Commands: for every number of messages and deaths, for every retention  *)
(* and every pace, no message is dropped that Telegram did not forget.     *)
(* The heart of it is that the offset of the next poll is at most one      *)
(* ahead of what was handled, and that one is being worked on.  And while  *)
(* nobody saves an old copy of the state, a message trades once for each   *)
(* time its trade leaves no mark and once more, and not after a /kill, if  *)
(* Telegram forgets sooner than a rebalance is due again: what traded with *)
(* a mark is at least as old as the rebalance as long as Telegram holds    *)
(* it, and what is true when a round loads the state is still true when it *)
(* sends its orders.  And what a long report is cut into is                *)
(* short enough, and is all of it, for every report and every limit.       *)
(***************************************************************************)
EXTENDS Watch, Commands, Foundations, TLAPS

LEMMA Bounds == /\ Cap \in Nat \ {0} /\ MaxMishaps \in Nat
                /\ MAX_CONSECUTIVE_FAILURES \in Nat \ {0}
BY WatchAssumption DEF Cap

FlagStays == past.gaveUp /\ ~ past.lost => flag

Undisturbed ==
  mishaps = 0 =>
    /\ env = "well" /\ telegram /\ ~ flag
    /\ health.status \in {"none", "STARTING", "OK"}
    /\ pc # "out" => health.awake <= 1
    /\ pc = "sleep" => health.awake = 0

(* The daemon that has counted to the end is out.                          *)
Counting == pc # "out" => failures < MAX_CONSECUTIVE_FAILURES

(* The lines of the sleep log, when all are read, tell what happened.      *)
LogIsTrue ==
  /\ health.awake <= health.age
  /\ pmset = "all" => unslept = health.awake /\ (sleep_at = None <=> ~ asleep)

IInv == TypeOK /\ Counting /\ FlagStays /\ Undisturbed /\ LogIsTrue

(* Min of two numbers is one of them and neither is smaller.               *)
LEMMA MinOfTwo == ASSUME NEW a \in Nat, NEW b \in Nat
                  PROVE Min({a, b}) \in {a, b} /\ Min({a, b}) <= a /\ Min({a, b}) <= b
<1>1. \E x \in {a, b} : \A y \in {a, b} : x <= y
  <2>1. CASE a <= b BY <2>1
  <2>2. CASE b <= a BY <2>2
  <2> QED BY <2>1, <2>2
<1> QED BY <1>1 DEF Min

(* A heartbeat grows older by at most one interval, and stays typed.       *)
LEMMA AgedFacts ==
  ASSUME TypeOK, NEW awakeToo \in BOOLEAN, Aged(awakeToo)
  PROVE /\ health' \in [status : {"none", "STARTING", "OK", "ERROR", "DEAD"},
                        age : 0..Cap, awake : 0..Cap]
        /\ health'.status = health.status
        /\ health'.awake <= health.awake + 1
        /\ ~ awakeToo => health'.awake = health.awake
<1>1. Cap \in Nat /\ health.age \in 0..Cap /\ health.awake \in 0..Cap
  BY Bounds DEF TypeOK
<1>2. /\ Min({health.age + 1, Cap}) \in 0..Cap
      /\ Min({health.awake + 1, Cap}) \in 0..Cap
      /\ Min({health.awake + 1, Cap}) <= health.awake + 1
  <2>1. health.age + 1 \in Nat /\ health.awake + 1 \in Nat BY <1>1
  <2> QED BY <1>1, <2>1, MinOfTwo
<1> DEFINE age == Min({health.age + 1, Cap})
           awake == IF awakeToo THEN Min({health.awake + 1, Cap}) ELSE health.awake
<1>3. age \in 0..Cap /\ awake \in 0..Cap /\ awake <= health.awake + 1
  BY <1>1, <1>2
<1>4. health' = [health EXCEPT !.age = age, !.awake = awake]
  BY DEF Aged, Later
<1>5. ~ awakeToo => awake = health.awake
  OBVIOUS
<1> HIDE DEF age, awake
<1> QED BY <1>3, <1>4, <1>5 DEF TypeOK

(* An interval goes to the log as to the truth.                            *)
LEMMA LaterFacts ==
  ASSUME NEW n \in 0..Cap
  PROVE  Later(n) \in 0..Cap /\ Later(n) = IF n < Cap THEN n + 1 ELSE Cap
<1>1. Cap \in Nat /\ n + 1 \in Nat BY Bounds
<1>2. Later(n) \in {n + 1, Cap} /\ Later(n) <= n + 1 /\ Later(n) <= Cap
  BY <1>1, MinOfTwo DEF Later
<1> QED BY <1>1, <1>2

LEMMA AgedTells ==
  ASSUME TypeOK, LogIsTrue, NEW awakeToo \in BOOLEAN, Aged(awakeToo), awakeToo = ~ asleep,
         UNCHANGED <<pmset, asleep>>
  PROVE  LogTypeOK' /\ LogIsTrue'
<1>1. /\ health.age \in 0..Cap /\ health.awake \in 0..Cap /\ Cap \in Nat
      /\ unslept \in 0..Cap /\ sleep_at \in {None} \cup 0..Cap
  BY Bounds DEF TypeOK, LogTypeOK
<1>2. /\ health'.age = Later(health.age)
      /\ health'.awake = IF asleep THEN health.awake ELSE Later(health.awake)
  BY DEF Aged, TypeOK
<1>3. /\ unslept' = IF sleep_at = None THEN Later(unslept) ELSE unslept
      /\ sleep_at' = IF sleep_at = None THEN None ELSE Later(sleep_at)
  BY DEF Aged
<1>4. sleep_at # None => Later(sleep_at) \in 0..Cap BY <1>1, LaterFacts
<1>5. unslept' \in 0..Cap /\ sleep_at' \in {None} \cup 0..Cap
  BY <1>1, <1>3, <1>4, LaterFacts
<1>6. sleep_at' = None <=> sleep_at = None BY <1>1, <1>3, <1>4 DEF None
<1>7. health'.awake <= health'.age BY <1>1, <1>2, LaterFacts DEF LogIsTrue
<1>8. pmset = "all" => unslept' = health'.awake BY <1>2, <1>3 DEF LogIsTrue
<1> QED BY <1>5, <1>6, <1>7, <1>8 DEF LogTypeOK, LogIsTrue, TypeOK

LEMMA LidTells ==
  ASSUME TypeOK, LogIsTrue, LidMoves
  PROVE  LogTypeOK' /\ LogIsTrue'
<1>1. /\ health.awake <= health.age /\ UNCHANGED <<health, pmset>>
      /\ asleep \in BOOLEAN /\ asleep' = ~ asleep
      /\ LineRead(asleep') \/ (pmset = "some" /\ UNCHANGED sleepLog)
  BY DEF LidMoves, LogIsTrue, TypeOK, disk
<1>2. CASE LineRead(asleep')
  <2>1. Cap \in Nat /\ 0 \in 0..Cap /\ unslept \in 0..Cap /\ sleep_at \in {None} \cup 0..Cap
    BY Bounds DEF TypeOK, LogTypeOK
  <2>2. sleep_at # None => Min({unslept + sleep_at, Cap}) \in 0..Cap
    <3> SUFFICES ASSUME sleep_at # None PROVE Min({unslept + sleep_at, Cap}) \in 0..Cap
      OBVIOUS
    <3>1. unslept + sleep_at \in Nat BY <2>1
    <3> QED BY <2>1, <3>1, MinOfTwo
  <2>3. /\ unslept' = IF asleep' /\ sleep_at # None THEN Min({unslept + sleep_at, Cap}) ELSE unslept
        /\ sleep_at' = IF asleep' THEN 0 ELSE None
    BY <1>2 DEF LineRead
  <2>4. LogTypeOK' BY <1>1, <2>1, <2>2, <2>3 DEF TypeOK, LogTypeOK
  <2>5. sleep_at' = None <=> ~ asleep' BY <2>3 DEF None
  <2>6. pmset = "all" /\ asleep' => unslept' = unslept
    BY <1>1, <2>3 DEF LogIsTrue
  <2>7. pmset = "all" => unslept' = unslept BY <2>3, <2>6
  <2> QED BY <1>1, <2>4, <2>5, <2>7 DEF LogIsTrue
<1>3. CASE pmset = "some" /\ UNCHANGED sleepLog
  BY <1>1, <1>3 DEF LogIsTrue, LogTypeOK, TypeOK, sleepLog
<1> QED BY <1>1, <1>2, <1>3

LEMMA WriteTells ==
  ASSUME TypeOK, LogIsTrue, ~ asleep, UNCHANGED <<pmset, asleep>>,
         \/ \E status : _write_health(status)
         \/ UNCHANGED <<health, sleepLog>>
  PROVE  LogTypeOK' /\ LogIsTrue'
<1>1. CASE \E status : _write_health(status)
  <2>1. Cap \in Nat /\ 0 \in 0..Cap BY Bounds
  <2>2. health'.age = 0 /\ health'.awake = 0 /\ unslept' = 0 /\ sleep_at' = None
    BY <1>1 DEF _write_health
  <2> QED BY <2>1, <2>2 DEF LogTypeOK, LogIsTrue, TypeOK
<1>2. CASE UNCHANGED <<health, sleepLog>>
  BY <1>2 DEF LogTypeOK, LogIsTrue, TypeOK, sleepLog
<1> QED BY <1>1, <1>2

LEMMA LogKeeps == ASSUME IInv, Next PROVE LogTypeOK' /\ LogIsTrue'
<1> USE DEF IInv
<1>1. CASE Launches \/ CycleEnds \/ CycleRaises
  <2>1. ~ asleep /\ UNCHANGED <<pmset, asleep>>
    BY <1>1 DEF Launches, CycleEnds, CycleRaises, machine
  <2>2. (\E status : _write_health(status)) \/ UNCHANGED <<health, sleepLog>>
    BY <1>1 DEF Launches, CycleEnds, CycleRaises, Written, WriteLost, disk
  <2> QED BY <2>1, <2>2, WriteTells
<1>2. CASE Ticks
  <2>1. ~ asleep /\ Aged(TRUE) /\ UNCHANGED <<pmset, asleep>> BY <1>2 DEF Ticks, machine
  <2> QED BY <2>1, AgedTells
<1>3. CASE SleepsOn
  <2>1. asleep /\ Aged(FALSE) /\ UNCHANGED <<pmset, asleep>> BY <1>3 DEF SleepsOn, machine
  <2>2. FALSE = ~ asleep BY <2>1
  <2> QED BY <2>1, <2>2, AgedTells
<1>4. CASE LidMoves BY <1>4, LidTells
<1>5. CASE Dies \/ Breaks \/ Recovers \/ BotDies \/ BotLaunches
  <2>1. UNCHANGED <<health, sleepLog, pmset, asleep>>
    BY <1>5 DEF Dies, Breaks, Recovers, BotDies, BotLaunches, machine, disk
  <2> QED BY <2>1 DEF LogTypeOK, LogIsTrue, TypeOK, sleepLog
<1> QED BY <1>1, <1>2, <1>3, <1>4, <1>5 DEF Next

(* What a write to the disk leaves, and what a lost one does.              *)
LEMMA WrittenFacts ==
  ASSUME TypeOK, NEW status \in {"STARTING", "OK", "ERROR", "DEAD"}, _write_health(status)
  PROVE /\ health' \in [status : {"none", "STARTING", "OK", "ERROR", "DEAD"},
                        age : 0..Cap, awake : 0..Cap]
        /\ health'.status = status /\ health'.awake = 0
BY Bounds DEF _write_health

LEMMA MishapFacts ==
  ASSUME TypeOK, NEW f, Mishap(f)
  PROVE mishaps' \in 0..MaxMishaps /\ mishaps' # 0
BY Bounds DEF TypeOK, Mishap

(* A write that is lost leaves the disk as it was, and is a mishap.        *)
LEMMA LostFacts ==
  ASSUME TypeOK, WriteLost
  PROVE /\ mishaps' \in 0..MaxMishaps /\ mishaps' # 0
        /\ past' \in [gaveUp : BOOLEAN, lost : BOOLEAN] /\ past'.lost
        /\ health' = health /\ flag' = flag
<1>1. mishaps' \in 0..MaxMishaps /\ mishaps' # 0 BY MishapFacts DEF WriteLost
<1>2. past' = [past EXCEPT !.lost = TRUE] BY DEF WriteLost
<1>3. past \in [gaveUp : BOOLEAN, lost : BOOLEAN] BY DEF TypeOK
<1>4. past' \in [gaveUp : BOOLEAN, lost : BOOLEAN] /\ past'.lost BY <1>2, <1>3
<1> QED BY <1>1, <1>4 DEF WriteLost, disk

LEMMA InitHolds == Init => IInv
<1> SUFFICES ASSUME Init PROVE IInv OBVIOUS
<1>1. NoCycle \in [result : Results \cup {"none", "raised"}, sent : SUBSET Messages]
  BY DEF NoCycle
<1>2. /\ health \in [status : {"none", "STARTING", "OK", "ERROR", "DEAD"},
                    age : 0..Cap, awake : 0..Cap]
      /\ past \in [gaveUp : BOOLEAN, lost : BOOLEAN]
  BY Bounds DEF Init
<1>3. cycle \in [result : Results \cup {"none", "raised"}, sent : SUBSET Messages]
  BY <1>1 DEF Init
<1>4. failures \in 0..MAX_CONSECUTIVE_FAILURES /\ mishaps \in 0..MaxMishaps
  BY Bounds DEF Init
<1>7. LogTypeOK BY Bounds DEF Init, LogTypeOK
<1>8. LogIsTrue BY DEF Init, LogIsTrue
<1>5. /\ pc \in {"out", "cycle", "sleep"} /\ env \in {"well", "no_exchange", "no_TLS"}
      /\ flag \in BOOLEAN /\ telegram \in BOOLEAN /\ asleep \in BOOLEAN
  BY DEF Init
<1>6. TypeOK BY <1>2, <1>3, <1>4, <1>5, <1>7 DEF TypeOK
<1> QED BY <1>6, <1>8 DEF Init, IInv, Counting, FlagStays, Undisturbed

(* The messages of a cycle are messages.                                   *)
LEMMA SentFacts ==
  ASSUME TypeOK
  PROVE /\ \A r \in Results : [result |-> r, sent |-> Reported(r)]
                                \in [result : Results \cup {"none", "raised"}, sent : SUBSET Messages]
        /\ [result |-> "raised", sent |-> send_anomaly_alert]
             \in [result : Results \cup {"none", "raised"}, sent : SUBSET Messages]
        /\ NoCycle \in [result : Results \cup {"none", "raised"}, sent : SUBSET Messages]
BY DEF Reported, send_anomaly_alert, send_order_alert, send_circuit_breaker_alert, send_message,
       Results, Messages, NoCycle

LEMMA LaunchesKeeps == IInv /\ Launches => IInv'
<1> SUFFICES ASSUME IInv, Launches PROVE IInv' OBVIOUS
<1>log. LogTypeOK' /\ LogIsTrue' BY LogKeeps DEF Next
<1> USE DEF IInv
<1>0. Counting' BY Bounds DEF Launches, Counting
<1>1. NoCycle \in [result : Results \cup {"none", "raised"}, sent : SUBSET Messages]
  BY SentFacts
<1>2. CASE Written("STARTING", flag)
  <2>1. /\ health' \in [status : {"none", "STARTING", "OK", "ERROR", "DEAD"},
                        age : 0..Cap, awake : 0..Cap]
        /\ health'.status = "STARTING" /\ health'.awake = 0
    BY <1>2, WrittenFacts DEF Written
  <2>2. flag' = flag /\ mishaps' = mishaps /\ past' = past
    BY <1>2 DEF Written, AsUsual
  <2>3. TypeOK' BY <1>log, <1>1, <2>1, <2>2, Bounds DEF Launches, TypeOK, machine
  <2> QED BY <1>log, <1>0, <2>1, <2>2, <2>3 DEF Launches, FlagStays, Undisturbed, machine
<1>3. CASE WriteLost
  <2>1. /\ mishaps' \in 0..MaxMishaps /\ mishaps' # 0
        /\ past' \in [gaveUp : BOOLEAN, lost : BOOLEAN] /\ past'.lost
        /\ health' = health /\ flag' = flag
    BY <1>3, LostFacts
  <2>2. TypeOK' BY <1>log, <1>1, <2>1, Bounds DEF Launches, TypeOK, machine
  <2> QED BY <1>log, <1>0, <2>1, <2>2 DEF FlagStays, Undisturbed
<1> QED BY <1>2, <1>3 DEF Launches

LEMMA CycleEndsKeeps == IInv /\ CycleEnds => IInv'
<1> SUFFICES ASSUME IInv, CycleEnds PROVE IInv' OBVIOUS
<1>log. LogTypeOK' /\ LogIsTrue' BY LogKeeps DEF Next
<1> USE DEF IInv
<1>0. Counting' BY Bounds DEF CycleEnds, Counting
<1>1. cycle' \in [result : Results \cup {"none", "raised"}, sent : SUBSET Messages]
  BY SentFacts DEF CycleEnds
<1>2. CASE _write_health("OK") /\ flag' = FALSE /\ AsUsual /\ past' = [past EXCEPT !.gaveUp = FALSE]
  <2>1. /\ health' \in [status : {"none", "STARTING", "OK", "ERROR", "DEAD"},
                        age : 0..Cap, awake : 0..Cap]
        /\ health'.status = "OK" /\ health'.awake = 0
    BY <1>2, WrittenFacts
  <2>2. past' \in [gaveUp : BOOLEAN, lost : BOOLEAN] /\ ~ past'.gaveUp
    BY <1>2 DEF TypeOK
  <2>3. TypeOK'
    <3>1. pc' \in {"out", "cycle", "sleep"} /\ flag' \in BOOLEAN
      BY <1>2 DEF CycleEnds
    <3>2. /\ telegram' \in BOOLEAN /\ asleep' \in BOOLEAN
          /\ env' \in {"well", "no_exchange", "no_TLS"} /\ mishaps' \in 0..MaxMishaps
      BY <1>2 DEF CycleEnds, TypeOK, machine, AsUsual
    <3>3. failures' \in 0..MAX_CONSECUTIVE_FAILURES BY Bounds DEF CycleEnds
    <3> QED BY <1>log, <1>1, <2>1, <2>2, <3>1, <3>2, <3>3 DEF TypeOK
  <2> QED BY <1>log, <1>0, <1>2, <2>1, <2>2, <2>3 DEF CycleEnds, FlagStays, Undisturbed, machine, AsUsual
<1>3. CASE WriteLost
  <2>1. /\ mishaps' \in 0..MaxMishaps /\ mishaps' # 0
        /\ past' \in [gaveUp : BOOLEAN, lost : BOOLEAN] /\ past'.lost
        /\ health' = health /\ flag' = flag
    BY <1>3, LostFacts
  <2>2. TypeOK' BY <1>log, <1>1, <2>1, Bounds DEF CycleEnds, TypeOK, machine
  <2> QED BY <1>log, <1>0, <2>1, <2>2 DEF FlagStays, Undisturbed
<1> QED BY <1>2, <1>3 DEF CycleEnds

(* A cycle raises only when something went wrong before.                   *)
LEMMA CycleRaisesKeeps == IInv /\ CycleRaises => IInv'
<1> SUFFICES ASSUME IInv, CycleRaises PROVE IInv' OBVIOUS
<1>log. LogTypeOK' /\ LogIsTrue' BY LogKeeps DEF Next
<1> USE DEF IInv
<1> DEFINE n == failures + 1
           last == n >= MAX_CONSECUTIVE_FAILURES
<1>1. cycle' \in [result : Results \cup {"none", "raised"}, sent : SUBSET Messages]
  BY SentFacts DEF CycleRaises
<1>2. mishaps # 0 BY DEF CycleRaises, Undisturbed
<1>3. last \in BOOLEAN OBVIOUS
<1>0. failures' \in 0..MAX_CONSECUTIVE_FAILURES /\ Counting'
  BY Bounds DEF CycleRaises, Counting, TypeOK
<1>4. CASE /\ _write_health(IF last THEN "DEAD" ELSE "ERROR")
           /\ flag' = (flag \/ last) /\ AsUsual
           /\ past' = [past EXCEPT !.gaveUp = @ \/ last]
  <2>1. health' \in [status : {"none", "STARTING", "OK", "ERROR", "DEAD"},
                     age : 0..Cap, awake : 0..Cap]
    BY <1>4, WrittenFacts
  <2>2. mishaps' = mishaps /\ past'.gaveUp = (past.gaveUp \/ last) /\ past'.lost = past.lost
    BY <1>4 DEF AsUsual, TypeOK
  <2>3. past' \in [gaveUp : BOOLEAN, lost : BOOLEAN] BY <1>3, <1>4 DEF TypeOK
  <2>4. flag' \in BOOLEAN BY <1>3, <1>4 DEF TypeOK
  <2>5. TypeOK'
    BY <1>log, <1>0, <1>1, <2>1, <2>2, <2>3, <2>4 DEF TypeOK, machine, CycleRaises
  <2> QED BY <1>log, <1>0, <1>2, <1>4, <2>2, <2>5 DEF FlagStays, Undisturbed
<1>5. CASE WriteLost
  <2>1. /\ mishaps' \in 0..MaxMishaps /\ mishaps' # 0
        /\ past' \in [gaveUp : BOOLEAN, lost : BOOLEAN] /\ past'.lost
        /\ health' = health /\ flag' = flag
    BY <1>5, LostFacts
  <2>2. TypeOK' BY <1>log, <1>0, <1>1, <2>1, Bounds DEF CycleRaises, TypeOK, machine
  <2> QED BY <1>log, <1>0, <2>1, <2>2 DEF FlagStays, Undisturbed
<1> QED BY <1>4, <1>5 DEF CycleRaises

LEMMA TicksKeeps == IInv /\ Ticks => IInv'
<1> SUFFICES ASSUME IInv, Ticks PROVE IInv' OBVIOUS
<1>log. LogTypeOK' /\ LogIsTrue' BY LogKeeps DEF Next
<1> USE DEF IInv
<1>1. /\ health' \in [status : {"none", "STARTING", "OK", "ERROR", "DEAD"},
                      age : 0..Cap, awake : 0..Cap]
      /\ health'.status = health.status
      /\ health'.awake <= health.awake + 1
  BY AgedFacts DEF Ticks
<1>2. CASE pc = "cycle"
  <2>1. mishaps' \in 0..MaxMishaps /\ mishaps' # 0 BY <1>2, MishapFacts DEF Ticks
  <2>2. TypeOK' BY <1>log, <1>1, <1>2, <2>1 DEF Ticks, TypeOK, machine
  <2> QED BY <1>log, <2>1, <2>2 DEF Ticks, Counting, FlagStays, Undisturbed
<1>3. CASE pc # "cycle"
  <2>1. TypeOK' BY <1>log, <1>1, <1>3 DEF Ticks, TypeOK, machine, AsUsual
  <2>2. health.awake \in Nat /\ health'.awake \in Nat BY <1>1 DEF TypeOK, Cap
  <2> QED BY <1>log, <1>1, <1>3, <2>1, <2>2
      DEF Ticks, TypeOK, Counting, FlagStays, Undisturbed, machine, AsUsual
<1> QED BY <1>2, <1>3

LEMMA SleepsOnKeeps == IInv /\ SleepsOn => IInv'
<1> SUFFICES ASSUME IInv, SleepsOn PROVE IInv' OBVIOUS
<1>log. LogTypeOK' /\ LogIsTrue' BY LogKeeps DEF Next
<1> USE DEF IInv
<1>1. /\ health' \in [status : {"none", "STARTING", "OK", "ERROR", "DEAD"},
                      age : 0..Cap, awake : 0..Cap]
      /\ health'.status = health.status /\ health'.awake = health.awake
  BY AgedFacts DEF SleepsOn
<1>2. TypeOK' BY <1>log, <1>1 DEF SleepsOn, TypeOK, machine, daemon
<1> QED BY <1>log, <1>1, <1>2 DEF SleepsOn, Counting, FlagStays, Undisturbed, machine, daemon

(* The world breaks only by a mishap, and what mends it touches no file.   *)
LEMMA WorldKeeps == IInv /\ (Breaks \/ Dies \/ BotDies) => IInv'
<1> SUFFICES ASSUME IInv, Breaks \/ Dies \/ BotDies PROVE IInv' OBVIOUS
<1>log. LogTypeOK' /\ LogIsTrue' BY LogKeeps DEF Next
<1> USE DEF IInv
<1>1. mishaps' \in 0..MaxMishaps /\ mishaps' # 0
  BY MishapFacts DEF Breaks, Dies, BotDies
<1>2. TypeOK' BY <1>log, <1>1 DEF Breaks, Dies, BotDies, TypeOK, machine, daemon, disk
<1>3. Counting' /\ FlagStays'
  BY DEF Breaks, Dies, BotDies, Counting, FlagStays, daemon, disk
<1> QED BY <1>log, <1>1, <1>2, <1>3 DEF Undisturbed

LEMMA MendingKeeps == IInv /\ (LidMoves \/ Recovers \/ BotLaunches) => IInv'
<1> SUFFICES ASSUME IInv, LidMoves \/ Recovers \/ BotLaunches PROVE IInv' OBVIOUS
<1>log. LogTypeOK' /\ LogIsTrue' BY LogKeeps DEF Next
<1> USE DEF IInv
<1>1. TypeOK' BY <1>log DEF LidMoves, Recovers, BotLaunches, TypeOK, daemon, disk
<1>2. Counting' /\ FlagStays'
  BY DEF LidMoves, Recovers, BotLaunches, Counting, FlagStays, daemon, disk
<1>3. Undisturbed' BY DEF LidMoves, Recovers, BotLaunches, Undisturbed, daemon, disk
<1> QED BY <1>log, <1>1, <1>2, <1>3

LEMMA NextKeeps == IInv /\ [Next]_vars => IInv'
<1> SUFFICES ASSUME IInv, [Next]_vars PROVE IInv' OBVIOUS
<1>1. CASE UNCHANGED vars
  BY <1>1 DEF IInv, TypeOK, LogTypeOK, LogIsTrue, Counting, FlagStays, Undisturbed, vars, daemon, disk,
                 machine, sleepLog
<1>2. CASE Next
  BY <1>2, LaunchesKeeps, CycleEndsKeeps, CycleRaisesKeeps, TicksKeeps, SleepsOnKeeps,
     WorldKeeps, MendingKeeps DEF Next
<1> QED BY <1>1, <1>2

LEMMA Invariance == Spec => []IInv
BY InitHolds, NextKeeps, PTL DEF Spec

(* The variables keep their types: the counter of failures never passes    *)
(* MAX_CONSECUTIVE_FAILURES, the age its cap.                              *)
THEOREM TypeCorrect == Spec => []TypeOK
<1>1. IInv => TypeOK BY DEF IInv
<1> QED BY <1>1, Invariance, PTL

(* A daemon that gave up leaves the check red until a cycle has come to    *)
(* its end, whatever launchd starts in between (F41).                      *)
THEOREM DeadIsRed == Spec => []DeathStaysRed
<1>1. IInv => DeathStaysRed
  BY DEF IInv, FlagStays, DeathStaysRed, Green, Problems
<1> QED BY <1>1, Invariance, PTL

(* Sleep is told from standing still, for every staleness that is at least *)
(* one interval, however long the machine slept and however often (F47).   *)
THEOREM SleepIsTold == Spec => []SleepIsNotStandstill
<1>1. IInv => SleepIsNotStandstill
  <2> SUFFICES ASSUME IInv PROVE SleepIsNotStandstill OBVIOUS
  <2>1. /\ health.age \in Nat /\ health.awake \in Nat /\ unslept \in Nat /\ STALE_AFTER \in Nat
        /\ STALE_AFTER >= 1
    BY WatchAssumption DEF IInv, TypeOK, LogTypeOK
  <2>2. /\ health.awake <= health.age /\ pmset \in {"all", "some", "none"}
        /\ pmset = "all" => unslept = health.awake
    BY DEF IInv, LogIsTrue, TypeOK, LogTypeOK
  <2>3. ASSUME mishaps = 0, pc # "out", pmset = "all" PROVE Green
    <3>1. health.awake <= 1 BY <2>3 DEF IInv, Undisturbed
    <3>2. ~ Still BY <2>1, <2>2, <2>3, <3>1 DEF Still, _slept_since
    <3> QED BY <2>3, <3>2 DEF IInv, Undisturbed, Green, Problems
  <2>4. ASSUME health.status # "none", health.awake > STALE_AFTER, pmset # "some" PROVE ~ Green
    <3>1. health.age > STALE_AFTER BY <2>1, <2>2, <2>4
    <3>2. Still BY <2>1, <2>2, <2>4, <3>1 DEF Still, _slept_since
    <3> QED BY <2>4, <3>2 DEF Green, Problems
  <2> QED BY <2>3, <2>4 DEF SleepIsNotStandstill
<1> QED BY <1>1, Invariance, PTL
-----------------------------------------------------------------------------
(* The offset is at most one beyond the last message.                      *)
Bounded == Len(arrived) <= MaxMessages /\ bot.last_update_id <= Len(arrived) + 1

(* What is left of a poll, and what is worked on, Telegram still holds.    *)
BatchIsHeld ==
  IF bot.pc = "batch" THEN bot.batch \subseteq DOMAIN server /\ bot.work \in {0} \cup DOMAIN server
  ELSE bot.batch = {} /\ bot.work = 0

(* A round of the bot belongs to a message.                                *)
RoundIsAsked ==
  /\ at["bot"] # "idle" => bot.work # 0
  /\ at["bot"] \in {"sent", "saved"} => arrived[bot.work] = "/rebalance"

Done == ran \cup lost

(* Before the offset, and before every message of the batch, all is done   *)
(* but what is worked on; and before that, all is done.                    *)
OffsetIsBehind ==
  \A id \in DOMAIN arrived : Ours(id) /\ id < bot.last_update_id => id \in Done \cup {bot.work}

BatchIsNext ==
  \A b \in bot.batch : \A id \in DOMAIN arrived :
    Ours(id) /\ id < b /\ id \notin bot.batch => id \in Done \cup {bot.work}

WorkIsNext ==
  bot.work # 0 => \A id \in DOMAIN arrived : Ours(id) /\ id < bot.work => id \in Done

Safe == /\ BotTypeOK /\ Bounded /\ BatchIsHeld /\ RoundIsAsked
        /\ NothingIsDropped /\ OffsetIsBehind /\ BatchIsNext /\ WorkIsNext

LEMMA IdsAreNumbers ==
  ASSUME BotTypeOK, Bounded
  PROVE /\ Len(arrived) \in Nat /\ DOMAIN arrived = 1..Len(arrived)
        /\ DOMAIN arrived \subseteq Ids /\ DOMAIN arrived \subseteq Nat \ {0}
<1>1. Len(arrived) \in Nat /\ DOMAIN arrived = 1..Len(arrived) BY DEF BotTypeOK
<1> QED BY <1>1, CommandsAssumption DEF Bounded, Ids

LEMMA OldestFacts ==
  ASSUME BotTypeOK, Bounded, bot.batch # {}
  PROVE /\ Oldest \in bot.batch /\ Oldest \in DOMAIN arrived /\ Oldest \in Nat
        /\ \A b \in bot.batch : Oldest <= b
<1>1. bot.batch \subseteq DOMAIN arrived BY DEF BotTypeOK
<1>2. bot.batch \in SUBSET Nat BY <1>1, IdsAreNumbers
<1>3. \E x \in bot.batch : \A y \in bot.batch : x <= y BY <1>2, LeastExists
<1>4. Oldest \in bot.batch /\ \A b \in bot.batch : Oldest <= b
  BY <1>3 DEF Oldest, Min
<1> QED BY <1>1, <1>2, <1>4

BotStates(came) ==
  [pc : {"down", "poll", "batch"}, last_update_id : Nat,
   batch : SUBSET came, work : {0} \cup came, deaths : 0..MaxDeaths]

(* The saved state, and what the steps make of it.                         *)
LEMMA StateFacts ==
  /\ NoCopy \in State
  /\ \A s \in State :
       /\ s.since \in 0..RebalanceEvery /\ RebalanceEvery \in Nat
       /\ [s EXCEPT !.dead = TRUE] \in State /\ [s EXCEPT !.since = 0] \in State
       /\ [s EXCEPT !.dead = TRUE].dead /\ [s EXCEPT !.dead = TRUE].since = s.since
       /\ ([s EXCEPT !.since = 0].dead <=> s.dead) /\ [s EXCEPT !.since = 0].since = 0
<1>1. RebalanceEvery \in Nat BY CommandsAssumption
<1>2. NoCopy \in State BY <1>1 DEF NoCopy, State
<1>3. ASSUME NEW s \in State PROVE s.since \in 0..RebalanceEvery BY DEF State
<1>4. ASSUME NEW s \in State
      PROVE [s EXCEPT !.dead = TRUE] \in State /\ [s EXCEPT !.since = 0] \in State
  <2>1. [s EXCEPT !.dead = TRUE] \in State BY <1>1 DEF State
  <2>2. 0 \in 0..RebalanceEvery BY <1>1
  <2>3. [s EXCEPT !.since = 0] \in State BY <2>2, Zenon DEF State
  <2> QED BY <2>1, <2>3
<1>5. ASSUME NEW s \in State
      PROVE [s EXCEPT !.dead = TRUE].since = s.since /\ [s EXCEPT !.since = 0].since = 0
  BY DEF State
<1>6. ASSUME NEW s \in State PROVE [s EXCEPT !.dead = TRUE].dead BY DEF State
<1>7. ASSUME NEW s \in State PROVE [s EXCEPT !.since = 0].dead <=> s.dead BY DEF State
<1> QED BY <1>1, <1>2, <1>3, <1>4, <1>5, <1>6, <1>7

RoundTypes ==
  /\ account \in State
  /\ at \in [Actor -> {"idle", "loaded", "sent", "saved"}] /\ copy \in [Actor -> State]
  /\ failed \subseteq DOMAIN arrived /\ overwrote \subseteq Actor
  /\ traded \in [Ids -> Nat] /\ unmarked \in [Ids -> Nat]

(* The bot goes on with its message, or is done with it.                   *)
Moves ==
  \/ bot' = bot /\ ran' = ran
  \/ /\ bot.work # 0 /\ at'["bot"] = "idle"
     /\ bot' = [bot EXCEPT !.work = 0] /\ ran' = ran \cup {bot.work}

LEMMA ReturnsFacts ==
  ASSUME RoundTypes, NEW a \in Actor, Returns(a), a = "bot" => bot.work # 0
  PROVE /\ at' \in [Actor -> {"idle", "loaded", "sent", "saved"}] /\ copy' \in [Actor -> State]
        /\ at'[a] = "idle" /\ (a # "bot" => at'["bot"] = at["bot"] /\ copy'["bot"] = copy["bot"])
        /\ Moves
<1>1. "bot" \in Actor BY DEF Actor
<1>2. at' = [at EXCEPT ![a] = "idle"] /\ copy' = [copy EXCEPT ![a] = NoCopy] BY DEF Returns
<1>3. NoCopy \in State BY StateFacts
<1> HIDE DEF NoCopy
<1>4. copy' \in [Actor -> State] BY <1>2, <1>3 DEF RoundTypes
<1>5. at' \in [Actor -> {"idle", "loaded", "sent", "saved"}] /\ at'[a] = "idle"
      /\ (a # "bot" => at'["bot"] = at["bot"])
  BY <1>1, <1>2 DEF RoundTypes
<1>6. a # "bot" => copy'["bot"] = copy["bot"] BY <1>1, <1>2 DEF RoundTypes
<1>7. Moves BY <1>5 DEF Returns, Moves
<1> QED BY <1>4, <1>5, <1>6, <1>7

LEMMA GoesFacts ==
  ASSUME RoundTypes, NEW a \in Actor, NEW step \in {"loaded", "sent", "saved"}, Goes(a, step)
  PROVE /\ at' \in [Actor -> {"idle", "loaded", "sent", "saved"}]
        /\ at'[a] = step /\ (a # "bot" => at'["bot"] = at["bot"])
        /\ bot' = bot /\ ran' = ran
BY DEF Goes, RoundTypes, Actor

(* A save writes a state that is one; if it is of a copy that is not old,  *)
(* it kills or it resets the pace, and does nothing else.                  *)
SavedWell ==
  overwrote' = {} =>
    /\ overwrote = {} /\ account'.since \in {account.since, 0}
    /\ account.dead => account'.dead

LEMMA WritesFacts ==
  ASSUME RoundTypes, NEW a \in Actor,
         NEW state \in {copy[a], [copy[a] EXCEPT !.dead = TRUE], [copy[a] EXCEPT !.since = 0]},
         Writes(a, state)
  PROVE /\ account' \in State /\ account' = state /\ overwrote' \subseteq Actor /\ SavedWell
<1>1. copy[a] \in State BY DEF RoundTypes
<1>2. account' = state /\ overwrote' = IF copy[a] = account THEN overwrote ELSE overwrote \cup {a}
  BY DEF Writes
<1>3. state \in State BY <1>1, StateFacts
<1>4. overwrote' \subseteq Actor BY <1>2 DEF RoundTypes
<1>5. ASSUME overwrote' = {} PROVE overwrote = {} /\ copy[a] = account BY <1>2, <1>5
<1>6. state.since \in {copy[a].since, 0} /\ (copy[a].dead => state.dead)
  <2>1. CASE state = copy[a] BY <2>1
  <2>2. CASE state = [copy[a] EXCEPT !.dead = TRUE] BY <1>1, <2>2, StateFacts
  <2>3. CASE state = [copy[a] EXCEPT !.since = 0] BY <1>1, <2>3, StateFacts
  <2> QED BY <2>1, <2>2, <2>3
<1>7. SavedWell BY <1>2, <1>5, <1>6 DEF SavedWell
<1> QED BY <1>2, <1>3, <1>4, <1>7

LEMMA UnmarkedFacts ==
  ASSUME Safe
  PROVE /\ Unmarked \in [Ids -> Nat] /\ \A id \in Ids : unmarked[id] <= Unmarked[id]
        /\ at["bot"] = "sent" => bot.work \in Ids /\ Unmarked[bot.work] = unmarked[bot.work] + 1
<1>1. unmarked \in [Ids -> Nat] BY DEF Safe, BotTypeOK
<1>2. CASE at["bot"] = "sent"
  <2>1. bot.work \in DOMAIN arrived BY <1>2 DEF Safe, BotTypeOK, RoundIsAsked
  <2>2. bot.work \in Ids BY <2>1, IdsAreNumbers DEF Safe
  <2>3. Unmarked = [unmarked EXCEPT ![bot.work] = @ + 1] BY <1>2 DEF Unmarked
  <2> QED BY <1>1, <2>2, <2>3
<1>3. CASE at["bot"] # "sent"
  <2>1. Unmarked = unmarked BY <1>3 DEF Unmarked
  <2> QED BY <1>1, <1>3, <2>1
<1> QED BY <1>2, <1>3

(* What every step of a round, or of a handler, leaves true.               *)
Stepped ==
  /\ RoundTypes' /\ Moves /\ SavedWell
  /\ server' = server /\ arrived' = arrived /\ lost' = lost
  /\ at'["bot"] # "idle" => bot'.work # 0
  /\ at'["bot"] \in {"sent", "saved"} => arrived[bot'.work] = "/rebalance"
  /\ failed \subseteq failed'
  /\ \A id \in Ids : unmarked[id] <= unmarked'[id]
  /\ \A k \in ran' \ ran : arrived[k] = "/kill" => k \in failed' \/ account'.dead

LEMMA RoundFacts == ASSUME Safe, NEW a \in Actor, Round(a) PROVE Stepped
<1>1. RoundTypes /\ "bot" \in Actor BY DEF Safe, BotTypeOK, RoundTypes, Actor
<1>2. server' = server /\ arrived' = arrived /\ lost' = lost /\ failed' = failed
  BY DEF Round, Loads, Rests, Trades, Saves, SavesAgain, SaveFails, queueVars
<1>3. unmarked \in [Ids -> Nat] /\ \A id \in Ids : unmarked[id] <= unmarked[id]
  BY <1>1 DEF RoundTypes
<1>4. a = "bot" /\ at[a] # "idle" => bot.work # 0 BY DEF Safe, RoundIsAsked
<1>5. ASSUME account' = account /\ overwrote' = overwrote
      PROVE account' \in State /\ overwrote' \subseteq Actor /\ SavedWell
  BY <1>1, <1>5 DEF RoundTypes, SavedWell
<1>6. CASE Loads(a)
  <2>1. Goes(a, "loaded") /\ copy' = [copy EXCEPT ![a] = account] /\ account' = account
        /\ traded' = traded /\ unmarked' = unmarked /\ overwrote' = overwrote
    BY <1>6 DEF Loads
  <2>2. copy' \in [Actor -> State] BY <1>1, <2>1 DEF RoundTypes
  <2>3. /\ at' \in [Actor -> {"idle", "loaded", "sent", "saved"}]
        /\ at'[a] = "loaded" /\ (a # "bot" => at'["bot"] = at["bot"])
        /\ bot' = bot /\ ran' = ran
    BY <1>1, <2>1, GoesFacts
  <2>4. RoundTypes' BY <1>1, <1>2, <2>1, <2>2, <2>3 DEF RoundTypes
  <2>5. a = "bot" => bot.work # 0 BY <1>6 DEF Loads, Kind
  <2>6. Moves BY <2>3 DEF Moves
  <2> QED BY <1>1, <1>2, <1>3, <1>5, <2>1, <2>3, <2>4, <2>5, <2>6 DEF Stepped, Safe, RoundIsAsked
<1>7. CASE Rests(a)
  <2>1. Returns(a) /\ traded' = traded /\ unmarked' = unmarked /\ at[a] = "loaded"
        /\ Kind(a) \in {"/rebalance", "/sync"}
    BY <1>7 DEF Rests
  <2>2. /\ at' \in [Actor -> {"idle", "loaded", "sent", "saved"}] /\ copy' \in [Actor -> State]
        /\ at'[a] = "idle" /\ (a # "bot" => at'["bot"] = at["bot"]) /\ Moves
    BY <1>1, <1>4, <2>1, ReturnsFacts
  <2>3. account' \in State /\ overwrote' \subseteq Actor /\ SavedWell
    <3>1. CASE Writes(a, copy[a]) BY <1>1, <3>1, WritesFacts
    <3>2. CASE Writes(a, [copy[a] EXCEPT !.dead = TRUE]) BY <1>1, <3>2, WritesFacts
    <3>3. CASE account' = account /\ overwrote' = overwrote BY <1>5, <3>3
    <3> QED BY <1>7, <3>1, <3>2, <3>3 DEF Rests
  <2>4. RoundTypes' BY <1>1, <1>2, <2>1, <2>2, <2>3 DEF RoundTypes
  <2>5. \A k \in ran' \ ran : arrived[k] # "/kill" BY <2>1 DEF Returns, Kind
  <2>6. a # "bot" => bot' = bot BY <2>1 DEF Returns
  <2> QED BY <1>1, <1>2, <1>3, <2>1, <2>2, <2>3, <2>4, <2>5, <2>6 DEF Stepped, Safe, RoundIsAsked
<1>8. CASE Trades(a)
  <2>1. Goes(a, "sent") /\ copy' = copy /\ account' = account /\ unmarked' = unmarked
        /\ overwrote' = overwrote /\ at[a] = "loaded" /\ Kind(a) = "/rebalance"
        /\ traded' = IF a = "bot" THEN [traded EXCEPT ![bot.work] = @ + 1] ELSE traded
    BY <1>8 DEF Trades
  <2>2. /\ at' \in [Actor -> {"idle", "loaded", "sent", "saved"}]
        /\ at'[a] = "sent" /\ (a # "bot" => at'["bot"] = at["bot"])
        /\ bot' = bot /\ ran' = ran
    BY <1>1, <2>1, GoesFacts
  <2>3. a = "bot" => arrived[bot.work] = "/rebalance" /\ bot.work # 0 BY <2>1 DEF Kind
  <2>4. traded' \in [Ids -> Nat]
    <3>1. a = "bot" => bot.work \in DOMAIN arrived BY <2>3 DEF Safe, BotTypeOK
    <3>2. a = "bot" => bot.work \in Ids BY <3>1, IdsAreNumbers DEF Safe
    <3> QED BY <1>1, <2>1, <3>2 DEF RoundTypes
  <2>5. RoundTypes' BY <1>1, <1>2, <2>1, <2>2, <2>4 DEF RoundTypes
  <2>6. Moves BY <2>2 DEF Moves
  <2> QED BY <1>1, <1>2, <1>3, <1>5, <2>1, <2>2, <2>3, <2>5, <2>6 DEF Stepped, Safe, RoundIsAsked
<1>9. CASE Saves(a)
  <2>1. Goes(a, "saved") /\ copy' = [copy EXCEPT ![a].since = 0]
        /\ Writes(a, [copy[a] EXCEPT !.since = 0]) /\ at[a] = "sent"
        /\ traded' = traded /\ unmarked' = unmarked
    BY <1>9 DEF Saves
  <2>2. /\ at' \in [Actor -> {"idle", "loaded", "sent", "saved"}]
        /\ at'[a] = "saved" /\ (a # "bot" => at'["bot"] = at["bot"])
        /\ bot' = bot /\ ran' = ran
    BY <1>1, <2>1, GoesFacts
  <2>3. account' \in State /\ overwrote' \subseteq Actor /\ SavedWell BY <1>1, <2>1, WritesFacts
  <2>4. copy' \in [Actor -> State]
    <3>1. copy[a] \in State /\ [copy[a] EXCEPT !.since = 0] \in State
      BY <1>1, StateFacts DEF RoundTypes
    <3>2. copy' = [copy EXCEPT ![a] = [copy[a] EXCEPT !.since = 0]] BY <2>1
    <3> QED BY <1>1, <3>1, <3>2 DEF RoundTypes
  <2>5. RoundTypes' BY <1>1, <1>2, <2>1, <2>2, <2>3, <2>4 DEF RoundTypes
  <2>6. Moves BY <2>2 DEF Moves
  <2> QED BY <1>1, <1>2, <1>3, <2>1, <2>2, <2>3, <2>5, <2>6 DEF Stepped, Safe, RoundIsAsked
<1>10. ASSUME Returns(a), at[a] \in {"sent", "saved"}, traded' = traded,
              unmarked' \in [Ids -> Nat], \A id \in Ids : unmarked[id] <= unmarked'[id],
              account' \in State, overwrote' \subseteq Actor, SavedWell
       PROVE Stepped
  <2>1. /\ at' \in [Actor -> {"idle", "loaded", "sent", "saved"}] /\ copy' \in [Actor -> State]
        /\ at'[a] = "idle" /\ (a # "bot" => at'["bot"] = at["bot"]) /\ Moves
    BY <1>1, <1>4, <1>10, ReturnsFacts
  <2>2. RoundTypes' BY <1>1, <1>2, <1>10, <2>1 DEF RoundTypes
  <2>3. \A k \in ran' \ ran : arrived[k] # "/kill" BY <1>10 DEF Returns, Safe, RoundIsAsked
  <2>4. a # "bot" => bot' = bot BY <1>10 DEF Returns
  <2> QED BY <1>1, <1>2, <1>10, <2>1, <2>2, <2>3, <2>4 DEF Stepped, Safe, RoundIsAsked
<1>11. CASE SavesAgain(a)
  <2>1. Returns(a) /\ at[a] = "saved" /\ traded' = traded /\ unmarked' = unmarked
    BY <1>11 DEF SavesAgain
  <2>2. account' \in State /\ overwrote' \subseteq Actor /\ SavedWell
    <3>1. CASE Writes(a, copy[a]) BY <1>1, <3>1, WritesFacts
    <3>2. CASE account' = account /\ overwrote' = overwrote BY <1>5, <3>2
    <3> QED BY <1>11, <3>1, <3>2 DEF SavesAgain
  <2> QED BY <1>3, <1>10, <2>1, <2>2
<1>12. CASE SaveFails(a)
  <2>1. Returns(a) /\ at[a] = "sent" /\ traded' = traded /\ account' = account
        /\ overwrote' = overwrote /\ unmarked' = IF a = "bot" THEN Unmarked ELSE unmarked
    BY <1>12 DEF SaveFails
  <2>2. unmarked' \in [Ids -> Nat] /\ \A id \in Ids : unmarked[id] <= unmarked'[id]
    BY <1>3, <2>1, UnmarkedFacts
  <2> QED BY <1>5, <1>10, <2>1, <2>2
<1> QED BY <1>6, <1>7, <1>8, <1>9, <1>11, <1>12 DEF Round

LEMMA HandlerFacts == ASSUME Safe, KillSaves \/ KillFails \/ Answers PROVE Stepped
<1>1. RoundTypes /\ "bot" \in Actor BY DEF Safe, BotTypeOK, RoundTypes, Actor
<1>2. /\ server' = server /\ arrived' = arrived /\ lost' = lost
      /\ traded' = traded /\ unmarked' = unmarked /\ Returns("bot")
  BY DEF KillSaves, KillFails, Answers, queueVars
<1>3. bot.work # 0 BY DEF KillSaves, KillFails, Answers, Kind
<1>4. /\ at' \in [Actor -> {"idle", "loaded", "sent", "saved"}] /\ copy' \in [Actor -> State]
      /\ at'["bot"] = "idle" /\ Moves
  BY <1>1, <1>2, <1>3, ReturnsFacts
<1>5. ran' = ran \cup {bot.work} /\ bot.work \in DOMAIN arrived
  BY <1>2, <1>3 DEF Returns, Safe, BotTypeOK
<1>6. unmarked \in [Ids -> Nat] /\ \A id \in Ids : unmarked[id] <= unmarked'[id]
  BY <1>1, <1>2 DEF RoundTypes
<1>7. /\ account' \in State /\ overwrote' \subseteq Actor /\ SavedWell
      /\ failed \subseteq failed' /\ failed' \subseteq DOMAIN arrived
      /\ arrived[bot.work] = "/kill" => bot.work \in failed' \/ account'.dead
  <2>1. CASE KillSaves
    <3>1. Writes("bot", [copy["bot"] EXCEPT !.dead = TRUE]) /\ failed' = failed
      BY <2>1 DEF KillSaves
    <3>2. /\ account' \in State /\ account' = [copy["bot"] EXCEPT !.dead = TRUE]
          /\ overwrote' \subseteq Actor /\ SavedWell
      BY <1>1, <3>1, WritesFacts
    <3>3. copy["bot"] \in State BY <1>1 DEF RoundTypes
    <3>4. account'.dead BY <3>2, <3>3, StateFacts
    <3> QED BY <1>1, <3>1, <3>2, <3>4 DEF RoundTypes
  <2>2. CASE KillFails BY <1>1, <1>5, <2>2 DEF KillFails, RoundTypes, SavedWell
  <2>3. CASE Answers BY <1>1, <1>3, <2>3 DEF Answers, RoundTypes, SavedWell, Kind
  <2> QED BY <2>1, <2>2, <2>3
<1>8. RoundTypes' BY <1>1, <1>2, <1>4, <1>6, <1>7 DEF RoundTypes
<1> QED BY <1>2, <1>4, <1>5, <1>6, <1>7, <1>8 DEF Stepped
-----------------------------------------------------------------------------
LEMMA StepKeepsSafe == ASSUME Safe, Stepped PROVE Safe'
<1>1. /\ server' = server /\ arrived' = arrived /\ lost' = lost /\ RoundTypes' /\ Moves
      /\ at'["bot"] # "idle" => bot'.work # 0
      /\ at'["bot"] \in {"sent", "saved"} => arrived[bot'.work] = "/rebalance"
  BY DEF Stepped
<1>2. /\ bot \in BotStates(DOMAIN arrived) /\ ran \subseteq DOMAIN arrived
      /\ lost \subseteq DOMAIN arrived /\ arrived \in Seq(Kinds)
      /\ DOMAIN server \subseteq DOMAIN arrived /\ server \in [DOMAIN server -> 0..Retention]
  BY DEF Safe, BotTypeOK, BotStates
<1>3. /\ bot' \in BotStates(DOMAIN arrived) /\ ran' \subseteq DOMAIN arrived /\ ran \subseteq ran'
      /\ bot'.pc = bot.pc /\ bot'.batch = bot.batch /\ bot'.last_update_id = bot.last_update_id
      /\ bot'.work \in {0, bot.work}
      /\ Done \cup {bot.work} \subseteq ran' \cup lost \cup {bot'.work}
  <2>1. CASE bot' = bot /\ ran' = ran BY <1>2, <2>1 DEF Done
  <2>2. CASE /\ bot.work # 0
             /\ bot' = [bot EXCEPT !.work = 0] /\ ran' = ran \cup {bot.work}
    BY <1>2, <2>2 DEF BotStates, Done
  <2> QED BY <1>1, <2>1, <2>2 DEF Moves
<1>4. BotTypeOK' BY <1>1, <1>2, <1>3 DEF BotTypeOK, BotStates, RoundTypes
<1>5. Bounded' /\ BatchIsHeld' /\ RoundIsAsked'
  BY <1>1, <1>3 DEF Safe, Bounded, BatchIsHeld, RoundIsAsked
<1>6. NothingIsDropped' BY <1>1, <1>3 DEF Safe, NothingIsDropped, Ours
<1>7. OffsetIsBehind' BY <1>1, <1>3 DEF Safe, OffsetIsBehind, Ours, Done
<1>8. BatchIsNext' BY <1>1, <1>3 DEF Safe, BatchIsNext, Ours, Done
<1>9. WorkIsNext' BY <1>1, <1>3 DEF Safe, WorkIsNext, Ours, Done
<1> QED BY <1>4, <1>5, <1>6, <1>7, <1>8, <1>9 DEF Safe

LEMMA HandlesKeepsSafe == Safe /\ Handles => Safe'
<1> SUFFICES ASSUME Safe, Handles PROVE Safe' OBVIOUS
<1> DEFINE id == Oldest
<1>1. BotTypeOK /\ Bounded BY DEF Safe
<1>2. bot.pc = "batch" /\ bot.work = 0 /\ bot.batch # {} /\ bot' = Handled
      /\ server' = server /\ arrived' = arrived /\ lost' = lost /\ ran' = ran
      /\ account' = account /\ at' = at /\ copy' = copy /\ traded' = traded
      /\ unmarked' = unmarked /\ failed' = failed /\ overwrote' = overwrote
  BY DEF Handles, queueVars, roundVars
<1>3. id \in bot.batch /\ id \in DOMAIN arrived /\ id \in Nat /\ \A b \in bot.batch : id <= b
  BY <1>1, <1>2, OldestFacts
<1>4. /\ bot' \in BotStates(DOMAIN arrived)
      /\ bot'.pc = bot.pc /\ bot'.last_update_id = id + 1 /\ bot'.batch = bot.batch \ {id}
      /\ bot'.work = IF Ours(id) THEN id ELSE 0
  <2>1. id + 1 \in Nat /\ bot.batch \ {id} \in SUBSET DOMAIN arrived BY <1>1, <1>3 DEF BotTypeOK
  <2>2. (IF Ours(id) THEN id ELSE 0) \in {0} \cup DOMAIN arrived BY <1>3
  <2> QED BY <1>1, <1>2, <2>1, <2>2 DEF Handled, BotTypeOK, BotStates
<1> HIDE DEF id
<1>5. BotTypeOK' BY <1>1, <1>2, <1>4 DEF BotTypeOK, BotStates
<1>6. Bounded' /\ BatchIsHeld' /\ RoundIsAsked'
  <2>1. Len(arrived) \in Nat /\ id \in 1..Len(arrived) BY <1>1, <1>3, IdsAreNumbers
  <2>2. id + 1 <= Len(arrived) + 1 BY <2>1
  <2>3. BatchIsHeld' BY <1>2, <1>3, <1>4 DEF Safe, BatchIsHeld
  <2>4. RoundIsAsked' BY <1>2 DEF Safe, RoundIsAsked, BotTypeOK
  <2> QED BY <1>1, <1>2, <1>4, <2>2, <2>3, <2>4 DEF Bounded
<1>7. NothingIsDropped' BY <1>2 DEF Safe, NothingIsDropped, Ours
<1>8. DOMAIN arrived \subseteq Nat \ {0} BY <1>1, IdsAreNumbers
<1>9. ASSUME NEW i \in DOMAIN arrived, Ours(i), i < id PROVE i \in Done
  <2>1. i \notin bot.batch BY <1>3, <1>8, <1>9
  <2>2. i \in Done \cup {0} BY <1>2, <1>3, <1>9, <2>1 DEF Safe, BatchIsNext
  <2> QED BY <1>8, <2>2
<1>10. OffsetIsBehind'
  <2> SUFFICES ASSUME NEW i \in DOMAIN arrived, Ours(i), i < id + 1
               PROVE i \in Done \cup {bot'.work}
    BY <1>2, <1>4 DEF OffsetIsBehind, Ours, Done
  <2>1. CASE i = id BY <1>4, <2>1
  <2>2. CASE i # id
    <3>1. i < id BY <1>3, <1>8, <2>2
    <3> QED BY <1>9, <3>1
  <2> QED BY <2>1, <2>2
<1>11. BatchIsNext'
  <2> SUFFICES ASSUME NEW b \in bot.batch \ {id}, NEW i \in DOMAIN arrived,
                      Ours(i), i < b, i \notin bot.batch \ {id}
               PROVE i \in Done \cup {bot'.work}
    BY <1>2, <1>4 DEF BatchIsNext, Ours, Done
  <2>1. CASE i = id BY <1>4, <2>1
  <2>2. CASE i # id
    <3>1. i \in Done \cup {0} BY <1>2, <2>2 DEF Safe, BatchIsNext
    <3> QED BY <1>8, <3>1
  <2> QED BY <2>1, <2>2
<1>12. WorkIsNext' BY <1>2, <1>4, <1>9 DEF WorkIsNext, Ours, Done
<1> QED BY <1>5, <1>6, <1>7, <1>10, <1>11, <1>12 DEF Safe

(* The steps that only change what the bot is doing.                       *)
LEMMA BotKeepsSafe == Safe /\ (BatchEnds \/ Starts \/ ProcessDies) => Safe'
<1> SUFFICES ASSUME Safe, BatchEnds \/ Starts \/ ProcessDies PROVE Safe' OBVIOUS
<1>1. /\ server' = server /\ arrived' = arrived /\ account' = account
      /\ ran' = ran /\ traded' = traded /\ lost' = lost /\ failed' = failed /\ overwrote' = overwrote
  BY DEF BatchEnds, Starts, ProcessDies, queueVars, roundVars
<1>2. /\ bot' \in BotStates(DOMAIN arrived)
      /\ bot'.pc # "batch" /\ bot'.batch = {} /\ bot'.work = 0
      /\ bot'.last_update_id \in {bot.last_update_id, 0}
      /\ bot'.last_update_id # 0 => bot.work = 0
  <2>1. BotTypeOK /\ BatchIsHeld BY DEF Safe
  <2>2. CASE BatchEnds BY <2>1, <2>2 DEF BatchEnds, BotTypeOK, BotStates
  <2>3. CASE Starts BY <2>1, <2>3 DEF Starts, BotTypeOK, BatchIsHeld, BotStates
  <2>4. CASE ProcessDies
    <3>1. bot.deaths + 1 \in 0..MaxDeaths BY <2>1, <2>4, CommandsAssumption DEF ProcessDies, BotTypeOK
    <3> QED BY <2>1, <2>4, <3>1 DEF ProcessDies, BotTypeOK, BotStates
  <2> QED BY <2>2, <2>3, <2>4
<1>3. /\ at' \in [Actor -> {"idle", "loaded", "sent", "saved"}] /\ copy' \in [Actor -> State]
      /\ at'["bot"] = "idle" /\ unmarked' \in [Ids -> Nat]
  <2>1. BotTypeOK /\ "bot" \in Actor /\ NoCopy \in State BY StateFacts DEF Safe, Actor
  <2>2. CASE BatchEnds \/ Starts
    <3>1. bot.work = 0 BY <2>2 DEF BatchEnds, Starts, Safe, BatchIsHeld
    <3>2. at["bot"] = "idle" BY <3>1 DEF Safe, RoundIsAsked
    <3> QED BY <2>1, <2>2, <3>2 DEF BatchEnds, Starts, roundVars, BotTypeOK
  <2>3. CASE ProcessDies
    <3>1. unmarked' \in [Ids -> Nat] BY <2>3, UnmarkedFacts DEF ProcessDies
    <3>2. copy' \in [Actor -> State] BY <2>1, <2>3 DEF ProcessDies, BotTypeOK
    <3>3. at' \in [Actor -> {"idle", "loaded", "sent", "saved"}] /\ at'["bot"] = "idle"
      BY <2>1, <2>3 DEF ProcessDies, BotTypeOK
    <3> QED BY <3>1, <3>2, <3>3
  <2> QED BY <2>2, <2>3
<1>4. BotTypeOK' BY <1>1, <1>2, <1>3 DEF Safe, BotTypeOK, BotStates
<1>5. DOMAIN arrived \subseteq Nat \ {0} BY IdsAreNumbers DEF Safe
<1>6. OffsetIsBehind'
  <2> SUFFICES ASSUME NEW i \in DOMAIN arrived, Ours(i), i < bot'.last_update_id PROVE i \in Done
    BY <1>1 DEF OffsetIsBehind, Ours, Done
  <2>1. bot'.last_update_id # 0 BY <1>5
  <2>2. bot'.last_update_id = bot.last_update_id /\ bot.work = 0 BY <1>2, <2>1
  <2>3. i \in Done \cup {0} BY <2>2 DEF Safe, OffsetIsBehind
  <2> QED BY <1>5, <2>3
<1>7. Bounded'
  <2>1. Bounded /\ Len(arrived) \in Nat BY DEF Safe, BotTypeOK
  <2> QED BY <1>1, <1>2, <2>1 DEF Bounded
<1>8. NothingIsDropped' BY <1>1 DEF Safe, NothingIsDropped, Ours
<1>9. BatchIsHeld' /\ RoundIsAsked' /\ BatchIsNext' /\ WorkIsNext'
  BY <1>2, <1>3 DEF BatchIsHeld, RoundIsAsked, BatchIsNext, WorkIsNext
<1> QED BY <1>4, <1>6, <1>7, <1>8, <1>9 DEF Safe

(* What a poll confirms was done.                                          *)
LEMMA ConfirmedIsDone ==
  ASSUME Safe, bot.work = 0, NEW id \in DOMAIN arrived, Ours(id), id \notin Unconfirmed
  PROVE id \in Done
<1>1. id \in Nat \ {0} /\ bot.last_update_id \in Nat BY IdsAreNumbers DEF Safe, BotTypeOK
<1>2. CASE id \notin DOMAIN server BY <1>2 DEF Safe, NothingIsDropped, Done
<1>3. CASE id \in DOMAIN server
  <2>1. id < bot.last_update_id BY <1>1, <1>3 DEF Unconfirmed
  <2>2. id \in Done \cup {0} BY <2>1 DEF Safe, OffsetIsBehind
  <2> QED BY <1>1, <2>2
<1> QED BY <1>2, <1>3

LEMMA PollKeepsSafe == Safe /\ (Polls \/ PollFails) => Safe'
<1> SUFFICES ASSUME Safe, Polls \/ PollFails PROVE Safe' OBVIOUS
<1>1. /\ server' = Kept(Unconfirmed) /\ arrived' = arrived /\ account' = account
      /\ ran' = ran /\ lost' = lost /\ at' = at /\ copy' = copy /\ traded' = traded
      /\ unmarked' = unmarked /\ failed' = failed /\ overwrote' = overwrote
  BY DEF Polls, PollFails, roundVars
<1>2. /\ Unconfirmed \subseteq DOMAIN server
      /\ DOMAIN server' = Unconfirmed /\ server' \in [Unconfirmed -> 0..Retention]
  BY <1>1 DEF Safe, BotTypeOK, Kept, Unconfirmed
<1>3. bot.work = 0 /\ bot.batch = {} BY DEF Polls, PollFails, Safe, BatchIsHeld
<1>4. /\ bot' \in BotStates(DOMAIN arrived)
      /\ bot'.last_update_id = bot.last_update_id /\ bot'.work = 0
      /\ \/ bot'.pc = "batch" /\ bot'.batch = Unconfirmed
         \/ bot'.pc # "batch" /\ bot'.batch = {}
  BY <1>2, <1>3 DEF Safe, BotTypeOK, BotStates, Polls, PollFails
<1>5. BotTypeOK' BY <1>1, <1>2, <1>4 DEF Safe, BotTypeOK, BotStates
<1>6. NothingIsDropped'
  BY <1>1, <1>2, <1>3, ConfirmedIsDone DEF NothingIsDropped, Ours, Done
<1>7. BatchIsNext'
  BY <1>1, <1>3, <1>4, ConfirmedIsDone DEF BatchIsNext, Ours, Done
<1>8. BatchIsHeld' /\ WorkIsNext' BY <1>2, <1>4 DEF BatchIsHeld, WorkIsNext
<1>9. RoundIsAsked' BY <1>1, <1>3 DEF Safe, RoundIsAsked, BotTypeOK
<1>10. OffsetIsBehind' /\ Bounded'
  BY <1>1, <1>3, <1>4 DEF Safe, Bounded, OffsetIsBehind, Ours, Done
<1> QED BY <1>5, <1>6, <1>7, <1>8, <1>9, <1>10 DEF Safe

(* A message that arrives is the latest.                                   *)
LEMMA ArrivesFacts ==
  ASSUME BotTypeOK, Bounded, Arrives
  PROVE LET n == Len(arrived) + 1
        IN /\ n \in Nat /\ n <= MaxMessages /\ arrived' \in Seq(Kinds) /\ Len(arrived') = n
           /\ DOMAIN arrived' = DOMAIN arrived \cup {n} /\ n \notin DOMAIN arrived
           /\ \A id \in DOMAIN arrived : arrived'[id] = arrived[id] /\ id < n
           /\ DOMAIN server' = DOMAIN server \cup {n}
           /\ server' \in [DOMAIN server' -> 0..Retention]
           /\ \A id \in DOMAIN server : server'[id] = server[id]
<1> DEFINE n == Len(arrived) + 1
<1>1. n \in Nat /\ DOMAIN arrived = 1..Len(arrived) /\ n <= MaxMessages
  BY CommandsAssumption DEF BotTypeOK, Arrives
<1>2. PICK kind \in Kinds : arrived' = Append(arrived, kind) BY DEF Arrives
<1>3. arrived' \in Seq(Kinds) /\ Len(arrived') = n BY <1>2 DEF BotTypeOK
<1>4. \A id \in DOMAIN arrived : arrived'[id] = arrived[id] BY <1>2 DEF BotTypeOK
<1>5. DOMAIN arrived' = DOMAIN arrived \cup {n} /\ n \notin DOMAIN arrived BY <1>1, <1>3
<1>6. \A id \in DOMAIN arrived : id < n BY <1>1
<1>7. server' = [id \in DOMAIN server \cup {n} |-> IF id \in DOMAIN server THEN server[id] ELSE 0]
  BY DEF Arrives
<1>8. 0 \in 0..Retention BY CommandsAssumption
<1>9. DOMAIN server' = DOMAIN server \cup {n} BY <1>7
<1>10. server' \in [DOMAIN server' -> 0..Retention]
  BY <1>7, <1>8, <1>9 DEF BotTypeOK
<1> QED BY <1>1, <1>3, <1>4, <1>5, <1>6, <1>7, <1>9, <1>10

LEMMA ArrivesKeepsSafe == Safe /\ Arrives => Safe'
<1> SUFFICES ASSUME Safe, Arrives PROVE Safe' OBVIOUS
<1> DEFINE n == Len(arrived) + 1
<1>1. BotTypeOK /\ Bounded BY DEF Safe
<1>2. /\ n \in Nat /\ n <= MaxMessages /\ arrived' \in Seq(Kinds) /\ Len(arrived') = n
      /\ DOMAIN arrived' = DOMAIN arrived \cup {n} /\ n \notin DOMAIN arrived
      /\ \A id \in DOMAIN arrived : arrived'[id] = arrived[id] /\ id < n
      /\ DOMAIN server' = DOMAIN server \cup {n}
      /\ server' \in [DOMAIN server' -> 0..Retention]
  BY <1>1, ArrivesFacts
<1>3. bot' = bot /\ account' = account /\ ran' = ran /\ lost' = lost
      /\ at' = at /\ copy' = copy /\ traded' = traded
      /\ unmarked' = unmarked /\ failed' = failed /\ overwrote' = overwrote
  BY DEF Arrives, roundVars
<1> HIDE DEF n
<1>4. bot' \in BotStates(DOMAIN arrived')
  <2>1. bot \in BotStates(DOMAIN arrived) BY <1>1 DEF BotTypeOK, BotStates
  <2>2. /\ SUBSET DOMAIN arrived \subseteq SUBSET DOMAIN arrived'
        /\ {0} \cup DOMAIN arrived \subseteq {0} \cup DOMAIN arrived'
    BY <1>2
  <2> QED BY <1>3, <2>1, <2>2 DEF BotStates
<1>5. BotTypeOK' BY <1>1, <1>2, <1>3, <1>4 DEF BotTypeOK, BotStates
<1>6. NothingIsDropped'
  BY <1>2, <1>3 DEF Safe, NothingIsDropped, Ours
<1>7. /\ bot.batch \subseteq DOMAIN arrived /\ bot.last_update_id \in Nat
      /\ bot.work \in {0} \cup DOMAIN arrived
  BY <1>1 DEF BotTypeOK
<1>8. DOMAIN arrived \subseteq Nat \ {0} BY <1>1, IdsAreNumbers
<1>9. OffsetIsBehind'
  <2>1. ~ (n < bot.last_update_id) BY <1>1, <1>2, <1>7 DEF Bounded, n
  <2> QED BY <1>2, <1>3, <2>1 DEF Safe, OffsetIsBehind, Ours, Done
<1>10. BatchIsNext' /\ WorkIsNext'
  <2>1. BatchIsNext' BY <1>2, <1>3, <1>7, <1>8 DEF Safe, BatchIsNext, Ours, Done
  <2>2. WorkIsNext' BY <1>2, <1>3, <1>7, <1>8 DEF Safe, WorkIsNext, Ours, Done
  <2> QED BY <2>1, <2>2
<1>11. BatchIsHeld' BY <1>1, <1>2, <1>3 DEF Safe, BotTypeOK, BatchIsHeld
<1>12. RoundIsAsked'
  <2>1. bot.work # 0 => bot.work \in DOMAIN arrived BY <1>7
  <2> QED BY <1>2, <1>3, <2>1 DEF Safe, RoundIsAsked, BotTypeOK
<1>13. Bounded' BY <1>1, <1>2, <1>3, <1>7 DEF Bounded, n
<1> QED BY <1>5, <1>6, <1>9, <1>10, <1>11, <1>12, <1>13 DEF Safe

LEMMA DayKeepsSafe == Safe /\ DayPasses => Safe'
<1> SUFFICES ASSUME Safe, DayPasses PROVE Safe' OBVIOUS
<1> DEFINE forgotten == {id \in DOMAIN server : server[id] = Retention}
<1>1. /\ server' = [id \in DOMAIN server \ forgotten |-> server[id] + 1]
      /\ lost' = lost \cup forgotten
      /\ account' = [account EXCEPT !.since = IF @ < RebalanceEvery THEN @ + 1 ELSE @]
      /\ arrived' = arrived /\ bot' = bot /\ ran' = ran /\ bot.pc # "batch"
      /\ at' = at /\ copy' = copy /\ traded' = traded
      /\ unmarked' = unmarked /\ failed' = failed /\ overwrote' = overwrote
  BY DEF DayPasses
<1>2. Retention \in Nat /\ RebalanceEvery \in Nat BY CommandsAssumption
<1>3. DOMAIN server' = DOMAIN server \ forgotten /\ server' \in [DOMAIN server' -> 0..Retention]
  <2>1. \A id \in DOMAIN server \ forgotten : server[id] + 1 \in 0..Retention
    BY <1>2 DEF Safe, BotTypeOK
  <2> QED BY <1>1, <2>1
<1>4. account' \in State
  <2> DEFINE next == IF account.since < RebalanceEvery THEN account.since + 1 ELSE account.since
  <2>1. account \in State BY DEF Safe, BotTypeOK
  <2>2. next \in 0..RebalanceEvery
    <3>1. account.since \in 0..RebalanceEvery BY <2>1, StateFacts
    <3> QED BY <1>2, <3>1
  <2>3. account' = [account EXCEPT !.since = next] BY <1>1
  <2> HIDE DEF next
  <2> QED BY <2>1, <2>2, <2>3 DEF State
<1>5. BotTypeOK' BY <1>1, <1>3, <1>4 DEF Safe, BotTypeOK
<1> HIDE DEF forgotten
<1>6. NothingIsDropped' BY <1>1, <1>3 DEF Safe, NothingIsDropped, Ours
<1>7. OffsetIsBehind' /\ BatchIsNext' /\ WorkIsNext' /\ RoundIsAsked'
  BY <1>1 DEF Safe, OffsetIsBehind, BatchIsNext, WorkIsNext, RoundIsAsked, Ours, Done
<1>8. Bounded' /\ BatchIsHeld' BY <1>1 DEF Safe, Bounded, BatchIsHeld
<1> QED BY <1>5, <1>6, <1>7, <1>8 DEF Safe

LEMMA NextKeepsSafe == Safe /\ [BotNext]_botVars => Safe'
<1>1. Safe /\ UNCHANGED botVars => Safe'
  BY DEF Safe, BotTypeOK, Bounded, BatchIsHeld, RoundIsAsked, NothingIsDropped, OffsetIsBehind,
         BatchIsNext, WorkIsNext, Ours, Done, botVars, queueVars, roundVars
<1>2. Safe /\ (Round("bot") \/ Round("daemon") \/ KillSaves \/ KillFails \/ Answers) => Safe'
  BY RoundFacts, HandlerFacts, StepKeepsSafe DEF Actor
<1> QED
  BY <1>1, <1>2, HandlesKeepsSafe, BotKeepsSafe, PollKeepsSafe, ArrivesKeepsSafe, DayKeepsSafe
     DEF BotNext, Works

LEMMA InitIsSafe == BotInit => Safe
<1> SUFFICES ASSUME BotInit PROVE Safe OBVIOUS
<1>1. DOMAIN arrived = {} /\ DOMAIN server = {} /\ Len(arrived) = 0 BY DEF BotInit
<1>2. server \in [DOMAIN server -> 0..Retention] /\ arrived \in Seq(Kinds) BY <1>1 DEF BotInit
<1>3. bot \in BotStates(DOMAIN arrived) BY <1>1, CommandsAssumption DEF BotInit, BotStates
<1>4. account \in State
  <2>1. account \in [dead : {FALSE}, since : {0, RebalanceEvery}] BY DEF BotInit
  <2>2. {FALSE} \subseteq BOOLEAN /\ {0, RebalanceEvery} \subseteq 0..RebalanceEvery
    BY CommandsAssumption
  <2> QED BY <2>1, <2>2 DEF State
<1>5. copy \in [Actor -> State] BY StateFacts DEF BotInit
<1>6. /\ at \in [Actor -> {"idle", "loaded", "sent", "saved"}] /\ at["bot"] = "idle"
      /\ traded \in [Ids -> Nat] /\ unmarked \in [Ids -> Nat]
  BY DEF BotInit, Actor
<1>7. BotTypeOK BY <1>1, <1>2, <1>3, <1>4, <1>5, <1>6 DEF BotInit, BotTypeOK, BotStates
<1> QED
  BY <1>1, <1>6, <1>7, CommandsAssumption
     DEF BotInit, Safe, Bounded, BatchIsHeld, RoundIsAsked, NothingIsDropped, OffsetIsBehind,
         BatchIsNext, WorkIsNext

(* The variables keep their types; a batch holds only messages that came.  *)
THEOREM BotTypeCorrect == BotSpec => []BotTypeOK
<1>1. Safe => BotTypeOK BY DEF Safe
<1> QED BY <1>1, InitIsSafe, NextKeepsSafe, PTL DEF BotSpec

(* No message of the owner is dropped by the bot, however often it dies,   *)
(* in a handler or between two, and however often a poll fails: its        *)
(* handler came to its end, or Telegram holds it still, or Telegram forgot *)
(* it.                                                                     *)
THEOREM NoneIsDropped == BotSpec => []NothingIsDropped
<1>1. Safe => NothingIsDropped BY DEF Safe
<1> QED BY <1>1, InitIsSafe, NextKeepsSafe, PTL DEF BotSpec
-----------------------------------------------------------------------------
TradedArrived == \A id \in Ids : traded[id] > 0 => id \in DOMAIN arrived

(* A message that may trade (again).                                       *)
MayTrade(id) ==
  /\ traded[id] <= unmarked[id]
  /\ \A k \in DOMAIN arrived : arrived[k] = "/kill" /\ k < id => k \in lost \cup failed

(* What holds while nobody saved an old copy: a /kill that was answered    *)
(* stands in the file; a message that traded and was marked is at least as *)
(* old as the last rebalance; and the bot loaded a state that lets its     *)
(* message trade only if it may.                                           *)
KilledIsDead == \A k \in ran : arrived[k] = "/kill" => k \in failed \/ account.dead
TradeIsRecent ==
  \A id \in DOMAIN server : \/ traded[id] <= unmarked[id] \/ account.since <= server[id]
                            \/ id = bot.work /\ at["bot"] = "sent"
LoadedMayTrade ==
  at["bot"] = "loaded" /\ Rebalances(copy["bot"]) /\ arrived[bot.work] = "/rebalance"
    => MayTrade(bot.work)
Once ==
  \A id \in DOMAIN arrived :
    /\ traded[id] <= 1 + unmarked[id]
    /\ traded[id] > 0 => \A k \in DOMAIN arrived :
         arrived[k] = "/kill" /\ k < id => k \in lost \cup failed

Paced == /\ TradedArrived
         /\ overwrote = {} => KilledIsDead /\ TradeIsRecent /\ LoadedMayTrade /\ Once

LEMMA Numbers ==
  ASSUME Safe
  PROVE /\ DOMAIN server \subseteq Ids /\ DOMAIN arrived \subseteq Ids
        /\ DOMAIN arrived \subseteq Nat \ {0} /\ DOMAIN server \subseteq DOMAIN arrived
        /\ traded \in [Ids -> Nat] /\ unmarked \in [Ids -> Nat]
        /\ server \in [DOMAIN server -> 0..Retention] /\ Retention \in Nat
        /\ account \in State /\ account.since \in 0..RebalanceEvery /\ RebalanceEvery \in Nat
        /\ bot.work \in {0} \cup DOMAIN arrived
        /\ bot.pc # "batch" => bot.work = 0
        /\ bot.work # 0 => bot.work \in DOMAIN server
        /\ bot.work = 0 => at["bot"] = "idle"
<1>1. account \in State /\ account.since \in 0..RebalanceEvery /\ RebalanceEvery \in Nat
  BY StateFacts DEF Safe, BotTypeOK
<1>2. DOMAIN arrived \subseteq Ids /\ DOMAIN arrived \subseteq Nat \ {0}
  BY IdsAreNumbers DEF Safe
<1>3. at["bot"] # "idle" => bot.work # 0 BY DEF Safe, RoundIsAsked
<1> QED BY <1>1, <1>2, <1>3, CommandsAssumption DEF Safe, BotTypeOK, BatchIsHeld

(* A step that sends no orders of the bot.                                 *)
LEMMA StepKeepsPaced ==
  ASSUME Safe, Paced, Stepped, traded' = traded,
         at["bot"] = "sent" => \/ at'["bot"] = "sent" /\ bot' = bot
                               \/ account'.since = 0
                               \/ unmarked'[bot.work] = unmarked[bot.work] + 1,
         \/ at'["bot"] # "loaded"
         \/ at["bot"] = "loaded" /\ copy'["bot"] = copy["bot"] /\ bot' = bot
         \/ overwrote' = {} => LoadedMayTrade'
  PROVE Paced'
<1>1. /\ server' = server /\ arrived' = arrived /\ lost' = lost
      /\ failed \subseteq failed' /\ \A id \in Ids : unmarked[id] <= unmarked'[id]
      /\ unmarked' \in [Ids -> Nat] /\ account' \in State
      /\ \A k \in ran' \ ran : arrived[k] = "/kill" => k \in failed' \/ account'.dead
  BY DEF Stepped, RoundTypes
<1>2. account'.since \in Nat
  <2>1. account'.since \in 0..RebalanceEvery /\ RebalanceEvery \in Nat BY <1>1, StateFacts
  <2> QED BY <2>1
<1>3. TradedArrived' BY <1>1 DEF Paced, TradedArrived
<1>4. ASSUME overwrote' = {} PROVE (KilledIsDead /\ TradeIsRecent /\ LoadedMayTrade /\ Once)'
  <2>1. /\ KilledIsDead /\ TradeIsRecent /\ LoadedMayTrade /\ Once
        /\ account'.since \in {account.since, 0} /\ (account.dead => account'.dead)
    BY <1>4 DEF Paced, Stepped, SavedWell
  <2>2. KilledIsDead' BY <1>1, <2>1 DEF KilledIsDead
  <2>3. Once' BY <1>1, <2>1, Numbers DEF Once
  <2>4. TradeIsRecent'
    <3> SUFFICES ASSUME NEW id \in DOMAIN server
                 PROVE \/ traded[id] <= unmarked'[id] \/ account'.since <= server[id]
                       \/ id = bot'.work /\ at'["bot"] = "sent"
      BY <1>1 DEF TradeIsRecent
    <3>1. server[id] \in Nat /\ account.since \in Nat /\ id \in Ids /\ id \in DOMAIN arrived
          /\ traded[id] \in Nat /\ unmarked[id] \in Nat /\ unmarked'[id] \in Nat
      BY <1>1, Numbers
    <3>2. CASE traded[id] <= unmarked[id] BY <1>1, <3>1, <3>2
    <3>3. CASE account.since <= server[id] BY <2>1, <3>1, <3>3
    <3>4. CASE id = bot.work /\ at["bot"] = "sent"
      <4>1. traded[id] <= 1 + unmarked[id] BY <2>1, <3>1 DEF Once
      <4>2. CASE at'["bot"] = "sent" /\ bot' = bot BY <3>4, <4>2
      <4>3. CASE account'.since = 0 BY <3>1, <4>3
      <4>4. CASE unmarked'[bot.work] = unmarked[bot.work] + 1 BY <3>1, <3>4, <4>1, <4>4
      <4> QED BY <3>4, <4>2, <4>3, <4>4
    <3> QED BY <2>1, <3>2, <3>3, <3>4 DEF TradeIsRecent
  <2>5. LoadedMayTrade'
    <3>1. CASE at'["bot"] # "loaded" BY <3>1 DEF LoadedMayTrade
    <3>2. CASE /\ at["bot"] = "loaded" /\ copy'["bot"] = copy["bot"]
               /\ bot' = bot /\ at'["bot"] = "loaded"
      <4>1. bot.work \in DOMAIN arrived BY <3>2, Numbers
      <4>2. bot.work \in Ids BY <4>1, Numbers
      <4>3. traded[bot.work] \in Nat /\ unmarked[bot.work] \in Nat /\ unmarked'[bot.work] \in Nat
            /\ unmarked[bot.work] <= unmarked'[bot.work]
        BY <1>1, <4>2, Numbers
      <4> QED BY <1>1, <2>1, <3>2, <4>3 DEF LoadedMayTrade, MayTrade, Rebalances
    <3> QED BY <1>4, <3>1, <3>2
  <2> QED BY <2>2, <2>3, <2>4, <2>5
<1> QED BY <1>3, <1>4 DEF Paced

(* The bot loads a state in which a rebalance is due: its message had not  *)
(* traded but for the unmarked times, for else its trade would be younger  *)
(* than the pace allows the next one; and no /kill before it was answered, *)
(* for else the account would be dead.                                     *)
LEMMA LoadingMayTrade ==
  ASSUME Safe, Paced, Retention < RebalanceEvery, Loads("bot"), overwrote' = {}
  PROVE LoadedMayTrade'
<1> SUFFICES ASSUME Rebalances(copy'["bot"]), arrived[bot.work] = "/rebalance"
             PROVE MayTrade(bot.work)
  BY DEF Loads, Goes, queueVars, LoadedMayTrade, MayTrade
<1>1. overwrote = {} /\ at["bot"] = "idle" /\ bot.work # 0 /\ copy' = [copy EXCEPT !["bot"] = account]
  BY DEF Loads, Kind
<1>2. copy'["bot"] = account BY <1>1 DEF Safe, BotTypeOK, Actor
<1>3. Rebalances(account) BY <1>2
<1>4. bot.work \in DOMAIN server /\ bot.work \in DOMAIN arrived BY <1>1, Numbers
<1>5. traded[bot.work] <= unmarked[bot.work]
  <2>1. account.since = RebalanceEvery BY <1>3 DEF Rebalances
  <2>2. server[bot.work] \in 0..Retention BY <1>4, Numbers
  <2>3. ~ (account.since <= server[bot.work]) BY <2>1, <2>2, Numbers
  <2> QED BY <1>1, <1>4, <2>3 DEF Paced, TradeIsRecent
<1>6. ASSUME NEW k \in DOMAIN arrived, arrived[k] = "/kill", k < bot.work
      PROVE  k \in lost \cup failed
  <2>1. Ours(k) BY <1>6 DEF Ours, Commands
  <2>2. k \in Done BY <1>1, <1>6, <2>1 DEF Safe, WorkIsNext
  <2>3. ~ account.dead BY <1>3 DEF Rebalances
  <2>4. k \in ran => k \in failed BY <1>1, <1>6, <2>3 DEF Paced, KilledIsDead
  <2> QED BY <2>2, <2>4 DEF Done
<1> QED BY <1>5, <1>6 DEF MayTrade

LEMMA RoundKeepsPaced ==
  ASSUME Safe, Paced, Retention < RebalanceEvery, NEW a \in Actor, Round(a) PROVE Paced'
<1>1. Stepped BY RoundFacts
<1>2. RoundTypes /\ "bot" \in Actor BY DEF Safe, BotTypeOK, RoundTypes, Actor
<1>3. CASE Trades(a) /\ a = "bot"
  <2>1. /\ at["bot"] = "loaded" /\ arrived[bot.work] = "/rebalance" /\ bot.work # 0
        /\ Rebalances(copy["bot"])
        /\ traded' = [traded EXCEPT ![bot.work] = @ + 1] /\ Goes("bot", "sent")
        /\ account' = account /\ unmarked' = unmarked /\ failed' = failed
        /\ overwrote' = overwrote /\ server' = server /\ arrived' = arrived /\ lost' = lost
    BY <1>3 DEF Trades, Kind, queueVars
  <2>2. bot' = bot /\ ran' = ran /\ at'["bot"] = "sent" BY <1>2, <2>1, GoesFacts
  <2>3. bot.work \in DOMAIN arrived /\ bot.work \in Ids BY <2>1, Numbers
  <2>4. \A id \in Ids : traded'[id] = IF id = bot.work THEN traded[id] + 1 ELSE traded[id]
    BY <2>1, Numbers
  <2>5. TradedArrived' BY <2>1, <2>3, <2>4 DEF Paced, TradedArrived
  <2>6. ASSUME overwrote = {} PROVE (KilledIsDead /\ TradeIsRecent /\ LoadedMayTrade /\ Once)'
    <3>1. KilledIsDead /\ TradeIsRecent /\ MayTrade(bot.work) /\ Once
      BY <2>1, <2>6 DEF Paced, LoadedMayTrade
    <3>2. KilledIsDead' BY <2>1, <2>2, <3>1 DEF KilledIsDead
    <3>3. LoadedMayTrade' BY <2>2 DEF LoadedMayTrade
    <3>4. TradeIsRecent' BY <2>1, <2>2, <2>4, <3>1, Numbers DEF TradeIsRecent
    <3>5. Once'
      <4> SUFFICES ASSUME NEW id \in DOMAIN arrived
                   PROVE /\ traded'[id] <= 1 + unmarked[id]
                         /\ traded'[id] > 0 => \A k \in DOMAIN arrived :
                              arrived[k] = "/kill" /\ k < id => k \in lost \cup failed
        BY <2>1 DEF Once
      <4>1. id \in Ids /\ traded[id] \in Nat /\ unmarked[id] \in Nat BY Numbers
      <4>2. CASE id = bot.work BY <2>4, <3>1, <4>1, <4>2 DEF MayTrade
      <4>3. CASE id # bot.work BY <2>4, <3>1, <4>1, <4>3 DEF Once
      <4> QED BY <4>2, <4>3
    <3> QED BY <3>2, <3>3, <3>4, <3>5
  <2> QED BY <2>1, <2>5, <2>6 DEF Paced
<1>4. CASE ~ (Trades(a) /\ a = "bot")
  <2>1. traded' = traded BY <1>4 DEF Round, Loads, Rests, Trades, Saves, SavesAgain, SaveFails
  <2>2. CASE a # "bot"
    <3>1. /\ at'["bot"] = at["bot"] /\ copy'["bot"] = copy["bot"] /\ bot' = bot
      BY <1>2, <2>2 DEF Round, Loads, Rests, Trades, Saves, SavesAgain, SaveFails, Goes, Returns,
                        RoundTypes
    <3> QED BY <1>1, <2>1, <3>1, StepKeepsPaced
  <2>3. CASE Loads(a) /\ a = "bot"
    <3>1. at["bot"] = "idle" BY <2>3 DEF Loads
    <3>2. overwrote' = {} => LoadedMayTrade' BY <2>3, LoadingMayTrade
    <3> QED BY <1>1, <2>1, <3>1, <3>2, StepKeepsPaced
  <2>4. CASE (Rests(a) \/ SavesAgain(a)) /\ a = "bot"
    <3>1. at["bot"] # "sent" /\ at'["bot"] = "idle"
      BY <1>2, <2>4 DEF Rests, SavesAgain, Returns, RoundTypes
    <3> QED BY <1>1, <2>1, <3>1, StepKeepsPaced
  <2>5. CASE Saves(a) /\ a = "bot"
    <3>1. at'["bot"] = "saved" /\ account' = [copy["bot"] EXCEPT !.since = 0]
      BY <1>2, <2>5 DEF Saves, Goes, Writes, RoundTypes
    <3>2. copy["bot"] \in State BY <1>2 DEF RoundTypes
    <3>3. account'.since = 0 BY <3>1, <3>2, StateFacts
    <3> QED BY <1>1, <2>1, <3>1, <3>3, StepKeepsPaced
  <2>6. CASE SaveFails(a) /\ a = "bot"
    <3>1. at'["bot"] = "idle" /\ at["bot"] = "sent" /\ unmarked' = Unmarked
      BY <1>2, <2>6 DEF SaveFails, Returns, RoundTypes
    <3>2. unmarked'[bot.work] = unmarked[bot.work] + 1 BY <3>1, UnmarkedFacts
    <3> QED BY <1>1, <2>1, <3>1, <3>2, StepKeepsPaced
  <2> QED BY <1>4, <2>2, <2>3, <2>4, <2>5, <2>6 DEF Round
<1> QED BY <1>3, <1>4

LEMMA HandlerKeepsPaced ==
  ASSUME Safe, Paced, KillSaves \/ KillFails \/ Answers PROVE Paced'
<1>1. Stepped BY HandlerFacts
<1>2. at["bot"] # "sent" /\ at'["bot"] = "idle" /\ traded' = traded
  BY DEF KillSaves, KillFails, Answers, Returns, Safe, BotTypeOK, Actor
<1> QED BY <1>1, <1>2, StepKeepsPaced

LEMMA NextKeepsPaced ==
  ASSUME Safe, Paced, Retention < RebalanceEvery, [BotNext]_botVars PROVE Paced'
<1>1. CASE Round("bot") \/ Round("daemon") BY <1>1, RoundKeepsPaced DEF Actor
<1>2. CASE KillSaves \/ KillFails \/ Answers BY <1>2, HandlerKeepsPaced
<1>3. CASE UNCHANGED botVars
  BY <1>3 DEF botVars, queueVars, roundVars, Paced, TradedArrived, KilledIsDead, TradeIsRecent,
              LoadedMayTrade, MayTrade, Once
<1>4. CASE Handles \/ BatchEnds \/ Starts
  <2>1. UNCHANGED <<queueVars, roundVars, ran>> BY <1>4 DEF Handles, BatchEnds, Starts
  <2>2. bot.work = 0 BY <1>4, Numbers DEF Handles, BatchEnds, Starts
  <2>3. at["bot"] = "idle" BY <2>2, Numbers
  <2> QED BY <2>1, <2>3 DEF queueVars, roundVars, Paced, TradedArrived, KilledIsDead,
                            TradeIsRecent, LoadedMayTrade, Once
<1>5. CASE Polls \/ PollFails
  <2>1. server' = Kept(Unconfirmed) /\ UNCHANGED <<arrived, lost, roundVars, ran>>
    BY <1>5 DEF Polls, PollFails
  <2>2. DOMAIN server' \subseteq DOMAIN server /\ \A i \in DOMAIN server' : server'[i] = server[i]
    BY <2>1 DEF Kept, Unconfirmed
  <2>3. bot.work = 0 BY <1>5, Numbers DEF Polls, PollFails
  <2>4. at["bot"] = "idle" BY <2>3, Numbers
  <2> QED BY <2>1, <2>2, <2>4 DEF roundVars, Paced, TradedArrived, KilledIsDead,
                                  TradeIsRecent, LoadedMayTrade, Once
<1>6. CASE ProcessDies
  <2>1. /\ server' = server /\ arrived' = arrived /\ lost' = lost /\ account' = account
        /\ traded' = traded /\ failed' = failed /\ overwrote' = overwrote /\ ran' = ran
        /\ unmarked' = Unmarked /\ at' = [at EXCEPT !["bot"] = "idle"]
    BY <1>6 DEF ProcessDies, queueVars
  <2>2. at'["bot"] = "idle" BY <2>1 DEF Safe, BotTypeOK, Actor
  <2>3. /\ Unmarked \in [Ids -> Nat] /\ \A id \in Ids : unmarked[id] <= Unmarked[id]
        /\ at["bot"] = "sent" => Unmarked[bot.work] = unmarked[bot.work] + 1
    BY UnmarkedFacts
  <2> HIDE DEF Unmarked
  <2>4. TradedArrived' BY <2>1 DEF Paced, TradedArrived
  <2>5. ASSUME overwrote = {} PROVE (KilledIsDead /\ TradeIsRecent /\ LoadedMayTrade /\ Once)'
    <3>1. KilledIsDead /\ TradeIsRecent /\ Once BY <2>5 DEF Paced
    <3>2. KilledIsDead' BY <2>1, <3>1 DEF KilledIsDead
    <3>3. LoadedMayTrade' BY <2>2 DEF LoadedMayTrade
    <3>4. Once' BY <2>1, <2>3, <3>1, Numbers DEF Once
    <3>5. TradeIsRecent'
      <4> SUFFICES ASSUME NEW id \in DOMAIN server
                   PROVE traded[id] <= Unmarked[id] \/ account.since <= server[id]
        BY <2>1 DEF TradeIsRecent
      <4>1. id \in Ids /\ id \in DOMAIN arrived /\ traded[id] \in Nat /\ unmarked[id] \in Nat
            /\ Unmarked[id] \in Nat /\ unmarked[id] <= Unmarked[id]
        BY <2>3, Numbers
      <4>2. CASE traded[id] <= unmarked[id] BY <4>1, <4>2
      <4>3. CASE id = bot.work /\ at["bot"] = "sent"
        <5>1. traded[id] <= 1 + unmarked[id] BY <3>1, <4>1 DEF Once
        <5> QED BY <2>3, <4>1, <4>3, <5>1
      <4> QED BY <3>1, <4>2, <4>3 DEF TradeIsRecent
    <3> QED BY <3>2, <3>3, <3>4, <3>5
  <2> QED BY <2>1, <2>4, <2>5 DEF Paced
<1>7. CASE Arrives
  <2> DEFINE n == Len(arrived) + 1
  <2>1. /\ n \in Nat /\ n <= MaxMessages
        /\ DOMAIN arrived' = DOMAIN arrived \cup {n} /\ n \notin DOMAIN arrived
        /\ \A id \in DOMAIN arrived : arrived'[id] = arrived[id] /\ id < n
        /\ DOMAIN server' = DOMAIN server \cup {n}
        /\ \A id \in DOMAIN server : server'[id] = server[id]
    BY <1>7, ArrivesFacts DEF Safe
  <2>2. UNCHANGED <<lost, roundVars, bot, ran>> BY <1>7 DEF Arrives
  <2>3. n \in Ids /\ traded[n] \in Nat /\ unmarked[n] \in Nat
    BY <2>1, <1>7, Numbers, IdsAreNumbers, CommandsAssumption DEF Safe, Ids
  <2> HIDE DEF n
  <2>4. traded[n] = 0 BY <2>1, <2>3 DEF Paced, TradedArrived
  <2>5. TradedArrived' BY <2>1, <2>2 DEF roundVars, Paced, TradedArrived
  <2>6. ASSUME overwrote = {} PROVE (KilledIsDead /\ TradeIsRecent /\ LoadedMayTrade /\ Once)'
    <3>1. KilledIsDead /\ TradeIsRecent /\ LoadedMayTrade /\ Once BY <2>6 DEF Paced
    <3>2. KilledIsDead'
      <4>1. ran \subseteq DOMAIN arrived BY DEF Safe, BotTypeOK
      <4> QED BY <2>1, <2>2, <3>1, <4>1 DEF roundVars, KilledIsDead
    <3>3. TradeIsRecent' BY <2>1, <2>2, <2>3, <2>4, <3>1 DEF roundVars, TradeIsRecent
    <3>4. LoadedMayTrade'
      <4>1. at["bot"] = "loaded" => bot.work \in DOMAIN arrived BY Numbers
      <4>2. at["bot"] = "loaded" => arrived'[bot.work] = arrived[bot.work] /\ ~ (n < bot.work)
        BY <2>1, <4>1, Numbers
      <4> QED BY <2>1, <2>2, <3>1, <4>2 DEF roundVars, LoadedMayTrade, MayTrade
    <3>5. Once'
      <4> SUFFICES ASSUME NEW i \in DOMAIN arrived'
                   PROVE /\ traded[i] <= 1 + unmarked[i]
                         /\ traded[i] > 0 => \A k \in DOMAIN arrived' :
                              arrived'[k] = "/kill" /\ k < i => k \in lost \cup failed
        BY <2>2 DEF roundVars, Once
      <4>1. CASE i = n BY <2>3, <2>4, <4>1
      <4>2. CASE i \in DOMAIN arrived
        <5>1. ~ (n < i) BY <2>1, <4>2, Numbers
        <5> QED BY <2>1, <3>1, <4>2, <5>1 DEF Once
      <4> QED BY <2>1, <4>1, <4>2
    <3> QED BY <3>2, <3>3, <3>4, <3>5
  <2> QED BY <2>2, <2>5, <2>6 DEF Paced, roundVars
<1>8. CASE DayPasses
  <2> DEFINE forgotten == {id \in DOMAIN server : server[id] = Retention}
  <2>1. /\ server' = [id \in DOMAIN server \ forgotten |-> server[id] + 1]
        /\ lost' = lost \cup forgotten
        /\ account' = [account EXCEPT !.since = IF @ < RebalanceEvery THEN @ + 1 ELSE @]
        /\ UNCHANGED <<arrived, at, copy, traded, unmarked, failed, overwrote, bot, ran>>
        /\ bot.work = 0
    BY <1>8, Numbers DEF DayPasses
  <2> HIDE DEF forgotten
  <2>2. account.since \in Nat /\ account'.since \in Nat /\ account'.since <= account.since + 1
        /\ account'.dead = account.dead
    BY <2>1, CommandsAssumption DEF Safe, BotTypeOK, State
  <2>3. at["bot"] = "idle" BY <2>1, Numbers
  <2>4. \A i \in DOMAIN server : server[i] \in Nat BY Numbers
  <2>5. TradedArrived' BY <2>1 DEF Paced, TradedArrived
  <2>6. ASSUME overwrote = {} PROVE (KilledIsDead /\ TradeIsRecent /\ LoadedMayTrade /\ Once)'
    <3>1. KilledIsDead /\ TradeIsRecent /\ Once BY <2>6 DEF Paced
    <3>2. KilledIsDead' BY <2>1, <2>2, <3>1 DEF KilledIsDead
    <3>3. TradeIsRecent' BY <2>1, <2>2, <2>3, <2>4, <3>1 DEF TradeIsRecent
    <3>4. LoadedMayTrade' BY <2>1, <2>3 DEF LoadedMayTrade
    <3>5. Once' BY <2>1, <3>1 DEF Once
    <3> QED BY <3>2, <3>3, <3>4, <3>5
  <2> QED BY <2>1, <2>5, <2>6 DEF Paced
<1> QED BY <1>1, <1>2, <1>3, <1>4, <1>5, <1>6, <1>7, <1>8 DEF BotNext, Works

(* While nobody saves an old copy of the state over a newer file, a        *)
(* /rebalance moves the account once, and once more only for each time     *)
(* that its orders went out and the save failed or the bot died before it; *)
(* and never after a /kill before it that did not answer with an error;    *)
(* provided that Telegram forgets a message before the next rebalance      *)
(* after it is due: 24 hours against 72.                                   *)
THEOREM EachTradesOnce == Retention < RebalanceEvery => (BotSpec => []TradesOnce)
<1> SUFFICES ASSUME Retention < RebalanceEvery PROVE BotSpec => []TradesOnce OBVIOUS
<1>1. BotInit => Paced
  <2> SUFFICES ASSUME BotInit PROVE Paced OBVIOUS
  <2>1. at["bot"] = "idle" BY DEF BotInit, Actor
  <2>2. \A id \in Ids : traded[id] = 0 BY DEF BotInit
  <2>3. DOMAIN arrived = {} /\ DOMAIN server = {} /\ ran = {} BY DEF BotInit
  <2> QED BY <2>1, <2>2, <2>3
          DEF Paced, TradedArrived, KilledIsDead, TradeIsRecent, LoadedMayTrade, Once
<1>2. BotInit => Safe /\ Paced BY <1>1, InitIsSafe
<1>3. Safe /\ Paced /\ [BotNext]_botVars => (Safe /\ Paced)'
  BY NextKeepsSafe, NextKeepsPaced
<1>4. Safe /\ Paced => TradesOnce BY DEF Paced, Once, TradesOnce
<1> QED BY <1>2, <1>3, <1>4, PTL DEF BotSpec
-----------------------------------------------------------------------------
(* Long reports.                                                           *)
(* The pieces of a report as far as they are made: each is short enough.   *)
Short(piece) == Length(piece) <= Limit
ShortPieces == {ps \in Seq(Seq(Nat)) : \A i \in 1..Len(ps) : Short(ps[i])}

LEMMA LineAppends ==
  ASSUME NEW p \in Seq(Nat), NEW line \in Nat
  PROVE  /\ SumFunction(p) \in Nat /\ Append(p, line) \in Seq(Nat)
         /\ SumFunction(Append(p, line)) = SumFunction(p) + line
         /\ Length(Append(p, line)) = SumFunction(p) + line + Len(p)
<1>1. p \in Seq(Int) /\ line \in Int /\ Append(p, line) \in Seq(Nat) OBVIOUS
<1>2. SumFunction(p) \in Int /\ SumFunction(Append(p, line)) = SumFunction(p) + line
  BY <1>1, SumAppends
<1>3. SumFunction(p) \in Nat
  <2>1. IsFiniteSet(DOMAIN p)
    <3>1. DOMAIN p = 1..Len(p) /\ Len(p) \in Nat OBVIOUS
    <3> QED BY <3>1, FS_Interval
  <2>2. \A i \in DOMAIN p : p[i] \in Nat OBVIOUS
  <2>3. SumFunctionOnSet(p, DOMAIN p) \in Nat BY <2>1, <2>2, SumIsNat
  <2> QED BY <2>3 DEF SumFunction
<1>4. Len(Append(p, line)) = Len(p) + 1 /\ Len(p) \in Nat OBVIOUS
<1> QED BY <1>1, <1>2, <1>3, <1>4 DEF Length

LEMMA SingleLine ==
  ASSUME NEW line \in Nat
  PROVE  <<line>> \in Seq(Nat) /\ SumFunction(<<line>>) = line /\ Length(<<line>>) = line
<1>1. <<>> \in Seq(Nat) /\ <<line>> = Append(<<>>, line) /\ Len(<<>>) = 0 OBVIOUS
<1>2. /\ Append(<<>>, line) \in Seq(Nat)
      /\ SumFunction(Append(<<>>, line)) = SumFunction(<<>>) + line
      /\ Length(Append(<<>>, line)) = SumFunction(<<>>) + line + Len(<<>>)
  <2>1. <<>> \in Seq(Nat) OBVIOUS
  <2> QED BY <2>1, LineAppends
<1> QED BY <1>1, <1>2, SumOfNone

LEMMA CharactersOfNone == Characters(<<>>) = 0
<1> DEFINE t == [i \in DOMAIN <<>> |-> SumFunction(<<>>[i])]
<1>1. DOMAIN <<>> = {} OBVIOUS
<1>2. t = <<>>
  <2>1. \A F : [i \in {} |-> F] = <<>> OBVIOUS
  <2> QED BY <1>1
<1> QED BY <1>2, SumOfNone DEF Characters

LEMMA PieceAppends ==
  ASSUME NEW ps \in Seq(Seq(Nat)), NEW p \in Seq(Nat)
  PROVE  /\ Characters(ps) \in Int
         /\ Characters(Append(ps, p)) = Characters(ps) + SumFunction(p)
<1> DEFINE t == [i \in DOMAIN ps |-> SumFunction(ps[i])]
           u == [i \in DOMAIN Append(ps, p) |-> SumFunction(Append(ps, p)[i])]
           x == SumFunction(p)
<1>1. x \in Int
  <2>1. 0 \in Nat OBVIOUS
  <2>2. SumFunction(p) \in Nat BY <2>1, LineAppends
  <2> QED BY <2>2
<1>2. \A i \in 1..Len(ps) : SumFunction(ps[i]) \in Int
  <2> TAKE i \in 1..Len(ps)
  <2>1. ps[i] \in Seq(Nat) OBVIOUS
  <2>2. 0 \in Nat OBVIOUS
  <2>3. SumFunction(ps[i]) \in Nat BY <2>1, <2>2, LineAppends
  <2> QED BY <2>3
<1>3. t \in Seq(Int) /\ Len(t) = Len(ps)
  <2>1. Len(ps) \in Nat /\ t \in [1..Len(ps) -> Int] BY <1>2
  <2> HIDE DEF t
  <2> QED BY <2>1, FunctionIsSequence
<1>4. u = Append(t, x) /\ Len(t) = Len(ps)
  <2>1. Append(ps, p) \in Seq(Seq(Nat)) /\ Len(Append(ps, p)) = Len(ps) + 1 /\ Len(ps) \in Nat OBVIOUS
  <2>2. DOMAIN u = 1..(Len(ps) + 1) /\ u = [i \in 1..(Len(ps) + 1) |-> u[i]] BY <2>1
  <2>3. \A i \in 1..(Len(ps) + 1) : u[i] = Append(t, x)[i]
    <3> TAKE i \in 1..(Len(ps) + 1)
    <3>1. u[i] = SumFunction(Append(ps, p)[i]) BY <2>1
    <3>2. CASE i = Len(ps) + 1
      <4>1. Append(ps, p)[i] = p BY <3>2
      <4>2. Append(t, x)[i] = x
        <5> HIDE DEF t, x
        <5> QED BY <1>3, <3>2
      <4> QED BY <3>1, <4>1, <4>2
    <3>3. CASE i # Len(ps) + 1
      <4>1. i \in 1..Len(ps) /\ Append(ps, p)[i] = ps[i] BY <3>3
      <4>2. Append(t, x)[i] = t[i]
        <5> HIDE DEF t, x
        <5> QED BY <1>3, <4>1
      <4> QED BY <3>1, <4>1, <4>2
    <3> QED BY <3>2, <3>3
  <2>4. Append(t, x) \in Seq(Int) /\ Len(Append(t, x)) = Len(ps) + 1
    <3> HIDE DEF t, x
    <3> QED BY <1>1, <1>3
  <2> HIDE DEF t, u, x
  <2>5. Append(t, x) = [i \in 1..(Len(ps) + 1) |-> Append(t, x)[i]]
    <3>1. Append(t, x) \in [1..(Len(ps) + 1) -> Int] BY <2>4, SequenceIsFunction
    <3> QED BY <3>1
  <2> QED BY <1>3, <2>2, <2>3, <2>5
<1> HIDE DEF t, u, x
<1>5. SumFunction(t) \in Int /\ SumFunction(Append(t, x)) = SumFunction(t) + x
  BY <1>1, <1>3, SumAppends
<1> QED BY <1>4, <1>5 DEF Characters, t, u, x

LEMMA CutsFacts ==
  ASSUME NEW line \in Nat
  PROVE  Cuts(line) \in Nat /\ line - Cuts(line) * Limit \in 0..Limit
<1>1. Limit \in Nat \ {0} BY CommandsAssumption
<1>2. CASE line > Limit
  <2> DEFINE c == (line - 1) \div Limit
  <2>1. \A a \in Nat, n \in Nat \ {0} : a \div n \in Nat /\ n * (a \div n) <= a /\ a < n * (a \div n) + n
    OBVIOUS
  <2>2. line - 1 \in Nat BY <1>1, <1>2
  <2>3. c \in Nat /\ Limit * c <= line - 1 /\ line - 1 < Limit * c + Limit BY <1>1, <2>1, <2>2
  <2>4. Cuts(line) = c BY <1>2 DEF Cuts
  <2> HIDE DEF c
  <2>5. c * Limit = Limit * c /\ Limit * c \in Nat BY <1>1, <2>3
  <2> QED BY <1>1, <2>3, <2>4, <2>5
<1>3. CASE ~ (line > Limit)
  <2>1. Cuts(line) = 0 BY <1>3 DEF Cuts
  <2>2. 0 * Limit = 0 BY <1>1
  <2> QED BY <1>1, <1>3, <2>1, <2>2
<1> QED BY <1>2, <1>3

LEMMA ShortAppends ==
  ASSUME NEW ps \in ShortPieces, NEW p \in Seq(Nat), Short(p)
  PROVE  /\ Append(ps, p) \in ShortPieces
         /\ Characters(ps) \in Int
         /\ Characters(Append(ps, p)) = Characters(ps) + SumFunction(p)
<1>1. ps \in Seq(Seq(Nat)) /\ \A i \in 1..Len(ps) : Short(ps[i]) BY DEF ShortPieces
<1>2. Append(ps, p) \in Seq(Seq(Nat)) BY <1>1
<1>3. \A i \in 1..Len(Append(ps, p)) : Short(Append(ps, p)[i])
  <2> TAKE i \in 1..Len(Append(ps, p))
  <2>1. CASE i = Len(ps) + 1
    <3>1. Append(ps, p)[i] = p BY <1>1, <2>1
    <3> QED BY <3>1
  <2>2. CASE i # Len(ps) + 1
    <3>1. i \in 1..Len(ps) /\ Append(ps, p)[i] = ps[i] BY <1>1, <2>2
    <3> QED BY <1>1, <3>1
  <2> QED BY <2>1, <2>2
<1> QED BY <1>1, <1>2, <1>3, PieceAppends DEF ShortPieces

(* A line that is cut adds as many pieces as it fills.                     *)
WithCuts(ps, k) == ps \o [i \in 1..k |-> <<Limit>>]

LEMMA OneCutMore ==
  ASSUME NEW T, NEW ps \in Seq(T), NEW x \in T, NEW k \in Nat
  PROVE  /\ ps \o [i \in 1..0 |-> x] = ps
         /\ ps \o [i \in 1..(k + 1) |-> x] = Append(ps \o [i \in 1..k |-> x], x)
<1> DEFINE c(n) == [i \in 1..n |-> x]
<1>1. \A n \in Nat : c(n) \in Seq(T) /\ Len(c(n)) = n
  <2> TAKE n \in Nat
  <2>1. c(n) \in [1..n -> T] OBVIOUS
  <2> QED BY <2>1, FunctionIsSequence
<1>2. c(0) = <<>> BY <1>1
<1>3. c(k + 1) = Append(c(k), x)
  <2>1. Append(c(k), x) \in [1..(k + 1) -> T] /\ c(k + 1) \in [1..(k + 1) -> T]
    <3>1. Append(c(k), x) \in Seq(T) /\ Len(Append(c(k), x)) = k + 1
      <4> HIDE DEF c
      <4> QED BY <1>1
    <3> QED BY <3>1, SequenceIsFunction
  <2>2. \A i \in 1..(k + 1) : Append(c(k), x)[i] = x
    <3> TAKE i \in 1..(k + 1)
    <3>1. i # k + 1 => i \in 1..k /\ c(k)[i] = x OBVIOUS
    <3>2. Append(c(k), x)[i] = IF i = k + 1 THEN x ELSE c(k)[i]
      <4>1. c(k) \in Seq(T) /\ Len(c(k)) = k BY <1>1
      <4> HIDE DEF c
      <4> QED BY <4>1
    <3> HIDE DEF c
    <3> QED BY <3>1, <3>2
  <2>3. \A i \in 1..(k + 1) : c(k + 1)[i] = x OBVIOUS
  <2> HIDE DEF c
  <2> QED BY <2>1, <2>2, <2>3
<1>4. ps \o Append(c(k), x) = Append(ps \o c(k), x)
  <2>1. c(k) \in Seq(T) BY <1>1
  <2> HIDE DEF c
  <2> QED BY <2>1
<1>5. ps \o <<>> = ps OBVIOUS
<1> QED BY <1>2, <1>3, <1>4, <1>5

LEMMA CutsAreShort ==
  ASSUME NEW ps \in ShortPieces, NEW n \in Nat
  PROVE  /\ WithCuts(ps, n) \in ShortPieces
         /\ Characters(WithCuts(ps, n)) = Characters(ps) + n * Limit
<1> DEFINE Bad == {m \in Nat : ~ (/\ WithCuts(ps, m) \in ShortPieces
                                  /\ Characters(WithCuts(ps, m)) = Characters(ps) + m * Limit)}
<1>1. Limit \in Nat /\ <<Limit>> \in Seq(Nat) /\ SumFunction(<<Limit>>) = Limit /\ Short(<<Limit>>)
  <2>1. Limit \in Nat BY CommandsAssumption
  <2> QED BY <2>1, SingleLine DEF Short
<1>2. ps \in Seq(Seq(Nat)) /\ Characters(ps) \in Int
  <2>1. ps \in Seq(Seq(Nat)) BY DEF ShortPieces
  <2> QED BY <1>1, <2>1, PieceAppends
<1>3. SUFFICES ASSUME Bad # {} PROVE FALSE OBVIOUS
<1>4. PICK m \in Bad : \A k \in Bad : m <= k
  <2>1. Bad \in SUBSET Nat OBVIOUS
  <2> QED BY <1>3, <2>1, LeastExists
<1>5. CASE m = 0
  <2>1. WithCuts(ps, 0) = ps BY <1>1, <1>2, OneCutMore DEF WithCuts
  <2>2. Characters(ps) + 0 * Limit = Characters(ps) BY <1>1, <1>2
  <2> QED BY <1>4, <1>5, <2>1, <2>2
<1>6. CASE m # 0
  <2>1. m - 1 \in Nat /\ m - 1 \notin Bad BY <1>4, <1>6
  <2> DEFINE qs == WithCuts(ps, m - 1)
  <2>2. qs \in ShortPieces /\ Characters(qs) = Characters(ps) + (m - 1) * Limit BY <2>1
  <2>3. WithCuts(ps, m) = Append(qs, <<Limit>>)
    <3>1. (m - 1) + 1 = m BY <1>4
    <3>2. WithCuts(ps, (m - 1) + 1) = Append(qs, <<Limit>>) BY <1>1, <1>2, <2>1, OneCutMore DEF WithCuts
    <3> QED BY <3>1, <3>2
  <2> HIDE DEF qs
  <2>4. /\ Append(qs, <<Limit>>) \in ShortPieces
        /\ Characters(Append(qs, <<Limit>>)) = Characters(qs) + Limit
    BY <1>1, <2>2, ShortAppends
  <2>5. (m - 1) * Limit + Limit = m * Limit /\ m * Limit \in Int /\ (m - 1) * Limit \in Int BY <1>1, <1>4
  <2>6. Characters(WithCuts(ps, m)) = Characters(ps) + m * Limit
    BY <1>1, <1>2, <2>2, <2>3, <2>4, <2>5
  <2> QED BY <1>4, <2>3, <2>4, <2>6
<1> QED BY <1>5, <1>6

LEMMA AddLineFacts ==
  ASSUME NEW ps \in ShortPieces, NEW line \in Nat
  PROVE  /\ AddLine(ps, line) \in ShortPieces
         /\ Characters(ps) \in Int
         /\ Characters(AddLine(ps, line)) = Characters(ps) + line
<1> DEFINE cut == [i \in 1..Cuts(line) |-> <<Limit>>]
           rest == line - Cuts(line) * Limit
<1>0. Limit \in Nat BY CommandsAssumption
<1>1. Cuts(line) \in Nat /\ rest \in Nat /\ rest <= Limit
  <2>1. Cuts(line) \in Nat /\ rest \in 0..Limit BY CutsFacts
  <2> HIDE DEF rest
  <2> QED BY <2>1, <1>0
<1>2. ps \in Seq(Seq(Nat)) /\ \A i \in 1..Len(ps) : Short(ps[i]) BY DEF ShortPieces
<1>3. Characters(ps) \in Int
  <2>1. <<>> \in Seq(Nat) OBVIOUS
  <2> QED BY <1>2, <2>1, PieceAppends
<1>4. CASE cut = <<>> /\ ps # <<>> /\ Fits(Last(ps), line)
  <2> DEFINE l == Last(ps)
             f == Front(ps)
  <2>1. Len(ps) # 0 BY <1>2, <1>4
  <2>2. PICK g \in Seq(Seq(Nat)), e \in Seq(Nat) : Len(g) = Len(ps) - 1 /\ ps = Append(g, e)
    BY <1>2, <2>1, FrontAndLast
  <2>3. Last(ps) = e /\ Front(ps) = g /\ \A i \in 1..Len(g) : g[i] = ps[i] /\ i \in 1..Len(ps)
    <3>1. Len(ps) \in Nat /\ Len(g) \in Nat BY <1>2, <2>2
    <3>2. ps[Len(ps)] = e BY <2>2, <3>1
    <3>3. \A i \in 1..Len(g) : g[i] = ps[i] /\ i \in 1..Len(ps) BY <2>2, <3>1
    <3>4. g = [i \in 1..Len(g) |-> g[i]] BY <2>2, SequenceIsFunction
    <3>5. Front(ps) = [i \in 1..Len(g) |-> ps[i]] BY <2>2, <3>1 DEF Front
    <3> QED BY <3>2, <3>3, <3>4, <3>5 DEF Last
  <2>4. g \in ShortPieces BY <1>2, <2>2, <2>3 DEF ShortPieces
  <2>5. Append(e, line) \in Seq(Nat) /\ Short(Append(e, line))
        /\ SumFunction(Append(e, line)) = SumFunction(e) + line /\ SumFunction(e) \in Nat
    <3>1. /\ SumFunction(e) \in Nat /\ Append(e, line) \in Seq(Nat)
          /\ SumFunction(Append(e, line)) = SumFunction(e) + line
          /\ Length(Append(e, line)) = SumFunction(e) + line + Len(e)
      BY LineAppends
    <3>2. SumFunction(e) + Len(e) + line + 1 <= Limit BY <1>4, <2>3 DEF Fits
    <3>3. Len(e) \in Nat OBVIOUS
    <3>4. SumFunction(e) + line + Len(e) <= Limit BY <1>0, <3>1, <3>2, <3>3
    <3> QED BY <3>1, <3>4 DEF Short
  <2>6. Short(e)
    <3>1. Len(ps) \in 1..Len(ps) /\ ps[Len(ps)] = e BY <1>2, <2>1, <2>2
    <3> QED BY <1>2, <3>1
  <2>7. AddLine(ps, line) = Append(g, Append(e, line))
    <3>1. AddLine(ps, line) = Front(ps) \o <<Append(Last(ps), line)>> BY <1>4 DEF AddLine
    <3>2. g \o <<Append(e, line)>> = Append(g, Append(e, line)) BY <2>2, <2>5
    <3> QED BY <2>3, <3>1, <3>2
  <2>8. /\ Append(g, Append(e, line)) \in ShortPieces /\ Characters(g) \in Int
        /\ Characters(Append(g, Append(e, line))) = Characters(g) + SumFunction(Append(e, line))
    BY <2>4, <2>5, ShortAppends
  <2>9. Characters(Append(g, e)) = Characters(g) + SumFunction(e) BY <2>4, <2>6, ShortAppends
  <2> QED BY <1>3, <2>2, <2>5, <2>7, <2>8, <2>9
<1>5. CASE ~ (cut = <<>> /\ ps # <<>> /\ Fits(Last(ps), line))
  <2> DEFINE qs == WithCuts(ps, Cuts(line))
  <2>1. qs \in ShortPieces /\ Characters(qs) = Characters(ps) + Cuts(line) * Limit BY <1>1, CutsAreShort
  <2>2. <<rest>> \in Seq(Nat) /\ SumFunction(<<rest>>) = rest /\ Short(<<rest>>)
    <3> HIDE DEF rest
    <3> QED BY <1>0, <1>1, SingleLine DEF Short
  <2>3. AddLine(ps, line) = Append(qs, <<rest>>)
    <3>1. AddLine(ps, line) = (ps \o cut) \o <<<<rest>>>> BY <1>5 DEF AddLine
    <3>2. ps \o cut = qs BY DEF WithCuts
    <3>3. qs \in Seq(Seq(Nat)) BY <2>1 DEF ShortPieces
    <3> HIDE DEF qs, cut, rest
    <3>4. qs \o <<<<rest>>>> = Append(qs, <<rest>>) BY <2>2, <3>3
    <3> QED BY <3>1, <3>2, <3>4
  <2>4. /\ Append(qs, <<rest>>) \in ShortPieces
        /\ Characters(Append(qs, <<rest>>)) = Characters(qs) + SumFunction(<<rest>>)
    <3> HIDE DEF qs, rest
    <3> QED BY <2>1, <2>2, ShortAppends
  <2>5. Cuts(line) * Limit \in Int BY <1>0, <1>1
  <2>6. rest = line - Cuts(line) * Limit OBVIOUS
  <2> HIDE DEF qs, rest
  <2> QED BY <1>1, <1>3, <2>1, <2>2, <2>3, <2>4, <2>5, <2>6
<1> QED BY <1>3, <1>4, <1>5

(* What chunk_message makes of the first i lines.                          *)
MadeOf(g, lines) ==
  g = [i \in 0..Len(lines) |-> IF i = 0 THEN <<>> ELSE AddLine(g[i - 1], lines[i])]

LEMMA PiecesAreMade ==
  ASSUME NEW lines \in Seq(Nat)
  PROVE  \E g : MadeOf(g, lines)
<1> DEFINE n == Len(lines)
           step == [i \in 1..n |-> [ps \in ShortPieces |-> AddLine(ps, lines[i])]]
<1>1. n \in Nat /\ \A i \in 1..n : lines[i] \in Nat OBVIOUS
<1>2. <<>> \in ShortPieces BY DEF ShortPieces
<1>3. step \in [1..n -> [ShortPieces -> ShortPieces]]
  <2>1. \A i \in 1..n, ps \in ShortPieces : AddLine(ps, lines[i]) \in ShortPieces
    BY <1>1, AddLineFacts
  <2> HIDE DEF n
  <2> QED BY <2>1
<1>4. PICK g \in [0..n -> ShortPieces] : Steps(g, <<>>, step, n)
  <2> HIDE DEF step, n
  <2> QED BY <1>1, <1>2, <1>3, RecursionExists
<1>5. g[0] = <<>> /\ \A i \in 1..n : g[i] = step[i][g[i - 1]] BY <1>4 DEF Steps
<1>6. \A i \in 1..n : g[i] = AddLine(g[i - 1], lines[i])
  <2> TAKE i \in 1..n
  <2>1. i - 1 \in 0..n BY <1>1
  <2>2. g[i - 1] \in ShortPieces BY <1>4, <2>1
  <2>3. step[i][g[i - 1]] = AddLine(g[i - 1], lines[i]) BY <2>2
  <2> QED BY <1>5, <2>3
<1>7. g = [i \in 0..n |-> IF i = 0 THEN <<>> ELSE AddLine(g[i - 1], lines[i])]
  <2>1. g = [i \in 0..n |-> g[i]] BY <1>4
  <2>2. \A i \in 0..n : g[i] = IF i = 0 THEN <<>> ELSE AddLine(g[i - 1], lines[i])
    <3> TAKE i \in 0..n
    <3>1. i # 0 => i \in 1..n BY <1>1
    <3> QED BY <1>5, <1>6, <3>1
  <2> QED BY <2>1, <2>2, Zenon
<1> QED BY <1>7 DEF MadeOf

LEMMA MadeFacts ==
  ASSUME NEW lines \in Seq(Nat), NEW g, MadeOf(g, lines), NEW n \in 0..Len(lines)
  PROVE  g[n] \in ShortPieces /\ Characters(g[n]) = SumFunctionOnSet(lines, 1..n)
<1> DEFINE Good(i) == g[i] \in ShortPieces /\ Characters(g[i]) = SumFunctionOnSet(lines, 1..i)
           Bad == {i \in 0..Len(lines) : ~ Good(i)}
<1>1. Len(lines) \in Nat /\ \A i \in 1..Len(lines) : lines[i] \in Nat OBVIOUS
<1>2. g[0] = <<>> /\ \A i \in 1..Len(lines) : g[i] = AddLine(g[i - 1], lines[i])
  <2>1. \A i \in 0..Len(lines) : g[i] = IF i = 0 THEN <<>> ELSE AddLine(g[i - 1], lines[i])
    BY Zenon DEF MadeOf
  <2> QED BY <1>1, <2>1
<1>3. SUFFICES ASSUME Bad # {} PROVE FALSE
  <2>1. Bad = {} => Good(n) OBVIOUS
  <2> QED BY <2>1
<1>4. PICK m \in Bad : \A k \in Bad : m <= k
  <2>1. Bad \in SUBSET Nat BY <1>1
  <2> QED BY <1>3, <2>1, LeastExists
<1>5. CASE m = 0
  <2>1. <<>> \in ShortPieces BY DEF ShortPieces
  <2>2. 1..0 = {} /\ IsFiniteSet({}) BY FS_EmptySet
  <2>3. SumFunctionOnSet(lines, {}) = 0 BY <2>2, SumUnfolds
  <2> QED BY <1>2, <1>4, <1>5, <2>1, <2>2, <2>3, CharactersOfNone
<1>6. CASE m # 0
  <2>1. m \in 1..Len(lines) /\ m - 1 \in 0..Len(lines) /\ m - 1 \notin Bad BY <1>1, <1>4, <1>6
  <2>2. Good(m - 1) BY <2>1
  <2>3. lines[m] \in Nat BY <1>1, <2>1
  <2>4. AddLine(g[m - 1], lines[m]) \in ShortPieces
        /\ Characters(AddLine(g[m - 1], lines[m])) = Characters(g[m - 1]) + lines[m]
    BY <2>2, <2>3, AddLineFacts
  <2>5. SumFunctionOnSet(lines, 1..m) = SumFunctionOnSet(lines, 1..(m - 1)) + lines[m]
    <3>1. 1..m = 1..(m - 1) \cup {m} /\ m \notin 1..(m - 1) BY <2>1
    <3>2. IsFiniteSet(1..(m - 1)) BY <2>1, FS_Interval
    <3>3. \A x \in 1..(m - 1) : lines[x] \in Int BY <1>1, <2>1
    <3> DEFINE D == 1..(m - 1)
    <3>4. m \notin D /\ IsFiniteSet(D) /\ lines[m] \in Int BY <2>3, <3>1, <3>2
    <3>5. \A x \in D : lines[x] \in Int /\ lines[x] = lines[x] BY <3>3
    <3>6. 1..m = D \cup {m} BY <3>1
    <3> HIDE DEF D
    <3>7. SumFunctionOnSet(lines, D \cup {m}) = SumFunctionOnSet(lines, D) + lines[m]
      BY <3>4, <3>5, SumExtends
    <3> QED BY <3>6, <3>7 DEF D
  <2>6. g[m] = AddLine(g[m - 1], lines[m]) BY <1>2, <2>1
  <2>7. Good(m) BY <2>2, <2>4, <2>5, <2>6
  <2> QED BY <1>4, <2>7
<1> QED BY <1>5, <1>6

LEMMA ChunksFacts ==
  ASSUME NEW lines \in Seq(Nat)
  PROVE  /\ \A i \in DOMAIN chunk_message(lines) : Sent(chunk_message(lines))[i] <= MaxLength
         /\ Characters(chunk_message(lines)) = SumFunction(lines)
<1> DEFINE ps == chunk_message(lines)
<1>1. Limit \in Nat /\ Suffix \in Nat /\ MaxLength \in Nat /\ Limit + Suffix <= MaxLength
  BY CommandsAssumption
<1>2. ps \in ShortPieces /\ Characters(ps) = SumFunction(lines)
  <2>1. CASE Length(lines) <= Limit
    <3>1. ps = <<lines>> BY <2>1 DEF chunk_message
    <3>2. <<>> \in ShortPieces /\ Append(<<>>, lines) = <<lines>> BY DEF ShortPieces
    <3>3. <<lines>> \in ShortPieces
          /\ Characters(<<lines>>) = Characters(<<>>) + SumFunction(lines)
      BY <2>1, <3>2, ShortAppends DEF Short
    <3>4. SumFunction(lines) \in Nat
      <4>1. 0 \in Nat OBVIOUS
      <4> QED BY <4>1, LineAppends
    <3> QED BY <3>1, <3>3, <3>4, CharactersOfNone
  <2>2. CASE ~ (Length(lines) <= Limit)
    <3> DEFINE g == CHOOSE g : MadeOf(g, lines)
    <3>1. ps = g[Len(lines)] BY <2>2 DEF chunk_message, MadeOf
    <3>2. MadeOf(g, lines) BY PiecesAreMade
    <3>3. Len(lines) \in 0..Len(lines) /\ DOMAIN lines = 1..Len(lines) OBVIOUS
    <3> HIDE DEF g
    <3>4. g[Len(lines)] \in ShortPieces
          /\ Characters(g[Len(lines)]) = SumFunctionOnSet(lines, 1..Len(lines))
      BY <3>2, <3>3, MadeFacts
    <3> QED BY <3>1, <3>3, <3>4 DEF SumFunction
  <2> QED BY <2>1, <2>2
<1> HIDE DEF ps
<1>3. ASSUME NEW i \in DOMAIN ps PROVE Sent(ps)[i] <= MaxLength
  <2>1. ps \in Seq(Seq(Nat)) /\ i \in 1..Len(ps) BY <1>2 DEF ShortPieces
  <2>2. Length(ps[i]) <= Limit BY <1>2, <2>1 DEF ShortPieces, Short
  <2>3. Length(ps[i]) \in Int
    <3>1. ps[i] \in Seq(Nat) BY <2>1
    <3>2. 0 \in Nat OBVIOUS
    <3>3. SumFunction(ps[i]) \in Nat /\ Len(ps[i]) \in Nat BY <3>1, <3>2, LineAppends
    <3> QED BY <3>3 DEF Length
  <2>4. Sent(ps)[i] \in {Length(ps[i]), Length(ps[i]) + Suffix}
    <3>1. Sent(ps)[i] = Length(ps[i]) + (IF Len(ps) > 1 THEN Suffix ELSE 0) BY DEF Sent
    <3> QED BY <2>3, <3>1
  <2> QED BY <1>1, <2>2, <2>3, <2>4
<1> QED BY <1>2, <1>3 DEF ps

(* Whatever the report and however its lines break, each of its pieces is  *)
(* short enough for Telegram and together they are all of it.              *)
THEOREM ReportsArrive == BotSpec => []PiecesArrive
<1>1. BotInit => PiecesArrive BY DEF BotInit, PiecesArrive
<1>2. ASSUME outbox' = <<>> PROVE PiecesArrive' BY <1>2 DEF PiecesArrive
<1>3. PiecesArrive /\ UNCHANGED outbox => PiecesArrive' BY DEF PiecesArrive
<1>4. ASSUME Answers, PiecesArrive PROVE PiecesArrive'
  <2>1. CASE UNCHANGED outbox BY <1>3, <1>4, <2>1
  <2>2. ASSUME NEW report \in Reports, outbox' = chunk_message(report) PROVE PiecesArrive'
    <3>1. report \in Seq(Nat) BY CommandsAssumption
    <3> DEFINE ps == chunk_message(report)
    <3>2. /\ \A i \in DOMAIN ps : Sent(ps)[i] <= MaxLength
          /\ Characters(ps) = SumFunction(report)
      BY <3>1, ChunksFacts
    <3> HIDE DEF ps
    <3>3. outbox' = ps BY <2>2 DEF ps
    <3> QED BY <3>2, <3>3 DEF PiecesArrive
  <2> QED BY <1>4, <2>1, <2>2 DEF Answers
<1>5. PiecesArrive /\ [BotNext]_botVars => PiecesArrive'
  <2> SUFFICES ASSUME PiecesArrive, [BotNext]_botVars PROVE PiecesArrive' OBVIOUS
  <2>1. CASE Answers BY <1>4, <2>1
  <2>2. CASE Handles \/ BatchEnds BY <1>2, <2>2 DEF Handles, BatchEnds
  <2>3. CASE Starts \/ Polls \/ PollFails \/ ProcessDies \/ Arrives \/ DayPasses
    BY <1>3, <2>3 DEF Starts, Polls, PollFails, ProcessDies, Arrives, DayPasses
  <2>4. ASSUME NEW a \in Actor, Round(a) PROVE PiecesArrive'
    <3>1. UNCHANGED outbox
      BY <2>4 DEF Round, Loads, Rests, Trades, Saves, SavesAgain, SaveFails
    <3> QED BY <1>3, <3>1
  <2>5. CASE KillSaves \/ KillFails BY <1>3, <2>5 DEF KillSaves, KillFails
  <2>6. CASE UNCHANGED botVars BY <1>3, <2>6 DEF botVars
  <2> QED BY <2>1, <2>2, <2>3, <2>4, <2>5, <2>6 DEF BotNext, Works, Actor
<1> QED BY <1>1, <1>5, PTL DEF BotSpec
=============================================================================
