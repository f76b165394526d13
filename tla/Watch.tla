------------------------------- MODULE Watch -------------------------------
(***************************************************************************)
(* Who watches the daemon.  run_daily --loop writes a heartbeat to the     *)
(* disk after every cycle, counts the cycles that fail in a row, and after *)
(* MAX_CONSECUTIVE_FAILURES leaves a flag and exits, so that launchd       *)
(* starts it again; healthcheck.py reads the heartbeat, the flag, launchd  *)
(* and the sleep log of the machine and says green or red; the owner gets  *)
(* messages over Telegram, which needs the network that may be what broke. *)
(*                                                                         *)
(* One tick is one interval of the loop, 30 minutes.                       *)
(***************************************************************************)
EXTENDS Integers, FiniteSetsExt

CONSTANTS MAX_CONSECUTIVE_FAILURES,
          STALE_AFTER,  \* STALE_AFTER_S, in whole intervals
          Faults,
          MaxMishaps    \* bound: how often something goes wrong

FaultKinds == {"outage",  \* the exchange, or every TLS connection, is gone
               "hang",    \* a cycle takes longer than an interval
               "death",   \* a process is killed or interrupted
               "disk"}    \* a write to logs/ is lost

ASSUME WatchAssumption ==
  /\ MAX_CONSECUTIVE_FAILURES \in Nat \ {0} /\ STALE_AFTER \in Nat \ {0}
  /\ Faults \subseteq FaultKinds /\ MaxMishaps \in Nat

VARIABLES pc,        \* the daemon: out, in a cycle, or asleep between two
          failures,  \* consecutive_failures
          health,    \* logs/daemon_health.json and the time since
          flag,      \* logs/DAEMON_DOWN.txt exists
          cycle,     \* the last cycle: its result and the messages sent
          telegram,  \* the job com.aegis.telegram has a process
          env,       \* what works: all, all but the exchange, no TLS at all
          asleep,    \* the lid of the machine is closed
          pmset,     \* what of the sleep log is read: all lines, some, or none
          unslept,   \* the intervals since the heartbeat that the log does not call sleep
          sleep_at,  \* the intervals since its last line, if that is about falling asleep
          mishaps,
          past       \* history: the daemon gave up; a write was lost

daemon == <<pc, failures, cycle>>
disk == <<health, flag>>
sleepLog == <<unslept, sleep_at>>
machine == <<telegram, env, asleep, pmset>>
vars == <<daemon, disk, machine, sleepLog, mishaps, past>>

Results == {"HEARTBEAT", "REBALANCED", "HALT"}
Messages == {"gate", "positions", "orders", "breaker", "anomaly"}
Cap == STALE_AFTER + 1
None == -1

LogTypeOK ==
  pmset \in {"all", "some", "none"} /\ unslept \in 0..Cap /\ sleep_at \in {None} \cup 0..Cap

TypeOK ==
  /\ pc \in {"out", "cycle", "sleep"}
  /\ failures \in 0..MAX_CONSECUTIVE_FAILURES
  /\ health \in [status : {"none", "STARTING", "OK", "ERROR", "DEAD"}, age : 0..Cap, awake : 0..Cap]
  /\ flag \in BOOLEAN /\ telegram \in BOOLEAN /\ asleep \in BOOLEAN
  /\ LogTypeOK
  /\ cycle \in [result : Results \cup {"none", "raised"}, sent : SUBSET Messages]
  /\ env \in {"well", "no_exchange", "no_TLS"}
  /\ mishaps \in 0..MaxMishaps
  /\ past \in [gaveUp : BOOLEAN, lost : BOOLEAN]

NoCycle == [result |-> "none", sent |-> {}]

Init ==
  /\ pc = "out" /\ failures = 0 /\ cycle = NoCycle
  /\ health = [status |-> "none", age |-> 0, awake |-> 0] /\ flag = FALSE
  /\ telegram = TRUE /\ env = "well" /\ asleep = FALSE
  /\ pmset \in {"all", "some", "none"} /\ unslept = 0 /\ sleep_at = None
  /\ mishaps = 0
  /\ past = [gaveUp |-> FALSE, lost |-> FALSE]
-----------------------------------------------------------------------------
Mishap(f) == f \in Faults /\ mishaps < MaxMishaps /\ mishaps' = mishaps + 1
AsUsual == UNCHANGED mishaps

(* _write_health: a heartbeat of now; it replaces the file or is lost, and *)
(* nobody hears of it.  Of the sleep log only what follows it will count.  *)
_write_health(status) ==
  /\ health' = [status |-> status, age |-> 0, awake |-> 0]
  /\ unslept' = 0 /\ sleep_at' = None

(* TelegramNotifier.send_message: True when the network brought it there,  *)
(* False otherwise, never an exception.                                    *)
send_message(m) == IF env = "no_TLS" THEN {} ELSE {m}

send_order_alert == send_message("orders")
send_anomaly_alert == send_message("anomaly")

(* The lines of the message are put together, and the method ends.         *)
send_circuit_breaker_alert == {}

(* The report of a cycle: after a rebalance the state of the gate and the  *)
(* positions, in pieces short enough for Telegram, and the orders.         *)
Reported(result) ==
  CASE result = "REBALANCED" ->
         send_message("positions") \cup send_message("gate") \cup send_order_alert
    [] result = "HALT" -> send_circuit_breaker_alert
    [] OTHER -> {}
-----------------------------------------------------------------------------
(* The daemon.  A write to logs/ that fails is passed over in silence: the *)
(* watch must not be what brings the daemon down (F40).                    *)

Written(status, flagged) ==
  _write_health(status) /\ flag' = flagged /\ AsUsual /\ UNCHANGED past
WriteLost == UNCHANGED <<disk, sleepLog>> /\ Mishap("disk") /\ past' = [past EXCEPT !.lost = TRUE]

(* Mutant: a new process takes the flag of the last one away.              *)
LaunchesClean ==
  /\ pc = "out" /\ ~ asleep
  /\ pc' = "cycle" /\ failures' = 0 /\ cycle' = NoCycle
  /\ Written("STARTING", FALSE)
  /\ UNCHANGED machine

(* launchd starts the daemon, which says so on the disk.                   *)
Launches ==
  /\ pc = "out" /\ ~ asleep
  /\ pc' = "cycle" /\ failures' = 0 /\ cycle' = NoCycle
  /\ Written("STARTING", flag) \/ WriteLost
  /\ UNCHANGED machine

(* A cycle that comes to its end, whatever it found: the debt is paid.     *)
CycleEnds ==
  /\ pc = "cycle" /\ ~ asleep /\ env = "well"
  /\ pc' = "sleep" /\ failures' = 0
  /\ \E r \in Results : cycle' = [result |-> r, sent |-> Reported(r)]
  /\ \/ _write_health("OK") /\ flag' = FALSE /\ AsUsual /\ past' = [past EXCEPT !.gaveUp = FALSE]
     \/ WriteLost
  /\ UNCHANGED machine

(* Mutant: the error is logged and the loop sleeps on (before F41).        *)
CycleSwallowed ==
  /\ pc = "cycle" /\ ~ asleep /\ env # "well"
  /\ cycle' = [result |-> "raised", sent |-> send_anomaly_alert]
  /\ pc' = "sleep" /\ failures' = 0
  /\ Written("OK", flag)
  /\ UNCHANGED machine

(* A cycle that raises; the last straw leaves the flag and ends the        *)
(* process with exit code 1.                                               *)
CycleRaises ==
  LET n == failures + 1
      last == n >= MAX_CONSECUTIVE_FAILURES
  IN /\ pc = "cycle" /\ ~ asleep /\ env # "well"
     /\ cycle' = [result |-> "raised", sent |-> send_anomaly_alert]
     /\ failures' = n
     /\ pc' = IF last THEN "out" ELSE "sleep"
     /\ \/ /\ _write_health(IF last THEN "DEAD" ELSE "ERROR")
           /\ flag' = (flag \/ last) /\ AsUsual
           /\ past' = [past EXCEPT !.gaveUp = @ \/ last]
        \/ WriteLost
     /\ UNCHANGED machine
-----------------------------------------------------------------------------
(* The machine and what it needs. *)

Later(n) == Min({n + 1, Cap})

Aged(awakeToo) ==
  /\ health' = [health EXCEPT !.age = Later(@), !.awake = IF awakeToo THEN Later(@) ELSE @]
  /\ unslept' = IF sleep_at = None THEN Later(unslept) ELSE unslept
  /\ sleep_at' = IF sleep_at = None THEN None ELSE Later(sleep_at)

(* An interval with the lid open: the daemon's sleep is over.  A cycle is  *)
(* done within an interval, unless it hangs.                               *)
Ticks ==
  /\ ~ asleep /\ Aged(TRUE)
  /\ IF pc = "cycle" THEN Mishap("hang") ELSE AsUsual
  /\ pc' = IF pc = "sleep" THEN "cycle" ELSE pc
  /\ UNCHANGED <<failures, cycle, flag, machine, past>>

(* An interval with the lid closed: time.sleep stands still.               *)
SleepsOn ==
  /\ asleep /\ Aged(FALSE)
  /\ UNCHANGED <<daemon, flag, machine, mishaps, past>>

(* The sleep log gets a line.  A line that cannot be parsed is passed over *)
(* (healthcheck.py:55-62); a second line about falling asleep, with none   *)
(* about waking in between, takes the place of the first.                  *)
LineRead(sleeps) ==
  /\ unslept' = IF sleeps /\ sleep_at # None THEN Min({unslept + sleep_at, Cap}) ELSE unslept
  /\ sleep_at' = IF sleeps THEN 0 ELSE None

LidMoves ==
  /\ asleep' = ~ asleep
  /\ LineRead(asleep') \/ (pmset = "some" /\ UNCHANGED sleepLog)
  /\ UNCHANGED <<daemon, disk, telegram, env, pmset, mishaps, past>>

Breaks ==
  /\ env = "well" /\ Mishap("outage")
  /\ env' \in {"no_exchange", "no_TLS"}
  /\ UNCHANGED <<daemon, disk, sleepLog, telegram, asleep, pmset, past>>

Recovers ==
  /\ env # "well" /\ env' = "well"
  /\ UNCHANGED <<daemon, disk, sleepLog, telegram, asleep, pmset, mishaps, past>>

(* The daemon is killed, or interrupted and ends with exit code 0.         *)
Dies ==
  /\ pc # "out" /\ ~ asleep /\ Mishap("death")
  /\ pc' = "out"
  /\ UNCHANGED <<failures, cycle, disk, sleepLog, machine, past>>

BotDies ==
  /\ telegram /\ ~ asleep /\ Mishap("death") /\ telegram' = FALSE
  /\ UNCHANGED <<daemon, disk, sleepLog, env, asleep, pmset, past>>

BotLaunches ==
  /\ ~ telegram /\ ~ asleep /\ telegram' = TRUE
  /\ UNCHANGED <<daemon, disk, sleepLog, env, asleep, pmset, mishaps, past>>
-----------------------------------------------------------------------------
(* healthcheck.py *)

(* Mutant: the sleep log is not asked (before F47).                        *)
NeverSlept == 0

(* _slept_since: what the sleep log says, or nothing when it has no answer. *)
_slept_since == IF pmset = "none" THEN 0 ELSE health.age - unslept

Still == health.age > STALE_AFTER /\ health.age - _slept_since > STALE_AFTER

(* The problems main() collects; that there is no heartbeat yet is only a  *)
(* warning.                                                                *)
Problems ==
  {p \in {"venv", "trading_job", "telegram_job", "still", "status", "flag"} :
    CASE p = "venv" -> env = "no_TLS"
      [] p = "trading_job" -> pc = "out"
      [] p = "telegram_job" -> ~ telegram
      [] p = "still" -> health.status # "none" /\ Still
      [] p = "status" -> health.status \in {"ERROR", "DEAD"}
      [] p = "flag" -> flag}

Green == Problems = {}
-----------------------------------------------------------------------------
Next ==
  \/ Launches \/ CycleEnds \/ CycleRaises \/ Dies
  \/ Ticks \/ SleepsOn \/ LidMoves \/ Breaks \/ Recovers
  \/ BotDies \/ BotLaunches

Spec == Init /\ [][Next]_vars

(* While the lid is open time passes, launchd keeps its jobs running       *)
(* (KeepAlive) and a cycle comes to an end, one way or the other.          *)
FairSpec ==
  /\ Spec
  /\ WF_vars(Ticks) /\ WF_vars(Launches) /\ WF_vars(CycleEnds \/ CycleRaises)
-----------------------------------------------------------------------------
(* A daemon that gave up is not forgotten when launchd starts it again:    *)
(* the check stays red until a cycle has come to its end (F41).            *)
DeathStaysRed == past.gaveUp /\ ~ past.lost => ~ Green

(* Sleep is told from standing still (F47): as long as nothing went wrong  *)
(* the check of a running daemon is green, however long the lid was        *)
(* closed; and a heartbeat that stood still for too long while the machine *)
(* was awake is red, however long it slept besides.  A log that cannot be  *)
(* read costs the first half only; one with lines missing costs both.      *)
SleepIsNotStandstill ==
  /\ mishaps = 0 /\ pc # "out" /\ ~ asleep /\ pmset = "all" => Green
  /\ health.status # "none" /\ health.awake > STALE_AFTER /\ pmset # "some" => ~ Green

(* An outage that lasts is seen: with every cycle failing, through         *)
(* restarts, lost writes and a Telegram that is down too, the check is red *)
(* for good from some time on.                                             *)
OutageIsSeen == <>[](env # "well" /\ ~ asleep) => <>[] ~ Green

=============================================================================
