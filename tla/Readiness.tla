----------------------------- MODULE Readiness ------------------------------
(***************************************************************************)
(* What is asked before a round and said after it: preflight.py looks for  *)
(* whatever would spoil a rebalance now, run_once goes through its own     *)
(* conditions, every executed round leaves a record in the execution log,  *)
(* and readiness_gate.py reads from the records whether real money may be  *)
(* put in.                                                                 *)
(*                                                                         *)
(* What is wrong in the world is a set of troubles; the account is the     *)
(* part of live_state.json these programs read.                            *)
(***************************************************************************)
EXTENDS Integers, Sequences, FiniteSets, SequencesExt

CONSTANTS N   \* --n: clean rounds in a row that open the gate

ASSUME ReadinessAssumption == N \in Nat \ {0}

Troubles ==
  {"offline",  \* the exchange does not answer
   "skewed",   \* the clock is more than three seconds off
   "poor",     \* the equity does not carry n_positions positions
   "broke",    \* nor one on each side
   "orphans",  \* orders of an earlier round are alive
   "books",    \* the positions are not those of the state file
   "few",      \* fewer than ten symbols trade, are liquid and have a history
   "dear",     \* fewer than ten of them have a minimum this equity can pay
   "feed",     \* the market data, of the main exchange, is old
   "venue",    \* the candles of the executing exchange are old
   "filters",  \* the exchange gives no filters of a held symbol
   "margin",   \* no balance is available
   "daemon",   \* the daemon's log has no recent heartbeat
   "policy"}   \* the overlay is on and its policy file is missing

Tiers == 0..3  \* how many of TIER1_DD, TIER2_DD, TIER3_DD the drawdown has reached
-----------------------------------------------------------------------------
(* resolve_universe: the symbols that pass every filter; the one on the    *)
(* smallest order applies only when the equity is given.                   *)
UniverseFails(troubles, equityGiven) ==
  \/ "few" \in troubles
  \/ equityGiven /\ "dear" \in troubles

(* Mutant: the internal state is read and not judged.                      *)
BlockedOnWorld(troubles, account) ==
  \/ troubles \cap {"skewed", "poor", "broke", "orphans", "books", "venue", "filters"} # {}
  \/ UniverseFails(troubles, FALSE)

(* The blocking checks of preflight.py, from the clock to the filters.     *)
Blocked(troubles, account) ==
  \/ troubles \cap {"skewed", "poor", "broke", "orphans", "books", "venue", "filters"} # {}
  \/ account.dead \/ account.frozen \/ account.error
  \/ UniverseFails(troubles, FALSE)

(* The exit code: 1 blocked, 2 something else is wrong, 0 ready.  Without  *)
(* the exchange nothing more is looked at.                                 *)
Preflight(troubles, account) ==
  IF "offline" \in troubles \/ Blocked(troubles, account) THEN 1
  ELSE IF troubles \cap {"margin", "daemon", "policy"} # {} THEN 2
  ELSE 0
-----------------------------------------------------------------------------
(* run_once: how far it gets.  leverage is what the multiplier leaves of   *)
(* the base leverage, derisk that the overlay wants the book closed now.   *)

BreakerStops(account, tier) == account.dead \/ account.frozen \/ tier >= 2

(* _check_circuit_breaker: the state it leaves.                            *)
Tripped(account, tier) ==
  IF account.dead \/ account.frozen THEN account
  ELSE [account EXCEPT !.dead = tier = 3, !.frozen = tier = 2]

Outcome(troubles, account, tier, first, due, derisk, leverage) ==
  IF "offline" \in troubles THEN "raised"
  ELSE IF "books" \in troubles /\ ~ first THEN "mismatch"
  ELSE IF BreakerStops(account, tier) THEN "breaker"
  ELSE IF ~ due THEN IF derisk THEN "rebalanced" ELSE "heartbeat"
  ELSE IF UniverseFails(troubles, TRUE) THEN "raised"
  ELSE IF "feed" \in troubles THEN "stale"
  ELSE IF "broke" \in troubles THEN "no_capital"
  ELSE IF leverage = 0 THEN "raised"   \* weights and nothing to size them with
  ELSE "rebalanced"
-----------------------------------------------------------------------------
(* The execution log.  A record is what the gate reads of ExecutionRecord. *)

Book == [leverage : 0..3, neutral : BOOLEAN]
Nothing == [leverage |-> 0, neutral |-> TRUE]

(* check_neutrality: the legs balance, and the gross is the one meant; the *)
(* gross is judged only against a target that is not zero.                 *)
check_neutrality(book, target) ==
  [net_ok |-> book.neutral,
   gross_ok |-> target = 0 \/ book.leverage = target]

Record(orders, hitch, book, target) ==
  LET nt == check_neutrality(book, target)
  IN [n_orders |-> orders,
      plan_failures |-> hitch = "refused",
      uncancelled |-> hitch = "uncancelled",
      exec_error |-> hitch = "raised",
      net_ok |-> nt.net_ok, gross_ok |-> nt.gross_ok]

(* ExecutionRecord.clean; manual_intervention is FALSE in every record.    *)
clean(r) ==
  /\ ~ r.plan_failures /\ ~ r.uncancelled /\ ~ r.exec_error
  /\ r.net_ok /\ r.gross_ok

(* Lines of the file that are no record: one a death cut off, and one that *)
(* began with such a piece.                                                *)
Torn == [line |-> "cut_off"]
Garbled == [line |-> "garbled"]

CutOff(file) == file # <<>> /\ Last(file) = Torn

(* append writes after whatever the file ends with.                        *)
Appended(file, r) ==
  IF ~ CutOff(file) THEN Append(file, r)
  ELSE IF r = Torn THEN file
  ELSE Append(Front(file), Garbled)

(* load_records, as the places of the records in the file: lines that are  *)
(* no JSON are passed over; rounds without an order do not count.          *)
load_records(file) ==
  {i \in DOMAIN file : file[i] \notin {Torn, Garbled} /\ file[i].n_orders}

(* Mutant: the clean rounds are counted wherever they are.                 *)
CleanInAll(file) == Cardinality({i \in load_records(file) : clean(file[i])})

(* The clean rounds in a row, from the last one back.                      *)
CleanAtEnd(file) ==
  {i \in load_records(file) : \A j \in load_records(file) : i <= j => clean(file[j])}

Streak(file) == Cardinality(CleanAtEnd(file))

(* readiness_gate.py: exit code 0.                                         *)
Passes(file, account) ==
  Streak(file) >= N /\ ~ account.dead /\ ~ account.error
=============================================================================
