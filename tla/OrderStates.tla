---------------------------- MODULE OrderStates ----------------------------
(***************************************************************************)
(* The order state machine of src/aegis/oms/state_machine.py: the states,  *)
(* the table of legal transitions, the translation of the exchange's       *)
(* statuses, and what ManagedOrder.transition does with a report.          *)
(*                                                                         *)
(* A managed order is [qty, state, filled]; a report of the exchange is    *)
(* [status, filled].  Prices, ids and the history list are not kept.       *)
(***************************************************************************)
EXTENDS Naturals

OrderState == {"CREATED", "SUBMITTED", "ACKNOWLEDGED", "PARTIALLY_FILLED",
               "FILLED", "CANCELED", "REJECTED", "EXPIRED"}

TERMINAL_STATES == {"FILLED", "CANCELED", "REJECTED", "EXPIRED"}

(* Mutant: a partly filled order cannot expire.                            *)
TransitionsWithoutExpiry == [s \in OrderState |->
  CASE s = "CREATED" -> {"SUBMITTED", "REJECTED", "CANCELED"}
    [] s = "SUBMITTED" -> OrderState \ {"CREATED", "SUBMITTED"}
    [] s = "ACKNOWLEDGED" -> {"PARTIALLY_FILLED", "FILLED", "CANCELED", "EXPIRED"}
    [] s = "PARTIALLY_FILLED" -> {"FILLED", "CANCELED"}
    [] OTHER -> {}]

VALID_TRANSITIONS == [s \in OrderState |->
  CASE s = "CREATED" -> {"SUBMITTED", "REJECTED", "CANCELED"}
    [] s = "SUBMITTED" -> {"ACKNOWLEDGED", "PARTIALLY_FILLED", "FILLED",
                           "REJECTED", "CANCELED", "EXPIRED"}
    [] s \in {"ACKNOWLEDGED", "PARTIALLY_FILLED"} ->
           {"PARTIALLY_FILLED", "FILLED", "CANCELED", "EXPIRED"}
    [] OTHER -> {}]

ExchangeStatus == {"NEW", "PARTIALLY_FILLED", "FILLED", "CANCELED",
                   "REJECTED", "EXPIRED", "EXPIRED_IN_MATCH"}

BINANCE_STATUS_MAP == [s \in ExchangeStatus |->
  CASE s = "NEW" -> "ACKNOWLEDGED"
    [] s = "EXPIRED_IN_MATCH" -> "EXPIRED"
    [] OTHER -> s]

ManagedOrder == [qty : Nat \ {0}, state : OrderState, filled : Nat]

is_terminal(o) == o.state \in TERMINAL_STATES

(* The conditions under which transition() does not raise.                 *)
Legal(o, state, filled) ==
  /\ ~ is_terminal(o)
  /\ state = o.state \/ state \in VALID_TRANSITIONS[o.state]
  /\ o.filled <= filled
  /\ filled <= o.qty

(* transition(): every caller that applies a report after the first answer *)
(* swallows InvalidTransitionError, so an illegal one changes nothing.  A  *)
(* repeat of the terminal state returns before the fill is looked at.      *)
transition(o, state, filled) ==
  IF Legal(o, state, filled)
    THEN [o EXCEPT !.state = state, !.filled = filled]
    ELSE o

apply_exchange_status(o, r) ==
  transition(o, BINANCE_STATUS_MAP[r.status], r.filled)

(* REJECTED on an API error keeps the fill: transition() gets no filled_qty. *)
reject(o) == transition(o, "REJECTED", o.filled)

remaining_qty(o) == IF o.filled >= o.qty THEN 0 ELSE o.qty - o.filled
=============================================================================
