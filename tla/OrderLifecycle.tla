--------------------------- MODULE OrderLifecycle ---------------------------
(***************************************************************************)
(* One order, from BinanceOrderRouter.submit to its last report:           *)
(*                                                                         *)
(*  - the router's side: the managed order, and _request's retry loop,     *)
(*    which sends the same client order id again after every time-out;     *)
(*  - the network: the copies of the request still on their way (a copy    *)
(*    may arrive after the client stopped waiting for it), and the answer  *)
(*    to the copy the client is waiting for;                               *)
(*  - the exchange (external): it creates the order for the first copy,    *)
(*    refuses any other copy of the same id, fills it, ends it, and its    *)
(*    reports may be read late, twice and in any order;                    *)
(*  - the looks: the caller polls the order a bounded number of times, the *)
(*    last time while it cleans up, and then never again.  A look may fail *)
(*    or read a report that is out of date.                                *)
(***************************************************************************)
EXTENDS OrderStates

CONSTANTS Qty,           \* the ordered quantity
          MaxAttempts,   \* _MAX_RETRIES of binance_rest.py
          MaxLooks       \* status queries until the round has returned

ASSUME QtyAssumption == Qty \in Nat \ {0}
ASSUME AttemptsAssumption == MaxAttempts \in Nat \ {0}
ASSUME LooksAssumption == MaxLooks \in Nat

VARIABLES order,      \* the ManagedOrder in the router's OrderBook
          post,       \* where submit() is: idle, waiting, done, raised
          attempt,    \* the attempt of _request's loop, 0 before it
          requests,   \* attempts whose request has not reached the exchange
          answer,     \* what has come back for the current attempt
          remote,       \* the exchange's own record of the order
          reports,    \* every state of remote that was ever observable
          looks,      \* the status queries made so far
          last        \* what came of the last of them

orderVars == <<order, post, attempt, requests, answer, remote, reports, looks, last>>
lookVars == <<looks, last>>

Report == [status : ExchangeStatus, filled : 0..Qty]
Nothing == [status |-> "none", filled |-> 0]
Refusal == [status |-> "error", filled |-> 0]

Alive(e) == e.status \in {"NEW", "PARTIALLY_FILLED"}
Ended(e) == e.status \in ExchangeStatus \ {"NEW", "PARTIALLY_FILLED"}
MatchedFor(k) ==
  [status |-> IF k = 0 THEN "NEW"
              ELSE IF k = Qty THEN "FILLED" ELSE "PARTIALLY_FILLED",
   filled |-> k]

OrderTypeOK ==
  /\ order \in [qty : {Qty}, state : OrderState, filled : 0..Qty]
  /\ post \in {"idle", "waiting", "done", "raised"}
  /\ attempt \in 0..MaxAttempts
  /\ requests \subseteq 1..MaxAttempts
  /\ answer \in Report \cup {Nothing, Refusal}
  /\ remote \in Report \cup {Nothing}
  /\ reports \subseteq Report
  /\ looks \in 0..MaxLooks
  /\ last \in {"none", "fresh", "stale", "failed"}

OrderInit ==
  /\ order = [qty |-> Qty, state |-> "CREATED", filled |-> 0]
  /\ post = "idle"
  /\ attempt = 0
  /\ requests = {}
  /\ answer = Nothing
  /\ remote = Nothing
  /\ reports = {}
  /\ looks = 0 /\ last = "none"
-----------------------------------------------------------------------------
(* The router. *)

submit ==
  /\ post = "idle"
  /\ order' = transition(order, "SUBMITTED", order.filled)
  /\ post' = "waiting"
  /\ attempt' = 1
  /\ requests' = {1}
  /\ UNCHANGED <<answer, remote, reports, lookVars>>

(* A time-out, or an HTTP status that is retried: the same parameters, and *)
(* so the same newClientOrderId, go out again.                             *)
Retry ==
  /\ post = "waiting"
  /\ attempt < MaxAttempts
  /\ attempt' = attempt + 1
  /\ requests' = requests \cup {attempt + 1}
  /\ answer' = Nothing
  /\ UNCHANGED <<order, post, remote, reports, lookVars>>

(* The last attempt fails too.  A network exception passes through submit  *)
(* and leaves the order SUBMITTED; an HTTP error status becomes a          *)
(* BinanceAPIError, which submit books as REJECTED.                        *)
GiveUp ==
  /\ post = "waiting"
  /\ attempt = MaxAttempts
  /\ \/ post' = "raised" /\ UNCHANGED order
     \/ post' = "done" /\ order' = reject(order)
  /\ UNCHANGED <<attempt, requests, answer, remote, reports, lookVars>>

(* Mutant: the requested quantity is booked as filled (F20 repaired its    *)
(* like).                                                                  *)
ReceiveReportAsFilled ==
  /\ post = "waiting"
  /\ answer.status \in ExchangeStatus
  /\ order' = transition(order, "FILLED", order.qty)
  /\ post' = "done"
  /\ UNCHANGED <<attempt, requests, answer, remote, reports, lookVars>>

(* The answer to the current attempt: an order report, or an API error.    *)
ReceiveReport ==
  /\ post = "waiting"
  /\ answer.status \in ExchangeStatus
  /\ order' = apply_exchange_status(order, answer)
  /\ post' = "done"
  /\ UNCHANGED <<attempt, requests, answer, remote, reports, lookVars>>

ReceiveRefusal ==
  /\ post = "waiting"
  /\ answer = Refusal
  /\ order' = reject(order)
  /\ post' = "done"
  /\ UNCHANGED <<attempt, requests, answer, remote, reports, lookVars>>

(* One status query of poll_status: what the answer shows goes into the    *)
(* book.                                                                   *)
Looks(outcome) ==
  /\ post = "done" /\ looks < MaxLooks
  /\ looks' = looks + 1
  /\ last' = outcome
  /\ UNCHANGED <<post, attempt, requests, answer, remote, reports>>

(* The exchange's present state is read and applied.                       *)
poll_status ==
  /\ remote # Nothing
  /\ Looks("fresh")
  /\ order' = apply_exchange_status(order, remote)

(* A report that was overtaken, or is delivered again.                     *)
LateReport ==
  /\ Looks("stale")
  /\ \E r \in reports : order' = apply_exchange_status(order, r)

(* The query ends in an error, or the exchange does not know the id.       *)
PollFails == Looks("failed") /\ UNCHANGED order
-----------------------------------------------------------------------------
(* The exchange. *)

AnswerTo(a, r) ==
  answer' = IF post = "waiting" /\ a = attempt THEN r ELSE answer

(* The first copy creates the order, matched at once for k lots (a maker   *)
(* order for none).                                                        *)
ExchangeAccepts(a) ==
  /\ remote = Nothing
  /\ \E k \in 0..Qty : remote' = MatchedFor(k)
  /\ reports' = {remote'}
  /\ requests' = requests \ {a}
  /\ AnswerTo(a, remote')
  /\ UNCHANGED <<order, post, attempt, lookVars>>

(* A refusal: for a reason of its own, or because the id is already there. *)
ExchangeRefuses(a) ==
  /\ requests' = requests \ {a}
  /\ AnswerTo(a, Refusal)
  /\ UNCHANGED <<order, post, attempt, remote, reports, lookVars>>

ExchangeTakes == \E a \in requests : ExchangeAccepts(a) \/ ExchangeRefuses(a)

ExchangeBecomes(e) ==
  /\ remote' = e
  /\ reports' = reports \cup {e}
  /\ UNCHANGED <<order, post, attempt, requests, answer, lookVars>>

ExchangeMatches == Alive(remote) /\ ExchangeBecomes(MatchedFor(remote.filled + 1))

ExchangeEnds ==
  /\ Alive(remote)
  /\ \E s \in {"CANCELED", "EXPIRED", "EXPIRED_IN_MATCH"} :
       ExchangeBecomes([remote EXCEPT !.status = s])
-----------------------------------------------------------------------------
OrderNext ==
  \/ submit \/ Retry \/ GiveUp \/ ReceiveReport \/ ReceiveRefusal
  \/ poll_status \/ LateReport \/ PollFails
  \/ ExchangeTakes \/ ExchangeMatches \/ ExchangeEnds

OrderSpec == OrderInit /\ [][OrderNext]_orderVars

(* _request bounds its wait with a time-out, the exchange answers the      *)
(* requests it gets, and the caller makes all its looks: the wait loop has *)
(* a deadline, every query a time-out, and the clean-up looks once more.   *)
OrderFairSpec ==
  /\ OrderSpec
  /\ WF_orderVars(Retry \/ GiveUp \/ ReceiveReport \/ ReceiveRefusal)
  /\ WF_orderVars(ExchangeTakes)
  /\ WF_orderVars(poll_status \/ LateReport \/ PollFails)
-----------------------------------------------------------------------------
(* Whatever order the reports are read in, the router never believes more  *)
(* was filled than the exchange filled, nor that an order stands on the    *)
(* book of an exchange that never accepted it.                             *)
LocalNeverAhead ==
  /\ order.filled <= remote.filled
  /\ order.state \notin {"CREATED", "SUBMITTED", "REJECTED"} => remote # Nothing

Mirrors ==
  /\ remote # Nothing
  /\ BINANCE_STATUS_MAP[remote.status] = order.state
  /\ order.filled = remote.filled

(* A final state learnt from a report is the exchange's final state, with  *)
(* the whole fill: no late or repeated report can close an order early or  *)
(* with a part of its fill (state_machine.py, "Trạng thái CUỐI").          *)
TerminalMatchesExchange ==
  order.state \in {"FILLED", "CANCELED", "EXPIRED"} => Mirrors

(* What makes the invariants above inductive: nothing is in flight before  *)
(* submit or beyond the attempt made, the reports are remote's history,    *)
(* and the answer is one of them.                                          *)
InFlightBounded ==
  /\ \A a \in requests : a <= attempt
  /\ post = "idle" =>
       /\ order.state = "CREATED" /\ requests = {}
       /\ remote = Nothing /\ answer = Nothing
  /\ post = "waiting" => order.state = "SUBMITTED"

AliveHasRoom == Alive(remote) => remote.filled < Qty

ReportsAreHistory ==
  /\ \A r \in reports : r.filled <= remote.filled
  /\ \A r \in reports : Ended(r) => r = remote
  /\ remote = Nothing <=> reports = {}
  /\ remote # Nothing => remote \in reports
  /\ answer \in reports \cup {Nothing, Refusal}

OrderIInv ==
  /\ OrderTypeOK
  /\ InFlightBounded
  /\ AliveHasRoom
  /\ ReportsAreHistory
  /\ LocalNeverAhead
  /\ TerminalMatchesExchange

Rank == [s \in OrderState |->
  CASE s = "CREATED" -> 0
    [] s = "SUBMITTED" -> 1
    [] s = "ACKNOWLEDGED" -> 2
    [] s = "PARTIALLY_FILLED" -> 3
    [] OTHER -> 4]

(* No report takes the managed order back: not to an earlier state, not to *)
(* a smaller fill, and not out of a terminal state.                        *)
Forward ==
  order' # order =>
    /\ order.state \notin TERMINAL_STATES
    /\ Rank[order.state] <= Rank[order'.state]
    /\ order.filled <= order'.filled
NoRegress == [][Forward]_orderVars

(* Once the exchange has ended an order that submit() returned and did not *)
(* book as REJECTED, its state and fill get into the book, unless the last *)
(* look before the round returned failed or read an older report: the code *)
(* never asks again, and the book stays behind for good.                   *)
Converges ==
  (post = "done" /\ Ended(remote) /\ order.state # "REJECTED" /\ looks < MaxLooks)
    ~> (Mirrors \/ (looks = MaxLooks /\ last # "fresh"))
=============================================================================
