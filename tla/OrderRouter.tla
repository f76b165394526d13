---------------------------- MODULE OrderRouter ----------------------------
(***************************************************************************)
(* BinanceOrderRouter.execute_with_fallback for one symbol of the plan, in *)
(* steps of one call to the exchange each, while the exchange fills,       *)
(* expires and delays orders between any two of them:                      *)
(*                                                                         *)
(*   submit_plan -> wait loop (poll, cancel, post again at the new price)  *)
(*               -> cancel -> poll -> market order for what is missing.    *)
(*                                                                         *)
(* Quantities are lots.  book is the router's OrderBook in the order of    *)
(* submission, and exch[i] is the exchange's record of book[i].  Prices,   *)
(* the best bid and ask, the chase cap and the neutrality valve only       *)
(* decide whether a round of the loop quotes again or leaves, which is     *)
(* left open.  Faults selects what may go wrong.                           *)
(***************************************************************************)
EXTENDS OrderStates, Sequences, FiniteSets, Functions

CONSTANTS Intent,      \* the quantity of the plan's order
          MinTrade,    \* is_tradeable: the smallest quantity worth sending
          MaxRounds,   \* rounds of the wait loop before its deadline
          MaxBackoffs, \* retries_left of submit for -5022
          AllowTaker,  \* values of allow_taker_fallback
          Faults,
          MaxFaults    \* bound: kinds of faults in one round

FaultKinds == {"cross",         \* a post-only order would match: -5022
               "refusal",       \* the exchange refuses an order
               "expiry",        \* the exchange ends an order by itself
               "cancel",        \* a cancel cannot be confirmed
               "poll",          \* a status query fails
               "lost_answer",   \* the order is taken, the answer is lost
               "network"}       \* the POST ends in a network exception

ASSUME RouterAssumption ==
  /\ Intent \in Nat \ {0} /\ MinTrade \in Nat \ {0}
  /\ MaxRounds \in Nat /\ MaxBackoffs \in Nat
  /\ AllowTaker \subseteq BOOLEAN
  /\ Faults \subseteq FaultKinds /\ MaxFaults \in Nat

VARIABLES pc,       \* where execute_with_fallback is
          todo,     \* the submit() under way: who called it, for how much
          book,     \* the router's OrderBook
          exch,     \* the exchange's orders
          tracked,  \* _cycle_orders: the orders that count as this round's
          passive,  \* passive[idx]: the maker order waited for, 0 for none
          round,    \* rounds of the wait loop so far
          report,   \* the problems the round reports
          trouble   \* history: the faults there were

vars == <<pc, todo, book, exch, tracked, passive, round, report, trouble>>

(* Something of Faults happens, or nothing does. *)
Fault(f) ==
  /\ f \in Faults
  /\ trouble' = trouble \cup {f} /\ Cardinality(trouble') <= MaxFaults
AsUsual == UNCHANGED trouble

Absent == [status |-> "none", filled |-> 0]
Delayed == [status |-> "delayed", filled |-> 0]
Matched(k, qty) ==
  [status |-> IF k = 0 THEN "NEW" ELSE IF k = qty THEN "FILLED" ELSE "PARTIALLY_FILLED",
   filled |-> k]

Orders == 1..Len(book)
Live(i) == exch[i].status \in {"NEW", "PARTIALLY_FILLED"}
Known(i) == exch[i].status \in ExchangeStatus
Maker(i) == book[i].kind = "maker"

TypeOK ==
  /\ pc \in {"plan", "post", "wait", "requote", "resubmit", "cancel",
             "settle", "take", "poll_taker", "done"}
  /\ todo \in [caller : {"plan", "requote", "take"}, qty : 0..Intent,
               retries : 0..MaxBackoffs]
  /\ book \in Seq([kind : {"maker", "taker"}, qty : 1..Intent,
                   state : OrderState, filled : 0..Intent])
  /\ exch \in Seq([status : ExchangeStatus \cup {"none", "delayed"},
                   filled : 0..Intent])
  /\ Len(book) = Len(exch)
  /\ tracked \subseteq Orders
  /\ passive \in Orders \cup {0}
  /\ round \in 0..MaxRounds
  /\ report \subseteq {"uncancelled", "unfilled", "plan_failure"}
  /\ trouble \subseteq Faults

Init ==
  /\ pc = "plan"
  /\ todo = [caller |-> "plan", qty |-> 0, retries |-> 0]
  /\ book = <<>> /\ exch = <<>>
  /\ tracked = {} /\ passive = 0
  /\ round = 0
  /\ report = {} /\ trouble = {}
-----------------------------------------------------------------------------
(* What the calls to the exchange do. *)

(* poll_status on each order of S; when queries may fail, on some of them. *)
(* An order the exchange does not know is an API error: nothing changes.   *)
Polled(S) ==
  [i \in Orders |-> IF i \in S /\ Known(i)
                      THEN apply_exchange_status(book[i], exch[i])
                      ELSE book[i]]

Poll(S) == \E T \in SUBSET S :
  /\ (T = S /\ AsUsual) \/ Fault("poll")
  /\ book' = Polled(T)

Unfinished == {i \in tracked : ~ is_terminal(book[i])}

filled_for(b) == SumFunction([i \in tracked |-> b[i].filled])

(* Mutant: what F27 repaired, only the latest order counts.                *)
remaining_of_latest(b) ==
  LET f == b[passive].filled IN IF f >= Intent THEN 0 ELSE Intent - f

remaining_for(b) ==
  IF filled_for(b) >= Intent THEN 0 ELSE Intent - filled_for(b)

is_tradeable(qty) == qty >= MinTrade

AllCanceled ==
  [i \in Orders |-> IF Live(i) THEN [exch[i] EXCEPT !.status = "CANCELED"]
                    ELSE exch[i]]

(* cancel_all returned True: the symbol has no open order left.            *)
CancelConfirmed == exch' = AllCanceled /\ UNCHANGED report /\ AsUsual

(* cancel_all gave up after its retries: the request or only its proof is  *)
(* missing.                                                                *)
CancelUnconfirmed ==
  /\ Fault("cancel")
  /\ exch' \in {exch, AllCanceled}
  /\ report' = report \cup {"uncancelled"}
-----------------------------------------------------------------------------
(* submit() *)

Call(caller, qty) ==
  /\ todo' = [caller |-> caller, qty |-> qty, retries |-> MaxBackoffs]
  /\ pc' = "post"

Kind == IF todo.caller = "take" THEN "taker" ELSE "maker"
New == Len(book) + 1

(* The new order enters the book in the given state, and the exchange.     *)
Enter(state, filled, e) ==
  /\ book' = Append(book, [kind |-> Kind, qty |-> todo.qty,
                           state |-> state, filled |-> filled])
  /\ exch' = Append(exch, e)

(* submit() returns the order to its caller, or an exception reaches it.   *)
Return ==
  /\ CASE todo.caller = "take" -> UNCHANGED <<passive, tracked>>
       [] OTHER -> passive' = New /\ tracked' = tracked \cup {New}
  /\ UNCHANGED <<todo, round, report>>

Raise ==
  /\ report' = report \cup (CASE todo.caller = "plan" -> {"plan_failure"}
                              [] todo.caller = "take" -> {"unfilled"}
                              [] OTHER -> {})
  /\ UNCHANGED <<todo, round, passive, tracked>>

After == IF todo.caller = "take" THEN "done" ELSE "wait"

Taken == IF Kind = "maker" THEN {Matched(0, todo.qty)}
         ELSE {Matched(k, todo.qty) : k \in 0..todo.qty}

(* The order is taken and the answer books it; a market order that is not  *)
(* final is asked for once more (F20).                                     *)
PostAccepted ==
  /\ pc = "post"
  /\ \E e \in Taken :
       /\ Enter(BINANCE_STATUS_MAP[e.status], e.filled, e)
       /\ pc' = IF Kind = "taker" /\ e.status # "FILLED" THEN "poll_taker" ELSE After
  /\ Return /\ AsUsual

(* -5022: the price is moved away from the market and the order sent again *)
(* under another id.                                                       *)
PostBacksOff ==
  /\ pc = "post" /\ "cross" \in Faults
  /\ Kind = "maker" /\ todo.retries > 0
  /\ Enter("REJECTED", 0, Absent)
  /\ todo' = [todo EXCEPT !.retries = @ - 1]
  /\ UNCHANGED <<pc, tracked, passive, round, report, trouble>>

PostRefused ==
  /\ pc = "post"
  /\ \/ Fault("refusal")
     \/ "cross" \in Faults /\ Kind = "maker" /\ todo.retries = 0 /\ AsUsual
  /\ Enter("REJECTED", 0, Absent)
  /\ pc' = After
  /\ Return

(* Mutant: the refusal of the repeated id is taken for a -5022.            *)
LostAnswerBacksOff ==
  /\ pc = "post" /\ Fault("lost_answer")
  /\ Kind = "maker" /\ todo.retries > 0
  /\ \E e \in Taken : Enter("REJECTED", 0, e)
  /\ todo' = [todo EXCEPT !.retries = @ - 1]
  /\ UNCHANGED <<pc, tracked, passive, round, report>>

(* The answer to the order that was taken is lost; _request sends the same *)
(* id again, and the refusal of the duplicate is booked as REJECTED.       *)
PostAnswerLost ==
  /\ pc = "post" /\ Fault("lost_answer")
  /\ \E e \in Taken : Enter("REJECTED", 0, e)
  /\ pc' = After
  /\ Return

(* A network exception leaves the order SUBMITTED and out of the caller's  *)
(* hands; the request may have arrived, may still arrive, or never will.   *)
PostRaises ==
  /\ pc = "post" /\ Fault("network")
  /\ \E e \in Taken \cup {Absent, Delayed} : Enter("SUBMITTED", 0, e)
  /\ pc' = IF todo.caller = "plan" THEN "settle" ELSE After
  /\ Raise
-----------------------------------------------------------------------------
(* execute_with_fallback *)

submit_plan ==
  /\ pc = "plan"
  /\ Call("plan", Intent)
  /\ UNCHANGED <<book, exch, tracked, passive, round, report, trouble>>

(* One round of _passive_wait_loop: sleep, poll, leave if nothing is open  *)
(* or the valve opens, else quote again or not.                            *)
WaitRound ==
  /\ pc = "wait" /\ round < MaxRounds
  /\ round' = round + 1
  /\ Poll({passive} \cap Unfinished)
  /\ IF is_terminal(book'[passive]) THEN pc' = "cancel"
     ELSE pc' \in {"wait", "requote", "cancel"}
  /\ UNCHANGED <<todo, exch, tracked, passive, report>>

DeadlinePassed ==
  /\ pc = "wait" /\ round = MaxRounds
  /\ pc' = "cancel"
  /\ UNCHANGED <<todo, book, exch, tracked, passive, round, report, trouble>>

(* _requote_one, first half: no new order before the old one is gone.      *)
RequoteCancels ==
  /\ pc = "requote"
  /\ \/ CancelConfirmed /\ pc' = "resubmit"
     \/ CancelUnconfirmed /\ pc' = "wait"
  /\ UNCHANGED <<todo, book, tracked, passive, round>>

(* Second half: what is missing of the intent, over all orders (F27).      *)
RequoteSubmits ==
  /\ pc = "resubmit"
  /\ Poll(Unfinished)
  /\ IF is_tradeable(remaining_for(book'))
       THEN Call("requote", remaining_for(book'))
       ELSE pc' = "wait" /\ UNCHANGED todo
  /\ UNCHANGED <<exch, tracked, passive, round, report>>

(* Mutant: the cleanup is skipped.                                         *)
CleanupSkipsCancel ==
  /\ pc = "cancel"
  /\ pc' = "settle"
  /\ UNCHANGED <<todo, book, exch, tracked, passive, round, report, trouble>>

(* _cleanup_and_fallback: cancel, unless the book says there is nothing to *)
(* cancel.                                                                 *)
CleanupCancels ==
  /\ pc = "cancel"
  /\ pc' = "settle"
  /\ IF is_terminal(book[passive]) THEN UNCHANGED <<exch, report, trouble>>
     ELSE CancelConfirmed \/ CancelUnconfirmed
  /\ UNCHANGED <<todo, book, tracked, passive, round>>

CleanupPolls ==
  /\ pc = "settle"
  /\ Poll(tracked)
  /\ \E allow_taker \in AllowTaker :
       IF allow_taker /\ passive # 0
         THEN pc' = "take" /\ UNCHANGED report
         ELSE /\ pc' = "done"
              /\ report' = IF passive # 0 /\ remaining_qty(book'[passive]) > 0
                             THEN report \cup {"unfilled"} ELSE report
  /\ UNCHANGED <<todo, exch, tracked, passive, round>>

CleanupTakes ==
  /\ pc = "take"
  /\ Poll(Unfinished)
  /\ LET missing == remaining_for(book')
     IN IF missing > 0 /\ is_tradeable(missing)
          THEN Call("take", missing) /\ UNCHANGED report
          ELSE /\ pc' = "done"
               /\ report' = IF missing > 0 THEN report \cup {"unfilled"} ELSE report
               /\ UNCHANGED todo
  /\ UNCHANGED <<exch, tracked, passive, round>>

TakerPolls ==
  /\ pc = "poll_taker"
  /\ Poll({Len(book)})
  /\ pc' = "done"
  /\ UNCHANGED <<todo, exch, tracked, passive, round, report>>
-----------------------------------------------------------------------------
(* The exchange, at any time. *)

ExchangeSets(i, e) ==
  /\ exch' = [exch EXCEPT ![i] = e]
  /\ UNCHANGED <<pc, todo, book, tracked, passive, round, report>>

ExchangeFills == \E i \in Orders :
  Live(i) /\ AsUsual /\ ExchangeSets(i, Matched(exch[i].filled + 1, book[i].qty))

ExchangeExpires == \E i \in Orders :
  Fault("expiry") /\ Live(i) /\ ExchangeSets(i, [exch[i] EXCEPT !.status = "EXPIRED"])

DelayedArrives == \E i \in Orders :
  exch[i] = Delayed /\ AsUsual /\ ExchangeSets(i, Matched(0, book[i].qty))
-----------------------------------------------------------------------------
RouterStep ==
  \/ submit_plan
  \/ PostAccepted \/ PostBacksOff \/ PostRefused \/ PostAnswerLost \/ PostRaises
  \/ WaitRound \/ DeadlinePassed \/ RequoteCancels \/ RequoteSubmits
  \/ CleanupCancels \/ CleanupPolls \/ CleanupTakes \/ TakerPolls

Next == RouterStep \/ ExchangeFills \/ ExchangeExpires \/ DelayedArrives

Spec == Init /\ [][Next]_vars

(* The router is one thread that always has a next call until it returns,  *)
(* and a market order gets matched.                                        *)
FairSpec ==
  /\ Spec
  /\ WF_vars(RouterStep)
  /\ WF_vars(ExchangeFills /\ pc = "done")
-----------------------------------------------------------------------------
Position == SumFunction([i \in Orders |-> exch[i].filled])

(* The most the position can become if every live order is filled.         *)
Exposure == SumFunction(
  [i \in Orders |-> IF Live(i) THEN book[i].qty ELSE exch[i].filled])

(* However the fills fall between the calls, the live orders and what is   *)
(* already traded never add up to more than the plan asked for: neither a  *)
(* new quote nor the market order doubles a fill (F27, VETUSDT).           *)
NeverOverfilled == Exposure <= Intent

(* More than the plan asked for is at risk only where an answer, a query   *)
(* or a POST was lost, or after a cancel the report names as unconfirmed.  *)
OverfillIsReported ==
  trouble \cap {"lost_answer", "poll", "network"} = {} /\ ~ NeverOverfilled =>
    "uncancelled" \in report

(* When the round has returned, no maker order of it is left on the        *)
(* exchange (COTIUSDT), unless the report says so or a POST was lost.      *)
LeftoverIsReported ==
  pc = "done" /\ trouble \cap {"lost_answer", "network"} = {} /\ report = {} =>
    \A i \in Orders : Live(i) => ~ Maker(i)

(* When the round has returned, the whole intent is traded or held by the  *)
(* market order, or the report names what is missing, or the exchange      *)
(* refused or ended an order by itself.                                    *)
ShortfallIsReported ==
  pc = "done" /\ Exposure < Intent /\ trouble \cap {"refusal", "expiry"} = {} => report # {}

(* The report is complete: what a round overfills, leaves over or does not *)
(* trade is in it, as far as the code can know it.                         *)
ReportIsComplete == OverfillIsReported /\ LeftoverIsReported /\ ShortfallIsReported

(* The orders of which the router knows no more than that it sent them:    *)
(* booked as REJECTED on the refusal of a repeated id, or left SUBMITTED   *)
(* by an exception.                                                        *)
Unheard == {i \in Orders : book[i].state \in {"REJECTED", "SUBMITTED"}}
AtRisk(S) == SumFunction(
  [i \in S |-> IF Live(i) \/ exch[i].status = "delayed" THEN book[i].qty ELSE exch[i].filled])

(* What a lost answer can cost: whatever number of answers and POSTs is    *)
(* lost, the orders the router knows of never add up to more than the      *)
(* plan, and those it does not know of to no more than the plan once       *)
(* again: a round never puts a third order of the kind on top.             *)
LostAnswersCostOnce ==
  trouble \cap {"cancel", "poll"} = {} =>
    /\ AtRisk(Orders \ Unheard) <= Intent
    /\ AtRisk(Orders) <= 2 * Intent

Promise == INSTANCE ExecuteIntent
             WITH position <- Position,
                  finished <- (pc = "done"),
                  excused <- (report # {} \/ trouble # {})

(* The round keeps the promise of ExecuteIntent.                           *)
KeepsPromise == Promise!Spec
=============================================================================
