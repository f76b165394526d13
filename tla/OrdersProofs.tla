---------------------------- MODULE OrdersProofs ----------------------------
(***************************************************************************)
(* Theorems about OrderRouter, for every intent, every minimum, any number *)
(* of requotes and back-offs and any faults: what the round has left on    *)
(* the exchange when it returns.                                           *)
(*                                                                         *)
(* The inductive invariant follows the maker orders through the round.  As *)
(* long as no answer was lost and nothing was reported, only the order     *)
(* that the loop waits for can be alive, and only while it is waited for:  *)
(* every call of submit() finds the exchange empty of them.                *)
(*                                                                         *)
(* On top of it JInv follows the quantities.  What the round has booked    *)
(* never exceeds what the exchange has filled, nor that what is at risk;   *)
(* and while every answer is heard, what is booked of the orders that are  *)
(* over is all that was traded of them.  So the quantity a new quote or    *)
(* the market order asks for is exactly what is missing of the intent.     *)
(* The sums over the orders need an induction over a finite set, which is  *)
(* made here by taking a smallest counterexample.                          *)
(*                                                                         *)
(* The last part is about OrderLifecycle, one order against its network.   *)
(***************************************************************************)
EXTENDS OrderRouter, OrderLifecycle, FiniteSetsExt, Foundations, TLAPS

Books(Q, F) == [kind : {"maker", "taker"}, qty : Q, state : OrderState, filled : F]
Recs(G) == [status : ExchangeStatus \cup {"none", "delayed"}, filled : G]

(* The shape of the two books; quantities are whatever the sums make them. *)
Shape ==
  /\ \E Q, F : book \in Seq(Books(Q, F))
  /\ \E G : exch \in Seq(Recs(G))
  /\ Len(book) = Len(exch)

Caller ==
  /\ pc \in {"plan", "post", "wait", "requote", "resubmit", "cancel",
             "settle", "take", "poll_taker", "done"}
  /\ \E Q, R : todo \in [caller : {"plan", "requote", "take"}, qty : Q, retries : R]
  /\ pc \in {"wait", "requote", "resubmit", "cancel"} => passive \in Orders
  /\ pc = "post" /\ todo.caller = "requote" => passive \in Orders

Quiet == trouble \cap {"lost_answer", "network"} = {} /\ report = {}

OnlyPassiveLives ==
  \A i \in Orders : Live(i) /\ Maker(i) => i = passive /\ pc \in {"wait", "requote", "cancel"}

NoneDelayed == \A i \in Orders : exch[i].status # "delayed"

EndedIsEnded == \A i \in Orders : is_terminal(book[i]) => ~ Live(i)

Clear == Quiet => OnlyPassiveLives /\ NoneDelayed /\ EndedIsEnded

IInv == Shape /\ Caller /\ Clear
-----------------------------------------------------------------------------
(* Sequences.                                                              *)

LEMMA Grow ==
  ASSUME NEW S, NEW s \in Seq(S), NEW e \in S
  PROVE  /\ Append(s, e) \in Seq(S)
         /\ Len(Append(s, e)) = Len(s) + 1 /\ Len(s) \in Nat
         /\ \A i \in 1..Len(s) : Append(s, e)[i] = s[i]
         /\ Append(s, e)[Len(s) + 1] = e
OBVIOUS

LEMMA Built ==
  ASSUME NEW S, NEW n \in Nat, NEW f, f = [i \in 1..n |-> f[i]], \A i \in 1..n : f[i] \in S
  PROVE  f \in Seq(S) /\ Len(f) = n
OBVIOUS

LEMMA Widen ==
  ASSUME NEW S, NEW T, S \subseteq T, NEW s \in Seq(S)
  PROVE  s \in Seq(T)
OBVIOUS
-----------------------------------------------------------------------------
(* What the calls do to the two books.                                     *)

LEMMA MatchedFacts ==
  ASSUME NEW k, NEW qty
  PROVE  /\ Matched(k, qty) \in Recs({k})
         /\ Matched(k, qty).status \in {"NEW", "PARTIALLY_FILLED", "FILLED"}
BY DEF Matched, Recs, ExchangeStatus

LEMMA AbsentFacts ==
  /\ Absent \in Recs({0}) /\ Absent.status = "none"
  /\ Delayed \in Recs({0}) /\ Delayed.status = "delayed"
BY DEF Absent, Delayed, Recs

LEMMA MapFacts ==
  ASSUME NEW s \in ExchangeStatus
  PROVE  /\ BINANCE_STATUS_MAP[s] \in OrderState
         /\ s \in {"NEW", "PARTIALLY_FILLED"} => BINANCE_STATUS_MAP[s] \notin TERMINAL_STATES
BY DEF BINANCE_STATUS_MAP, ExchangeStatus, OrderState, TERMINAL_STATES

LEMMA Elements ==
  ASSUME Shape
  PROVE  /\ Len(book) \in Nat /\ Len(exch) = Len(book)
         /\ \A i \in Orders : /\ book[i].kind \in {"maker", "taker"} /\ book[i].state \in OrderState
                              /\ exch[i].status \in ExchangeStatus \cup {"none", "delayed"}
<1>1. PICK Q, F : book \in Seq(Books(Q, F)) BY DEF Shape
<1>2. PICK H : exch \in Seq(Recs(H)) BY DEF Shape
<1>3. Len(book) = Len(exch) /\ Len(book) \in Nat BY <1>1 DEF Shape
<1>4. ASSUME NEW i \in Orders
      PROVE  /\ book[i].kind \in {"maker", "taker"} /\ book[i].state \in OrderState
             /\ exch[i].status \in ExchangeStatus \cup {"none", "delayed"}
  <2>1. book[i] \in Books(Q, F) BY <1>1 DEF Orders
  <2>2. exch[i] \in Recs(H) BY <1>2, <1>3 DEF Orders
  <2> QED BY <2>1, <2>2 DEF Books, Recs
<1> QED BY <1>3, <1>4

(* A new order.                                                            *)
LEMMA EnterFacts ==
  ASSUME Shape, NEW s \in OrderState, NEW k, NEW G, NEW e \in Recs(G), Enter(s, k, e)
  PROVE  /\ Shape'
         /\ Orders' = Orders \cup {New}
         /\ \A i \in Orders : book'[i] = book[i] /\ exch'[i] = exch[i] /\ i # New
         /\ book'[New].kind = Kind /\ book'[New].state = s /\ exch'[New] = e
         /\ book'[New].qty = todo.qty /\ book'[New].filled = k
<1>1. PICK Q, F : book \in Seq(Books(Q, F)) BY DEF Shape
<1>2. PICK H : exch \in Seq(Recs(H)) BY DEF Shape
<1> DEFINE o == [kind |-> Kind, qty |-> todo.qty, state |-> s, filled |-> k]
           B == Books(Q \cup {todo.qty}, F \cup {k})
           E == Recs(H \cup G)
<1>3. o \in B BY DEF Books, Kind
<1>4. e \in E BY DEF Recs
<1>5. book \in Seq(B)
  <2>1. Books(Q, F) \subseteq B BY DEF Books
  <2> QED BY <1>1, <2>1, Widen
<1>6. exch \in Seq(E)
  <2>1. Recs(H) \subseteq E BY DEF Recs
  <2> QED BY <1>2, <2>1, Widen
<1>7. book' = Append(book, o) /\ exch' = Append(exch, e) BY DEF Enter
<1>8. o.kind = Kind /\ o.state = s /\ o.qty = todo.qty /\ o.filled = k OBVIOUS
<1> HIDE DEF o, E
<1>9. /\ book' \in Seq(B) /\ Len(book') = Len(book) + 1 /\ Len(book) \in Nat
      /\ \A i \in 1..Len(book) : book'[i] = book[i]
      /\ book'[Len(book) + 1] = o
  <2> HIDE DEF B
  <2> QED BY <1>3, <1>5, <1>7, Grow
<1>10. /\ exch' \in Seq(E) /\ Len(exch') = Len(exch) + 1 /\ Len(exch) \in Nat
       /\ \A i \in 1..Len(exch) : exch'[i] = exch[i]
       /\ exch'[Len(exch) + 1] = e
  BY <1>4, <1>6, <1>7, Grow
<1>11. Len(book) = Len(exch) BY DEF Shape
<1>12. Shape'
  BY <1>9, <1>10, <1>11 DEF Shape, E
<1> QED BY <1>8, <1>9, <1>10, <1>11, <1>12 DEF Orders, New

(* A poll changes states and fills of the router's orders; an order that   *)
(* it ends has ended at the exchange.                                      *)
LEMMA PollFacts ==
  ASSUME Shape, NEW S, Poll(S), UNCHANGED exch
  PROVE  /\ Shape'
         /\ Orders' = Orders
         /\ \A i \in Orders : /\ book'[i].kind = book[i].kind
                              /\ is_terminal(book'[i]) => is_terminal(book[i]) \/ ~ Live(i)
         /\ trouble \subseteq trouble'
<1>1. PICK Q, F : book \in Seq(Books(Q, F)) BY DEF Shape
<1>2. PICK H : exch \in Seq(Recs(H)) BY DEF Shape
<1>3. Len(book) = Len(exch) /\ Len(book) \in Nat BY <1>1 DEF Shape
<1>4. PICK T \in SUBSET S : book' = Polled(T) BY DEF Poll
<1> DEFINE B == Books(Q, F \cup H)
<1>5. ASSUME NEW i \in Orders
      PROVE  /\ Polled(T)[i] \in B
             /\ Polled(T)[i].kind = book[i].kind
             /\ is_terminal(Polled(T)[i]) => is_terminal(book[i]) \/ ~ Live(i)
  <2> DEFINE o == book[i]
             r == exch[i]
             st == BINANCE_STATUS_MAP[r.status]
  <2>1. o \in Books(Q, F) BY <1>1 DEF Orders
  <2>2. r \in Recs(H) BY <1>2, <1>3 DEF Orders
  <2>3. o \in B BY <2>1 DEF Books
  <2>4. CASE Polled(T)[i] = o BY <2>3, <2>4
  <2>5. CASE /\ Polled(T)[i] = apply_exchange_status(o, r) /\ Known(i)
             /\ Polled(T)[i] # o
    <3>1. r.status \in ExchangeStatus BY <2>5 DEF Known
    <3>2. st \in OrderState /\ (r.status \in {"NEW", "PARTIALLY_FILLED"} => st \notin TERMINAL_STATES)
      BY <3>1, MapFacts
    <3>3. r.filled \in H BY <2>2 DEF Recs
    <3>4. Polled(T)[i] = [o EXCEPT !.state = st, !.filled = r.filled]
      BY <2>5 DEF apply_exchange_status, transition
    <3> HIDE DEF o, r, st
    <3>5. /\ [o EXCEPT !.state = st, !.filled = r.filled] \in B
          /\ [o EXCEPT !.state = st, !.filled = r.filled].kind = o.kind
          /\ [o EXCEPT !.state = st, !.filled = r.filled].state = st
      BY <2>1, <3>2, <3>3 DEF Books
    <3>6. is_terminal(Polled(T)[i]) => ~ (r.status \in {"NEW", "PARTIALLY_FILLED"})
      BY <3>2, <3>4, <3>5 DEF is_terminal
    <3> QED BY <3>4, <3>5, <3>6 DEF o, r, Live
  <2> QED BY <2>4, <2>5 DEF Polled
<1>6. book' \in Seq(B) /\ Len(book') = Len(book)
  <2>1. Polled(T) = [i \in 1..Len(book) |-> Polled(T)[i]] BY DEF Polled, Orders
  <2>2. \A i \in 1..Len(book) : Polled(T)[i] \in B BY <1>5 DEF Orders
  <2> HIDE DEF B
  <2> QED BY <1>3, <1>4, <2>1, <2>2, Built
<1>7. Shape' BY <1>2, <1>3, <1>6 DEF Shape
<1>8. trouble \subseteq trouble' BY DEF Poll, Fault, AsUsual
<1> QED BY <1>4, <1>5, <1>6, <1>7, <1>8 DEF Orders

(* The exchange's book changes by whole records.                           *)
LEMMA ExchFacts ==
  ASSUME Shape, NEW G, UNCHANGED book, exch' = [i \in Orders |-> exch'[i]],
         \A i \in Orders : exch'[i] = exch[i] \/ exch'[i] \in Recs(G)
  PROVE  Shape' /\ Orders' = Orders
<1>1. PICK H : exch \in Seq(Recs(H)) BY DEF Shape
<1>2. Len(book) = Len(exch) /\ Len(book) \in Nat BY <1>1 DEF Shape
<1> DEFINE E == Recs(H \cup G)
<1>3. ASSUME NEW i \in 1..Len(book) PROVE exch'[i] \in E
  <2>1. exch[i] \in Recs(H) BY <1>1, <1>2
  <2> QED BY <2>1 DEF Orders, Recs
<1>4. exch' \in Seq(E) /\ Len(exch') = Len(book)
  <2> HIDE DEF E
  <2> QED BY <1>2, <1>3, Built DEF Orders
<1> QED BY <1>2, <1>4 DEF Shape, Orders
-----------------------------------------------------------------------------
(* What leaves the orders alone, or only looks at them, keeps Clear.       *)

LEMMA CancelFacts ==
  ASSUME Shape, UNCHANGED book, CancelConfirmed \/ CancelUnconfirmed
  PROVE  /\ Shape' /\ Orders' = Orders
         /\ trouble \subseteq trouble' /\ report \subseteq report'
         /\ Quiet' => /\ exch' = AllCanceled
                      /\ \A i \in Orders : ~ Live(i)' /\ exch'[i].status \in {exch[i].status, "CANCELED"}
<1>1. ASSUME NEW i \in Orders
      PROVE  /\ AllCanceled[i] = exch[i] \/ AllCanceled[i] \in Recs({exch[i].filled})
             /\ AllCanceled[i].status \notin {"NEW", "PARTIALLY_FILLED"}
             /\ AllCanceled[i].status \in {exch[i].status, "CANCELED"}
  <2>1. PICK H : exch \in Seq(Recs(H)) BY DEF Shape
  <2>2. exch[i] \in Recs(H) BY <2>1 DEF Shape, Orders
  <2>3. exch[i] = [status |-> exch[i].status, filled |-> exch[i].filled] BY <2>2 DEF Recs
  <2>4. CASE Live(i)
    <3>1. AllCanceled[i] = [exch[i] EXCEPT !.status = "CANCELED"] BY <2>4 DEF AllCanceled
    <3>2. AllCanceled[i] = [status |-> "CANCELED", filled |-> exch[i].filled] BY <2>3, <3>1
    <3> QED BY <3>2 DEF Recs, ExchangeStatus
  <2>5. CASE ~ Live(i) BY <2>5 DEF AllCanceled, Live
  <2> QED BY <2>4, <2>5
<1>2. exch' = exch \/ exch' = AllCanceled
  BY DEF CancelConfirmed, CancelUnconfirmed
<1>3. Shape' /\ Orders' = Orders
  <2>1. CASE exch' = exch BY <2>1 DEF Shape, Orders
  <2>2. CASE exch' = AllCanceled
    <3> DEFINE G == {exch[i].filled : i \in Orders}
    <3>1. exch' = [i \in Orders |-> exch'[i]] BY <2>2 DEF AllCanceled
    <3>2. \A i \in Orders : exch'[i] = exch[i] \/ exch'[i] \in Recs(G) BY <1>1, <2>2 DEF Recs
    <3> QED BY <3>1, <3>2, ExchFacts
  <2> QED BY <1>2, <2>1, <2>2
<1>4. trouble \subseteq trouble' /\ report \subseteq report'
  BY DEF CancelConfirmed, CancelUnconfirmed, Fault, AsUsual
<1>5. Quiet' => exch' = AllCanceled
  BY DEF Quiet, CancelConfirmed, CancelUnconfirmed
<1> QED BY <1>1, <1>3, <1>4, <1>5 DEF Live

(* A poll in a state that stays clear at its new place.                    *)
LEMMA PollKeeps ==
  ASSUME Shape, Clear, NEW S, Poll(S), UNCHANGED <<exch, passive>>, report \subseteq report',
         pc \in {"wait", "requote", "cancel"} => pc' \in {"wait", "requote", "cancel"}
  PROVE  Clear'
<1> SUFFICES ASSUME Quiet' PROVE OnlyPassiveLives' /\ NoneDelayed' /\ EndedIsEnded'
  BY DEF Clear
<1>1. /\ Orders' = Orders /\ trouble \subseteq trouble'
      /\ \A i \in Orders : /\ book'[i].kind = book[i].kind
                           /\ is_terminal(book'[i]) => is_terminal(book[i]) \/ ~ Live(i)
  BY PollFacts
<1>2. Quiet BY <1>1 DEF Quiet
<1>3. OnlyPassiveLives /\ NoneDelayed /\ EndedIsEnded BY <1>2 DEF Clear
<1>4. \A i \in Orders : Live(i)' <=> Live(i) BY DEF Live
<1>5. OnlyPassiveLives' BY <1>1, <1>3, <1>4 DEF OnlyPassiveLives, Maker
<1>6. NoneDelayed' BY <1>1, <1>3 DEF NoneDelayed
<1>7. EndedIsEnded' BY <1>1, <1>3, <1>4 DEF EndedIsEnded
<1> QED BY <1>5, <1>6, <1>7

(* A new order that does not live unwatched.                               *)
LEMMA EnterKeeps ==
  ASSUME Shape, Clear, pc = "post", NEW s \in OrderState, NEW k, NEW G, NEW e \in Recs(G),
         Enter(s, k, e), trouble \subseteq trouble', report \subseteq report',
         Quiet' => /\ e.status # "delayed"
                   /\ e.status \in {"NEW", "PARTIALLY_FILLED"} =>
                        /\ s \notin TERMINAL_STATES
                        /\ Kind = "maker" => passive' = New /\ pc' = "wait"
  PROVE  Clear'
<1> SUFFICES ASSUME Quiet' PROVE OnlyPassiveLives' /\ NoneDelayed' /\ EndedIsEnded'
  BY DEF Clear
<1>1. /\ Orders' = Orders \cup {New}
      /\ \A i \in Orders : book'[i] = book[i] /\ exch'[i] = exch[i] /\ i # New
      /\ book'[New].kind = Kind /\ book'[New].state = s /\ exch'[New] = e
  BY EnterFacts
<1>2. Quiet BY DEF Quiet
<1>3. OnlyPassiveLives /\ NoneDelayed /\ EndedIsEnded BY <1>2 DEF Clear
<1>4. ASSUME NEW i \in Orders'
      PROVE  /\ Live(i)' /\ Maker(i)' => i = passive' /\ pc' \in {"wait", "requote", "cancel"}
             /\ exch'[i].status # "delayed"
             /\ is_terminal(book'[i]) => ~ Live(i)'
  <2>1. CASE i \in Orders
    <3>1. book'[i] = book[i] /\ exch'[i] = exch[i] BY <1>1, <2>1
    <3>2. (Live(i)' <=> Live(i)) /\ (Maker(i)' <=> Maker(i)) BY <3>1 DEF Live, Maker
    <3>3. ~ (Live(i) /\ Maker(i)) BY <1>3, <2>1 DEF OnlyPassiveLives
    <3> QED BY <1>3, <2>1, <3>1, <3>2, <3>3 DEF NoneDelayed, EndedIsEnded
  <2>2. CASE i = New
    <3>1. Live(i)' <=> e.status \in {"NEW", "PARTIALLY_FILLED"} BY <1>1, <2>2 DEF Live
    <3>2. Maker(i)' <=> Kind = "maker" BY <1>1, <2>2 DEF Maker
    <3> QED BY <1>1, <2>2, <3>1, <3>2 DEF is_terminal
  <2> QED BY <1>1, <2>1, <2>2
<1> QED BY <1>4 DEF OnlyPassiveLives, NoneDelayed, EndedIsEnded
-----------------------------------------------------------------------------
(* The steps.                                                              *)

LEMMA InitHolds == Init => IInv
<1> SUFFICES ASSUME Init PROVE IInv OBVIOUS
<1>1. Shape
  <2>1. book \in Seq(Books({}, {})) /\ exch \in Seq(Recs({})) BY DEF Init
  <2> QED BY <2>1 DEF Init, Shape
<1>2. Caller
  <2>1. todo \in [caller : {"plan", "requote", "take"}, qty : {0}, retries : {0}] BY DEF Init
  <2> QED BY <2>1 DEF Init, Caller
<1>3. Clear
  BY DEF Init, Clear, OnlyPassiveLives, NoneDelayed, EndedIsEnded, Orders
<1> QED BY <1>1, <1>2, <1>3 DEF IInv

LEMMA CallTyped ==
  ASSUME NEW c \in {"plan", "requote", "take"}, NEW q, Call(c, q)
  PROVE  /\ \E Q, R : todo' \in [caller : {"plan", "requote", "take"}, qty : Q, retries : R]
         /\ todo'.caller = c /\ pc' = "post"
<1>1. todo' \in [caller : {"plan", "requote", "take"}, qty : {q}, retries : {MaxBackoffs}]
  BY DEF Call
<1> QED BY <1>1 DEF Call

LEMMA TodoKept ==
  ASSUME Caller, UNCHANGED todo
  PROVE  /\ \E Q, R : todo' \in [caller : {"plan", "requote", "take"}, qty : Q, retries : R]
         /\ todo'.caller = todo.caller /\ todo.caller \in {"plan", "requote", "take"}
<1>1. PICK Q, R : todo \in [caller : {"plan", "requote", "take"}, qty : Q, retries : R]
  BY DEF Caller
<1>2. todo.caller \in {"plan", "requote", "take"} BY <1>1
<1> QED BY <1>1, <1>2

(* submit(): whatever becomes of the order, the shape stays and it is      *)
(* clear what may live.                                                    *)
LEMMA TakenFacts ==
  ASSUME NEW e \in Taken
  PROVE  /\ \E G : e \in Recs(G)
         /\ e.status \in {"NEW", "PARTIALLY_FILLED", "FILLED"}
         /\ e.status \in ExchangeStatus
<1>1. PICK k : e = Matched(k, todo.qty) BY DEF Taken
<1>2. e \in Recs({k}) /\ e.status \in {"NEW", "PARTIALLY_FILLED", "FILLED"}
  BY <1>1, MatchedFacts
<1> QED BY <1>2 DEF ExchangeStatus

LEMMA ReturnTyped ==
  ASSUME Shape, Caller, Return, Orders' = Orders \cup {New}, pc = "post",
         pc' = After \/ (Kind = "taker" /\ pc' = "poll_taker")
  PROVE  Caller'
<1>1. /\ \E Q, R : todo' \in [caller : {"plan", "requote", "take"}, qty : Q, retries : R]
      /\ todo'.caller = todo.caller /\ todo.caller \in {"plan", "requote", "take"}
  BY TodoKept DEF Return
<1>2. CASE todo.caller = "take"
  <2>1. pc' \in {"done", "poll_taker"} BY <1>2 DEF After
  <2> QED BY <1>1, <2>1 DEF Caller
<1>3. CASE todo.caller # "take"
  <2>1. pc' = "wait" BY <1>3 DEF After, Kind
  <2>2. passive' = New BY <1>3 DEF Return
  <2> QED BY <1>1, <2>1, <2>2 DEF Caller
<1> QED BY <1>2, <1>3

LEMMA PostAcceptedKeeps == ASSUME IInv, PostAccepted PROVE IInv'
<1>1. PICK e \in Taken :
        /\ Enter(BINANCE_STATUS_MAP[e.status], e.filled, e)
        /\ pc' = IF Kind = "taker" /\ e.status # "FILLED" THEN "poll_taker" ELSE After
  BY DEF PostAccepted
<1>2. PICK G : e \in Recs(G) BY TakenFacts
<1>3. /\ e.status \in {"NEW", "PARTIALLY_FILLED", "FILLED"} /\ e.status \in ExchangeStatus
      /\ BINANCE_STATUS_MAP[e.status] \in OrderState
      /\ e.status \in {"NEW", "PARTIALLY_FILLED"} => BINANCE_STATUS_MAP[e.status] \notin TERMINAL_STATES
  BY TakenFacts, MapFacts
<1>4. Shape' /\ Orders' = Orders \cup {New}
  BY <1>1, <1>2, <1>3, EnterFacts DEF IInv
<1>5. Caller'
  BY <1>1, <1>4, ReturnTyped DEF IInv, PostAccepted, After
<1>6. trouble \subseteq trouble' /\ report \subseteq report'
  BY DEF PostAccepted, Return, AsUsual
<1>7. Kind = "maker" => passive' = New /\ pc' = "wait"
  BY <1>1, TodoKept DEF Kind, After, PostAccepted, Return, IInv
<1>8. Clear'
  BY <1>1, <1>2, <1>3, <1>6, <1>7, EnterKeeps DEF IInv, PostAccepted
<1> QED BY <1>4, <1>5, <1>8 DEF IInv

(* A refusal books an order that the exchange does not have, or, after a   *)
(* lost answer, one that it has.                                           *)
LEMMA RejectedIsState == {"REJECTED", "SUBMITTED"} \subseteq OrderState
BY DEF OrderState

LEMMA PostBacksOffKeeps == ASSUME IInv, PostBacksOff PROVE IInv'
<1>1. Enter("REJECTED", 0, Absent) /\ Absent \in Recs({0}) /\ Absent.status = "none"
  BY AbsentFacts DEF PostBacksOff
<1>2. Shape' /\ Orders' = Orders \cup {New}
  BY <1>1, RejectedIsState, EnterFacts DEF IInv
<1>3. PICK Q, R : todo \in [caller : {"plan", "requote", "take"}, qty : Q, retries : R]
  BY DEF IInv, Caller
<1>4. todo' \in [caller : {"plan", "requote", "take"}, qty : Q, retries : R \cup {todo.retries - 1}]
      /\ todo'.caller = todo.caller
  BY <1>3 DEF PostBacksOff
<1>5. Caller' BY <1>2, <1>4 DEF PostBacksOff, Caller, IInv
<1>6. trouble \subseteq trouble' /\ report \subseteq report' BY DEF PostBacksOff
<1>7. Clear' BY <1>1, <1>6, RejectedIsState, EnterKeeps DEF IInv, PostBacksOff
<1> QED BY <1>2, <1>5, <1>7 DEF IInv

LEMMA PostRefusedKeeps == ASSUME IInv, PostRefused PROVE IInv'
<1>1. Enter("REJECTED", 0, Absent) /\ Absent \in Recs({0}) /\ Absent.status = "none"
  BY AbsentFacts DEF PostRefused
<1>2. Shape' /\ Orders' = Orders \cup {New}
  BY <1>1, RejectedIsState, EnterFacts DEF IInv
<1>3. Caller' BY <1>2, ReturnTyped DEF IInv, PostRefused
<1>4. trouble \subseteq trouble' /\ report \subseteq report'
  BY DEF PostRefused, Return, Fault, AsUsual
<1>5. Clear' BY <1>1, <1>4, RejectedIsState, EnterKeeps DEF IInv, PostRefused
<1> QED BY <1>2, <1>3, <1>5 DEF IInv

LEMMA PostAnswerLostKeeps == ASSUME IInv, PostAnswerLost PROVE IInv'
<1>1. PICK e \in Taken : Enter("REJECTED", 0, e) BY DEF PostAnswerLost
<1>2. PICK G : e \in Recs(G) BY TakenFacts
<1>3. Shape' /\ Orders' = Orders \cup {New}
  BY <1>1, <1>2, RejectedIsState, EnterFacts DEF IInv
<1>4. Caller' BY <1>3, ReturnTyped DEF IInv, PostAnswerLost
<1>5. ~ Quiet' BY DEF PostAnswerLost, Fault, Quiet
<1>6. Clear' BY <1>5 DEF Clear
<1> QED BY <1>3, <1>4, <1>6 DEF IInv

LEMMA PostRaisesKeeps == ASSUME IInv, PostRaises PROVE IInv'
<1>1. PICK e \in Taken \cup {Absent, Delayed} : Enter("SUBMITTED", 0, e) BY DEF PostRaises
<1>2. PICK G : e \in Recs(G) BY <1>1, TakenFacts, AbsentFacts
<1>3. Shape' /\ Orders' = Orders \cup {New}
  BY <1>1, <1>2, RejectedIsState, EnterFacts DEF IInv
<1>4. /\ \E Q, R : todo' \in [caller : {"plan", "requote", "take"}, qty : Q, retries : R]
      /\ todo'.caller = todo.caller /\ todo.caller \in {"plan", "requote", "take"}
  BY TodoKept DEF PostRaises, Raise, IInv
<1>5. pc' \in {"settle", "done", "wait"} /\ (pc' = "wait" => todo.caller = "requote")
  BY <1>4 DEF PostRaises, After
<1>6. passive' = passive BY DEF PostRaises, Raise
<1>7. Caller' BY <1>3, <1>4, <1>5, <1>6 DEF Caller, IInv, PostRaises
<1>8. ~ Quiet' BY DEF PostRaises, Fault, Quiet
<1>9. Clear' BY <1>8 DEF Clear
<1> QED BY <1>3, <1>7, <1>9 DEF IInv
-----------------------------------------------------------------------------
(* execute_with_fallback.  A step that touches neither of the books, nor   *)
(* the order that is waited for, keeps what is clear where it may live.    *)
LEMMA NoCallKeeps ==
  ASSUME Shape, Clear, UNCHANGED <<book, exch, passive, trouble>>, report \subseteq report',
         pc \in {"wait", "requote", "cancel"} => pc' \in {"wait", "requote", "cancel"}
  PROVE  Shape' /\ Clear' /\ Orders' = Orders
<1>1. Shape' /\ Orders' = Orders BY DEF Shape, Orders
<1>2. (Quiet' => Quiet) BY DEF Quiet
<1>3. \A i : (Live(i)' <=> Live(i)) /\ (Maker(i)' <=> Maker(i)) BY DEF Live, Maker
<1>4. Clear' BY <1>1, <1>2, <1>3 DEF Clear, OnlyPassiveLives, NoneDelayed, EndedIsEnded
<1> QED BY <1>1, <1>4

(* After a cancel nothing of the round lives, or the report says so.       *)
LEMMA CancelKeeps ==
  ASSUME Shape, Clear, UNCHANGED book, CancelConfirmed \/ CancelUnconfirmed
  PROVE  Shape' /\ Clear' /\ Orders' = Orders
<1>1. /\ Shape' /\ Orders' = Orders
      /\ trouble \subseteq trouble' /\ report \subseteq report'
      /\ Quiet' => \A i \in Orders : ~ Live(i)' /\ exch'[i].status \in {exch[i].status, "CANCELED"}
  BY CancelFacts
<1>2. Quiet' => Quiet BY <1>1 DEF Quiet
<1>3. Clear'
  <2> SUFFICES ASSUME Quiet' PROVE OnlyPassiveLives' /\ NoneDelayed' /\ EndedIsEnded'
    BY DEF Clear
  <2>1. NoneDelayed BY <1>2 DEF Clear
  <2> QED BY <1>1, <2>1 DEF OnlyPassiveLives, NoneDelayed, EndedIsEnded
<1> QED BY <1>1, <1>3

LEMMA PlanKeeps == ASSUME IInv, submit_plan PROVE IInv'
<1>1. Shape' /\ Clear' /\ Orders' = Orders BY NoCallKeeps DEF IInv, submit_plan
<1>2. /\ \E Q, R : todo' \in [caller : {"plan", "requote", "take"}, qty : Q, retries : R]
      /\ todo'.caller = "plan" /\ pc' = "post"
  BY CallTyped DEF submit_plan
<1>3. Caller' BY <1>2 DEF Caller
<1> QED BY <1>1, <1>3 DEF IInv

LEMMA WaitKeeps == ASSUME IInv, WaitRound \/ DeadlinePassed PROVE IInv'
<1>1. /\ pc = "wait" /\ pc' \in {"wait", "requote", "cancel"}
      /\ UNCHANGED <<todo, exch, passive, report>>
  BY DEF WaitRound, DeadlinePassed
<1>2. Shape' /\ Clear' /\ Orders' = Orders
  <2>1. CASE WaitRound
    <3>1. Poll({passive} \cap Unfinished) BY <2>1 DEF WaitRound
    <3> QED BY <1>1, <3>1, PollFacts, PollKeeps DEF IInv
  <2>2. CASE DeadlinePassed BY <1>1, <2>2, NoCallKeeps DEF IInv, DeadlinePassed
  <2> QED BY <2>1, <2>2
<1>3. Caller' BY <1>1, <1>2, TodoKept DEF IInv, Caller
<1> QED BY <1>2, <1>3 DEF IInv

LEMMA RequoteCancelsKeeps == ASSUME IInv, RequoteCancels PROVE IInv'
<1>1. /\ pc = "requote" /\ pc' \in {"resubmit", "wait"}
      /\ UNCHANGED <<todo, book, passive>> /\ (CancelConfirmed \/ CancelUnconfirmed)
  BY DEF RequoteCancels
<1>2. Shape' /\ Clear' /\ Orders' = Orders BY <1>1, CancelKeeps DEF IInv
<1>3. Caller' BY <1>1, <1>2, TodoKept DEF IInv, Caller
<1> QED BY <1>2, <1>3 DEF IInv

(* The polls that lead out of the loop or into a new order.                *)
LEMMA AskingKeeps ==
  ASSUME IInv, NEW S, Poll(S), UNCHANGED <<exch, passive>>, report \subseteq report',
         \/ pc = "resubmit" /\ ((pc' = "wait" /\ UNCHANGED todo) \/ \E q : Call("requote", q))
         \/ pc \in {"settle", "poll_taker"} /\ pc' \in {"take", "done"} /\ UNCHANGED todo
         \/ pc = "take" /\ ((pc' = "done" /\ UNCHANGED todo) \/ \E q : Call("take", q))
  PROVE  IInv'
<1>1. pc \notin {"wait", "requote", "cancel"} OBVIOUS
<1>2. Shape' /\ Clear' /\ Orders' = Orders BY <1>1, PollFacts, PollKeeps DEF IInv
<1>3. CASE UNCHANGED todo
  <2>1. /\ \E Q, R : todo' \in [caller : {"plan", "requote", "take"}, qty : Q, retries : R]
        /\ todo'.caller = todo.caller
    BY <1>3, TodoKept DEF IInv
  <2>2. \/ pc' \in {"take", "done", "wait"} /\ (pc' = "wait" => pc = "resubmit")
        \/ pc = "resubmit" /\ pc' = "post"
        \/ pc = "take" /\ pc' = "post" /\ todo'.caller = "take"
    BY CallTyped
  <2> QED BY <1>2, <2>1, <2>2 DEF IInv, Caller
<1>4. CASE \E q : Call("requote", q) /\ pc = "resubmit"
  <2>1. /\ \E Q, R : todo' \in [caller : {"plan", "requote", "take"}, qty : Q, retries : R]
        /\ todo'.caller = "requote" /\ pc' = "post"
    BY <1>4, CallTyped
  <2>2. passive \in Orders BY <1>4 DEF IInv, Caller
  <2> QED BY <1>2, <2>1, <2>2 DEF IInv, Caller
<1>5. CASE \E q : Call("take", q) /\ pc = "take"
  <2>1. /\ \E Q, R : todo' \in [caller : {"plan", "requote", "take"}, qty : Q, retries : R]
        /\ todo'.caller = "take" /\ pc' = "post"
    BY <1>5, CallTyped
  <2> QED BY <1>2, <2>1 DEF IInv, Caller
<1> QED BY <1>3, <1>4, <1>5

LEMMA RequoteSubmitsKeeps == ASSUME IInv, RequoteSubmits PROVE IInv'
<1>1. Poll(Unfinished) /\ UNCHANGED <<exch, passive, report>> /\ pc = "resubmit"
  BY DEF RequoteSubmits
<1>2. (pc' = "wait" /\ UNCHANGED todo) \/ \E q : Call("requote", q) BY DEF RequoteSubmits
<1> QED BY <1>1, <1>2, AskingKeeps

(* The book says that there is nothing to cancel: then there is nothing.   *)
LEMMA CleanupCancelsKeeps == ASSUME IInv, CleanupCancels PROVE IInv'
<1>1. pc = "cancel" /\ pc' = "settle" /\ UNCHANGED <<todo, book, passive>>
  BY DEF CleanupCancels
<1>2. Shape' /\ Clear' /\ Orders' = Orders
  <2>1. CASE is_terminal(book[passive]) /\ UNCHANGED <<exch, report, trouble>>
    <3>1. Shape' /\ Orders' = Orders BY <1>1, <2>1 DEF Shape, Orders, IInv
    <3>2. passive \in Orders BY <1>1 DEF IInv, Caller
    <3>3. \A i : (Live(i)' <=> Live(i)) /\ (Maker(i)' <=> Maker(i)) BY <1>1, <2>1 DEF Live, Maker
    <3>4. ASSUME Quiet' PROVE OnlyPassiveLives' /\ NoneDelayed' /\ EndedIsEnded'
      <4>1. Quiet BY <2>1, <3>4 DEF Quiet
      <4>2. OnlyPassiveLives /\ NoneDelayed /\ EndedIsEnded BY <4>1 DEF IInv, Clear
      <4>3. ~ Live(passive) BY <2>1, <3>2, <4>2 DEF EndedIsEnded
      <4>4. OnlyPassiveLives' BY <3>1, <3>3, <4>2, <4>3 DEF OnlyPassiveLives
      <4> QED BY <1>1, <2>1, <3>1, <3>3, <4>2, <4>4 DEF NoneDelayed, EndedIsEnded
    <3> QED BY <3>1, <3>4 DEF Clear
  <2>2. CASE CancelConfirmed \/ CancelUnconfirmed BY <1>1, <2>2, CancelKeeps DEF IInv
  <2> QED BY <2>1, <2>2 DEF CleanupCancels
<1>3. Caller' BY <1>1, <1>2, TodoKept DEF IInv, Caller
<1> QED BY <1>2, <1>3 DEF IInv

LEMMA CleanupPollsKeeps == ASSUME IInv, CleanupPolls PROVE IInv'
<1>1. Poll(tracked) /\ UNCHANGED <<todo, exch, passive>> /\ pc = "settle"
      /\ pc' \in {"take", "done"} /\ report \subseteq report'
  BY DEF CleanupPolls
<1> QED BY <1>1, AskingKeeps

LEMMA CleanupTakesKeeps == ASSUME IInv, CleanupTakes PROVE IInv'
<1>1. Poll(Unfinished) /\ UNCHANGED <<exch, passive>> /\ pc = "take" /\ report \subseteq report'
  BY DEF CleanupTakes
<1>2. (pc' = "done" /\ UNCHANGED todo) \/ \E q : Call("take", q) BY DEF CleanupTakes
<1> QED BY <1>1, <1>2, AskingKeeps

LEMMA TakerPollsKeeps == ASSUME IInv, TakerPolls PROVE IInv'
<1>1. Poll({Len(book)}) /\ UNCHANGED <<todo, exch, passive, report>> /\ pc = "poll_taker" /\ pc' = "done"
  BY DEF TakerPolls
<1> QED BY <1>1, AskingKeeps
-----------------------------------------------------------------------------
(* The exchange: an order changes that lives, or that was delayed.         *)
LEMMA ExchangeKeeps ==
  ASSUME IInv, ExchangeFills \/ ExchangeExpires \/ DelayedArrives
  PROVE  IInv'
<1>1. PICK i, G, e :
        /\ i \in Orders /\ e \in Recs(G)
        /\ ExchangeSets(i, e) /\ trouble \subseteq trouble'
        /\ Live(i) \/ exch[i].status = "delayed"
        /\ e.status # "delayed"
  <2>1. CASE ExchangeFills
    <3>1. PICK i \in Orders : Live(i) /\ AsUsual /\ ExchangeSets(i, Matched(exch[i].filled + 1, book[i].qty))
      BY <2>1 DEF ExchangeFills
    <3> QED BY <3>1, MatchedFacts DEF AsUsual
  <2>2. CASE ExchangeExpires
    <3>1. PICK i \in Orders : Fault("expiry") /\ Live(i) /\ ExchangeSets(i, [exch[i] EXCEPT !.status = "EXPIRED"])
      BY <2>2 DEF ExchangeExpires
    <3>2. PICK H : exch \in Seq(Recs(H)) BY DEF IInv, Shape
    <3>3. exch[i] \in Recs(H) BY <3>2 DEF IInv, Shape, Orders
    <3>4. [exch[i] EXCEPT !.status = "EXPIRED"] \in Recs(H) /\ [exch[i] EXCEPT !.status = "EXPIRED"].status = "EXPIRED"
      BY <3>3 DEF Recs, ExchangeStatus
    <3> QED BY <3>1, <3>4 DEF Fault
  <2>3. CASE DelayedArrives
    <3>1. PICK i \in Orders : exch[i] = Delayed /\ AsUsual /\ ExchangeSets(i, Matched(0, book[i].qty))
      BY <2>3 DEF DelayedArrives
    <3> QED BY <3>1, MatchedFacts, AbsentFacts DEF AsUsual
  <2> QED BY <2>1, <2>2, <2>3
<1>2. /\ exch' = [exch EXCEPT ![i] = e]
      /\ UNCHANGED <<pc, todo, book, passive, report>>
  BY <1>1 DEF ExchangeSets
<1>3. PICK H : exch \in Seq(Recs(H)) BY DEF IInv, Shape
<1>4. Len(book) = Len(exch) /\ Len(book) \in Nat BY <1>3 DEF IInv, Shape
<1>5. /\ exch' = [j \in Orders |-> exch'[j]]
      /\ \A j \in Orders : exch'[j] = IF j = i THEN e ELSE exch[j]
  <2>1. exch = [j \in 1..Len(book) |-> exch[j]] BY <1>3, <1>4
  <2> QED BY <1>2, <2>1 DEF Orders
<1>6. Shape' /\ Orders' = Orders BY <1>1, <1>2, <1>5, ExchFacts DEF IInv
<1>7. Caller' BY <1>2, <1>6, TodoKept DEF IInv, Caller
<1>8. Clear'
  <2> SUFFICES ASSUME Quiet' PROVE OnlyPassiveLives' /\ NoneDelayed' /\ EndedIsEnded'
    BY DEF Clear
  <2>1. Quiet BY <1>1, <1>2 DEF Quiet
  <2>2. OnlyPassiveLives /\ NoneDelayed /\ EndedIsEnded BY <2>1 DEF IInv, Clear
  <2>3. Live(i) BY <1>1, <2>2 DEF NoneDelayed
  <2>4. \A j \in Orders : Live(j)' => Live(j) BY <1>5, <2>3 DEF Live
  <2>5. \A j \in Orders : Maker(j)' <=> Maker(j) BY <1>2 DEF Maker
  <2>6. OnlyPassiveLives' BY <1>2, <1>6, <2>2, <2>4, <2>5 DEF OnlyPassiveLives
  <2>7. NoneDelayed' BY <1>1, <1>5, <1>6, <2>2 DEF NoneDelayed
  <2>8. EndedIsEnded' BY <1>2, <1>6, <2>2, <2>4 DEF EndedIsEnded
  <2> QED BY <2>6, <2>7, <2>8
<1> QED BY <1>6, <1>7, <1>8 DEF IInv
-----------------------------------------------------------------------------
LEMMA NextKeeps == IInv /\ [Next]_vars => IInv'
<1> SUFFICES ASSUME IInv, [Next]_vars PROVE IInv' OBVIOUS
<1>1. CASE UNCHANGED vars
  <2>1. UNCHANGED <<pc, todo, book, exch, passive, report, trouble>> BY <1>1 DEF vars
  <2>2. Shape' /\ Clear' /\ Orders' = Orders BY <2>1, NoCallKeeps DEF IInv
  <2>3. Caller' BY <2>1, <2>2 DEF IInv, Caller
  <2> QED BY <2>2, <2>3 DEF IInv
<1>2. CASE Next
  BY <1>2, PlanKeeps, PostAcceptedKeeps, PostBacksOffKeeps, PostRefusedKeeps, PostAnswerLostKeeps,
     PostRaisesKeeps, WaitKeeps, RequoteCancelsKeeps, RequoteSubmitsKeeps, CleanupCancelsKeeps,
     CleanupPollsKeeps, CleanupTakesKeeps, TakerPollsKeeps, ExchangeKeeps
  DEF Next, RouterStep
<1> QED BY <1>1, <1>2

(* No maker order is left on the exchange by a round that has returned     *)
(* (COTIUSDT), unless the round reports a problem or a POST was lost: for  *)
(* every intent, any number of requotes, and fills at any moment.          *)
THEOREM NothingLeftBehind == Spec => []LeftoverIsReported
<1>1. IInv => LeftoverIsReported
  BY DEF IInv, Clear, Quiet, OnlyPassiveLives, LeftoverIsReported
<1> QED BY <1>1, InitHolds, NextKeeps, PTL DEF Spec

(* Two quotes of a round are never alive together, unless the round reports *)
(* a problem or a POST was lost: what _requote_one cancels before it posts *)
(* again (no new order before the old one is gone).                        *)
OneQuoteAtATime ==
  Quiet => \A i, j \in Orders : Live(i) /\ Maker(i) /\ Live(j) /\ Maker(j) => i = j

THEOREM QuotesAlone == Spec => []OneQuoteAtATime
<1>1. IInv => OneQuoteAtATime
  BY DEF IInv, Clear, OnlyPassiveLives, OneQuoteAtATime
<1> QED BY <1>1, InitHolds, NextKeeps, PTL DEF Spec
-----------------------------------------------------------------------------
(* Quantities.                                                             *)

(* Every answer was heard and every cancel confirmed.                      *)
Clean == trouble \cap {"lost_answer", "poll", "network"} = {} /\ "uncancelled" \notin report

(* An order of qty lots, booked in state s with k lots filled, and the     *)
(* exchange's record of it: the book may lag behind, never lead.           *)
Fits(qty, s, k, e) ==
  /\ qty \in Nat \ {0} /\ k \in Nat /\ e.filled \in Nat
  /\ k <= e.filled /\ e.filled <= qty
  /\ e.status \in {"NEW", "PARTIALLY_FILLED", "FILLED", "CANCELED", "EXPIRED", "none", "delayed"}
  /\ e.status \in {"NEW", "PARTIALLY_FILLED"} => e.filled < qty
  /\ s = "PARTIALLY_FILLED" => e.status \notin {"NEW", "none", "delayed"}
  /\ s # "CREATED"

Agree(i) == Fits(book[i].qty, book[i].state, book[i].filled, exch[i])

Numbers ==
  /\ \A i \in Orders : Agree(i)
  /\ todo.qty \in Nat /\ (pc = "post" => todo.qty > 0)
  /\ tracked \subseteq Orders /\ passive \in tracked \cup {0}

(* The market order comes last.                                            *)
TakerLast == pc \notin {"poll_taker", "done"} => \A i \in Orders : Maker(i)

Booked(b, S) == SumFunction([i \in S |-> b[i].filled])

(* The orders cover the intent: with the quote that is waited for, or with *)
(* the one that is being sent, and in the end by what is at risk.          *)
Enough ==
  /\ passive # 0 => Booked(book, tracked \ {passive}) + book[passive].qty >= Intent
  /\ pc = "post" => Booked(book, tracked) + todo.qty >= Intent
  /\ passive = 0 => pc = "plan" \/ (pc = "post" /\ todo.caller = "plan") \/ report # {}
  /\ pc \in {"poll_taker", "done"} =>
       report # {} \/ trouble \cap {"refusal", "expiry"} # {} \/ Exposure >= Intent

(* The round knows of every order all that it needs to know.               *)
Seen(i) ==
  /\ i \notin tracked /\ Maker(i) => exch[i] = Absent
  /\ is_terminal(book[i]) => ~ Live(i) /\ book[i].filled = exch[i].filled
  /\ exch[i].status = "none" => is_terminal(book[i])
  /\ exch[i].status # "delayed"

(* And asks for no more than what is missing.                              *)
Bounded == Clean =>
  /\ Exposure <= Intent
  /\ pc = "plan" => Exposure = 0
  /\ pc = "post" => Exposure + todo.qty <= Intent
  /\ pc # "done" => report = {}
  /\ \A i \in Orders : Seen(i)

JInv == Numbers /\ TakerLast /\ Enough /\ Bounded

(* What an order of qty lots may still come to.                            *)
Risk(qty, e) == IF e.status \in {"NEW", "PARTIALLY_FILLED"} THEN qty ELSE e.filled

(* Sums over the orders.                                                   *)
LEMMA BookedFacts ==
  ASSUME NEW b, NEW S, IsFiniteSet(S), \A i \in S : b[i].filled \in Nat
  PROVE  /\ Booked(b, S) \in Nat
         /\ \A i \in S : Booked(b, S) = Booked(b, S \ {i}) + b[i].filled
         /\ \A i \in S : Booked(b, S \ {i}) \in Nat
<1> DEFINE f == [i \in S |-> b[i].filled]
<1>1. \A T \in SUBSET S : Booked(b, T) = SumFunctionOnSet(f, T) /\ SumFunctionOnSet(f, T) \in Nat
  <2> TAKE T \in SUBSET S
  <2> DEFINE g == [i \in T |-> b[i].filled]
  <2>1. Booked(b, T) = SumFunctionOnSet(g, T) BY DEF Booked, SumFunction
  <2>2. IsFiniteSet(T) BY FS_Subset
  <2>3. \A x \in T : f[x] = g[x] /\ f[x] \in Nat OBVIOUS
  <2> HIDE DEF f, g
  <2> QED BY <2>1, <2>2, <2>3, SumAgrees, SumIsNat
<1>2. \A x \in S : f[x] \in Nat OBVIOUS
<1>3. \A i \in S : SumFunctionOnSet(f, S) = f[i] + SumFunctionOnSet(f, S \ {i})
  <2> HIDE DEF f
  <2> QED BY <1>2, SumTakesOut
<1>4. \A i \in S : S \ {i} \in SUBSET S /\ f[i] = b[i].filled OBVIOUS
<1> HIDE DEF f
<1> QED BY <1>1, <1>2, <1>3, <1>4

LEMMA BookedGrows ==
  ASSUME NEW b, NEW c, NEW S, IsFiniteSet(S),
         \A i \in S : b[i].filled \in Nat /\ c[i].filled \in Nat /\ b[i].filled <= c[i].filled
  PROVE  Booked(b, S) <= Booked(c, S)
<1> DEFINE f == [i \in S |-> b[i].filled]
           g == [i \in S |-> c[i].filled]
<1>1. Booked(b, S) = SumFunctionOnSet(f, S) /\ Booked(c, S) = SumFunctionOnSet(g, S)
  BY DEF Booked, SumFunction
<1>2. \A x \in S : f[x] \in Nat /\ g[x] \in Nat /\ f[x] <= g[x] OBVIOUS
<1> HIDE DEF f, g
<1> QED BY <1>1, <1>2, SumCompares

LEMMA BookedSame ==
  ASSUME NEW b, NEW c, NEW S, \A i \in S : b[i].filled = c[i].filled
  PROVE  Booked(b, S) = Booked(c, S)
<1>1. [i \in S |-> b[i].filled] = [i \in S |-> c[i].filled] OBVIOUS
<1> QED BY <1>1 DEF Booked

LEMMA BookedAdds ==
  ASSUME NEW b, NEW c, NEW S, IsFiniteSet(S), NEW n, n \notin S,
         \A i \in S : b[i].filled \in Nat /\ c[i].filled = b[i].filled, c[n].filled \in Nat
  PROVE  Booked(c, S \cup {n}) = Booked(b, S) + c[n].filled
<1> DEFINE f == [i \in S |-> b[i].filled]
           g == [i \in S \cup {n} |-> c[i].filled]
<1>1. Booked(b, S) = SumFunctionOnSet(f, S) /\ Booked(c, S \cup {n}) = SumFunctionOnSet(g, S \cup {n})
  BY DEF Booked, SumFunction
<1>2. (\A x \in S : f[x] \in Nat /\ g[x] = f[x]) /\ g[n] \in Nat /\ g[n] = c[n].filled OBVIOUS
<1> HIDE DEF f, g
<1> QED BY <1>1, <1>2, SumExtends

(* The position is what the exchange's records add up to, and the exposure *)
(* adds up the risks.                                                      *)
Risks(b, e, S) == [i \in S |-> Risk(b[i].qty, e[i])]

LEMMA OrdersFinite ==
  ASSUME Shape
  PROVE  /\ IsFiniteSet(Orders) /\ Orders \subseteq Nat /\ 0 \notin Orders
         /\ New \notin Orders /\ New \in Nat /\ New # 0
<1>1. Len(book) \in Nat BY Elements
<1>2. IsFiniteSet(1..Len(book)) BY <1>1, FS_Interval
<1> QED BY <1>1, <1>2 DEF Orders, New

LEMMA ExposureIsSum ==
  /\ Exposure = SumFunctionOnSet(Risks(book, exch, Orders), Orders)
  /\ Position = Booked(exch, Orders)
BY DEF Exposure, Risks, Risk, Live, SumFunction, Position, Booked
LEMMA ExposureIsSumNext ==
  /\ Exposure' = SumFunctionOnSet(Risks(book', exch', Orders'), Orders')
  /\ Position' = Booked(exch', Orders')
BY DEF Exposure, Risks, Risk, Live, SumFunction, Position, Booked

LEMMA RiskFacts ==
  ASSUME NEW qty, NEW s, NEW k, NEW e, Fits(qty, s, k, e)
  PROVE  Risk(qty, e) \in Nat /\ e.filled <= Risk(qty, e) /\ k <= Risk(qty, e) /\ Risk(qty, e) <= qty
         /\ k \in Nat /\ e.filled \in Nat /\ qty \in Nat
BY DEF Fits, Risk

(* What is traded, and what is booked of it, is no more than the risk.     *)
LEMMA BookedWithin ==
  ASSUME Shape, Numbers, NEW b, NEW S \in SUBSET Orders,
         \A i \in Orders : b[i].filled \in Nat /\ b[i].filled <= Risk(book[i].qty, exch[i])
  PROVE  Booked(b, S) <= Exposure /\ IsFiniteSet(S) /\ Booked(b, S) \in Nat
<1> DEFINE f == Risks(book, exch, Orders)
           g == [i \in S |-> b[i].filled]
           h == [i \in Orders |-> IF i \in S THEN b[i].filled ELSE 0]
<1>1. \A i \in Orders : f[i] = Risk(book[i].qty, exch[i]) /\ f[i] \in Nat
  BY RiskFacts DEF Numbers, Agree, Risks
<1>2. IsFiniteSet(Orders) /\ IsFiniteSet(S) BY OrdersFinite, FS_Subset
<1>3. Exposure = SumFunctionOnSet(f, Orders) BY ExposureIsSum
<1>4. Booked(b, S) = SumFunctionOnSet(g, S) BY DEF Booked, SumFunction
<1>5. /\ \A i \in S : g[i] \in Nat /\ g[i] = h[i]
      /\ \A i \in Orders : h[i] \in Nat /\ f[i] \in Nat /\ h[i] <= f[i]
      /\ \A i \in Orders \ S : h[i] = 0
  <2> HIDE DEF f
  <2> QED BY <1>1
<1> HIDE DEF f, g, h
<1>6. SumFunctionOnSet(g, S) = SumFunctionOnSet(h, S) /\ SumFunctionOnSet(g, S) \in Nat
  BY <1>2, <1>5, SumAgrees, SumIsNat
<1>7. SumFunctionOnSet(h, Orders) = SumFunctionOnSet(h, S) BY <1>2, <1>5, SumSkipsZeros
<1>8. SumFunctionOnSet(h, Orders) <= SumFunctionOnSet(f, Orders) BY <1>2, <1>5, SumCompares
<1> QED BY <1>2, <1>3, <1>4, <1>6, <1>7, <1>8

LEMMA SumsAreNumbers ==
  ASSUME Shape, Numbers
  PROVE  /\ Exposure \in Nat /\ Position \in Nat /\ Position <= Exposure
         /\ \A S \in SUBSET Orders : /\ IsFiniteSet(S) /\ Booked(book, S) \in Nat
                                     /\ Booked(book, S) <= Exposure
<1>1. \A i \in Orders : LET r == Risk(book[i].qty, exch[i])
                        IN /\ r \in Nat
                           /\ exch[i].filled \in Nat /\ exch[i].filled <= r
                           /\ book[i].filled \in Nat /\ book[i].filled <= r
  BY RiskFacts DEF Numbers, Agree
<1>2. Exposure \in Nat
  <2> DEFINE f == Risks(book, exch, Orders)
  <2>1. \A i \in Orders : f[i] \in Nat BY <1>1 DEF Risks
  <2> HIDE DEF f
  <2> QED BY <2>1, OrdersFinite, ExposureIsSum, SumIsNat DEF f
<1>3. Position <= Exposure /\ Position \in Nat BY <1>1, ExposureIsSum, BookedWithin
<1>4. \A S \in SUBSET Orders : IsFiniteSet(S) /\ Booked(book, S) \in Nat /\ Booked(book, S) <= Exposure
  BY <1>1, BookedWithin
<1> QED BY <1>2, <1>3, <1>4

(* A new order adds its own risk and its own fills to the sums.            *)
LEMMA EnterSums ==
  ASSUME Shape, Numbers, NEW s \in OrderState, NEW k, NEW G, NEW e \in Recs(G), Enter(s, k, e),
         Fits(todo.qty, s, k, e)
  PROVE  /\ Exposure' = Exposure + Risk(todo.qty, e)
         /\ Position' = Position + e.filled
         /\ \A i \in Orders' : Agree(i)'
         /\ \A S \in SUBSET Orders : /\ Booked(book', S) = Booked(book, S)
                                     /\ Booked(book', S \cup {New}) = Booked(book, S) + k
<1>1. /\ Orders' = Orders \cup {New}
      /\ \A i \in Orders : book'[i] = book[i] /\ exch'[i] = exch[i] /\ i # New
      /\ exch'[New] = e /\ book'[New].state = s
      /\ book'[New].qty = todo.qty /\ book'[New].filled = k
  BY EnterFacts
<1>2. IsFiniteSet(Orders) /\ New \notin Orders BY OrdersFinite
<1>3. Risk(todo.qty, e) \in Nat /\ e.filled \in Nat /\ k \in Nat BY RiskFacts
<1>4. \A i \in Orders : Risk(book[i].qty, exch[i]) \in Nat /\ exch[i].filled \in Nat /\ book[i].filled \in Nat
  BY RiskFacts DEF Numbers, Agree
<1> DEFINE f == Risks(book, exch, Orders)
           g == Risks(book', exch', Orders')
<1>5. /\ \A i \in Orders : f[i] \in Nat /\ g[i] = f[i]
      /\ g[New] = Risk(todo.qty, e) /\ g[New] \in Nat
  BY <1>1, <1>3, <1>4 DEF Risks
<1>6. Exposure' = SumFunctionOnSet(f, Orders) + g[New]
  <2>1. Exposure' = SumFunctionOnSet(g, Orders') BY ExposureIsSumNext
  <2> HIDE DEF f, g
  <2> QED BY <1>1, <1>2, <1>5, <2>1, SumExtends
<1>7. Exposure = SumFunctionOnSet(f, Orders) BY ExposureIsSum
<1>8. Position' = Position + e.filled
  BY <1>1, <1>2, <1>3, <1>4, ExposureIsSum, ExposureIsSumNext, BookedAdds
<1>9. \A i \in Orders' : Agree(i)' BY <1>1 DEF Numbers, Agree
<1>10. ASSUME NEW S \in SUBSET Orders
       PROVE  /\ Booked(book', S) = Booked(book, S)
              /\ Booked(book', S \cup {New}) = Booked(book, S) + k
  <2>1. IsFiniteSet(S) /\ New \notin S BY <1>2, FS_Subset
  <2>2. \A i \in S : book[i].filled \in Nat /\ book'[i].filled = book[i].filled BY <1>1, <1>4
  <2> QED BY <1>1, <1>3, <2>1, <2>2, BookedSame, BookedAdds
<1> QED BY <1>5, <1>6, <1>7, <1>8, <1>9, <1>10

(* A poll: what the router books of an order is the exchange's record.     *)
LEMMA LegalFacts ==
  ASSUME NEW o, NEW e, Fits(o.qty, o.state, o.filled, e), o.state \in OrderState,
         e.status \in ExchangeStatus, ~ is_terminal(o)
  PROVE  /\ Legal(o, BINANCE_STATUS_MAP[e.status], e.filled)
         /\ Fits(o.qty, BINANCE_STATUS_MAP[e.status], e.filled, e)
<1>1. o.state \in {"SUBMITTED", "ACKNOWLEDGED", "PARTIALLY_FILLED"}
  BY DEF Fits, OrderState, is_terminal, TERMINAL_STATES
<1>2. e.status \in {"NEW", "PARTIALLY_FILLED", "FILLED", "CANCELED", "EXPIRED"}
  BY DEF Fits, ExchangeStatus
<1>3. BINANCE_STATUS_MAP[e.status] = IF e.status = "NEW" THEN "ACKNOWLEDGED" ELSE e.status
  BY <1>2 DEF BINANCE_STATUS_MAP, ExchangeStatus
<1>4. /\ VALID_TRANSITIONS["SUBMITTED"] = {"ACKNOWLEDGED", "PARTIALLY_FILLED", "FILLED",
                           "REJECTED", "CANCELED", "EXPIRED"}
      /\ VALID_TRANSITIONS["ACKNOWLEDGED"] = {"PARTIALLY_FILLED", "FILLED", "CANCELED", "EXPIRED"}
      /\ VALID_TRANSITIONS["PARTIALLY_FILLED"] = {"PARTIALLY_FILLED", "FILLED", "CANCELED", "EXPIRED"}
  BY DEF VALID_TRANSITIONS, OrderState
<1>5. o.filled <= e.filled /\ e.filled <= o.qty BY DEF Fits
<1>6. o.state = "PARTIALLY_FILLED" => e.status # "NEW" BY DEF Fits
<1>7. BINANCE_STATUS_MAP[e.status] = o.state \/ BINANCE_STATUS_MAP[e.status] \in VALID_TRANSITIONS[o.state]
  BY <1>1, <1>2, <1>3, <1>4, <1>6
<1>8. Legal(o, BINANCE_STATUS_MAP[e.status], e.filled) BY <1>5, <1>7 DEF Legal
<1>9. Fits(o.qty, BINANCE_STATUS_MAP[e.status], e.filled, e) BY <1>2, <1>3 DEF Fits
<1> QED BY <1>8, <1>9

LEMMA PollValues ==
  ASSUME Shape, Numbers, NEW S, Poll(S), UNCHANGED exch
  PROVE  /\ Orders' = Orders
         /\ \A i \in Orders :
              /\ book'[i].qty = book[i].qty /\ book'[i].kind = book[i].kind
              /\ book'[i] = book[i] \/ book'[i].filled = exch[i].filled
              /\ Agree(i)' /\ book[i].filled <= book'[i].filled
              /\ is_terminal(book[i]) => is_terminal(book'[i])
              /\ i \in S /\ Known(i) /\ ~ is_terminal(book[i]) /\ "poll" \notin trouble' =>
                   book'[i].filled = exch[i].filled
<1>1. PICK T \in SUBSET S : ((T = S /\ AsUsual) \/ Fault("poll")) /\ book' = Polled(T) BY DEF Poll
<1>2. Orders' = Orders BY PollFacts
<1>3. "poll" \notin trouble' => T = S BY <1>1 DEF Fault
<1>4. PICK Q, F : book \in Seq(Books(Q, F)) BY DEF Shape
<1>5. ASSUME NEW i \in Orders
      PROVE  /\ book'[i].qty = book[i].qty /\ book'[i].kind = book[i].kind
             /\ book'[i] = book[i] \/ book'[i].filled = exch[i].filled
             /\ Agree(i)' /\ book[i].filled <= book'[i].filled
             /\ is_terminal(book[i]) => is_terminal(book'[i])
             /\ i \in T /\ Known(i) /\ ~ is_terminal(book[i]) => book'[i].filled = exch[i].filled
  <2> DEFINE o == book[i]
             r == exch[i]
             st == BINANCE_STATUS_MAP[r.status]
  <2>1. /\ Fits(o.qty, o.state, o.filled, r) /\ o.state \in OrderState
        /\ o.filled \in Nat
    BY Elements, RiskFacts DEF Numbers, Agree, Fits
  <2>2. book'[i] = IF i \in T /\ Known(i) THEN apply_exchange_status(o, r) ELSE o
    BY <1>1 DEF Polled
  <2>3. CASE i \in T /\ Known(i) /\ ~ is_terminal(o)
    <3>1. r.status \in ExchangeStatus BY <2>3 DEF Known
    <3>2. Legal(o, st, r.filled) /\ Fits(o.qty, st, r.filled, r) BY <2>1, <2>3, <3>1, LegalFacts
    <3>3. book'[i] = [o EXCEPT !.state = st, !.filled = r.filled]
      BY <2>2, <2>3, <3>2 DEF apply_exchange_status, transition
    <3>4. o \in Books(Q, F) BY <1>4 DEF Orders
    <3>5. o.filled <= r.filled BY <2>1 DEF Fits
    <3> HIDE DEF o, r, st
    <3>6. /\ [o EXCEPT !.state = st, !.filled = r.filled].qty = o.qty
          /\ [o EXCEPT !.state = st, !.filled = r.filled].kind = o.kind
          /\ [o EXCEPT !.state = st, !.filled = r.filled].state = st
          /\ [o EXCEPT !.state = st, !.filled = r.filled].filled = r.filled
      BY <3>4 DEF Books
    <3> QED BY <2>3, <3>2, <3>3, <3>5, <3>6 DEF Agree, o, r
  <2>4. CASE ~ (i \in T /\ Known(i) /\ ~ is_terminal(o))
    <3>1. book'[i] = o BY <2>2, <2>4 DEF apply_exchange_status, transition, Legal
    <3> QED BY <2>1, <2>4, <3>1 DEF Agree
  <2> QED BY <2>3, <2>4
<1> QED BY <1>2, <1>3, <1>5

(* A poll moves no sum of the exchange, and what is booked only grows.     *)
LEMMA PollSums ==
  ASSUME Shape, Numbers, NEW S, Poll(S), UNCHANGED exch
  PROVE  /\ Exposure' = Exposure /\ Position' = Position
         /\ \A U \in SUBSET Orders : /\ Booked(book, U) <= Booked(book', U)
                                     /\ Booked(book', U) \in Nat /\ Booked(book', U) <= Exposure
<1>1. /\ Orders' = Orders
      /\ \A i \in Orders : /\ book'[i].qty = book[i].qty
                           /\ book[i].filled <= book'[i].filled
                           /\ Agree(i)' /\ Agree(i)
  BY PollValues DEF Numbers
<1>2. Risks(book', exch', Orders') = Risks(book, exch, Orders) BY <1>1 DEF Risks
<1>3. Exposure' = Exposure /\ Position' = Position BY <1>1, <1>2, ExposureIsSum, ExposureIsSumNext
<1>4. \A i \in Orders : book[i].filled \in Nat /\ book'[i].filled \in Nat BY <1>1 DEF Agree, Fits
<1>5. ASSUME NEW U \in SUBSET Orders
      PROVE  /\ Booked(book, U) <= Booked(book', U)
             /\ Booked(book', U) \in Nat /\ Booked(book', U) <= Exposure
  <2>1. IsFiniteSet(U) BY OrdersFinite, FS_Subset
  <2>2. \A i \in U : book[i].filled \in Nat /\ book'[i].filled \in Nat /\ book[i].filled <= book'[i].filled
    BY <1>1, <1>4
  <2>3. Booked(book, U) <= Booked(book', U) BY <2>1, <2>2, BookedGrows
  <2>4. \A i \in Orders : book'[i].filled \in Nat /\ book'[i].filled <= Risk(book[i].qty, exch[i])
    <3>1. \A i \in Orders : Fits(book[i].qty, book'[i].state, book'[i].filled, exch[i])
      BY <1>1 DEF Agree
    <3> QED BY <3>1, RiskFacts
  <2> QED BY <2>3, <2>4, BookedWithin
<1> QED BY <1>3, <1>5

(* When every query was answered and no order is alive, what the round has *)
(* booked of its orders is all that is at risk.                            *)
LEMMA AllBooked ==
  ASSUME Shape, Numbers, TakerLast, Poll(Unfinished), UNCHANGED exch, "poll" \notin trouble',
         pc \notin {"poll_taker", "done"}, \A i \in Orders : Seen(i) /\ ~ Live(i)
  PROVE  Booked(book', tracked) = Exposure
<1>1. tracked \subseteq Orders BY DEF Numbers
<1>2. ASSUME NEW i \in tracked PROVE book'[i].filled = exch[i].filled
  <2>1. i \in Orders BY <1>1
  <2>2. CASE is_terminal(book[i])
    <3>1. book[i].filled = exch[i].filled BY <2>1, <2>2 DEF Seen
    <3> QED BY <2>1, <3>1, PollValues
  <2>3. CASE ~ is_terminal(book[i])
    <3>1. exch[i].status \in ExchangeStatus \cup {"none", "delayed"} BY <2>1, Elements
    <3>2. Known(i) /\ i \in Unfinished BY <2>1, <2>3, <3>1 DEF Seen, Known, Unfinished
    <3> QED BY <2>1, <2>3, <3>2, PollValues
  <2> QED BY <2>2, <2>3
<1> DEFINE f == Risks(book, exch, Orders)
           g == [i \in tracked |-> book'[i].filled]
<1>3. ASSUME NEW i \in Orders
      PROVE  f[i] \in Nat /\ f[i] = exch[i].filled /\ (i \notin tracked => f[i] = 0)
  <2>1. f[i] = Risk(book[i].qty, exch[i]) /\ f[i] \in Nat
    BY RiskFacts DEF Numbers, Agree, Risks
  <2>2. f[i] = exch[i].filled BY <2>1 DEF Live, Risk
  <2>3. i \notin tracked => exch[i] = Absent BY DEF Seen, TakerLast
  <2> QED BY <2>1, <2>2, <2>3 DEF Absent
<1>4. IsFiniteSet(Orders) /\ IsFiniteSet(tracked) BY <1>1, OrdersFinite, FS_Subset
<1>5. Exposure = SumFunctionOnSet(f, Orders) /\ Booked(book', tracked) = SumFunctionOnSet(g, tracked)
  BY ExposureIsSum DEF Booked, SumFunction
<1>6. \A i \in tracked : f[i] \in Nat /\ f[i] = g[i] BY <1>1, <1>2, <1>3
<1> HIDE DEF f, g
<1>7. SumFunctionOnSet(f, Orders) = SumFunctionOnSet(f, tracked)
  BY <1>1, <1>3, <1>4, SumSkipsZeros
<1>8. SumFunctionOnSet(f, tracked) = SumFunctionOnSet(g, tracked) BY <1>4, <1>6, SumAgrees
<1> QED BY <1>5, <1>7, <1>8

(* The exchange lowers the risk of an order or keeps it.                   *)
LEMMA ExchangeSums ==
  ASSUME Shape, Numbers, UNCHANGED book, \A i \in Orders : Agree(i)',
         \A i \in Orders : Risk(book[i].qty, exch'[i]) <= Risk(book[i].qty, exch[i])
  PROVE  Orders' = Orders /\ Exposure' <= Exposure /\ Exposure' \in Nat
<1>1. Orders' = Orders BY DEF Orders
<1> DEFINE f == Risks(book, exch, Orders)
           g == Risks(book', exch', Orders')
<1>2. \A i \in Orders : f[i] \in Nat /\ g[i] \in Nat /\ g[i] <= f[i]
  <2>1. \A i \in Orders : Risk(book[i].qty, exch[i]) \in Nat /\ Risk(book[i].qty, exch'[i]) \in Nat
    BY RiskFacts DEF Numbers, Agree
  <2> QED BY <1>1, <2>1 DEF Risks
<1>3. IsFiniteSet(Orders) BY OrdersFinite
<1>4. Exposure = SumFunctionOnSet(f, Orders) /\ Exposure' = SumFunctionOnSet(g, Orders)
  BY <1>1, ExposureIsSum, ExposureIsSumNext
<1> HIDE DEF f, g
<1> QED BY <1>1, <1>2, <1>3, <1>4, SumCompares, SumIsNat

LEMMA ExchangeSumsUp ==
  ASSUME Shape, Numbers, UNCHANGED book, \A i \in Orders : Agree(i)',
         \A i \in Orders : Risk(book[i].qty, exch'[i]) >= Risk(book[i].qty, exch[i])
  PROVE  Exposure' >= Exposure /\ Exposure' \in Nat
<1>1. Orders' = Orders BY DEF Orders
<1> DEFINE f == Risks(book, exch, Orders)
           g == Risks(book', exch', Orders')
<1>2. \A i \in Orders : f[i] \in Nat /\ g[i] \in Nat /\ f[i] <= g[i]
  <2>1. \A i \in Orders : Risk(book[i].qty, exch[i]) \in Nat /\ Risk(book[i].qty, exch'[i]) \in Nat
    BY RiskFacts DEF Numbers, Agree
  <2> QED BY <1>1, <2>1 DEF Risks
<1>3. IsFiniteSet(Orders) BY OrdersFinite
<1>4. Exposure = SumFunctionOnSet(f, Orders) /\ Exposure' = SumFunctionOnSet(g, Orders)
  BY <1>1, ExposureIsSum, ExposureIsSumNext
<1> HIDE DEF f, g
<1> QED BY <1>2, <1>3, <1>4, SumCompares, SumIsNat
-----------------------------------------------------------------------------
(* submit().                                                               *)

LEMMA TakenNumbers ==
  ASSUME Numbers, pc = "post", NEW e \in Taken
  PROVE  /\ \A s \in {"REJECTED", "SUBMITTED"} : Fits(todo.qty, s, 0, e)
         /\ Fits(todo.qty, BINANCE_STATUS_MAP[e.status], e.filled, e)
         /\ BINANCE_STATUS_MAP[e.status] \in OrderState
         /\ Risk(todo.qty, e) = todo.qty
         /\ e.status \in {"NEW", "PARTIALLY_FILLED", "FILLED"}
         /\ BINANCE_STATUS_MAP[e.status] \in TERMINAL_STATES => e.status = "FILLED"
<1>1. todo.qty \in Nat \ {0} BY DEF Numbers
<1>2. PICK k \in 0..todo.qty : e = Matched(k, todo.qty) BY <1>1 DEF Taken
<1>3. /\ e.filled = k
      /\ e.status = IF k = 0 THEN "NEW" ELSE IF k = todo.qty THEN "FILLED" ELSE "PARTIALLY_FILLED"
  BY <1>2 DEF Matched
<1>4. e.status \in {"NEW", "PARTIALLY_FILLED", "FILLED"} BY <1>3
<1>5. BINANCE_STATUS_MAP[e.status] = IF e.status = "NEW" THEN "ACKNOWLEDGED" ELSE e.status
  BY <1>4 DEF BINANCE_STATUS_MAP, ExchangeStatus
<1>6. /\ BINANCE_STATUS_MAP[e.status] \in OrderState
      /\ BINANCE_STATUS_MAP[e.status] \in TERMINAL_STATES => e.status = "FILLED"
  BY <1>4, <1>5 DEF OrderState, TERMINAL_STATES
<1>7. \A s \in {"REJECTED", "SUBMITTED"} : Fits(todo.qty, s, 0, e)
  BY <1>1, <1>3 DEF Fits
<1>8. Fits(todo.qty, BINANCE_STATUS_MAP[e.status], e.filled, e)
  BY <1>1, <1>3, <1>5 DEF Fits
<1>9. Risk(todo.qty, e) = todo.qty BY <1>1, <1>3 DEF Risk
<1> QED BY <1>4, <1>6, <1>7, <1>8, <1>9

LEMMA CleanBefore ==
  ASSUME Clean', trouble \subseteq trouble', report \subseteq report'
  PROVE  Clean /\ "poll" \notin trouble'
BY DEF Clean

(* A new order keeps the sums in bounds, if its risk is what was asked for *)
(* and it is waited for or final.                                          *)
LEMMA EnterCounts ==
  ASSUME IInv, JInv, pc = "post", NEW s \in OrderState, NEW k, NEW G, NEW e \in Recs(G),
         Enter(s, k, e), Fits(todo.qty, s, k, e), todo'.qty = todo.qty,
         trouble \subseteq trouble', report \subseteq report',
         \/ tracked' = tracked /\ passive' = passive
         \/ tracked' = tracked \cup {New} /\ passive' = New /\ pc' = "wait",
         pc' # "plan",
         pc' \in {"poll_taker", "done"} =>
           report' # {} \/ trouble' \cap {"refusal", "expiry"} # {} \/ Risk(todo.qty, e) = todo.qty,
         pc' = "post" => tracked' = tracked /\ todo'.caller = todo.caller,
         pc' # "post" /\ passive' = 0 => todo.caller # "plan" \/ report' # {},
         pc' \in {"poll_taker", "done"} \/ Kind = "maker",
         Clean' => /\ pc' # "done" => report' = {}
                   /\ New \notin tracked' /\ Kind = "maker" => e = Absent
                   /\ s \in TERMINAL_STATES => e.status \notin {"NEW", "PARTIALLY_FILLED"} /\ k = e.filled
                   /\ e.status = "none" => s \in TERMINAL_STATES
                   /\ e.status # "delayed"
                   /\ pc' = "post" => e = Absent
  PROVE  JInv'
<1>1. Shape /\ Numbers /\ TakerLast /\ Enough /\ Bounded BY DEF IInv, JInv
<1>2. /\ Orders' = Orders \cup {New}
      /\ \A i \in Orders : book'[i] = book[i] /\ exch'[i] = exch[i] /\ i # New
      /\ book'[New].kind = Kind /\ exch'[New] = e /\ book'[New].state = s
      /\ book'[New].qty = todo.qty /\ book'[New].filled = k
  BY <1>1, EnterFacts
<1>3. /\ Exposure' = Exposure + Risk(todo.qty, e)
      /\ \A i \in Orders' : Agree(i)'
      /\ \A S \in SUBSET Orders : /\ Booked(book', S) = Booked(book, S)
                                  /\ Booked(book', S \cup {New}) = Booked(book, S) + k
  BY <1>1, EnterSums
<1>4. /\ Exposure \in Nat /\ Risk(todo.qty, e) \in Nat /\ Risk(todo.qty, e) <= todo.qty
      /\ todo.qty \in Nat /\ todo.qty > 0 /\ k \in Nat
      /\ \A S \in SUBSET Orders : Booked(book, S) \in Nat /\ Booked(book, S) <= Exposure
  BY <1>1, SumsAreNumbers, RiskFacts DEF Numbers
<1>5. tracked \subseteq Orders /\ passive \in tracked \cup {0} BY <1>1 DEF Numbers
<1>6. Numbers' BY <1>2, <1>3, <1>4, <1>5 DEF Numbers
<1>7. TakerLast' BY <1>1, <1>2 DEF TakerLast, Maker
<1>8. New # 0 /\ New \notin Orders /\ 0 \notin Orders BY <1>1, OrdersFinite
<1>9. Intent \in Nat BY RouterAssumption
<1>10. Enough'
  <2>1. ASSUME passive' # 0
        PROVE  Booked(book', tracked' \ {passive'}) + book'[passive'].qty >= Intent
    <3>1. CASE tracked' = tracked /\ passive' = passive
      <4>1. tracked \ {passive} \in SUBSET Orders /\ passive \in Orders BY <1>5, <2>1, <3>1
      <4> QED BY <1>1, <1>2, <1>3, <2>1, <3>1, <4>1 DEF Enough
    <3>2. CASE tracked' = tracked \cup {New} /\ passive' = New
      <4>1. tracked' \ {passive'} = tracked BY <1>5, <1>8, <3>2
      <4>2. Booked(book', tracked) = Booked(book, tracked) BY <1>3, <1>5
      <4> QED BY <1>1, <1>2, <3>2, <4>1, <4>2 DEF Enough
    <3> QED BY <3>1, <3>2
  <2>2. pc' = "post" => Booked(book', tracked') + todo'.qty >= Intent
    BY <1>1, <1>3, <1>5 DEF Enough
  <2>3. ASSUME passive' = 0
        PROVE  pc' = "plan" \/ (pc' = "post" /\ todo'.caller = "plan") \/ report' # {}
    <3>1. passive = 0 BY <1>8, <2>3
    <3>2. todo.caller = "plan" \/ report # {} BY <1>1, <3>1 DEF Enough
    <3> QED BY <2>3, <3>1, <3>2
  <2>4. ASSUME pc' \in {"poll_taker", "done"}
        PROVE  report' # {} \/ trouble' \cap {"refusal", "expiry"} # {} \/ Exposure' >= Intent
    <3>1. CASE Risk(todo.qty, e) = todo.qty
      <4>1. Booked(book, tracked) + todo.qty >= Intent BY <1>1 DEF Enough
      <4>2. Booked(book, tracked) \in Nat /\ Booked(book, tracked) <= Exposure BY <1>4, <1>5
      <4> QED BY <1>3, <1>4, <1>9, <3>1, <4>1, <4>2
    <3> QED BY <2>4, <3>1
  <2> QED BY <2>1, <2>2, <2>3, <2>4 DEF Enough
<1>11. Bounded'
  <2> SUFFICES ASSUME Clean'
               PROVE  /\ Exposure' <= Intent
                      /\ pc' = "plan" => Exposure' = 0
                      /\ pc' = "post" => Exposure' + todo'.qty <= Intent
                      /\ pc' # "done" => report' = {}
                      /\ \A i \in Orders' : Seen(i)'
    BY DEF Bounded
  <2>1. Clean BY CleanBefore
  <2>2. Exposure + todo.qty <= Intent /\ \A i \in Orders : Seen(i) BY <1>1, <2>1 DEF Bounded
  <2>3. Exposure' <= Intent BY <1>3, <1>4, <1>9, <2>2
  <2>4. pc' = "post" => Exposure' + todo'.qty <= Intent
    <3>1. e = Absent => Risk(todo.qty, e) = 0 BY DEF Risk, Absent
    <3> QED BY <1>3, <1>4, <1>9, <2>2, <3>1
  <2>5. ASSUME NEW i \in Orders PROVE Seen(i)'
    <3>1. book'[i] = book[i] /\ exch'[i] = exch[i] /\ Seen(i) /\ i # New BY <1>2, <2>2, <2>5
    <3>2. i \in tracked' <=> i \in tracked BY <3>1
    <3> QED BY <3>1, <3>2 DEF Seen, Live, Maker
  <2>6. ASSUME NEW i, i = New PROVE Seen(i)'
    <3>1. book'[i].kind = Kind /\ exch'[i] = e /\ book'[i].state = s /\ book'[i].filled = k
      BY <1>2, <2>6
    <3>2. Live(i)' <=> e.status \in {"NEW", "PARTIALLY_FILLED"} BY <3>1 DEF Live
    <3>3. is_terminal(book'[i]) <=> s \in TERMINAL_STATES BY <3>1 DEF is_terminal
    <3>4. Maker(i)' <=> Kind = "maker" BY <3>1 DEF Maker
    <3> QED BY <2>6, <3>1, <3>2, <3>3, <3>4 DEF Seen
  <2> QED BY <1>2, <2>3, <2>4, <2>5, <2>6
<1> QED BY <1>6, <1>7, <1>10, <1>11 DEF JInv

LEMMA PostCounts ==
  ASSUME IInv, JInv, PostAccepted \/ PostBacksOff \/ PostRefused \/ PostAnswerLost \/ PostRaises
  PROVE  JInv'
<1>1. /\ pc = "post" /\ Numbers /\ Bounded /\ todo.qty \in Nat \ {0}
      /\ todo.caller \in {"plan", "requote", "take"}
  <2>1. todo.caller \in {"plan", "requote", "take"}
    <3>1. PICK Q, R : todo \in [caller : {"plan", "requote", "take"}, qty : Q, retries : R]
      BY DEF IInv, Caller
    <3> QED BY <3>1
  <2>2. pc = "post" BY DEF PostAccepted, PostBacksOff, PostRefused, PostAnswerLost, PostRaises
  <2> QED BY <2>1, <2>2 DEF JInv, Numbers
<1>2. {"REJECTED", "SUBMITTED"} \subseteq OrderState BY RejectedIsState
<1>3. \A s \in {"REJECTED", "SUBMITTED"} : Fits(todo.qty, s, 0, Absent) /\ Fits(todo.qty, s, 0, Delayed)
  BY <1>1 DEF Fits, Absent, Delayed
<1>4. Absent \in Recs({0}) /\ Delayed \in Recs({0}) /\ Absent.status = "none" /\ Absent.filled = 0
  BY AbsentFacts DEF Absent
<1>5. Clean /\ pc = "post" => report = {} BY <1>1 DEF Bounded
<1>6. ASSUME Return, NEW q, q = pc', q = After \/ (Kind = "taker" /\ q = "poll_taker")
      PROVE  /\ todo' = todo /\ report' = report
             /\ \/ tracked' = tracked /\ passive' = passive /\ Kind = "taker" /\ pc' \in {"poll_taker", "done"}
                \/ tracked' = tracked \cup {New} /\ passive' = New /\ pc' = "wait" /\ Kind = "maker"
  <2>1. CASE todo.caller = "take" BY <1>6, <2>1 DEF Return, After, Kind
  <2>2. CASE todo.caller # "take" BY <1>6, <2>2 DEF Return, After, Kind
  <2> QED BY <2>1, <2>2
<1>7. "REJECTED" \in TERMINAL_STATES BY DEF TERMINAL_STATES
<1>8. New # 0 BY OrdersFinite DEF IInv, New
<1>10. CASE PostAccepted
  <2>1. PICK e \in Taken :
          /\ Enter(BINANCE_STATUS_MAP[e.status], e.filled, e)
          /\ pc' = IF Kind = "taker" /\ e.status # "FILLED" THEN "poll_taker" ELSE After
    BY <1>10 DEF PostAccepted
  <2>2. Return /\ trouble' = trouble BY <1>10 DEF PostAccepted, AsUsual
  <2>3. PICK G : e \in Recs(G) BY TakenFacts
  <2>4. /\ Fits(todo.qty, BINANCE_STATUS_MAP[e.status], e.filled, e)
        /\ BINANCE_STATUS_MAP[e.status] \in OrderState
        /\ Risk(todo.qty, e) = todo.qty
        /\ e.status \in {"NEW", "PARTIALLY_FILLED", "FILLED"}
        /\ BINANCE_STATUS_MAP[e.status] \in TERMINAL_STATES => e.status = "FILLED"
    BY <1>1, TakenNumbers
  <2>5. /\ todo' = todo /\ report' = report
        /\ \/ tracked' = tracked /\ passive' = passive /\ Kind = "taker" /\ pc' \in {"poll_taker", "done"}
           \/ tracked' = tracked \cup {New} /\ passive' = New /\ pc' = "wait" /\ Kind = "maker"
    BY <1>6, <2>1, <2>2
  <2>6. Clean' => Clean BY <2>2, <2>5 DEF Clean
  <2>7. Kind = "taker" => todo.caller # "plan" BY DEF Kind
  <2> QED BY <1>1, <1>5, <1>8, <2>1, <2>2, <2>3, <2>4, <2>5, <2>6, <2>7, EnterCounts
<1>11. CASE PostBacksOff
  <2>1. /\ Enter("REJECTED", 0, Absent) /\ Kind = "maker"
        /\ UNCHANGED <<pc, tracked, passive, round, report, trouble>>
    BY <1>11 DEF PostBacksOff
  <2>2. todo'.qty = todo.qty /\ todo'.caller = todo.caller
    <3>1. PICK Q, R : todo \in [caller : {"plan", "requote", "take"}, qty : Q, retries : R]
      BY DEF IInv, Caller
    <3> QED BY <1>11, <3>1 DEF PostBacksOff
  <2>3. Clean' => Clean BY <2>1 DEF Clean
  <2> QED BY <1>1, <1>2, <1>3, <1>4, <1>5, <1>7, <2>1, <2>2, <2>3, EnterCounts
<1>12. CASE PostRefused
  <2>1. Enter("REJECTED", 0, Absent) /\ Return /\ pc' = After
    BY <1>12 DEF PostRefused
  <2>2. trouble \subseteq trouble' /\ (Kind = "taker" => "refusal" \in trouble')
    BY <1>12 DEF PostRefused, Fault, AsUsual
  <2>3. /\ todo' = todo /\ report' = report
        /\ \/ tracked' = tracked /\ passive' = passive /\ Kind = "taker" /\ pc' \in {"poll_taker", "done"}
           \/ tracked' = tracked \cup {New} /\ passive' = New /\ pc' = "wait" /\ Kind = "maker"
    BY <1>6, <2>1
  <2>4. Clean' => Clean BY <2>2, <2>3, CleanBefore
  <2>5. Kind = "taker" => todo.caller # "plan" BY DEF Kind
  <2> QED BY <1>1, <1>2, <1>3, <1>4, <1>5, <1>7, <1>8, <2>1, <2>2, <2>3, <2>4, <2>5, EnterCounts
<1>13. CASE PostAnswerLost
  <2>1. PICK e \in Taken : Enter("REJECTED", 0, e) BY <1>13 DEF PostAnswerLost
  <2>2. Return /\ pc' = After /\ trouble \subseteq trouble' /\ ~ Clean'
    BY <1>13 DEF PostAnswerLost, Fault, Clean
  <2>3. PICK G : e \in Recs(G) BY TakenFacts
  <2>4. Fits(todo.qty, "REJECTED", 0, e) /\ Risk(todo.qty, e) = todo.qty BY <1>1, TakenNumbers
  <2>5. /\ todo' = todo /\ report' = report
        /\ \/ tracked' = tracked /\ passive' = passive /\ Kind = "taker" /\ pc' \in {"poll_taker", "done"}
           \/ tracked' = tracked \cup {New} /\ passive' = New /\ pc' = "wait" /\ Kind = "maker"
    BY <1>6, <2>2
  <2>6. Kind = "taker" => todo.caller # "plan" BY DEF Kind
  <2> QED BY <1>1, <1>2, <1>8, <2>1, <2>2, <2>3, <2>4, <2>5, <2>6, EnterCounts
<1>14. CASE PostRaises
  <2>1. PICK e \in Taken \cup {Absent, Delayed} : Enter("SUBMITTED", 0, e) BY <1>14 DEF PostRaises
  <2>2. Raise /\ trouble \subseteq trouble' /\ ~ Clean'
    BY <1>14 DEF PostRaises, Fault, Clean
  <2>3. \E G : e \in Recs(G) BY <1>4, <2>1, TakenFacts
  <2>4. Fits(todo.qty, "SUBMITTED", 0, e) BY <1>1, <1>3, <2>1, TakenNumbers
  <2>5. /\ todo' = todo /\ tracked' = tracked /\ passive' = passive
        /\ report \subseteq report'
        /\ todo.caller \in {"plan", "take"} => report' # {}
    <3>1. CASE todo.caller = "plan" BY <2>2, <3>1 DEF Raise
    <3>2. CASE todo.caller = "take" BY <2>2, <3>2 DEF Raise
    <3>3. CASE todo.caller = "requote" BY <2>2, <3>3 DEF Raise
    <3> QED BY <1>1, <3>1, <3>2, <3>3
  <2>6. /\ todo.caller = "plan" => pc' = "settle" /\ Kind = "maker"
        /\ todo.caller = "take" => pc' = "done"
        /\ todo.caller = "requote" => pc' = "wait" /\ Kind = "maker"
    BY <1>14 DEF PostRaises, After, Kind
  <2> QED BY <1>1, <1>2, <2>1, <2>2, <2>3, <2>4, <2>5, <2>6, EnterCounts
<1> QED BY <1>10, <1>11, <1>12, <1>13, <1>14

-----------------------------------------------------------------------------
(* execute_with_fallback.                                                  *)

(* A poll on the way keeps the bounds; what is asked for next is missing.  *)
LEMMA PollCounts ==
  ASSUME IInv, JInv, NEW S, Poll(S), UNCHANGED <<exch, tracked, passive>>, report \subseteq report',
         pc \notin {"plan", "post"}, pc' # "plan", todo'.qty \in Nat,
         pc' # "done" => report' = report /\ pc \notin {"poll_taker", "done"},
         pc' # "poll_taker",
         pc' = "done" => \/ pc = "poll_taker"
                         \/ report' # {} \/ trouble' \cap {"refusal", "expiry"} # {} \/ Exposure >= Intent,
         pc' = "post" => /\ todo'.qty > 0 /\ Booked(book', tracked) + todo'.qty >= Intent
                         /\ Clean' => Exposure + todo'.qty <= Intent
  PROVE  JInv'
<1>1. Shape /\ Numbers /\ TakerLast /\ Enough /\ Bounded BY DEF IInv, JInv
<1>2. /\ Orders' = Orders
      /\ \A i \in Orders :
              /\ book'[i].qty = book[i].qty /\ book'[i].kind = book[i].kind
              /\ book'[i] = book[i] \/ book'[i].filled = exch[i].filled
              /\ Agree(i)' /\ book[i].filled <= book'[i].filled
              /\ is_terminal(book[i]) => is_terminal(book'[i])
  BY <1>1, PollValues
<1>3. /\ Exposure' = Exposure
      /\ \A U \in SUBSET Orders : /\ Booked(book, U) <= Booked(book', U)
                                  /\ Booked(book', U) \in Nat /\ Booked(book, U) \in Nat
  BY <1>1, PollSums, SumsAreNumbers
<1>4. tracked \subseteq Orders /\ passive \in tracked \cup {0} BY <1>1 DEF Numbers
<1>5. trouble \subseteq trouble' /\ \A i \in Orders : is_terminal(book'[i]) => is_terminal(book[i]) \/ ~ Live(i)
  BY <1>1, PollFacts
<1>6. Numbers' BY <1>2, <1>4 DEF Numbers
<1>7. TakerLast' BY <1>1, <1>2 DEF TakerLast, Maker
<1>8. Intent \in Nat /\ Exposure \in Nat BY <1>1, RouterAssumption, SumsAreNumbers
<1>9. Enough'
  <2>1. ASSUME passive' # 0
        PROVE  Booked(book', tracked' \ {passive'}) + book'[passive'].qty >= Intent
    <3>1. passive \in Orders /\ tracked \ {passive} \in SUBSET Orders BY <1>4, <2>1
    <3>2. Booked(book, tracked \ {passive}) + book[passive].qty >= Intent BY <1>1, <2>1 DEF Enough
    <3>3. book[passive].qty \in Nat BY <1>1, <3>1 DEF Numbers, Agree, Fits
    <3>4. book'[passive].qty = book[passive].qty BY <1>2, <3>1
    <3>5. /\ Booked(book, tracked \ {passive}) <= Booked(book', tracked \ {passive})
          /\ Booked(book', tracked \ {passive}) \in Nat /\ Booked(book, tracked \ {passive}) \in Nat
      BY <1>3, <3>1
    <3> DEFINE x == Booked(book, tracked \ {passive})
               y == Booked(book', tracked \ {passive})
    <3>6. y + book[passive].qty >= Intent
      <4>1. x \in Nat /\ y \in Nat /\ x <= y /\ x + book[passive].qty >= Intent BY <3>2, <3>5
      <4> HIDE DEF x, y
      <4> QED BY <1>8, <3>3, <4>1
    <3> QED BY <3>4, <3>6
  <2>2. pc' = "post" => Booked(book', tracked') + todo'.qty >= Intent OBVIOUS
  <2>3. passive' = 0 => pc' = "plan" \/ (pc' = "post" /\ todo'.caller = "plan") \/ report' # {}
    BY <1>1 DEF Enough
  <2>4. pc' \in {"poll_taker", "done"} =>
          report' # {} \/ trouble' \cap {"refusal", "expiry"} # {} \/ Exposure' >= Intent
    BY <1>1, <1>3, <1>5 DEF Enough
  <2> QED BY <2>1, <2>2, <2>3, <2>4 DEF Enough
<1>10. Bounded'
  <2> SUFFICES ASSUME Clean'
               PROVE  /\ Exposure' <= Intent
                      /\ pc' = "plan" => Exposure' = 0
                      /\ pc' = "post" => Exposure' + todo'.qty <= Intent
                      /\ pc' # "done" => report' = {}
                      /\ \A i \in Orders' : Seen(i)'
    BY DEF Bounded
  <2>1. Clean BY <1>5, CleanBefore
  <2>2. /\ Exposure <= Intent /\ (pc # "done" => report = {})
        /\ \A i \in Orders : Seen(i)
    BY <1>1, <2>1 DEF Bounded
  <2>3. ASSUME NEW i \in Orders PROVE Seen(i)'
    <3>1. Live(i)' <=> Live(i) BY DEF Live
    <3>2. Maker(i)' <=> Maker(i) BY <1>2 DEF Maker
    <3>3. is_terminal(book'[i]) => ~ Live(i) /\ book'[i].filled = exch'[i].filled
      BY <1>2, <1>5, <2>2 DEF Seen
    <3>4. exch'[i].status = "none" => is_terminal(book'[i]) BY <1>2, <2>2 DEF Seen
    <3> QED BY <2>2, <3>1, <3>2, <3>3, <3>4 DEF Seen
  <2> QED BY <1>2, <1>3, <2>2, <2>3
<1> QED BY <1>6, <1>7, <1>9, <1>10 DEF JInv

(* What no call touches.                                                   *)
LEMMA StillFacts ==
  ASSUME UNCHANGED <<book, exch, tracked>>
  PROVE  /\ Orders' = Orders /\ Exposure' = Exposure /\ Position' = Position
         /\ \A i : /\ Agree(i)' <=> Agree(i)
                   /\ Seen(i)' <=> Seen(i)
                   /\ Maker(i)' <=> Maker(i)
BY DEF Orders, Exposure, Position, Agree, Seen, Maker, Live

LEMMA StillCounts ==
  ASSUME IInv, JInv, UNCHANGED <<book, exch, tracked, passive, report, trouble>>,
         \/ submit_plan
         \/ UNCHANGED <<pc, todo>>
         \/ pc \in {"wait", "cancel"} /\ pc' \in {"cancel", "settle"} /\ UNCHANGED todo
  PROVE  JInv'
<1>1. Shape /\ Numbers /\ TakerLast /\ Enough /\ Bounded BY DEF IInv, JInv
<1>2. /\ Orders' = Orders /\ Exposure' = Exposure
      /\ \A i : /\ Agree(i)' <=> Agree(i)
                /\ Seen(i)' <=> Seen(i)
                /\ Maker(i)' <=> Maker(i)
  BY StillFacts
<1>3. Clean' <=> Clean BY DEF Clean
<1>4. Intent \in Nat \ {0} BY RouterAssumption
<1>5. Booked(book, tracked) \in Nat BY <1>1, SumsAreNumbers DEF Numbers
<1>6. CASE submit_plan
  <2>1. pc = "plan" /\ pc' = "post" /\ todo'.qty = Intent /\ todo'.caller = "plan"
    BY <1>6 DEF submit_plan, Call
  <2>2. Numbers' BY <1>1, <1>2, <1>4, <2>1 DEF Numbers
  <2>3. TakerLast' BY <1>1, <1>2, <2>1 DEF TakerLast
  <2>4. Enough' BY <1>1, <1>4, <1>5, <2>1 DEF Enough
  <2>5. Bounded' BY <1>1, <1>2, <1>3, <1>4, <2>1 DEF Bounded
  <2> QED BY <2>2, <2>3, <2>4, <2>5 DEF JInv
<1>7. CASE ~ submit_plan
  <2>1. /\ todo' = todo
        /\ \/ pc' = pc
           \/ pc \in {"wait", "cancel"} /\ pc' \in {"cancel", "settle"}
    BY <1>7
  <2>2. Numbers' BY <1>1, <1>2, <2>1 DEF Numbers
  <2>3. TakerLast' BY <1>1, <1>2, <2>1 DEF TakerLast
  <2>4. Enough' BY <1>1, <1>2, <2>1 DEF Enough
  <2>5. Bounded' BY <1>1, <1>2, <1>3, <2>1 DEF Bounded
  <2> QED BY <2>2, <2>3, <2>4, <2>5 DEF JInv
<1> QED BY <1>6, <1>7

LEMMA TodoQty ==
  ASSUME Numbers, UNCHANGED todo
  PROVE  todo'.qty \in Nat
BY DEF Numbers

LEMMA WaitCounts == ASSUME IInv, JInv, WaitRound \/ DeadlinePassed PROVE JInv'
<1>1. CASE WaitRound
  <2>1. /\ Poll({passive} \cap Unfinished) /\ pc = "wait" /\ pc' \in {"wait", "requote", "cancel"}
        /\ UNCHANGED <<todo, exch, tracked, passive, report>>
    BY <1>1 DEF WaitRound
  <2> QED BY <2>1, TodoQty, PollCounts DEF JInv
<1>2. CASE DeadlinePassed BY <1>2, StillCounts DEF DeadlinePassed
<1> QED BY <1>1, <1>2

(* Where the round posts anew, nothing of it is alive and everything that  *)
(* was traded has been booked: what it posts is exactly what is missing.   *)
LEMMA MissingIsExact ==
  ASSUME IInv, JInv, pc \in {"resubmit", "take"}, Poll(Unfinished), UNCHANGED <<exch, tracked>>
  PROVE  /\ remaining_for(book') = IF Booked(book', tracked) >= Intent THEN 0
                                   ELSE Intent - Booked(book', tracked)
         /\ remaining_for(book') \in Nat /\ Booked(book', tracked) \in Nat
         /\ Booked(book', tracked) + remaining_for(book') >= Intent
         /\ Booked(book', tracked) <= Exposure
         /\ Clean' /\ report' = report /\ remaining_for(book') > 0 =>
              Exposure + remaining_for(book') <= Intent
<1>1. Shape /\ Numbers /\ TakerLast /\ Bounded /\ Clear BY DEF IInv, JInv
<1>2. tracked \subseteq Orders BY <1>1 DEF Numbers
<1> DEFINE b == Booked(book', tracked)
<1>3. b \in Nat /\ b <= Exposure /\ Exposure \in Nat BY <1>1, <1>2, PollSums, SumsAreNumbers
<1>4. remaining_for(book') = IF b >= Intent THEN 0 ELSE Intent - b
  BY DEF remaining_for, filled_for, Booked
<1>5. Intent \in Nat BY RouterAssumption
<1>6. ASSUME Clean', report' = report PROVE Exposure = b
  <2>1. trouble \subseteq trouble' BY <1>1, PollFacts
  <2>2. Clean /\ "poll" \notin trouble' BY <1>6, <2>1, CleanBefore
  <2>3. report = {} /\ \A i \in Orders : Seen(i) BY <1>1, <2>2 DEF Bounded
  <2>4. OnlyPassiveLives BY <1>1, <2>2, <2>3 DEF Clear, Quiet, Clean
  <2>5. \A i \in Orders : ~ Live(i) BY <1>1, <2>4 DEF OnlyPassiveLives, TakerLast
  <2> QED BY <1>1, <2>2, <2>3, <2>5, AllBooked
<1> DEFINE m == remaining_for(book')
<1>7. m = IF b >= Intent THEN 0 ELSE Intent - b BY <1>4
<1> HIDE DEF b, m
<1>8. m \in Nat /\ b + m >= Intent BY <1>3, <1>5, <1>7
<1>9. Clean' /\ report' = report /\ m > 0 => Exposure + m <= Intent
  BY <1>3, <1>5, <1>6, <1>7
<1> QED BY <1>3, <1>7, <1>8, <1>9 DEF b, m

LEMMA RequoteSubmitsCounts == ASSUME IInv, JInv, RequoteSubmits PROVE JInv'
<1>1. /\ pc = "resubmit" /\ Poll(Unfinished)
      /\ UNCHANGED <<exch, tracked, passive, report>>
  BY DEF RequoteSubmits
<1> DEFINE m == remaining_for(book')
<1>2. /\ m \in Nat /\ Booked(book', tracked) + m >= Intent
      /\ Clean' /\ m > 0 => Exposure + m <= Intent
  BY <1>1, MissingIsExact
<1>3. \/ is_tradeable(m) /\ pc' = "post" /\ todo'.qty = m
      \/ pc' = "wait" /\ UNCHANGED todo
  BY DEF RequoteSubmits, Call
<1>4. is_tradeable(m) => m > 0
  <2> HIDE DEF m
  <2> QED BY <1>2, RouterAssumption DEF is_tradeable
<1> HIDE DEF m
<1>5. todo'.qty \in Nat BY <1>2, <1>3, TodoQty DEF JInv
<1> QED BY <1>1, <1>2, <1>3, <1>4, <1>5, PollCounts

LEMMA CleanupTakesCounts == ASSUME IInv, JInv, CleanupTakes PROVE JInv'
<1>1. /\ pc = "take" /\ Poll(Unfinished)
      /\ UNCHANGED <<exch, tracked, passive>>
  BY DEF CleanupTakes
<1> DEFINE m == remaining_for(book')
<1>2. /\ m \in Nat /\ Booked(book', tracked) + m >= Intent
      /\ Booked(book', tracked) \in Nat /\ Booked(book', tracked) <= Exposure
      /\ Clean' /\ report' = report /\ m > 0 => Exposure + m <= Intent
  BY <1>1, MissingIsExact
<1>3. \/ m > 0 /\ pc' = "post" /\ todo'.qty = m /\ report' = report
      \/ /\ pc' = "done" /\ UNCHANGED todo
         /\ report' = IF m > 0 THEN report \cup {"unfilled"} ELSE report
  BY DEF CleanupTakes, Call
<1> HIDE DEF m
<1>4. todo'.qty \in Nat /\ Intent \in Nat /\ Exposure \in Nat
  BY <1>2, <1>3, TodoQty, RouterAssumption, SumsAreNumbers DEF JInv, IInv
<1>5. m = 0 => Exposure >= Intent BY <1>2, <1>4
<1>6. pc' = "done" => report' # {} \/ Exposure >= Intent BY <1>2, <1>3, <1>5
<1> QED BY <1>1, <1>2, <1>3, <1>4, <1>6, PollCounts

LEMMA CleanupPollsCounts == ASSUME IInv, JInv, CleanupPolls PROVE JInv'
<1>1. /\ pc = "settle" /\ Poll(tracked)
      /\ UNCHANGED <<todo, exch, tracked, passive>> /\ pc' \in {"take", "done"}
      /\ pc' = "take" => report' = report
      /\ pc' = "done" => report' = IF passive # 0 /\ remaining_qty(book'[passive]) > 0
                                     THEN report \cup {"unfilled"} ELSE report
  BY DEF CleanupPolls
<1>2. report \subseteq report' BY <1>1
<1>3. Shape /\ Numbers /\ Enough BY DEF IInv, JInv
<1>4. tracked \subseteq Orders /\ passive \in tracked \cup {0} BY <1>3 DEF Numbers
<1>5. Intent \in Nat /\ Exposure \in Nat BY <1>3, RouterAssumption, SumsAreNumbers
<1>6. ASSUME passive # 0, ~ (remaining_qty(book'[passive]) > 0) PROVE Exposure >= Intent
  <2> DEFINE R == tracked \ {passive}
             a == Booked(book, R)
             c == Booked(book', R)
             d == Booked(book', tracked)
             q == book[passive].qty
             k == book'[passive].filled
  <2>1. passive \in Orders /\ R \in SUBSET Orders /\ passive \in tracked BY <1>4, <1>6
  <2>2. a + q >= Intent BY <1>3, <1>6 DEF Enough
  <2>3. a \in Nat /\ c \in Nat /\ a <= c /\ d \in Nat /\ d <= Exposure
    BY <1>1, <1>3, <1>4, <2>1, PollSums, SumsAreNumbers
  <2>4. \A i \in Orders : book'[i].qty = book[i].qty /\ Agree(i)'
    BY <1>1, <1>3, PollValues
  <2>5. q \in Nat /\ k \in Nat /\ book'[passive].qty = q
    BY <2>1, <2>4 DEF Agree, Fits
  <2>6. q <= k
    <3>1. remaining_qty(book'[passive]) = IF k >= q THEN 0 ELSE q - k BY <2>5 DEF remaining_qty
    <3> HIDE DEF k, q
    <3> QED BY <1>6, <2>5, <3>1
  <2>7. d = c + k
    <3>1. IsFiniteSet(tracked) BY <1>3, <1>4, OrdersFinite, FS_Subset
    <3>2. \A i \in tracked : book'[i].filled \in Nat BY <1>4, <2>4 DEF Agree, Fits
    <3> QED BY <2>1, <3>1, <3>2, BookedFacts
  <2> HIDE DEF a, c, d, q, k
  <2> QED BY <1>5, <2>2, <2>3, <2>5, <2>6, <2>7
<1>7. passive = 0 => report # {} BY <1>1, <1>3 DEF Enough
<1>8. pc' = "done" => report' # {} \/ Exposure >= Intent BY <1>1, <1>6, <1>7
<1>9. todo'.qty \in Nat BY <1>1, <1>3, TodoQty
<1> QED BY <1>1, <1>2, <1>8, <1>9, PollCounts

LEMMA TakerPollsCounts == ASSUME IInv, JInv, TakerPolls PROVE JInv'
<1>1. /\ Poll({Len(book)}) /\ pc = "poll_taker" /\ pc' = "done"
      /\ UNCHANGED <<todo, exch, tracked, passive, report>>
  BY DEF TakerPolls
<1>2. todo'.qty \in Nat BY <1>1, TodoQty DEF JInv
<1> QED BY <1>1, <1>2, PollCounts

(* The exchange ends an order: what it has filled stays, the rest of its   *)
(* risk is gone.                                                           *)

LEMMA RecordOf ==
  ASSUME Shape, NEW i \in Orders
  PROVE  exch[i] = [status |-> exch[i].status, filled |-> exch[i].filled]
<1>1. PICK H : exch \in Seq(Recs(H)) BY DEF Shape
<1>2. exch[i] \in Recs(H) BY <1>1 DEF Shape, Orders
<1> QED BY <1>2 DEF Recs

LEMMA AllCanceledFacts ==
  ASSUME Shape, Numbers, NEW i \in Orders
  PROVE  /\ AllCanceled[i].filled = exch[i].filled
         /\ AllCanceled[i].status = IF Live(i) THEN "CANCELED" ELSE exch[i].status
         /\ ~ Live(i) => AllCanceled[i] = exch[i]
         /\ Fits(book[i].qty, book[i].state, book[i].filled, AllCanceled[i])
         /\ Risk(book[i].qty, AllCanceled[i]) <= Risk(book[i].qty, exch[i])
<1> DEFINE r == exch[i]
           a == AllCanceled[i]
<1>1. Fits(book[i].qty, book[i].state, book[i].filled, r) BY DEF Numbers, Agree
<1>2. r = [status |-> r.status, filled |-> r.filled] BY RecordOf
<1>3. CASE Live(i)
  <2>1. a = [r EXCEPT !.status = "CANCELED"] BY <1>3 DEF AllCanceled
  <2>2. a = [status |-> "CANCELED", filled |-> r.filled] BY <1>2, <2>1
  <2>3. a.status = "CANCELED" /\ a.filled = r.filled BY <2>2
  <2>4. Fits(book[i].qty, book[i].state, book[i].filled, a) BY <1>1, <2>3 DEF Fits
  <2>5. Risk(book[i].qty, a) = r.filled BY <2>3 DEF Risk
  <2> QED BY <1>1, <1>3, <2>3, <2>4, <2>5, RiskFacts
<1>4. CASE ~ Live(i)
  <2>1. a = r BY <1>4 DEF AllCanceled
  <2>2. Risk(book[i].qty, r) \in Nat BY <1>1, RiskFacts
  <2> QED BY <1>1, <1>4, <2>1, <2>2
<1> QED BY <1>3, <1>4

LEMMA CancelCounts ==
  ASSUME IInv, JInv, UNCHANGED <<todo, book, tracked, passive>>,
         CancelConfirmed \/ CancelUnconfirmed,
         pc \in {"requote", "cancel"}, pc' \in {"resubmit", "wait", "settle"}
  PROVE  JInv'
<1>1. Shape /\ Numbers /\ TakerLast /\ Enough /\ Bounded BY DEF IInv, JInv
<1>2. exch' = exch \/ exch' = AllCanceled BY DEF CancelConfirmed, CancelUnconfirmed
<1>3. /\ trouble \subseteq trouble' /\ report \subseteq report'
      /\ Clean' => exch' = AllCanceled /\ report' = report
  BY DEF CancelConfirmed, CancelUnconfirmed, Fault, AsUsual, Clean
<1>4. Orders' = Orders BY DEF Orders
<1>5. \A i \in Orders : /\ Fits(book[i].qty, book[i].state, book[i].filled, exch[i])
                        /\ Fits(book[i].qty, book[i].state, book[i].filled, AllCanceled[i])
  BY <1>1, AllCanceledFacts DEF Numbers, Agree
<1>6. \A i \in Orders : Agree(i)' BY <1>2, <1>5 DEF Agree
<1>7. Numbers' BY <1>1, <1>4, <1>6 DEF Numbers
<1>8. TakerLast' BY <1>1, <1>4 DEF TakerLast, Maker
<1>9. Enough' BY <1>1, <1>3 DEF Enough
<1>10. Bounded'
  <2> SUFFICES ASSUME Clean'
               PROVE  /\ Exposure' <= Intent
                      /\ pc' = "plan" => Exposure' = 0
                      /\ pc' = "post" => Exposure' + todo'.qty <= Intent
                      /\ pc' # "done" => report' = {}
                      /\ \A i \in Orders' : Seen(i)'
    BY DEF Bounded
  <2>1. Clean /\ exch' = AllCanceled /\ report' = report BY <1>3, CleanBefore
  <2>2. Exposure <= Intent /\ report = {} /\ \A i \in Orders : Seen(i) BY <1>1, <2>1 DEF Bounded
  <2>3. \A i \in Orders : Risk(book[i].qty, exch'[i]) <= Risk(book[i].qty, exch[i])
    BY <1>1, <2>1, AllCanceledFacts
  <2>4. Exposure' <= Exposure /\ Exposure' \in Nat BY <1>1, <1>6, <2>3, ExchangeSums
  <2>5. Exposure \in Nat /\ Intent \in Nat BY <1>1, SumsAreNumbers, RouterAssumption
  <2>6. ASSUME NEW i \in Orders PROVE Seen(i)'
    <3>1. /\ exch'[i].filled = exch[i].filled
          /\ exch'[i].status = IF Live(i) THEN "CANCELED" ELSE exch[i].status
          /\ ~ Live(i) => exch'[i] = exch[i]
      BY <1>1, <2>1, AllCanceledFacts
    <3>2. exch[i] = Absent => ~ Live(i) BY DEF Absent, Live
    <3>3. ~ Live(i)' BY <3>1 DEF Live
    <3>4. Maker(i)' <=> Maker(i) BY DEF Maker
    <3> QED BY <2>2, <3>1, <3>2, <3>3, <3>4 DEF Seen
  <2> QED BY <1>4, <2>1, <2>2, <2>4, <2>5, <2>6
<1> QED BY <1>7, <1>8, <1>9, <1>10 DEF JInv

LEMMA RequoteCancelsCounts == ASSUME IInv, JInv, RequoteCancels PROVE JInv'
BY CancelCounts DEF RequoteCancels

LEMMA CleanupCancelsCounts == ASSUME IInv, JInv, CleanupCancels PROVE JInv'
<1>1. pc = "cancel" /\ pc' = "settle" /\ UNCHANGED <<todo, book, tracked, passive>>
  BY DEF CleanupCancels
<1>2. CASE UNCHANGED <<exch, report, trouble>> BY <1>1, <1>2, StillCounts
<1>3. CASE CancelConfirmed \/ CancelUnconfirmed BY <1>1, <1>3, CancelCounts
<1> QED BY <1>2, <1>3 DEF CleanupCancels

-----------------------------------------------------------------------------
(* The exchange.                                                           *)

(* One record of the exchange changes.                                     *)
LEMMA ExchangeFacts ==
  ASSUME Shape, NEW i \in Orders, NEW e, ExchangeSets(i, e)
  PROVE  /\ \A j \in Orders : exch'[j] = IF j = i THEN e ELSE exch[j]
         /\ UNCHANGED <<pc, todo, book, tracked, passive, round, report>>
         /\ Orders' = Orders
<1>1. PICK H : exch \in Seq(Recs(H)) BY DEF Shape
<1>2. Len(book) = Len(exch) BY DEF Shape
<1>3. exch' = [exch EXCEPT ![i] = e] BY DEF ExchangeSets
<1> QED BY <1>1, <1>2, <1>3 DEF Orders, ExchangeSets

(* A fill moves what is at risk to what is traded; an order that ends      *)
(* takes its risk along, which is the exchange's doing; one that arrives   *)
(* late puts at risk what nobody had counted.                              *)
LEMMA ExchangeCounts ==
  ASSUME IInv, JInv, NEW i \in Orders, NEW e, ExchangeSets(i, e), trouble \subseteq trouble',
         Fits(book[i].qty, book[i].state, book[i].filled, e),
         \/ Live(i) /\ Risk(book[i].qty, e) = Risk(book[i].qty, exch[i])
         \/ /\ Live(i) /\ "expiry" \in trouble'
            /\ Risk(book[i].qty, e) <= Risk(book[i].qty, exch[i])
         \/ /\ exch[i].status = "delayed" /\ trouble' = trouble
            /\ Risk(book[i].qty, e) >= Risk(book[i].qty, exch[i]),
         e.status \notin {"none", "delayed"}
  PROVE  JInv'
<1>1. Shape /\ Numbers /\ TakerLast /\ Enough /\ Bounded BY DEF IInv, JInv
<1>2. /\ \A j \in Orders : exch'[j] = IF j = i THEN e ELSE exch[j]
      /\ UNCHANGED <<pc, todo, book, tracked, passive, report>>
      /\ Orders' = Orders
  BY <1>1, ExchangeFacts
<1>3. ASSUME NEW j \in Orders
      PROVE  /\ Agree(j)'
             /\ Risk(book[j].qty, exch[j]) \in Nat /\ Risk(book[j].qty, exch'[j]) \in Nat
  <2>1. Fits(book[j].qty, book[j].state, book[j].filled, exch[j]) BY <1>1 DEF Numbers, Agree
  <2>2. Fits(book[j].qty, book[j].state, book[j].filled, exch'[j]) BY <1>2, <2>1
  <2> QED BY <1>2, <2>1, <2>2, RiskFacts DEF Agree
<1>4. Exposure \in Nat /\ Intent \in Nat BY <1>1, SumsAreNumbers, RouterAssumption
<1>5. Numbers' BY <1>1, <1>2, <1>3 DEF Numbers
<1>6. TakerLast' BY <1>1, <1>2 DEF TakerLast, Maker
<1>7. Exposure' \in Nat /\ ("expiry" \in trouble' \/ Exposure <= Exposure')
  <2>1. CASE Risk(book[i].qty, e) >= Risk(book[i].qty, exch[i])
    <3>1. \A j \in Orders : Risk(book[j].qty, exch'[j]) >= Risk(book[j].qty, exch[j])
      BY <1>2, <1>3, <2>1
    <3> QED BY <1>1, <1>2, <1>3, <3>1, ExchangeSumsUp
  <2>2. CASE "expiry" \in trouble' /\ Risk(book[i].qty, e) <= Risk(book[i].qty, exch[i])
    <3>1. \A j \in Orders : Risk(book[j].qty, exch'[j]) <= Risk(book[j].qty, exch[j])
      BY <1>2, <1>3, <2>2
    <3> QED BY <1>1, <1>2, <1>3, <2>2, <3>1, ExchangeSums
  <2> QED BY <1>3, <2>1, <2>2
<1>8. Enough'
  <2>1. pc' \in {"poll_taker", "done"} =>
          report' # {} \/ trouble' \cap {"refusal", "expiry"} # {} \/ Exposure' >= Intent
    BY <1>1, <1>2, <1>4, <1>7 DEF Enough
  <2> QED BY <1>1, <1>2, <2>1 DEF Enough
<1>9. Bounded'
  <2> SUFFICES ASSUME Clean'
               PROVE  /\ Exposure' <= Intent
                      /\ pc' = "plan" => Exposure' = 0
                      /\ pc' = "post" => Exposure' + todo'.qty <= Intent
                      /\ pc' # "done" => report' = {}
                      /\ \A j \in Orders' : Seen(j)'
    BY DEF Bounded
  <2>1. Clean BY <1>2, CleanBefore
  <2>2. /\ Exposure <= Intent /\ (pc # "done" => report = {})
        /\ pc = "plan" => Exposure = 0
        /\ pc = "post" => Exposure + todo.qty <= Intent
        /\ \A j \in Orders : Seen(j)
    BY <1>1, <2>1 DEF Bounded
  <2>3. Live(i) /\ Risk(book[i].qty, e) <= Risk(book[i].qty, exch[i])
    BY <1>3, <2>2 DEF Seen
  <2>4. \A j \in Orders : Risk(book[j].qty, exch'[j]) <= Risk(book[j].qty, exch[j])
    BY <1>2, <1>3, <2>3
  <2>5. Exposure' <= Exposure BY <1>1, <1>2, <1>3, <2>4, ExchangeSums
  <2>6. ASSUME NEW j \in Orders PROVE Seen(j)'
    <3>1. CASE j = i
      <4>1. ~ is_terminal(book[i]) /\ ~ (i \notin tracked /\ Maker(i))
        <5>1. exch[i] = Absent => ~ Live(i) BY DEF Absent, Live
        <5> QED BY <2>2, <2>3, <5>1 DEF Seen
      <4>2. exch'[j] = e /\ book'[j] = book[j] BY <1>2, <3>1
      <4>3. Maker(j)' <=> Maker(j) BY <1>2 DEF Maker
      <4> QED BY <1>2, <3>1, <4>1, <4>2, <4>3 DEF Seen
    <3>2. CASE j # i
      <4>1. exch'[j] = exch[j] /\ book' = book BY <1>2, <3>2
      <4>2. (Live(j)' <=> Live(j)) /\ (Maker(j)' <=> Maker(j)) BY <4>1 DEF Live, Maker
      <4> QED BY <1>2, <2>2, <4>1, <4>2 DEF Seen
    <3> QED BY <3>1, <3>2
  <2>7. pc = "post" => todo.qty \in Nat BY <1>1 DEF Numbers
  <2> QED BY <1>2, <1>4, <1>7, <2>2, <2>5, <2>6, <2>7
<1> QED BY <1>5, <1>6, <1>8, <1>9 DEF JInv

LEMMA FillFacts ==
  ASSUME Shape, Numbers, NEW i \in Orders, Live(i)
  PROVE  LET e == Matched(exch[i].filled + 1, book[i].qty)
         IN /\ Fits(book[i].qty, book[i].state, book[i].filled, e)
            /\ Risk(book[i].qty, e) = Risk(book[i].qty, exch[i])
            /\ e.filled = exch[i].filled + 1 /\ e.status \notin {"none", "delayed"}
<1> DEFINE r == exch[i]
           q == book[i].qty
           e == Matched(r.filled + 1, q)
<1>1. Fits(q, book[i].state, book[i].filled, r) BY DEF Numbers, Agree
<1>2. r.filled < q /\ r.status \in {"NEW", "PARTIALLY_FILLED"} BY <1>1 DEF Live, Fits
<1>3. /\ e.filled = r.filled + 1
      /\ e.status = IF r.filled + 1 = q THEN "FILLED" ELSE "PARTIALLY_FILLED"
  BY <1>1, <1>2 DEF Matched, Fits
<1> HIDE DEF e, r, q
<1>4. Fits(q, book[i].state, book[i].filled, e) BY <1>1, <1>2, <1>3 DEF Fits
<1>5. Risk(q, e) = Risk(q, r) BY <1>1, <1>2, <1>3 DEF Risk, Fits
<1>6. e.status \notin {"none", "delayed"} BY <1>3
<1> QED BY <1>3, <1>4, <1>5, <1>6 DEF e, r, q

LEMMA ExpiryFacts ==
  ASSUME Shape, Numbers, NEW i \in Orders, Live(i)
  PROVE  LET e == [exch[i] EXCEPT !.status = "EXPIRED"]
         IN /\ Fits(book[i].qty, book[i].state, book[i].filled, e)
            /\ Risk(book[i].qty, e) <= Risk(book[i].qty, exch[i])
            /\ e.filled = exch[i].filled /\ e.status = "EXPIRED"
<1> DEFINE r == exch[i]
           e == [r EXCEPT !.status = "EXPIRED"]
<1>1. Fits(book[i].qty, book[i].state, book[i].filled, r) BY DEF Numbers, Agree
<1>2. r = [status |-> r.status, filled |-> r.filled] BY RecordOf
<1>3. e = [status |-> "EXPIRED", filled |-> r.filled] BY <1>2
<1>4. e.filled = r.filled /\ e.status = "EXPIRED" BY <1>3
<1> HIDE DEF e, r
<1>5. Fits(book[i].qty, book[i].state, book[i].filled, e) BY <1>1, <1>4 DEF Fits
<1>6. Risk(book[i].qty, e) = r.filled BY <1>4 DEF Risk
<1>7. Risk(book[i].qty, e) <= Risk(book[i].qty, r) BY <1>1, <1>6, RiskFacts
<1> QED BY <1>4, <1>5, <1>7 DEF e, r

LEMMA ArrivalFacts ==
  ASSUME Shape, Numbers, NEW i \in Orders, exch[i] = Delayed
  PROVE  LET e == Matched(0, book[i].qty)
         IN /\ Fits(book[i].qty, book[i].state, book[i].filled, e)
            /\ Risk(book[i].qty, e) >= Risk(book[i].qty, exch[i])
            /\ exch[i].status = "delayed" /\ exch[i].filled = 0
            /\ e.filled = 0 /\ e.status = "NEW"
<1> DEFINE e == Matched(0, book[i].qty)
<1>1. Fits(book[i].qty, book[i].state, book[i].filled, exch[i]) BY DEF Numbers, Agree
<1>2. exch[i].status = "delayed" /\ exch[i].filled = 0 BY DEF Delayed
<1>3. e.filled = 0 /\ e.status = "NEW" BY DEF Matched
<1> HIDE DEF e
<1>4. Fits(book[i].qty, book[i].state, book[i].filled, e) BY <1>1, <1>2, <1>3 DEF Fits
<1>5. Risk(book[i].qty, e) >= Risk(book[i].qty, exch[i])
  BY <1>1, <1>2, <1>3 DEF Fits, Risk
<1> QED BY <1>2, <1>3, <1>4, <1>5 DEF e

LEMMA ExchangeMoves ==
  ASSUME IInv, JInv, ExchangeFills \/ ExchangeExpires \/ DelayedArrives
  PROVE  JInv'
<1>1. Shape /\ Numbers BY DEF IInv, JInv
<1>2. CASE ExchangeFills
  <2>1. PICK i \in Orders : Live(i) /\ AsUsual /\ ExchangeSets(i, Matched(exch[i].filled + 1, book[i].qty))
    BY <1>2 DEF ExchangeFills
  <2> QED BY <1>1, <2>1, FillFacts, ExchangeCounts DEF AsUsual
<1>3. CASE ExchangeExpires
  <2>1. PICK i \in Orders : Fault("expiry") /\ Live(i) /\ ExchangeSets(i, [exch[i] EXCEPT !.status = "EXPIRED"])
    BY <1>3 DEF ExchangeExpires
  <2>2. trouble \subseteq trouble' /\ "expiry" \in trouble' BY <2>1 DEF Fault
  <2> QED BY <1>1, <2>1, <2>2, ExpiryFacts, ExchangeCounts
<1>4. CASE DelayedArrives
  <2>1. PICK i \in Orders : exch[i] = Delayed /\ AsUsual /\ ExchangeSets(i, Matched(0, book[i].qty))
    BY <1>4 DEF DelayedArrives
  <2> QED BY <1>1, <2>1, ArrivalFacts, ExchangeCounts DEF AsUsual
<1> QED BY <1>2, <1>3, <1>4
-----------------------------------------------------------------------------
LEMMA EmptySums == ASSUME Init PROVE Exposure = 0 /\ Position = 0 /\ Orders = {}
<1>1. Orders = {} BY DEF Init, Orders
<1>2. \A f : SumFunctionOnSet(f, {}) = 0 BY FS_EmptySet, SumUnfolds
<1>3. Position = 0 BY <1>1, <1>2 DEF Position, SumFunction
<1>4. Exposure = 0 BY <1>1, <1>2 DEF Exposure, SumFunction
<1> QED BY <1>1, <1>3, <1>4

LEMMA InitCounts == ASSUME Init PROVE JInv
<1>1. Exposure = 0 /\ Orders = {} BY EmptySums
<1>2. Intent \in Nat BY RouterAssumption
<1>3. /\ pc = "plan" /\ todo.qty = 0 /\ tracked = {} /\ passive = 0 /\ report = {}
  BY DEF Init
<1>4. Numbers BY <1>1, <1>3 DEF Numbers
<1>5. TakerLast BY <1>1 DEF TakerLast
<1>6. Enough BY <1>3 DEF Enough
<1>7. Bounded BY <1>1, <1>2, <1>3 DEF Bounded
<1> QED BY <1>4, <1>5, <1>6, <1>7 DEF JInv

LEMMA NextCounts == IInv /\ JInv /\ [Next]_vars => JInv'
<1> SUFFICES ASSUME IInv, JInv, [Next]_vars PROVE JInv' OBVIOUS
<1>1. CASE UNCHANGED vars BY <1>1, StillCounts DEF vars
<1>2. CASE Next
  <2>1. CASE submit_plan BY <2>1, StillCounts DEF submit_plan
  <2>2. CASE Next /\ ~ submit_plan
    BY <2>2, PostCounts, WaitCounts, RequoteCancelsCounts, RequoteSubmitsCounts,
       CleanupCancelsCounts, CleanupPollsCounts, CleanupTakesCounts, TakerPollsCounts, ExchangeMoves
    DEF Next, RouterStep
  <2> QED BY <1>2, <2>1, <2>2
<1> QED BY <1>1, <1>2

(* More is at risk than the plan asked for only where an answer, a query   *)
(* or a POST was lost, or the report names the cancel; and the round that  *)
(* trades less than that names what is missing, unless the exchange        *)
(* refused or ended an order (F27, VETUSDT): for every intent and every    *)
(* interleaving of fills, queries and quotes.                              *)
THEOREM ReportsTellAll == Spec => []ReportIsComplete
<1>1. ASSUME IInv, JInv PROVE ReportIsComplete
  <2>1. Exposure \in Nat /\ Intent \in Nat BY <1>1, SumsAreNumbers, RouterAssumption DEF IInv, JInv
  <2>2. OverfillIsReported
    BY <1>1 DEF JInv, Bounded, Clean, OverfillIsReported, NeverOverfilled
  <2>3. ShortfallIsReported BY <1>1, <2>1 DEF JInv, Enough, ShortfallIsReported
  <2>4. LeftoverIsReported
    BY <1>1 DEF IInv, Clear, Quiet, OnlyPassiveLives, LeftoverIsReported
  <2> QED BY <2>2, <2>3, <2>4 DEF ReportIsComplete
<1>2. Init => IInv /\ JInv BY InitHolds, InitCounts
<1>3. IInv /\ JInv /\ [Next]_vars => IInv' /\ JInv' BY NextKeeps, NextCounts
<1> QED BY <1>1, <1>2, <1>3, PTL DEF Spec

-----------------------------------------------------------------------------
(* ExecuteIntent: the position moves up or not at all, and up to the       *)
(* intent at most while nothing is amiss.                                  *)
Moves ==
  /\ Position' \in Nat
  /\ Position' = Position \/ Position < Position'
  /\ trouble = {} /\ report = {} => Position' <= Intent

LEMMA PositionBound ==
  ASSUME IInv, JInv
  PROVE  /\ Position \in Nat
         /\ Clean => Position <= Intent
         /\ Clean /\ pc = "post" => Position + todo.qty <= Intent
<1>1. Shape /\ Numbers /\ Bounded BY DEF IInv, JInv
<1>2. Exposure \in Nat /\ Position \in Nat /\ Position <= Exposure /\ Intent \in Nat
  BY <1>1, SumsAreNumbers, RouterAssumption
<1>3. Clean => Exposure <= Intent BY <1>1 DEF Bounded
<1>4. Clean /\ pc = "post" => Exposure + todo.qty <= Intent /\ todo.qty \in Nat
  BY <1>1 DEF Bounded, Numbers
<1> QED BY <1>2, <1>3, <1>4

LEMMA EnterMoves ==
  ASSUME IInv, JInv, pc = "post", NEW s \in OrderState, NEW k, NEW G, NEW e \in Recs(G),
         Enter(s, k, e), Fits(todo.qty, s, k, e)
  PROVE  Moves
<1>1. Shape /\ Numbers BY DEF IInv, JInv
<1>2. Position' = Position + e.filled BY <1>1, EnterSums
<1>3. e.filled \in Nat /\ e.filled <= todo.qty /\ todo.qty \in Nat BY DEF Fits
<1>4. Position \in Nat /\ (Clean => Position + todo.qty <= Intent) BY PositionBound
<1>5. trouble = {} /\ report = {} => Clean BY DEF Clean
<1>6. Intent \in Nat BY RouterAssumption
<1> QED BY <1>2, <1>3, <1>4, <1>5, <1>6 DEF Moves

LEMMA PostMoves ==
  ASSUME IInv, JInv, PostAccepted \/ PostBacksOff \/ PostRefused \/ PostAnswerLost \/ PostRaises
  PROVE  Moves
<1>1. pc = "post" /\ Numbers /\ todo.qty \in Nat \ {0}
  BY DEF PostAccepted, PostBacksOff, PostRefused, PostAnswerLost, PostRaises, JInv, Numbers
<1>2. {"REJECTED", "SUBMITTED"} \subseteq OrderState BY RejectedIsState
<1>3. /\ Fits(todo.qty, "REJECTED", 0, Absent)
      /\ Fits(todo.qty, "SUBMITTED", 0, Absent) /\ Fits(todo.qty, "SUBMITTED", 0, Delayed)
  BY <1>1 DEF Fits, Absent, Delayed
<1>4. CASE PostAccepted
  <2>1. PICK e \in Taken : Enter(BINANCE_STATUS_MAP[e.status], e.filled, e)
    BY <1>4 DEF PostAccepted
  <2>2. PICK G : e \in Recs(G) BY TakenFacts
  <2> QED BY <1>1, <2>1, <2>2, TakenNumbers, EnterMoves
<1>5. CASE PostBacksOff \/ PostRefused
  <2>1. Enter("REJECTED", 0, Absent) BY <1>5 DEF PostBacksOff, PostRefused
  <2> QED BY <1>1, <1>2, <1>3, <2>1, AbsentFacts, EnterMoves
<1>6. CASE PostAnswerLost
  <2>1. PICK e \in Taken : Enter("REJECTED", 0, e) BY <1>6 DEF PostAnswerLost
  <2>2. PICK G : e \in Recs(G) BY TakenFacts
  <2> QED BY <1>1, <1>2, <2>1, <2>2, TakenNumbers, EnterMoves
<1>7. CASE PostRaises
  <2>1. PICK e \in Taken \cup {Absent, Delayed} : Enter("SUBMITTED", 0, e) BY <1>7 DEF PostRaises
  <2>2. PICK G : e \in Recs(G) BY <2>1, TakenFacts, AbsentFacts
  <2>3. Fits(todo.qty, "SUBMITTED", 0, e) BY <1>1, <1>3, <2>1, TakenNumbers
  <2> QED BY <1>1, <1>2, <2>1, <2>2, <2>3, EnterMoves
<1> QED BY <1>4, <1>5, <1>6, <1>7

(* What leaves the fills alone does not move the position.                 *)
LEMMA FillsKept ==
  ASSUME Orders' = Orders, \A i \in Orders : exch'[i].filled = exch[i].filled
  PROVE  Position' = Position
<1>1. Booked(exch', Orders) = Booked(exch, Orders) BY BookedSame
<1> QED BY <1>1, ExposureIsSum, ExposureIsSumNext

LEMMA CancelMoves ==
  ASSUME IInv, JInv, UNCHANGED book, CancelConfirmed \/ CancelUnconfirmed
  PROVE  Position' = Position
<1>1. exch' = exch \/ exch' = AllCanceled BY DEF CancelConfirmed, CancelUnconfirmed
<1>2. \A i \in Orders : AllCanceled[i].filled = exch[i].filled BY AllCanceledFacts DEF IInv, JInv
<1>3. Orders' = Orders BY DEF Orders
<1> QED BY <1>1, <1>2, <1>3, FillsKept

LEMMA StillMoves == ASSUME IInv, JInv, Position' = Position PROVE Moves
<1>1. trouble = {} /\ report = {} => Clean BY DEF Clean
<1> QED BY <1>1, PositionBound DEF Moves

LEMMA ExchangeFillsMoves == ASSUME IInv, JInv, ExchangeFills PROVE Moves
<1>1. Shape /\ Numbers BY DEF IInv, JInv
<1>2. PICK i \in Orders : Live(i) /\ AsUsual /\ ExchangeSets(i, Matched(exch[i].filled + 1, book[i].qty))
  BY DEF ExchangeFills
<1> DEFINE e == Matched(exch[i].filled + 1, book[i].qty)
<1>3. /\ Fits(book[i].qty, book[i].state, book[i].filled, e)
      /\ Risk(book[i].qty, e) = Risk(book[i].qty, exch[i])
      /\ e.filled = exch[i].filled + 1
  BY <1>1, <1>2, FillFacts
<1>4. ExchangeSets(i, e) /\ UNCHANGED trouble BY <1>2 DEF AsUsual
<1> HIDE DEF e
<1>5. /\ \A j \in Orders : exch'[j] = IF j = i THEN e ELSE exch[j]
      /\ UNCHANGED <<pc, todo, book, tracked, passive, report>>
      /\ Orders' = Orders
  BY <1>1, <1>4, ExchangeFacts
<1>6. IsFiniteSet(Orders) /\ IsFiniteSet(Orders \ {i}) BY <1>1, OrdersFinite, FS_Subset
<1>7. \A j \in Orders : exch[j].filled \in Nat BY <1>1 DEF Numbers, Agree, Fits
<1>8. \A j \in Orders : exch'[j].filled \in Nat BY <1>3, <1>5, <1>7
<1> DEFINE x == Booked(exch, Orders \ {i})
           y == Booked(exch', Orders \ {i})
<1>9. Booked(exch, Orders) = x + exch[i].filled /\ x \in Nat BY <1>6, <1>7, BookedFacts
<1>10. Booked(exch', Orders) = y + exch'[i].filled BY <1>6, <1>8, BookedFacts
<1>11. x = y
  <2>1. \A j \in Orders \ {i} : exch[j].filled = exch'[j].filled BY <1>5
  <2> QED BY <2>1, BookedSame
<1>12. Position' = Position + 1 /\ Position \in Nat
  <2>1. Position = Booked(exch, Orders) /\ Position' = Booked(exch', Orders)
    BY <1>5, ExposureIsSum, ExposureIsSumNext
  <2>2. exch'[i].filled = exch[i].filled + 1 /\ exch[i].filled \in Nat BY <1>3, <1>5, <1>7
  <2> HIDE DEF x, y
  <2> QED BY <1>9, <1>10, <1>11, <2>1, <2>2
<1>13. ASSUME trouble = {}, report = {} PROVE Position' <= Intent
  <2>1. Clean BY <1>13 DEF Clean
  <2>2. Exposure <= Intent BY <2>1 DEF JInv, Bounded
  <2>3. \A j \in Orders : Agree(j)'
    <3>1. \A j \in Orders : Fits(book[j].qty, book[j].state, book[j].filled, exch'[j])
      BY <1>1, <1>3, <1>5 DEF Numbers, Agree
    <3> QED BY <1>5, <3>1 DEF Agree
  <2>4. \A j \in Orders : Risk(book[j].qty, exch[j]) \in Nat BY <1>1, RiskFacts DEF Numbers, Agree
  <2>5. \A j \in Orders : exch'[j].filled <= Risk(book[j].qty, exch[j])
    <3>1. \A j \in Orders : Fits(book[j].qty, book[j].state, book[j].filled, exch'[j])
      BY <1>1, <1>3, <1>5 DEF Numbers, Agree
    <3>2. \A j \in Orders : Risk(book[j].qty, exch'[j]) = Risk(book[j].qty, exch[j])
      BY <1>3, <1>5
    <3> QED BY <3>1, <3>2, RiskFacts
  <2>6. Booked(exch', Orders) <= Exposure /\ Booked(exch', Orders) \in Nat
    BY <1>1, <1>8, <2>5, BookedWithin
  <2>7. Exposure \in Nat /\ Intent \in Nat BY <1>1, SumsAreNumbers, RouterAssumption
  <2> QED BY <1>5, <2>2, <2>6, <2>7, ExposureIsSumNext
<1> QED BY <1>12, <1>13 DEF Moves

LEMMA ExchangeRestMoves == ASSUME IInv, JInv, ExchangeExpires \/ DelayedArrives PROVE Moves
<1>1. Shape /\ Numbers BY DEF IInv, JInv
<1>2. \E i \in Orders : \E e : ExchangeSets(i, e) /\ e.filled = exch[i].filled
  <2>1. CASE ExchangeExpires
    <3>1. PICK i \in Orders : Live(i) /\ ExchangeSets(i, [exch[i] EXCEPT !.status = "EXPIRED"])
      BY <2>1 DEF ExchangeExpires
    <3> QED BY <1>1, <3>1, ExpiryFacts
  <2>2. CASE DelayedArrives
    <3>1. PICK i \in Orders : exch[i] = Delayed /\ ExchangeSets(i, Matched(0, book[i].qty))
      BY <2>2 DEF DelayedArrives
    <3> QED BY <1>1, <3>1, ArrivalFacts
  <2> QED BY <2>1, <2>2
<1>3. PICK i \in Orders : \E e : ExchangeSets(i, e) /\ e.filled = exch[i].filled BY <1>2
<1>4. PICK e : ExchangeSets(i, e) /\ e.filled = exch[i].filled BY <1>3
<1>5. /\ \A j \in Orders : exch'[j] = IF j = i THEN e ELSE exch[j]
      /\ Orders' = Orders
  BY <1>1, <1>3, <1>4, ExchangeFacts
<1>6. \A j \in Orders : exch'[j].filled = exch[j].filled BY <1>4, <1>5
<1> QED BY <1>5, <1>6, FillsKept, StillMoves

LEMMA OthersMove ==
  ASSUME IInv, JInv,
         \/ submit_plan \/ WaitRound \/ DeadlinePassed \/ RequoteCancels \/ RequoteSubmits
         \/ CleanupCancels \/ CleanupPolls \/ CleanupTakes \/ TakerPolls
  PROVE  Moves
<1>1. Shape /\ Numbers BY DEF IInv, JInv
<1>2. CASE submit_plan \/ DeadlinePassed
  <2>1. UNCHANGED <<book, exch, tracked>> BY <1>2 DEF submit_plan, DeadlinePassed
  <2> QED BY <2>1, StillFacts, StillMoves
<1>3. CASE RequoteCancels
  <2>1. UNCHANGED book /\ (CancelConfirmed \/ CancelUnconfirmed) BY <1>3 DEF RequoteCancels
  <2> QED BY <2>1, CancelMoves, StillMoves
<1>4. CASE CleanupCancels
  <2>1. UNCHANGED <<book, tracked>> /\ (UNCHANGED exch \/ CancelConfirmed \/ CancelUnconfirmed)
    BY <1>4 DEF CleanupCancels
  <2> QED BY <2>1, CancelMoves, StillFacts, StillMoves
<1>5. CASE WaitRound \/ RequoteSubmits \/ CleanupPolls \/ CleanupTakes \/ TakerPolls
  <2>1. PICK S : Poll(S) /\ UNCHANGED exch
    BY <1>5 DEF WaitRound, RequoteSubmits, CleanupPolls, CleanupTakes, TakerPolls
  <2> QED BY <1>1, <2>1, PollSums, StillMoves
<1> QED BY <1>2, <1>3, <1>4, <1>5

LEMMA HistoryGrows ==
  ASSUME [Next]_vars
  PROVE  /\ trouble \subseteq trouble' /\ report \subseteq report'
         /\ pc = "done" => pc' = "done"
<1>1. CASE UNCHANGED vars BY <1>1 DEF vars
<1>2. CASE PostAccepted \/ PostBacksOff \/ PostRefused \/ PostAnswerLost \/ PostRaises
  BY <1>2 DEF PostAccepted, PostBacksOff, PostRefused, PostAnswerLost, PostRaises, Return, Raise,
              Fault, AsUsual
<1>3. CASE submit_plan \/ WaitRound \/ DeadlinePassed \/ RequoteSubmits \/ TakerPolls
  BY <1>3 DEF submit_plan, WaitRound, DeadlinePassed, RequoteSubmits, TakerPolls, Poll, Fault, AsUsual
<1>4. CASE CleanupPolls \/ CleanupTakes
  BY <1>4 DEF CleanupPolls, CleanupTakes, Poll, Fault, AsUsual
<1>5. CASE RequoteCancels \/ CleanupCancels
  BY <1>5 DEF RequoteCancels, CleanupCancels, CancelConfirmed, CancelUnconfirmed, Fault, AsUsual
<1>6. CASE ExchangeFills \/ ExchangeExpires \/ DelayedArrives
  BY <1>6 DEF ExchangeFills, ExchangeExpires, DelayedArrives, ExchangeSets, Fault, AsUsual
<1> QED BY <1>1, <1>2, <1>3, <1>4, <1>5, <1>6 DEF Next, RouterStep

LEMMA StepsAreSteps == IInv /\ JInv /\ [Next]_vars => [Promise!Next]_(Promise!promise)
<1> SUFFICES ASSUME IInv, JInv, [Next]_vars PROVE [Promise!Next]_(Promise!promise) OBVIOUS
<1>1. Moves
  <2>1. CASE UNCHANGED vars BY <2>1, StillFacts, StillMoves DEF vars
  <2>2. CASE Next
    BY <2>2, PostMoves, ExchangeFillsMoves, ExchangeRestMoves, OthersMove DEF Next, RouterStep
  <2> QED BY <2>1, <2>2
<1>2. /\ trouble \subseteq trouble' /\ report \subseteq report'
      /\ pc = "done" => pc' = "done"
  BY HistoryGrows
<1> DEFINE ex == report # {} \/ trouble # {}
           fin == pc = "done"
<1>3. Position' = Position \/ (/\ Position' \in Nat
                               /\ ex \/ (Position < Position' /\ Position' <= Intent))
  BY <1>1 DEF Moves
<1>4. (fin)' = TRUE \/ (fin)' = fin BY <1>2
<1>5. (ex)' = TRUE \/ (ex)' = ex BY <1>2
<1> HIDE DEF ex, fin
<1> QED BY <1>3, <1>4, <1>5
  DEF Promise!Next, Promise!Trade, Promise!Finish, Promise!Excuse, Promise!promise, ex, fin

(* The round implements ExecuteIntent step by step: it starts where the    *)
(* promise starts, the position never moves back and, while nothing is     *)
(* amiss, never past the intent; a round that has returned stays returned, *)
(* and an excuse is not taken back.  (That it returns is Completes, which  *)
(* needs fairness.)                                                        *)
THEOREM RoundKeepsPromise == Spec => Promise!Init /\ [][Promise!Next]_(Promise!promise)
<1>1. Init => Promise!Init
  <2> SUFFICES ASSUME Init PROVE Promise!Init OBVIOUS
  <2>1. Position = 0 BY EmptySums
  <2>2. (pc = "done") = FALSE /\ (report # {} \/ trouble # {}) = FALSE BY DEF Init
  <2> QED BY <2>1, <2>2 DEF Promise!Init
<1>2. Init => IInv /\ JInv BY InitHolds, InitCounts
<1>3. IInv /\ JInv /\ [Next]_vars => IInv' /\ JInv' BY NextKeeps, NextCounts
<1> QED BY <1>1, <1>2, <1>3, StepsAreSteps, PTL DEF Spec
-----------------------------------------------------------------------------
(* One order, from submit() to its last report, for every quantity, every   *)
(* retry bound and every order in which its reports are read.              *)

USE DEF ExchangeStatus, OrderState, TERMINAL_STATES

(* Applying a report either changes nothing, or moves a live order along   *)
(* the table to exactly what the report says.                              *)
LEMMA TransitionCases ==
  ASSUME NEW o \in [qty : {Qty}, state : OrderState, filled : 0..Qty],
         NEW s \in OrderState, NEW k \in 0..Qty
  PROVE  /\ transition(o, s, k) \in [qty : {Qty}, state : OrderState, filled : 0..Qty]
         /\ \/ transition(o, s, k) = o
            \/ /\ Legal(o, s, k)
               /\ transition(o, s, k) = [qty |-> Qty, state |-> s, filled |-> k]
  BY QtyAssumption DEF transition, Legal

(* Every status of the exchange has its state, and only NEW and            *)
(* PARTIALLY_FILLED have live ones.                                        *)
LEMMA MapType ==
  ASSUME NEW s \in ExchangeStatus
  PROVE  /\ BINANCE_STATUS_MAP[s] \in OrderState \ {"CREATED", "SUBMITTED"}
         /\ BINANCE_STATUS_MAP[s] \in {"FILLED", "CANCELED", "EXPIRED", "REJECTED"}
              <=> s \notin {"NEW", "PARTIALLY_FILLED"}
  BY DEF BINANCE_STATUS_MAP

(* A match of k lots is a report with k lots filled.                       *)
LEMMA MatchedType ==
  ASSUME NEW k \in 0..Qty
  PROVE  /\ MatchedFor(k) \in Report
         /\ MatchedFor(k) # Nothing
         /\ MatchedFor(k) # Refusal
         /\ MatchedFor(k).filled = k
  BY QtyAssumption DEF MatchedFor, Report, Nothing, Refusal

(* A report from the history keeps the managed order behind the exchange   *)
(* and closes it only with the exchange's final state.                     *)
LEMMA ApplyReport ==
  ASSUME OrderTypeOK, ReportsAreHistory, LocalNeverAhead, TerminalMatchesExchange,
         NEW r \in reports, order' = apply_exchange_status(order, r),
         UNCHANGED <<remote, reports>>
  PROVE  /\ order' \in [qty : {Qty}, state : OrderState, filled : 0..Qty]
         /\ LocalNeverAhead'
         /\ TerminalMatchesExchange'
<1> DEFINE s == BINANCE_STATUS_MAP[r.status]
<1>1. r \in Report /\ r.status \in ExchangeStatus /\ r.filled \in 0..Qty
  BY DEF OrderTypeOK, Report
<1>2. s \in OrderState
  BY <1>1, MapType
<1>3. order' = transition(order, s, r.filled)
  BY DEF apply_exchange_status
<1>4. /\ order' \in [qty : {Qty}, state : OrderState, filled : 0..Qty]
      /\ \/ order' = order
         \/ order' = [qty |-> Qty, state |-> s, filled |-> r.filled]
  BY <1>1, <1>2, <1>3, TransitionCases DEF OrderTypeOK
<1>5. r.filled <= remote.filled /\ remote # Nothing
  BY DEF ReportsAreHistory
<1>6. CASE order' = order
  BY <1>4, <1>6 DEF LocalNeverAhead, TerminalMatchesExchange, Mirrors
<1>7. CASE order' = [qty |-> Qty, state |-> s, filled |-> r.filled]
  <2>1. LocalNeverAhead'
    BY <1>5, <1>7 DEF LocalNeverAhead
  <2>2. s \in {"FILLED", "CANCELED", "EXPIRED"} => r = remote
    BY <1>1, MapType DEF ReportsAreHistory, Ended, Alive
  <2>3. TerminalMatchesExchange'
    BY <1>5, <1>7, <2>2 DEF TerminalMatchesExchange, Mirrors
  <2> QED BY <1>4, <2>1, <2>3
<1> QED BY <1>4, <1>6, <1>7

(* The invariant holds before submit.                                      *)
LEMMA OrderInitHolds == OrderInit => OrderIInv
  BY QtyAssumption, AttemptsAssumption, LooksAssumption
     DEF OrderInit, OrderIInv, OrderTypeOK, InFlightBounded, AliveHasRoom, ReportsAreHistory,
         LocalNeverAhead, TerminalMatchesExchange, Mirrors,
         Nothing, Refusal, Report, Ended, Alive

(* The exchange moves on: its history grows, and an order it has ended can *)
(* no longer change.                                                       *)
LEMMA OrderRemoteMoves ==
  ASSUME OrderIInv, NEW e \in Report, Alive(remote), remote.filled <= e.filled,
         ExchangeBecomes(e), AliveHasRoom'
  PROVE  OrderIInv'
<1>1. remote # Nothing /\ ~ Ended(remote) /\ remote \in Report
  BY DEF Alive, Ended, Nothing, OrderIInv, OrderTypeOK
<1>2. e # Nothing /\ e.filled \in 0..Qty
  BY DEF Report, Nothing
<1>3. OrderTypeOK'
  BY DEF OrderIInv, OrderTypeOK, ExchangeBecomes, lookVars
<1>4. InFlightBounded'
  BY <1>1 DEF OrderIInv, InFlightBounded, ExchangeBecomes
<1>5. ReportsAreHistory'
  <2>1. \A r \in reports : ~ Ended(r) /\ r.filled <= remote.filled /\ r.filled \in 0..Qty
    BY <1>1 DEF OrderIInv, ReportsAreHistory, OrderTypeOK, Report
  <2>2. remote.filled \in 0..Qty
    BY <1>1 DEF Report
  <2> QED BY <1>2, <2>1, <2>2 DEF OrderIInv, ReportsAreHistory, ExchangeBecomes
<1>6. LocalNeverAhead'
  <2>1. order.filled \in 0..Qty /\ remote.filled \in 0..Qty
    BY <1>1 DEF OrderIInv, OrderTypeOK, Report
  <2> QED BY <1>2, <2>1 DEF OrderIInv, LocalNeverAhead, ExchangeBecomes
<1>7. TerminalMatchesExchange'
  <2>1. order.state \notin {"FILLED", "CANCELED", "EXPIRED"}
    BY <1>1, MapType DEF OrderIInv, TerminalMatchesExchange, Mirrors, Alive
  <2> QED BY <2>1 DEF TerminalMatchesExchange, ExchangeBecomes
<1> QED BY <1>3, <1>4, <1>5, <1>6, <1>7 DEF OrderIInv

(* One step per action of the specification.                               *)
LEMMA OrderStepKeeps == OrderIInv /\ [OrderNext]_orderVars => OrderIInv'
<1> SUFFICES ASSUME OrderIInv, [OrderNext]_orderVars PROVE OrderIInv'
  OBVIOUS
<1> USE QtyAssumption, AttemptsAssumption, LooksAssumption DEF lookVars, Looks
<1>1. CASE submit
  <2>1. order.state = "CREATED" /\ order \in [qty : {Qty}, state : OrderState, filled : 0..Qty]
    BY <1>1 DEF submit, OrderIInv, InFlightBounded, OrderTypeOK
  <2>2. order' = [qty |-> Qty, state |-> "SUBMITTED", filled |-> order.filled]
    <3>1. Legal(order, "SUBMITTED", order.filled)
      BY <2>1 DEF Legal, is_terminal, VALID_TRANSITIONS
    <3>2. order' = [order EXCEPT !.state = "SUBMITTED", !.filled = order.filled]
      BY <1>1, <3>1 DEF submit, transition
    <3> QED BY <2>1, <3>2
  <2>3. OrderTypeOK'
    BY <1>1, <2>1, <2>2 DEF submit, OrderIInv, OrderTypeOK
  <2>4. InFlightBounded'
    BY <1>1, <2>1, <2>2 DEF submit, InFlightBounded
  <2>5. ReportsAreHistory' /\ LocalNeverAhead' /\ TerminalMatchesExchange'
    BY <1>1, <2>1, <2>2
       DEF submit, OrderIInv, ReportsAreHistory, LocalNeverAhead,
           TerminalMatchesExchange, Ended
  <2>6. AliveHasRoom'
    BY <1>1 DEF submit, OrderIInv, AliveHasRoom, Alive
  <2> QED BY <2>3, <2>4, <2>5, <2>6 DEF OrderIInv
<1>2. CASE Retry
  BY <1>2 DEF Retry, OrderIInv, OrderTypeOK, InFlightBounded, AliveHasRoom,
              ReportsAreHistory, LocalNeverAhead, TerminalMatchesExchange,
              Mirrors, Ended, Alive
<1>3. CASE GiveUp
  <2>1. \/ order' = order
        \/ order' = [order EXCEPT !.state = "REJECTED"]
    BY <1>3 DEF GiveUp, reject, transition
  <2> QED
    BY <1>3, <2>1
       DEF GiveUp, OrderIInv, OrderTypeOK, InFlightBounded, AliveHasRoom, ReportsAreHistory,
           LocalNeverAhead, TerminalMatchesExchange, Mirrors, Ended, Alive
<1>4. CASE ReceiveReport
  <2>1. answer \in reports
    BY <1>4 DEF ReceiveReport, OrderIInv, ReportsAreHistory, Nothing, Refusal
  <2>2. /\ order' \in [qty : {Qty}, state : OrderState, filled : 0..Qty]
        /\ LocalNeverAhead' /\ TerminalMatchesExchange'
    BY <1>4, <2>1, ApplyReport DEF ReceiveReport, OrderIInv
  <2> QED
    BY <1>4, <2>2
       DEF ReceiveReport, OrderIInv, OrderTypeOK, InFlightBounded, AliveHasRoom, ReportsAreHistory, Ended, Alive
<1>5. CASE ReceiveRefusal
  <2>1. \/ order' = order
        \/ order' = [order EXCEPT !.state = "REJECTED"]
    BY <1>5 DEF ReceiveRefusal, reject, transition
  <2> QED
    BY <1>5, <2>1
       DEF ReceiveRefusal, OrderIInv, OrderTypeOK, InFlightBounded, AliveHasRoom, ReportsAreHistory,
           LocalNeverAhead, TerminalMatchesExchange, Mirrors, Ended, Alive
<1>6. CASE poll_status
  <2>1. remote \in reports
    BY <1>6 DEF poll_status, OrderIInv, ReportsAreHistory
  <2>2. /\ order' \in [qty : {Qty}, state : OrderState, filled : 0..Qty]
        /\ LocalNeverAhead' /\ TerminalMatchesExchange'
    BY <1>6, <2>1, ApplyReport DEF poll_status, OrderIInv
  <2> QED
    BY <1>6, <2>2
       DEF poll_status, OrderIInv, OrderTypeOK, InFlightBounded, AliveHasRoom, ReportsAreHistory, Ended, Alive
<1>7. CASE LateReport
  <2>1. PICK r \in reports : order' = apply_exchange_status(order, r)
    BY <1>7 DEF LateReport
  <2>2. /\ order' \in [qty : {Qty}, state : OrderState, filled : 0..Qty]
        /\ LocalNeverAhead' /\ TerminalMatchesExchange'
    BY <1>7, <2>1, ApplyReport DEF LateReport, OrderIInv
  <2> QED
    BY <1>7, <2>2
       DEF LateReport, OrderIInv, OrderTypeOK, InFlightBounded, AliveHasRoom, ReportsAreHistory, Ended, Alive
<1>8. CASE ExchangeTakes
  <2>1. PICK a \in requests : ExchangeAccepts(a) \/ ExchangeRefuses(a)
    BY <1>8 DEF ExchangeTakes
  <2>2. CASE ExchangeAccepts(a)
    <3>1. PICK k \in 0..Qty : remote' = MatchedFor(k)
      BY <2>2 DEF ExchangeAccepts
    <3>2. /\ remote' \in Report /\ remote' # Nothing /\ remote' # Refusal
          /\ remote'.filled \in 0..Qty
      BY <3>1, MatchedType
    <3>3. remote = Nothing /\ reports = {} /\ reports' = {remote'}
      BY <2>2 DEF ExchangeAccepts, OrderIInv, ReportsAreHistory
    <3>4. answer \in {Nothing, Refusal} /\ answer' \in {answer, remote'}
      BY <2>2, <3>3 DEF ExchangeAccepts, AnswerTo, OrderIInv, ReportsAreHistory
    <3>5. order.filled = 0 /\ order.state \in {"CREATED", "SUBMITTED", "REJECTED"}
      BY <3>3 DEF OrderIInv, LocalNeverAhead, OrderTypeOK, Nothing
    <3>6. OrderTypeOK' /\ ReportsAreHistory'
      BY <2>2, <3>2, <3>3, <3>4
         DEF ExchangeAccepts, OrderIInv, OrderTypeOK, ReportsAreHistory, Ended, Alive
    <3>7. InFlightBounded'
      BY <2>1, <2>2 DEF ExchangeAccepts, OrderIInv, InFlightBounded
    <3>8. LocalNeverAhead' /\ TerminalMatchesExchange'
      BY <2>2, <3>2, <3>5
         DEF ExchangeAccepts, LocalNeverAhead, TerminalMatchesExchange
    <3>9. AliveHasRoom'
      BY <3>1, QtyAssumption DEF AliveHasRoom, Alive, MatchedFor
    <3> QED BY <3>6, <3>7, <3>8, <3>9 DEF OrderIInv
  <2>3. CASE ExchangeRefuses(a)
    BY <2>1, <2>3
       DEF ExchangeRefuses, AnswerTo, OrderIInv, OrderTypeOK, InFlightBounded, AliveHasRoom,
           ReportsAreHistory, LocalNeverAhead, TerminalMatchesExchange,
           Mirrors, Ended, Alive
  <2> QED BY <2>1, <2>2, <2>3
<1>9. CASE ExchangeMatches
  <2>1. remote \in Report
    BY <1>9 DEF ExchangeMatches, Alive, OrderIInv, OrderTypeOK, Nothing
  <2>2. /\ Alive(remote) /\ remote.filled + 1 \in 0..Qty
        /\ ExchangeBecomes(MatchedFor(remote.filled + 1))
    BY <1>9, <2>1 DEF ExchangeMatches, OrderIInv, AliveHasRoom, Report
  <2>3. /\ MatchedFor(remote.filled + 1) \in Report
        /\ remote.filled <= MatchedFor(remote.filled + 1).filled
    BY <2>1, <2>2, MatchedType DEF Report
  <2>4. AliveHasRoom'
    BY <2>2 DEF ExchangeBecomes, AliveHasRoom, Alive, MatchedFor
  <2> QED BY <2>2, <2>3, <2>4, OrderRemoteMoves
<1>10. CASE ExchangeEnds
  <2>1. remote \in Report /\ Alive(remote)
    BY <1>10 DEF ExchangeEnds, Alive, OrderIInv, OrderTypeOK, Nothing
  <2>2. PICK s \in {"CANCELED", "EXPIRED", "EXPIRED_IN_MATCH"} :
          ExchangeBecomes([remote EXCEPT !.status = s])
    BY <1>10 DEF ExchangeEnds
  <2>3. /\ [remote EXCEPT !.status = s] \in Report
        /\ remote.filled <= [remote EXCEPT !.status = s].filled
    BY <2>1 DEF Report
  <2>4. AliveHasRoom'
    BY <2>1, <2>2 DEF ExchangeBecomes, AliveHasRoom, Alive
  <2> QED BY <2>1, <2>2, <2>3, <2>4, OrderRemoteMoves
<1>11. CASE PollFails
  BY <1>11 DEF PollFails, OrderIInv, OrderTypeOK, InFlightBounded, AliveHasRoom, ReportsAreHistory,
               LocalNeverAhead, TerminalMatchesExchange, Mirrors, Ended, Alive
<1>12. CASE UNCHANGED orderVars
  BY <1>12 DEF orderVars, OrderIInv, OrderTypeOK, InFlightBounded, AliveHasRoom, ReportsAreHistory,
               LocalNeverAhead, TerminalMatchesExchange, Mirrors, Ended, Alive
<1> QED
  BY <1>1, <1>2, <1>3, <1>4, <1>5, <1>6, <1>7, <1>8, <1>9, <1>10, <1>11, <1>12
     DEF OrderNext
-----------------------------------------------------------------------------
(* Hence it holds throughout every behavior of the specification.          *)
LEMMA OrderHolds == OrderSpec => []OrderIInv
<1>1. OrderInit => OrderIInv
  BY OrderInitHolds
<1>2. OrderIInv /\ [OrderNext]_orderVars => OrderIInv'
  BY OrderStepKeeps
<1> QED BY <1>1, <1>2, PTL DEF OrderSpec

(* Type correctness of the lifecycle of one order.                         *)
THEOREM OrderTypeCorrect == OrderSpec => []OrderTypeOK
<1>1. OrderIInv => OrderTypeOK
  BY DEF OrderIInv
<1> QED BY <1>1, OrderHolds, PTL

(* However late, often and disordered the reports are read, the book never *)
(* shows a fill or an acceptance the exchange does not have.               *)
THEOREM NeverAhead == OrderSpec => []LocalNeverAhead
<1>1. OrderIInv => LocalNeverAhead
  BY DEF OrderIInv
<1> QED BY <1>1, OrderHolds, PTL

(* A final state in the book is the exchange's final state and whole fill. *)
THEOREM TerminalIsTrue == OrderSpec => []TerminalMatchesExchange
<1>1. OrderIInv => TerminalMatchesExchange
  BY DEF OrderIInv
<1> QED BY <1>1, OrderHolds, PTL

(* What transition() lets through only goes forward, whatever it is given. *)
LEMMA TransitionForward ==
  ASSUME NEW o \in [qty : {Qty}, state : OrderState, filled : 0..Qty],
         NEW s \in OrderState, NEW k \in 0..Qty,
         transition(o, s, k) # o
  PROVE  /\ o.state \notin TERMINAL_STATES
         /\ Rank[o.state] <= Rank[transition(o, s, k).state]
         /\ o.filled <= transition(o, s, k).filled
<1>1. Legal(o, s, k) /\ transition(o, s, k) = [o EXCEPT !.state = s, !.filled = k]
  BY DEF transition
<1>2. o.state \notin TERMINAL_STATES /\ o.filled <= k
  BY <1>1 DEF Legal, is_terminal
<1>3. s = o.state \/ s \in VALID_TRANSITIONS[o.state]
  BY <1>1 DEF Legal
<1>4. Rank[o.state] <= Rank[s]
  BY <1>2, <1>3 DEF VALID_TRANSITIONS, Rank
<1> QED BY <1>1, <1>2, <1>4

(* No step of the program takes the managed order back: not to an earlier  *)
(* state, not to a smaller fill, not out of a terminal state.              *)
THEOREM NeverBack == OrderSpec => NoRegress
<1>1. OrderIInv /\ [OrderNext]_orderVars => [Forward]_orderVars
  <2> SUFFICES ASSUME OrderIInv, [OrderNext]_orderVars, order' # order PROVE Forward
    BY DEF Forward
  <2>1. order \in [qty : {Qty}, state : OrderState, filled : 0..Qty]
    BY DEF OrderIInv, OrderTypeOK
  <2>2. \E s \in OrderState, k \in 0..Qty : order' = transition(order, s, k)
    <3>1. CASE submit
      BY <2>1, <3>1 DEF submit
    <3>2. CASE GiveUp \/ ReceiveRefusal
      BY <2>1, <3>2 DEF GiveUp, ReceiveRefusal, reject
    <3>3. CASE ReceiveReport \/ poll_status \/ LateReport
      <4>1. \E r \in Report : order' = apply_exchange_status(order, r)
        BY <3>3 DEF ReceiveReport, poll_status, LateReport, Looks, OrderIInv, OrderTypeOK,
                    Nothing, Refusal, ReportsAreHistory
      <4> QED BY <4>1, MapType DEF apply_exchange_status, Report
    <3>4. ~ (Retry \/ PollFails \/ ExchangeTakes \/ ExchangeMatches \/ ExchangeEnds)
      BY DEF Retry, PollFails, ExchangeTakes, ExchangeAccepts, ExchangeRefuses,
             ExchangeMatches, ExchangeEnds, ExchangeBecomes
    <3> QED BY <3>1, <3>2, <3>3, <3>4 DEF OrderNext, orderVars
  <2> QED BY <2>1, <2>2, TransitionForward DEF Forward
<1> QED BY <1>1, OrderHolds, PTL DEF OrderSpec, NoRegress
=============================================================================
