---------------------------- MODULE RoundsProofs ----------------------------
(***************************************************************************)
(* What preflight.py, the readiness gate, the goal policy and the lock-in  *)
(* promise, for every account, every set of troubles, every market of      *)
(* finitely many moves, every grid, cost and horizon.                      *)
(*                                                                         *)
(* Preflight and run_once share no code for their conditions; the proof    *)
(* compares them.  What the round stops at is either one of preflight's    *)
(* checks or one of the four exceptions the property names.                *)
(*                                                                         *)
(* The gate: a strictly increasing function takes the rounds that sent     *)
(* orders to their lines (Told), so a streak of lines is a streak of those *)
(* rounds.  The policy: the best play's chance is monotone in the wealth,  *)
(* and an interpolation moves the wealth by half a step of the grid at     *)
(* most (Close); sums over the market's moves go by a smallest             *)
(* counterexample.  The lock-in: from what it leaves the policy wants no   *)
(* book again (Kept).                                                      *)
(***************************************************************************)
EXTENDS Rounds, Foundations, TLAPS

(* The first round, on an account without a state: only it may find a book *)
(* that is not the file's and go on.                                       *)
LEMMA VerdictCoversOutcome ==
  ASSUME NEW troubles, NEW account0, NEW tier \in Tiers, NEW first \in BOOLEAN,
         NEW due \in BOOLEAN, NEW derisk \in BOOLEAN, NEW leverage, derisk => ~ due,
         Preflight(troubles, account0) # 1
  PROVE  LET outcome == Outcome(troubles, account0, tier, first, due, derisk, leverage)
         IN  \/ outcome \in {"heartbeat", "rebalanced"}
             \/ tier >= 2 \/ {"dear", "feed"} \cap troubles # {}
             \/ leverage = 0 /\ outcome = "raised"
<1>1. "offline" \notin troubles /\ ~ Blocked(troubles, account0)
  BY DEF Preflight
<1>2. /\ troubles \cap {"books", "broke"} = {} /\ "few" \notin troubles
      /\ ~ account0.dead /\ ~ account0.frozen
  BY <1>1 DEF Blocked, UniverseFails
<1>3. ASSUME ~ (tier >= 2), {"dear", "feed"} \cap troubles = {}
      PROVE  /\ ~ BreakerStops(account0, tier)
             /\ ~ UniverseFails(troubles, TRUE)
             /\ "feed" \notin troubles /\ "broke" \notin troubles
             /\ "books" \notin troubles /\ "offline" \notin troubles
  BY <1>1, <1>2, <1>3 DEF BreakerStops, UniverseFails
<1>4. ASSUME ~ (tier >= 2), {"dear", "feed"} \cap troubles = {}
      PROVE  LET outcome == Outcome(troubles, account0, tier, first, due, derisk, leverage)
             IN outcome \in {"heartbeat", "rebalanced"} \/ (leverage = 0 /\ outcome = "raised")
  BY <1>3, <1>4 DEF Outcome
<1> QED BY <1>4

(* Tier counts the thresholds that were reached.                           *)
LEMMA TierTyped == ASSUME NEW p PROVE Tier(p) \in Tiers
BY DEF Tier, Tiers

LEMMA BeatKeeps ==
  ASSUME NEW bad, Beat(bad)
  PROVE  PreflightForetells'
<1> DEFINE troubles == bad \cup (IF held # state THEN {"books"} ELSE {})
           tier == Tier(Max({peak, wealth}))
           first == state = Nothing /\ ~ rebalanced
           due == since = Rhythm \/ ~ rebalanced
           target == _position_multiplier(tier, troubles)
           derisk == ~ due /\ state # Nothing /\ target = 0
           outcome == Outcome(troubles, account, tier, first, due, derisk, target)
<1>1. last' = [tier |-> tier, troubles |-> troubles, verdict |-> Preflight(troubles, account),
               demand |-> target, outcome |-> outcome]
  BY DEF Beat
<1>2. /\ tier \in Tiers /\ first \in BOOLEAN /\ due \in BOOLEAN /\ derisk \in BOOLEAN
      /\ derisk => ~ due
  BY TierTyped
<1> HIDE DEF troubles, tier, first, due, target, derisk
<1>3. Preflight(troubles, account) # 1 =>
        \/ outcome \in {"heartbeat", "rebalanced"}
        \/ tier >= 2 \/ {"dear", "feed"} \cap troubles # {}
        \/ target = 0 /\ outcome = "raised"
  BY <1>2, VerdictCoversOutcome
<1> HIDE DEF outcome
<1>4. /\ last'.tier = tier /\ last'.troubles = troubles /\ last'.demand = target
      /\ last'.verdict = Preflight(troubles, account) /\ last'.outcome = outcome
  BY <1>1
<1> QED BY <1>3, <1>4 DEF PreflightForetells

(* When preflight.py says that nothing blocks, the round that follows is   *)
(* not stopped, but for a drawdown of the second tier, symbols too dear,   *)
(* old data of the main exchange, or an overlay that wants no position.    *)
THEOREM PreflightIsRight == Spec => []PreflightForetells
<1>1. Init => PreflightForetells
  BY DEF Init, PreflightForetells, NoBeat
<1>2. PreflightForetells /\ [Next]_vars => PreflightForetells'
  <2> SUFFICES ASSUME PreflightForetells, [Next]_vars PROVE PreflightForetells' OBVIOUS
  <2>1. CASE UNCHANGED last BY <2>1 DEF PreflightForetells
  <2>2. CASE Bar BY <2>2 DEF Bar, NoBeat, PreflightForetells
  <2>3. CASE \E bad : Beat(bad) BY <2>3, BeatKeeps
  <2>4. CASE Solves \/ Saves \/ Thaws \/ Over \/ UNCHANGED vars
    <3>1. UNCHANGED last BY <2>4 DEF Solves, Saves, Thaws, Over, vars, history
    <3> QED BY <3>1, <2>1
  <2> QED BY <2>2, <2>3, <2>4 DEF Next
<1> QED BY <1>1, <1>2, PTL DEF Spec
-----------------------------------------------------------------------------
(* The gate.  A line of the execution log is a record or what a death made *)
(* of one.                                                                 *)
Records ==
  [n_orders : BOOLEAN, plan_failures : BOOLEAN, uncancelled : BOOLEAN,
   exec_error : BOOLEAN, net_ok : BOOLEAN, gross_ok : BOOLEAN]

Lines == Records \cup {Torn, Garbled}

Sent == [good : BOOLEAN, closing : BOOLEAN, kept : BOOLEAN]

Well == held = [leverage |-> held.leverage, neutral |-> held.neutral] /\ held.neutral \in BOOLEAN

AllKept == \A i \in 1..Len(rounds) : rounds[i].kept

(* f gives every round its record: no record is left over, they are in the *)
(* order of the rounds, and a clean one tells of a round that was good or  *)
(* meant to close the book.                                                *)
Accounts(f, sent, file) ==
  /\ \A i, j \in 1..Len(sent) : i < j => f[i] < f[j]
  /\ \A k \in load_records(file) : \E i \in 1..Len(sent) : f[i] = k
  /\ \A i \in 1..Len(sent) : clean(file[f[i]]) => sent[i].good \/ sent[i].closing

Told ==
  /\ Well /\ log \in Seq(Lines) /\ rounds \in Seq(Sent)
  /\ AllKept => \E f \in [1..Len(rounds) -> load_records(log)] : Accounts(f, rounds, log)

LEMMA PiecesAreNoRecords == Torn \notin Records /\ Garbled \notin Records /\ Torn # Garbled
<1>1. DOMAIN Torn = {"line"} /\ DOMAIN Garbled = {"line"} BY DEF Torn, Garbled
<1>2. \A r \in Records : "n_orders" \in DOMAIN r BY DEF Records
<1>3. Torn.line # Garbled.line BY DEF Torn, Garbled
<1> QED BY <1>1, <1>2, <1>3

(* What append leaves: the file is still lines, and the records before the *)
(* new one stay records, at their places.  The new one is added to them if *)
(* it sent orders and the file did not end with a torn line.               *)
LEMMA AppendedKeeps ==
  ASSUME NEW file \in Seq(Lines), NEW r \in Records \cup {Torn}
  PROVE  /\ Appended(file, r) \in Seq(Lines)
         /\ \A k \in load_records(file) : Appended(file, r)[k] = file[k]
         /\ load_records(Appended(file, r)) =
              load_records(file) \cup {k \in {Len(file) + 1} :
                                        ~ CutOff(file) /\ r \in Records /\ r.n_orders}
         /\ ~ CutOff(file) => Appended(file, r)[Len(file) + 1] = r
         /\ load_records(file) \subseteq 1..Len(file)
<1>1. Torn \in Lines /\ Garbled \in Lines /\ r \in Lines BY DEF Lines
<1>2. CASE ~ CutOff(file)
  <2>1. Appended(file, r) = Append(file, r) BY <1>2 DEF Appended
  <2>2. /\ Append(file, r) \in Seq(Lines) /\ Len(Append(file, r)) = Len(file) + 1
        /\ \A i \in 1..Len(file) : Append(file, r)[i] = file[i]
        /\ Append(file, r)[Len(file) + 1] = r
        /\ DOMAIN file = 1..Len(file) /\ DOMAIN Append(file, r) = 1..(Len(file) + 1)
        /\ Len(file) \in Nat
    BY <1>1
  <2> DEFINE app == Append(file, r)
  <2> HIDE DEF app
  <2>3. /\ app \in Seq(Lines) /\ \A i \in 1..Len(file) : app[i] = file[i]
        /\ app[Len(file) + 1] = r /\ DOMAIN app = 1..(Len(file) + 1)
    BY <2>2 DEF app
  <2>4. r \in Records => r \notin {Torn, Garbled} BY PiecesAreNoRecords
  <2>5. r \notin Records => r = Torn OBVIOUS
  <2>6. Appended(file, r) = app BY <2>1 DEF app
  <2> QED BY <1>2, <2>2, <2>3, <2>4, <2>5, <2>6 DEF load_records
<1>3. CASE CutOff(file) /\ r = Torn
  <2>1. Appended(file, r) = file BY <1>3 DEF Appended
  <2>2. load_records(file) \subseteq 1..Len(file) BY DEF load_records
  <2> QED BY <1>3, <2>1, <2>2
<1>4. CASE CutOff(file) /\ r # Torn
  <2>1. Appended(file, r) = Append(Front(file), Garbled) BY <1>4 DEF Appended
  <2>2. file # <<>> /\ file[Len(file)] = Torn BY <1>4 DEF CutOff, Last
  <2>3. Len(file) \in Nat /\ Len(file) > 0 /\ DOMAIN file = 1..Len(file) BY <2>2
  <2> DEFINE front == Front(file)
  <2>4. /\ front \in Seq(Lines) /\ Len(front) = Len(file) - 1
        /\ \A i \in 1..(Len(file) - 1) : front[i] = file[i]
    BY <2>3 DEF Front
  <2> HIDE DEF front
  <2> DEFINE app == Append(front, Garbled)
  <2>5. /\ app \in Seq(Lines) /\ Len(app) = Len(file) /\ DOMAIN app = 1..Len(file)
        /\ \A i \in 1..(Len(file) - 1) : app[i] = file[i]
        /\ app[Len(file)] = Garbled
    <3>1. app \in Seq(Lines) BY <2>4, <1>1
    <3>2. Len(app) = Len(front) + 1 BY <2>4
    <3>3. Len(app) = Len(file) BY <2>3, <2>4, <3>2
    <3>4. DOMAIN app = 1..Len(file) BY <3>1, <3>3
    <3>5. \A i \in 1..Len(front) : app[i] = front[i] BY <2>4
    <3>6. app[Len(front) + 1] = Garbled BY <2>4, <1>1
    <3>7. Len(front) + 1 = Len(file) BY <2>3, <2>4
    <3> HIDE DEF app
    <3> QED BY <3>1, <3>3, <3>4, <3>5, <3>6, <3>7, <2>4
  <2> HIDE DEF app
  <2>6. Appended(file, r) = app BY <2>1 DEF app, front
  <2>7. load_records(app) = load_records(file) BY <2>2, <2>3, <2>5 DEF load_records
  <2>8. \A k \in load_records(file) : k \in 1..(Len(file) - 1)
    BY <2>2, <2>3 DEF load_records
  <2>9. \A k \in load_records(file) : app[k] = file[k] BY <2>5, <2>8
  <2> QED BY <1>4, <2>3, <2>5, <2>6, <2>7, <2>8, <2>9
<1> QED BY <1>2, <1>3, <1>4

LEMMA AppendedAdds ==
  ASSUME NEW file \in Seq(Lines), NEW r \in Records, ~ CutOff(file), r.n_orders
  PROVE  /\ load_records(Appended(file, r)) = load_records(file) \cup {Len(file) + 1}
         /\ \A k \in load_records(file) : Appended(file, r)[k] = file[k]
         /\ Appended(file, r)[Len(file) + 1] = r
         /\ load_records(file) \subseteq 1..Len(file)
BY AppendedKeeps

LEMMA AppendedLeaves ==
  ASSUME NEW file \in Seq(Lines), NEW r \in Records \cup {Torn},
         r = Torn \/ ~ r.n_orders
  PROVE  /\ load_records(Appended(file, r)) = load_records(file)
         /\ \A k \in load_records(file) : Appended(file, r)[k] = file[k]
<1>1. ~ (r \in Records /\ r.n_orders) BY PiecesAreNoRecords
<1>2. {k \in {Len(file) + 1} : ~ CutOff(file) /\ r \in Records /\ r.n_orders} = {}
  BY <1>1
<1>3. /\ load_records(Appended(file, r)) =
           load_records(file) \cup {k \in {Len(file) + 1} :
                                     ~ CutOff(file) /\ r \in Records /\ r.n_orders}
      /\ \A k \in load_records(file) : Appended(file, r)[k] = file[k]
  BY AppendedKeeps
<1> QED BY <1>2, <1>3

(* A set of numbers up to n that goes up to n and has N of them has the    *)
(* last N.                                                                 *)
LEMMA LastOnes ==
  ASSUME NEW n \in Nat, NEW m \in Nat, NEW K, K \subseteq 1..n,
         \A i \in K, j \in 1..n : i <= j => j \in K,
         Cardinality(K) >= m
  PROVE  n >= m /\ \A i \in (n - m + 1)..n : i \in K
<1>1. IsFiniteSet(1..n) /\ Cardinality(1..n) = n BY FS_Interval
<1>2. IsFiniteSet(K) /\ Cardinality(K) <= n BY <1>1, FS_Subset
<1>3. Cardinality(K) \in Nat BY <1>2, FS_CardinalityType
<1>4. n >= m BY <1>2, <1>3
<1>5. ASSUME NEW i \in (n - m + 1)..n, i \notin K PROVE FALSE
  <2>1. i \in 1..n BY <1>4
  <2>2. K \subseteq (i + 1)..n BY <1>5, <2>1
  <2>3. IsFiniteSet((i + 1)..n) /\ Cardinality((i + 1)..n) <= n - i
    <3>1. i \in Int /\ i + 1 \in Int /\ n \in Int /\ i <= n BY <2>1
    <3>2. /\ IsFiniteSet((i + 1)..n)
          /\ Cardinality((i + 1)..n) = IF i + 1 > n THEN 0 ELSE n - (i + 1) + 1
      BY <3>1, FS_Interval
    <3> QED BY <3>1, <3>2
  <2>4. Cardinality((i + 1)..n) \in Nat BY <2>3, FS_CardinalityType
  <2>5. Cardinality(K) <= Cardinality((i + 1)..n) BY <2>2, <2>3, FS_Subset
  <2> QED BY <1>3, <1>4, <2>1, <2>3, <2>4, <2>5
<1> QED BY <1>4, <1>5

LEMMA ToldIsHonest == Told => GateIsHonest
<1> SUFFICES ASSUME Told, \A i \in DOMAIN rounds : rounds[i].kept, Passes(log, account)
             PROVE  Len(rounds) >= N /\ \A i \in Window : rounds[i].good \/ rounds[i].closing
  BY DEF GateIsHonest
<1> DEFINE n == Len(rounds)
           R == load_records(log)
           C == CleanAtEnd(log)
<1>1. n \in Nat /\ DOMAIN rounds = 1..n BY DEF Told
<1>2. AllKept BY <1>1 DEF AllKept
<1>3. PICK f \in [1..n -> R] : Accounts(f, rounds, log) BY <1>2 DEF Told
<1>4. Cardinality(C) >= N BY DEF Passes, Streak
<1>5. C \subseteq R /\ \A k \in C : clean(log[k])
  <2>1. R \subseteq Nat BY DEF load_records, Told
  <2> QED BY <2>1 DEF CleanAtEnd
<1>6. \A k \in C, l \in R : k <= l => l \in C
  <2>1. R \subseteq Nat BY DEF load_records, Told
  <2> QED BY <2>1 DEF CleanAtEnd
<1>7. R \subseteq Nat BY DEF load_records, Told
<1> DEFINE K == {i \in 1..n : f[i] \in C}
<1> HIDE DEF n, R, C
<1>8. \A i \in K, j \in 1..n : i <= j => j \in K
  <2> SUFFICES ASSUME NEW i \in K, NEW j \in 1..n, i < j PROVE f[j] \in C
    BY <1>1
  <2>1. f[i] < f[j] /\ f[i] \in C /\ f[i] \in R /\ f[j] \in R
    BY <1>3 DEF Accounts, n
  <2>2. f[i] \in Nat /\ f[j] \in Nat BY <2>1, <1>7
  <2> HIDE DEF K
  <2>3. f[i] <= f[j] BY <2>1, <2>2
  <2> QED BY <2>1, <2>3, <1>6
<1>9. IsFiniteSet(K)
  BY <1>1, FS_Interval, FS_Subset
<1>10. Cardinality(C) <= Cardinality(K)
  <2> DEFINE g == [i \in K |-> f[i]]
  <2>1. \A k \in C : \E i \in K : g[i] = k
    BY <1>3, <1>5 DEF Accounts, n, R
  <2>2. g \in Surjection(K, C) BY <2>1 DEF Surjection
  <2> QED BY <2>2, <1>9, FS_Surjection
<1>11. Cardinality(K) >= N
  <2>1. IsFiniteSet(C)
    <3>1. IsFiniteSet(1..Len(log)) BY FS_Interval DEF Told
    <3>2. C \subseteq 1..Len(log) BY <1>5 DEF R, load_records, Told
    <3> QED BY <3>1, <3>2, FS_Subset
  <2>2. Cardinality(C) \in Nat /\ Cardinality(K) \in Nat BY <2>1, <1>9, FS_CardinalityType
  <2> QED BY <2>2, <1>4, <1>10, ReadinessAssumption
<1>12. n >= N /\ \A i \in (n - N + 1)..n : i \in K
  <2>1. N \in Nat /\ K \subseteq 1..n BY ReadinessAssumption
  <2> HIDE DEF K
  <2> QED BY <1>1, <1>8, <1>11, <2>1, LastOnes
<1>13. \A i \in K : rounds[i].good \/ rounds[i].closing
  BY <1>3, <1>5 DEF Accounts, n
<1> QED BY <1>12, <1>13 DEF Window, n

(* A clean record tells of a book that was reached, or of a round that was *)
(* to close it: a book that could not be read was taken for an empty one,  *)
(* and only a target of zero finds nothing wrong with that.                *)
LEMMA CleanTellsTheTruth ==
  ASSUME NEW orders \in BOOLEAN, NEW hitch \in Hitches, NEW target, NEW book,
         book = [leverage |-> book.leverage, neutral |-> book.neutral], book.neutral \in BOOLEAN,
         NEW read, read = IF hitch = "unread" THEN Nothing ELSE book
  PROVE  /\ Record(orders, hitch, read, target) \in Records
         /\ Record(orders, hitch, read, target).n_orders = orders
         /\ clean(Record(orders, hitch, read, target)) =>
              \/ hitch \in {"none", "unread"} /\ book = [leverage |-> target, neutral |-> TRUE]
              \/ target = 0
<1>1. read.neutral \in BOOLEAN BY DEF Nothing
<1>2. /\ Record(orders, hitch, read, target) \in Records
      /\ Record(orders, hitch, read, target).n_orders = orders
  BY <1>1 DEF Record, Records, check_neutrality
<1>3. ASSUME clean(Record(orders, hitch, read, target))
      PROVE  /\ hitch \in {"none", "unread"}
             /\ read.neutral /\ (target = 0 \/ read.leverage = target)
  BY <1>3 DEF clean, Record, check_neutrality, Hitches
<1>4. ASSUME clean(Record(orders, hitch, read, target)), target # 0
      PROVE  hitch = "none" /\ book = [leverage |-> target, neutral |-> TRUE]
  <2>1. hitch = "none" BY <1>3, <1>4 DEF Nothing
  <2>2. book.neutral = TRUE /\ book.leverage = target BY <1>3, <1>4, <2>1
  <2> QED BY <2>1, <2>2
<1> QED BY <1>2, <1>4

(* What the gate may rest on is kept when neither the book, nor the log,   *)
(* nor the rounds change.                                                  *)
LEMMA ToldStays == ASSUME Told, UNCHANGED <<held, log, rounds>> PROVE Told'
BY DEF Told, Well, AllKept, Accounts

(* A book that the exchange made of a plan is a book.                      *)
LEMMA FilledIsWell ==
  ASSUME Well, NEW target, NEW book \in Filled(target)
  PROVE  book = [leverage |-> book.leverage, neutral |-> book.neutral] /\ book.neutral \in BOOLEAN
<1>1. CASE book = held BY <1>1 DEF Well
<1>2. CASE book = [leverage |-> target, neutral |-> TRUE] BY <1>2
<1>3. CASE book \in Book BY <1>3 DEF Book
<1> QED BY <1>1, <1>2, <1>3 DEF Filled

(* A rebalance adds its record to the records, or adds none; if it sent    *)
(* orders and adds none, it did not keep its record.                       *)
LEMMA TradesTell ==
  ASSUME Told, NEW target, NEW hitch \in Hitches, NEW death, Trades(target, hitch, death)
  PROVE  Told'
<1> DEFINE meant == [leverage |-> target, neutral |-> TRUE]
           sends == held # meant
           book == held'
           read == IF hitch = "unread" THEN Nothing ELSE book
           r == Record(sends, hitch, read, target)
           done == [good |-> hitch \in {"none", "unread"} /\ book = meant,
                    closing |-> target = 0, kept |-> death = "none" /\ ~ CutOff(log)]
<1>1. /\ book \in Filled(target)
      /\ rounds' = IF sends THEN Append(rounds, done) ELSE rounds
      /\ log' = CASE death = "none" -> Appended(log, r)
                  [] death = "writing" -> Appended(log, Torn)
                  [] OTHER -> log
  BY DEF Trades
<1>2. Well' 
  <2>1. book = [leverage |-> book.leverage, neutral |-> book.neutral] /\ book.neutral \in BOOLEAN
    BY <1>1, FilledIsWell DEF Told
  <2> QED BY <2>1 DEF Well
<1>3. /\ r \in Records /\ r.n_orders = sends
      /\ clean(r) => (hitch \in {"none", "unread"} /\ book = meant) \/ target = 0
  <2>1. book = [leverage |-> book.leverage, neutral |-> book.neutral] /\ book.neutral \in BOOLEAN
    BY <1>2 DEF Well
  <2>2. sends \in BOOLEAN OBVIOUS
  <2> HIDE DEF sends, book
  <2> QED BY <2>1, <2>2, CleanTellsTheTruth
<1>4. /\ done \in Sent /\ done.kept = (death = "none" /\ ~ CutOff(log))
      /\ done.good = (hitch \in {"none", "unread"} /\ book = meant)
      /\ done.closing = (target = 0)
  BY DEF Sent
<1> HIDE DEF sends, r, done, book, meant
<1> DEFINE n == Len(rounds)
           R == load_records(log)
<1>5. /\ log \in Seq(Lines) /\ rounds \in Seq(Sent) /\ n \in Nat BY DEF Told
<1>6. log' \in Seq(Lines)
  <2>1. Appended(log, r) \in Seq(Lines) /\ Appended(log, Torn) \in Seq(Lines)
    BY <1>3, <1>5, AppendedKeeps
  <2> QED BY <1>1, <1>5, <2>1
<1>7. rounds' \in Seq(Sent) BY <1>1, <1>4, <1>5
<1>8. CASE ~ sends
  <2>1. /\ load_records(log') = R
        /\ \A k \in R : log'[k] = log[k]
    <3>1. CASE death = "none"
      <4>1. log' = Appended(log, r) BY <1>1, <3>1
      <4>2. /\ load_records(Appended(log, r)) = R
            /\ \A k \in R : Appended(log, r)[k] = log[k]
        BY <1>3, <1>5, <1>8, AppendedLeaves
      <4> QED BY <4>1, <4>2
    <3>2. CASE death = "writing"
      <4>1. log' = Appended(log, Torn) BY <1>1, <3>2
      <4>2. /\ load_records(Appended(log, Torn)) = R
            /\ \A k \in R : Appended(log, Torn)[k] = log[k]
        BY <1>5, AppendedLeaves
      <4> QED BY <4>1, <4>2
    <3>3. CASE death \notin {"none", "writing"}
      BY <1>1, <3>3
    <3> QED BY <3>1, <3>2, <3>3
  <2>2. rounds' = rounds BY <1>1, <1>8
  <2>3. AllKept' => AllKept BY <2>2 DEF AllKept
  <2>4. ASSUME AllKept'
        PROVE  \E f \in [1..Len(rounds') -> load_records(log')] : Accounts(f, rounds', log')
    <3>1. PICK f \in [1..n -> R] : Accounts(f, rounds, log) BY <2>3, <2>4 DEF Told
    <3>2. Accounts(f, rounds', log')
      <4> HIDE DEF R
      <4>1. \A i \in 1..Len(rounds) : log'[f[i]] = log[f[i]] BY <2>1
      <4> QED BY <2>1, <2>2, <3>1, <4>1 DEF Accounts, R
    <3> QED BY <3>1, <3>2, <2>1, <2>2
  <2> QED BY <1>2, <1>6, <1>7, <2>4 DEF Told
<1>9. CASE sends
  <2>1. /\ rounds' = Append(rounds, done) /\ Len(rounds') = n + 1
        /\ \A i \in 1..n : rounds'[i] = rounds[i]
        /\ rounds'[n + 1] = done
    BY <1>1, <1>4, <1>5, <1>9
  <2>2. AllKept' => AllKept /\ done.kept
    <3>1. 1..n \subseteq 1..(n + 1) /\ n + 1 \in 1..(n + 1) BY <1>5
    <3> QED BY <2>1, <3>1 DEF AllKept
  <2>3. ASSUME AllKept'
        PROVE  \E f \in [1..Len(rounds') -> load_records(log')] : Accounts(f, rounds', log')
    <3>1. log' = Appended(log, r) /\ ~ CutOff(log) BY <2>2, <2>3, <1>1, <1>4
    <3> DEFINE new == Len(log) + 1
    <3>2. /\ R \subseteq 1..Len(log) /\ Len(log) \in Nat
          /\ load_records(log') = R \cup {new}
          /\ \A k \in R : log'[k] = log[k]
          /\ log'[new] = r
      <4>1. /\ R \subseteq 1..Len(log) /\ Len(log) \in Nat
            /\ load_records(Appended(log, r)) = R \cup {new}
            /\ \A k \in R : Appended(log, r)[k] = log[k]
            /\ Appended(log, r)[new] = r
        <5>1. r \in Records /\ r.n_orders /\ log \in Seq(Lines) /\ Len(log) \in Nat
          BY <1>3, <1>5, <1>9
        <5> QED BY <5>1, <3>1, AppendedAdds
      <4> QED BY <4>1, <3>1
    <3>3. PICK f \in [1..n -> R] : Accounts(f, rounds, log) BY <2>2, <2>3 DEF Told
    <3> DEFINE g == [i \in 1..(n + 1) |-> IF i = n + 1 THEN new ELSE f[i]]
    <3> HIDE DEF R, new
    <3>4. /\ \A i \in 1..n : g[i] = f[i] /\ f[i] \in R
          /\ g[n + 1] = new
      BY <1>5
    <3>5. g \in [1..(n + 1) -> R \cup {new}] BY <1>5
    <3> HIDE DEF g
    <3>6. ASSUME NEW i \in 1..(n + 1), NEW j \in 1..(n + 1), i < j PROVE g[i] < g[j]
      <4>1. i \in 1..n BY <1>5, <3>6
      <4>2. CASE j = n + 1
        <5>1. g[i] \in 1..Len(log) /\ g[j] = new BY <3>2, <3>4, <4>1, <4>2
        <5> QED BY <5>1, <3>2 DEF new
      <4>3. CASE j # n + 1
        <5>1. j \in 1..n BY <1>5, <4>3
        <5> QED BY <4>1, <5>1, <3>3, <3>4, <3>6 DEF Accounts
      <4> QED BY <4>2, <4>3
    <3>7. ASSUME NEW k \in R \cup {new} PROVE \E i \in 1..(n + 1) : g[i] = k
      <4>1. CASE k = new BY <4>1, <3>4, <1>5
      <4>2. CASE k \in R
        <5>1. PICK i \in 1..n : f[i] = k BY <4>2, <3>3 DEF Accounts, R
        <5>2. i \in 1..(n + 1) BY <1>5
        <5> QED BY <5>1, <5>2, <3>4
      <4> QED BY <4>1, <4>2
    <3>8. ASSUME NEW i \in 1..(n + 1), clean(log'[g[i]])
          PROVE  rounds'[i].good \/ rounds'[i].closing
      <4>1. CASE i = n + 1
        BY <4>1, <3>8, <3>2, <3>4, <2>1, <1>3, <1>4
      <4>2. CASE i # n + 1
        <5>1. i \in 1..n BY <1>5, <4>2
        <5>2. log'[g[i]] = log[f[i]] BY <5>1, <3>2, <3>4
        <5> QED BY <5>1, <5>2, <3>3, <3>8, <2>1 DEF Accounts
      <4> QED BY <4>1, <4>2
    <3>9. Accounts(g, rounds', log') BY <3>2, <3>6, <3>7, <3>8, <2>1 DEF Accounts
    <3> QED BY <3>5, <3>9, <3>2, <2>1
  <2> QED BY <1>2, <1>6, <1>7, <2>3 DEF Told
<1> QED BY <1>8, <1>9

LEMMA NextTells == ASSUME Told, [Next]_vars PROVE Told'
<1>1. CASE Solves \/ Saves \/ Bar \/ Thaws \/ Over \/ UNCHANGED vars
  <2>1. UNCHANGED <<held, log, rounds>>
    BY <1>1 DEF Solves, Saves, Bar, Thaws, Over, vars, disk, history
  <2> QED BY <2>1, ToldStays
<1>2. ASSUME NEW bad, Beat(bad) PROVE Told'
  <2>1. \/ \E target : \E hitch \in Hitches : \E death : Trades(target, hitch, death)
        \/ \E outcome, tier, first : Stops(outcome, tier, first)
    <3> DEFINE troubles == bad \cup (IF held # state THEN {"books"} ELSE {})
               tier == Tier(Max({peak, wealth}))
               first == state = Nothing /\ ~ rebalanced
               due == since = Rhythm \/ ~ rebalanced
               target == _position_multiplier(tier, troubles)
               derisk == ~ due /\ state # Nothing /\ target = 0
               outcome == Outcome(troubles, account, tier, first, due, derisk, target)
    <3>1. \/ \E slip \in Slips(bad) : Trades(target, slip[1], slip[2])
          \/ Stops(outcome, tier, first)
      <4> HIDE DEF target, outcome, tier
      <4> QED BY <1>2 DEF Beat, target, outcome, tier
    <3>2. \A slip \in Slips(bad) : slip[1] \in Hitches
      BY DEF Slips, Smooth, Hitches
    <3> HIDE DEF target, outcome, tier, first
    <3>3. CASE \E slip \in Slips(bad) : Trades(target, slip[1], slip[2])
      BY <3>2, <3>3
    <3>4. CASE Stops(outcome, tier, first) BY <3>4
    <3> QED BY <3>1, <3>3, <3>4
  <2>2. CASE \E outcome, tier, first : Stops(outcome, tier, first)
    <3>1. UNCHANGED <<held, log, rounds>> BY <2>2 DEF Stops
    <3> QED BY <3>1, ToldStays
  <2> QED BY <2>1, <2>2, TradesTell
<1> QED BY <1>1, <1>2 DEF Next

(* The gate is not opened by what went wrong: as long as every round that  *)
(* sent orders left its record on a line of its own, an open gate means    *)
(* that the last N of them went as they were meant, or were to close.      *)
THEOREM GateTellsTheTruth == Spec => []GateIsHonest
<1>1. Init => Told
  <2> SUFFICES ASSUME Init PROVE Told OBVIOUS
  <2>1. Well BY DEF Init, Nothing, Well
  <2>2. log = <<>> /\ rounds = <<>> BY DEF Init
  <2>3. log \in Seq(Lines) /\ rounds \in Seq(Sent) /\ Len(rounds) = 0 BY <2>2
  <2>4. load_records(log) = {} BY <2>2 DEF load_records
  <2> DEFINE f == [i \in 1..0 |-> 0]
  <2>5. f \in [1..Len(rounds) -> load_records(log)] /\ Accounts(f, rounds, log)
    BY <2>3, <2>4 DEF Accounts
  <2> QED BY <2>1, <2>3, <2>5 DEF Told
<1>2. Told /\ [Next]_vars => Told' BY NextTells
<1>3. Told => GateIsHonest BY ToldIsHonest
<1> QED BY <1>1, <1>2, <1>3, PTL DEF Spec
-----------------------------------------------------------------------------
LEMMA SumsOverMoves ==
  ASSUME NEW f, NEW g, f = [r \in Moves |-> f[r]], g = [r \in Moves |-> g[r]],
         \A r \in Moves : f[r] \in Nat /\ g[r] \in Nat /\ f[r] <= g[r]
  PROVE  SumFunction(f) \in Nat /\ SumFunction(g) \in Nat /\ SumFunction(f) <= SumFunction(g)
<1>1. DOMAIN f = Moves /\ DOMAIN g = Moves OBVIOUS
<1>2. SumFunction(f) = SumFunctionOnSet(f, Moves) /\ SumFunction(g) = SumFunctionOnSet(g, Moves)
  BY <1>1 DEF SumFunction
<1>3. IsFiniteSet(Moves) BY GoalAssumption
<1> QED BY <1>2, <1>3, SumIsNat, SumCompares

LEMMA MinFacts ==
  ASSUME NEW S \in SUBSET Nat, S # {}
  PROVE  Min(S) \in S /\ \A y \in S : Min(S) <= y
BY LeastExists DEF Min

LEMMA MaxFacts ==
  ASSUME NEW B \in Nat, NEW S \in SUBSET (0..B), S # {}
  PROVE  Max(S) \in S /\ \A y \in S : y <= Max(S)
<1> DEFINE T == {n \in Nat : B - n \in S}
<1>1. T # {}
  <2>1. PICK x \in S : TRUE OBVIOUS
  <2>2. B - x \in Nat /\ B - (B - x) = x BY <2>1
  <2> QED BY <2>1, <2>2
<1>2. PICK n \in T : \A m \in T : n <= m
  <2>1. T \in SUBSET Nat OBVIOUS
  <2> HIDE DEF T
  <2> QED BY <1>1, <2>1, LeastExists
<1>3. B - n \in S /\ \A y \in S : B - n >= y
  <2>1. ASSUME NEW y \in S PROVE B - n >= y
    <3>1. y \in 0..B /\ B - y \in Nat /\ B - (B - y) = y OBVIOUS
    <3>2. B - y \in T BY <3>1
    <3>3. n <= B - y /\ n \in Nat BY <1>2, <3>2
    <3> QED BY <3>1, <3>3
  <2> QED BY <1>2, <2>1
<1> QED BY <1>3 DEF Max
-----------------------------------------------------------------------------
(* The policy.  What one more period does to the chances on the grid and   *)
(* to the best there are.  With Safe(j) and a book of size j the target is *)
(* kept by closing the book.                                               *)
Safe(j) == Target + Cost * j

Value(v, F) ==
  \A x \in wealth_grid, j \in leverage_grid :
    /\ v[<<x, j>>] \in 0..F
    /\ x = 0 => v[<<x, j>>] = 0
    /\ x >= Safe(j) => v[<<x, j>>] = F

Game(b, F) ==
  /\ \A x \in Reach, j \in leverage_grid :
       /\ b[<<x, j>>] \in 0..F
       /\ x = 0 => b[<<x, j>>] = 0
       /\ x >= Safe(j) => b[<<x, j>>] = F
  /\ \A x, y \in Reach, j \in leverage_grid : x <= y => b[<<x, j>>] <= b[<<y, j>>]

Close(v, b, k) ==
  \A x \in wealth_grid, j \in leverage_grid :
    b[<<OnReach(x - k), j>>] <= v[<<x, j>>] /\ v[<<x, j>>] <= b[<<OnReach(x + k), j>>]

Locks(p) ==
  \A x \in wealth_grid, j \in leverage_grid :
    p[<<x, j>>] \in leverage_grid /\ (x >= Safe(j) => p[<<x, j>>] = 0)

LEMMA Sizes ==
  /\ Target \in Nat /\ Top \in Nat /\ 0 < Target /\ Target <= Top
  /\ Cost \in Nat /\ 0 \in leverage_grid /\ leverage_grid \subseteq Nat
  /\ \A j \in leverage_grid : Safe(j) \in Nat /\ Target <= Safe(j) /\ Safe(j) <= Top
  /\ Safe(0) = Target
<1>1. /\ Target \in Nat /\ Top \in Nat /\ 0 < Target /\ Target <= Top
      /\ Cost \in Nat /\ 0 \in leverage_grid /\ leverage_grid \subseteq Nat
  BY GoalAssumption DEF leverage_grid
<1>2. Safe(0) = Target
  <2>1. Cost * 0 = 0 BY <1>1
  <2> QED BY <1>1, <2>1 DEF Safe
<1>3. ASSUME NEW j \in leverage_grid PROVE Safe(j) \in Nat /\ Target <= Safe(j) /\ Safe(j) <= Top
  <2>1. Cost * j \in Nat BY <1>1
  <2>2. Safe(j) <= Top BY HeadroomAssumption DEF Safe
  <2> QED BY <1>1, <2>1, <2>2 DEF Safe
<1> QED BY <1>1, <1>2, <1>3

LEMMA Nodes ==
  /\ \A x \in wealth_grid : x \in 0..Top /\ x % 2 = 0
  /\ \A x \in 0..Top : x % 2 = 0 => x \in wealth_grid
  /\ 0 \in wealth_grid /\ Top \in wealth_grid
<1>1. Top \in Nat /\ Top % 2 = 0 BY GoalAssumption
<1>2. ASSUME NEW x \in wealth_grid PROVE x \in 0..Top /\ x % 2 = 0
  <2>1. PICK i \in (Floor \div 2)..(Top \div 2) : x = 2 * i BY DEF wealth_grid
  <2>2. i \in 0..(Top \div 2) BY <1>1, <2>1 DEF Floor
  <2> QED BY <1>1, <2>1, <2>2
<1>3. ASSUME NEW x \in 0..Top, x % 2 = 0 PROVE x \in wealth_grid
  <2>1. (x \div 2) \in (Floor \div 2)..(Top \div 2) /\ x = 2 * (x \div 2) BY <1>1, <1>3 DEF Floor
  <2> QED BY <2>1 DEF wealth_grid
<1>4. 0 \in 0..Top /\ Top \in 0..Top /\ 0 % 2 = 0 BY <1>1
<1> QED BY <1>1, <1>2, <1>3, <1>4

LEMMA OnReachFacts ==
  /\ Reach = 0..(2 * Top) /\ wealth_grid \subseteq Reach
  /\ \A x \in Int : OnReach(x) \in Reach
  /\ \A x \in Reach : OnReach(x) = x /\ x \in Int
  /\ \A x, y \in Int : x <= y => OnReach(x) <= OnReach(y)
  /\ \A x \in Int : x <= 0 => OnReach(x) = 0
  /\ \A x \in Int : x >= 2 * Top => OnReach(x) = 2 * Top
<1>1. Reach = 0..(2 * Top) /\ Top \in Nat BY Sizes DEF Reach, Floor
<1>2. wealth_grid \subseteq Reach BY <1>1, Nodes
<1> QED BY <1>1, <1>2 DEF OnReach, Clip, Floor

(* What is read between the nodes.                                         *)
LEMMA InterpCases ==
  ASSUME NEW v, NEW y \in Int, NEW a
  PROVE  \/ y <= 0 /\ Interp(v, y, a) = 2 * v[<<0, a>>]
         \/ y >= Top /\ Interp(v, y, a) = 2 * v[<<Top, a>>]
         \/ y \in wealth_grid /\ Interp(v, y, a) = 2 * v[<<y, a>>]
         \/ /\ y - 1 \in wealth_grid /\ y + 1 \in wealth_grid
            /\ y >= Target => y - 1 >= Target
            /\ Interp(v, y, a) = v[<<y - 1, a>>] + v[<<y + 1, a>>]
<1>1. Top \in Nat /\ Top % 2 = 0 /\ Target \in Nat /\ Target % 2 = 0 BY GoalAssumption
<1>2. CASE y <= 0 BY <1>2 DEF Interp, Floor
<1>3. CASE y > 0 /\ y >= Top BY <1>1, <1>3 DEF Interp, Floor
<1>4. CASE y > 0 /\ y < Top /\ y % 2 = 0
  <2>1. y \in 0..Top BY <1>1, <1>4
  <2>2. y \in wealth_grid BY <1>4, <2>1, Nodes
  <2> QED BY <1>1, <1>4, <2>2 DEF Interp, Floor
<1>5. CASE y > 0 /\ y < Top /\ y % 2 # 0
  <2>1. /\ y - 1 \in 0..Top /\ (y - 1) % 2 = 0 /\ y + 1 \in 0..Top /\ (y + 1) % 2 = 0
        /\ y >= Target => y - 1 >= Target
    BY <1>1, <1>5
  <2>2. y - 1 \in wealth_grid /\ y + 1 \in wealth_grid BY <2>1, Nodes
  <2> QED BY <1>1, <1>5, <2>1, <2>2 DEF Interp, Floor
<1> QED BY <1>1, <1>2, <1>3, <1>4, <1>5

LEMMA InterpFacts ==
  ASSUME NEW F \in Nat, NEW v, Value(v, F), NEW y \in Int, NEW a \in leverage_grid
  PROVE  /\ Interp(v, y, a) \in 0..(2 * F)
         /\ a = 0 /\ y >= Target => Interp(v, y, a) = 2 * F
<1>1. CASE y <= 0 /\ Interp(v, y, a) = 2 * v[<<0, a>>]
  <2>1. v[<<0, a>>] \in 0..F BY Nodes DEF Value
  <2> QED BY <1>1, <2>1, Sizes
<1>2. CASE y >= Top /\ Interp(v, y, a) = 2 * v[<<Top, a>>]
  <2>1. v[<<Top, a>>] = F BY Nodes, Sizes DEF Value
  <2> QED BY <1>2, <2>1
<1>3. CASE y \in wealth_grid /\ Interp(v, y, a) = 2 * v[<<y, a>>]
  <2>1. v[<<y, a>>] \in 0..F BY <1>3 DEF Value
  <2>2. a = 0 /\ y >= Target => v[<<y, a>>] = F BY <1>3, Sizes DEF Value
  <2> QED BY <1>3, <2>1, <2>2
<1>4. CASE /\ y - 1 \in wealth_grid /\ y + 1 \in wealth_grid
           /\ y >= Target => y - 1 >= Target
           /\ Interp(v, y, a) = v[<<y - 1, a>>] + v[<<y + 1, a>>]
  <2>1. v[<<y - 1, a>>] \in 0..F /\ v[<<y + 1, a>>] \in 0..F BY <1>4 DEF Value
  <2>2. a = 0 /\ y >= Target => v[<<y - 1, a>>] = F /\ v[<<y + 1, a>>] = F
    <3>1. y >= Target => y - 1 >= Target /\ y + 1 >= Target BY <1>4, Sizes
    <3> QED BY <1>4, <3>1, Sizes DEF Value
  <2> QED BY <1>4, <2>1, <2>2
<1> QED BY <1>1, <1>2, <1>3, <1>4, InterpCases

LEMMA InterpClose ==
  ASSUME NEW F \in Nat, NEW v, Value(v, F), NEW b, Game(b, F), NEW k \in Nat, Close(v, b, k),
         NEW y \in Int, NEW a \in leverage_grid
  PROVE  /\ 2 * b[<<OnReach(y - k - 1), a>>] <= Interp(v, y, a)
         /\ Interp(v, y, a) <= 2 * b[<<OnReach(y + k + 1), a>>]
<1> DEFINE lo == OnReach(y - k - 1)
           hi == OnReach(y + k + 1)
<1>0. lo \in Reach /\ hi \in Reach /\ lo \in Int /\ hi \in Int BY OnReachFacts
<1>1. b[<<lo, a>>] \in 0..F /\ b[<<hi, a>>] \in 0..F BY <1>0 DEF Game
<1>2. CASE y <= 0 /\ Interp(v, y, a) = 2 * v[<<0, a>>]
  <2>1. v[<<0, a>>] = 0 BY Nodes DEF Value
  <2>2. lo = 0 BY <1>2, OnReachFacts
  <2>3. b[<<lo, a>>] = 0 BY <1>0, <2>2 DEF Game
  <2> HIDE DEF lo, hi
  <2>4. 2 * b[<<lo, a>>] <= Interp(v, y, a) /\ Interp(v, y, a) <= 2 * b[<<hi, a>>]
    BY <1>1, <1>2, <2>1, <2>3
  <2> QED BY <2>4 DEF lo, hi
<1>3. CASE y >= Top /\ Interp(v, y, a) = 2 * v[<<Top, a>>]
  <2>1. v[<<Top, a>>] = F BY Nodes, Sizes DEF Value
  <2>2. hi >= Top
    <3>1. Top \in Reach /\ Top \in Int BY OnReachFacts, Sizes
    <3>2. OnReach(Top) = Top /\ Top <= y + k + 1 BY <1>3, <3>1, OnReachFacts
    <3> QED BY <3>1, <3>2, OnReachFacts
  <2>3. hi >= Safe(a) BY <1>0, <2>2, Sizes
  <2>4. b[<<hi, a>>] = F BY <1>0, <2>3 DEF Game
  <2> HIDE DEF lo, hi
  <2>5. 2 * b[<<lo, a>>] <= Interp(v, y, a) /\ Interp(v, y, a) <= 2 * b[<<hi, a>>]
    BY <1>1, <1>3, <2>1, <2>4
  <2> QED BY <2>5 DEF lo, hi
<1>4. CASE y \in wealth_grid /\ Interp(v, y, a) = 2 * v[<<y, a>>]
  <2> DEFINE l == OnReach(y - k)
             h == OnReach(y + k)
  <2>1. b[<<l, a>>] <= v[<<y, a>>] /\ v[<<y, a>>] <= b[<<h, a>>] /\ v[<<y, a>>] \in 0..F
    BY <1>4 DEF Close, Value
  <2>2. l \in Reach /\ h \in Reach /\ lo <= l /\ h <= hi
    <3>1. y - k - 1 <= y - k /\ y + k <= y + k + 1 OBVIOUS
    <3> QED BY <3>1, OnReachFacts
  <2> HIDE DEF lo, hi, l, h
  <2>3. b[<<lo, a>>] <= b[<<l, a>>] /\ b[<<h, a>>] <= b[<<hi, a>>] BY <1>0, <2>2 DEF Game
  <2>4. b[<<l, a>>] \in 0..F /\ b[<<h, a>>] \in 0..F BY <2>2 DEF Game
  <2>5. 2 * b[<<lo, a>>] <= Interp(v, y, a) /\ Interp(v, y, a) <= 2 * b[<<hi, a>>]
    BY <1>1, <1>4, <2>1, <2>3, <2>4
  <2> QED BY <2>5 DEF lo, hi
<1>5. CASE /\ y - 1 \in wealth_grid /\ y + 1 \in wealth_grid
           /\ Interp(v, y, a) = v[<<y - 1, a>>] + v[<<y + 1, a>>]
  <2> DEFINE l1 == OnReach(y - 1 - k)
             l2 == OnReach(y + 1 - k)
             h1 == OnReach(y - 1 + k)
             h2 == OnReach(y + 1 + k)
  <2>1. /\ b[<<l1, a>>] <= v[<<y - 1, a>>] /\ v[<<y - 1, a>>] <= b[<<h1, a>>] /\ v[<<y - 1, a>>] \in 0..F
        /\ b[<<l2, a>>] <= v[<<y + 1, a>>] /\ v[<<y + 1, a>>] <= b[<<h2, a>>] /\ v[<<y + 1, a>>] \in 0..F
    BY <1>5 DEF Close, Value
  <2>2. /\ l1 \in Reach /\ l2 \in Reach /\ h1 \in Reach /\ h2 \in Reach
        /\ lo <= l1 /\ lo <= l2 /\ h1 <= hi /\ h2 <= hi
    <3>1. /\ y - k - 1 <= y - 1 - k /\ y - k - 1 <= y + 1 - k
          /\ y - 1 + k <= y + k + 1 /\ y + 1 + k <= y + k + 1
      OBVIOUS
    <3> QED BY <3>1, OnReachFacts
  <2> HIDE DEF lo, hi, l1, l2, h1, h2
  <2>3. /\ b[<<lo, a>>] <= b[<<l1, a>>] /\ b[<<lo, a>>] <= b[<<l2, a>>]
        /\ b[<<h1, a>>] <= b[<<hi, a>>] /\ b[<<h2, a>>] <= b[<<hi, a>>]
    BY <1>0, <2>2 DEF Game
  <2>4. /\ b[<<l1, a>>] \in 0..F /\ b[<<l2, a>>] \in 0..F
        /\ b[<<h1, a>>] \in 0..F /\ b[<<h2, a>>] \in 0..F
    BY <2>2 DEF Game
  <2>5. 2 * b[<<lo, a>>] <= Interp(v, y, a) /\ Interp(v, y, a) <= 2 * b[<<hi, a>>]
    BY <1>1, <1>5, <2>1, <2>3, <2>4
  <2> QED BY <2>5 DEF lo, hi
<1> QED BY <1>2, <1>3, <1>4, <1>5, InterpCases

(* The count that stands for certainty with one more period left.          *)
Full(F) == SumFunction([r \in Moves |-> 2 * F])

LEMMA StepFacts ==
  ASSUME NEW j \in leverage_grid, NEW a \in leverage_grid, NEW r \in Moves
  PROVE  /\ Step(j, a, r) \in Int
         /\ \A x \in Int : x >= Safe(j) => x + Step(j, 0, r) >= Target
<1>1. j \in Nat /\ a \in Nat /\ r \in Int /\ Cost \in Nat /\ Target \in Nat
  BY Sizes, GoalAssumption
<1>2. Distance(j, a) \in Nat /\ Distance(j, 0) = j BY <1>1 DEF Distance
<1>3. a * r \in Int /\ Cost * Distance(j, a) \in Int BY <1>1, <1>2
<1>4. Step(j, a, r) \in Int BY <1>3 DEF Step
<1>5. 0 * r = 0 BY <1>1
<1>6. Step(j, 0, r) = 0 - Cost * j BY <1>2, <1>5 DEF Step
<1>7. Cost * j \in Int BY <1>1
<1> QED BY <1>1, <1>4, <1>6, <1>7 DEF Safe

LEMMA FullIsNat == ASSUME NEW F \in Nat PROVE Full(F) \in Nat
<1> DEFINE f == [r \in Moves |-> 2 * F]
<1>1. f = [r \in Moves |-> f[r]] /\ \A r \in Moves : f[r] \in Nat /\ f[r] <= f[r] OBVIOUS
<1> HIDE DEF f
<1>2. SumFunction(f) \in Nat BY <1>1, SumsOverMoves
<1> QED BY <1>2 DEF Full, f

LEMMA ExpectedFacts ==
  ASSUME NEW F \in Nat, NEW v, Value(v, F), NEW x \in Int,
         NEW j \in leverage_grid, NEW a \in leverage_grid
  PROVE  /\ Expected(v, x, j, a) \in 0..Full(F)
         /\ a = 0 /\ x >= Safe(j) => Expected(v, x, j, a) = Full(F)
<1> DEFINE f == [r \in Moves |-> Interp(v, x + Step(j, a, r), a)]
           g == [r \in Moves |-> 2 * F]
<1>1. \A r \in Moves : f[r] \in 0..(2 * F)
  <2>1. ASSUME NEW r \in Moves PROVE Interp(v, x + Step(j, a, r), a) \in 0..(2 * F)
    <3>1. x + Step(j, a, r) \in Int BY StepFacts
    <3> QED BY <3>1, InterpFacts
  <2> QED BY <2>1
<1>2. f = [r \in Moves |-> f[r]] /\ g = [r \in Moves |-> g[r]] /\ \A r \in Moves : g[r] = 2 * F
  OBVIOUS
<1>3. a = 0 /\ x >= Safe(j) => f = g
  <2> SUFFICES ASSUME a = 0, x >= Safe(j) PROVE f = g OBVIOUS
  <2>1. ASSUME NEW r \in Moves PROVE Interp(v, x + Step(j, a, r), a) = 2 * F
    <3>1. x + Step(j, a, r) \in Int /\ x + Step(j, a, r) >= Target BY StepFacts
    <3> QED BY <3>1, InterpFacts
  <2> QED BY <2>1
<1>4. Expected(v, x, j, a) = SumFunction(f) /\ Full(F) = SumFunction(g) BY DEF Expected, Full
<1> HIDE DEF f, g
<1>5. \A r \in Moves : f[r] \in Nat /\ g[r] \in Nat /\ f[r] <= g[r] BY <1>1, <1>2
<1>6. SumFunction(f) \in Nat /\ SumFunction(g) \in Nat /\ SumFunction(f) <= SumFunction(g)
  BY <1>2, <1>5, SumsOverMoves
<1> QED BY <1>3, <1>4, <1>6

LEMMA PlayedFacts ==
  ASSUME NEW F \in Nat, NEW b, Game(b, F), NEW x \in Int,
         NEW j \in leverage_grid, NEW a \in leverage_grid
  PROVE  /\ Played(b, x, j, a) \in 0..Full(F)
         /\ a = 0 /\ x >= Safe(j) => Played(b, x, j, a) = Full(F)
         /\ \A y \in Int : x <= y => Played(b, x, j, a) <= Played(b, y, j, a)
<1> DEFINE f(z) == [r \in Moves |-> 2 * b[<<OnReach(z + Step(j, a, r)), a>>]]
           g == [r \in Moves |-> 2 * F]
<1>1. ASSUME NEW z \in Int, NEW r \in Moves
      PROVE  /\ OnReach(z + Step(j, a, r)) \in Reach
             /\ b[<<OnReach(z + Step(j, a, r)), a>>] \in 0..F
  <2>1. z + Step(j, a, r) \in Int BY StepFacts
  <2>2. OnReach(z + Step(j, a, r)) \in Reach BY <2>1, OnReachFacts
  <2> QED BY <2>2 DEF Game
<1>2. \A z \in Int : f(z) = [r \in Moves |-> f(z)[r]] /\ \A r \in Moves : f(z)[r] \in 0..(2 * F)
  BY <1>1
<1>3. g = [r \in Moves |-> g[r]] /\ \A r \in Moves : g[r] = 2 * F OBVIOUS
<1>4. a = 0 /\ x >= Safe(j) => f(x) = g
  <2> SUFFICES ASSUME a = 0, x >= Safe(j) PROVE f(x) = g OBVIOUS
  <2>1. ASSUME NEW r \in Moves PROVE b[<<OnReach(x + Step(j, a, r)), a>>] = F
    <3> DEFINE y == x + Step(j, a, r)
    <3>1. y \in Int /\ y >= Target BY StepFacts
    <3> HIDE DEF y
    <3>2. Target \in Reach BY Sizes, OnReachFacts
    <3>3. OnReach(y) \in Reach /\ OnReach(y) >= Target
      BY <3>1, <3>2, OnReachFacts, Sizes
    <3>4. OnReach(y) >= Safe(a) BY <3>3, Sizes
    <3> QED BY <3>3, <3>4 DEF Game, y
  <2> QED BY <2>1
<1>5. ASSUME NEW y \in Int, x <= y, NEW r \in Moves PROVE f(x)[r] <= f(y)[r]
  <2>1. x + Step(j, a, r) \in Int /\ y + Step(j, a, r) \in Int BY StepFacts
  <2>2. OnReach(x + Step(j, a, r)) <= OnReach(y + Step(j, a, r))
    <3> DEFINE st == Step(j, a, r)
               p == x + st
               q == y + st
    <3>1. st \in Int BY StepFacts
    <3> HIDE DEF st
    <3>2. p \in Int /\ q \in Int /\ p <= q BY <1>5, <3>1
    <3> HIDE DEF p, q
    <3>3. OnReach(p) <= OnReach(q) BY <3>2, OnReachFacts
    <3> QED BY <3>3 DEF p, q, st
  <2>3. b[<<OnReach(x + Step(j, a, r)), a>>] <= b[<<OnReach(y + Step(j, a, r)), a>>]
    BY <1>1, <2>2 DEF Game
  <2>4. b[<<OnReach(x + Step(j, a, r)), a>>] \in Nat /\ b[<<OnReach(y + Step(j, a, r)), a>>] \in Nat
    BY <1>1
  <2> QED BY <2>3, <2>4
<1>6. /\ \A z \in Int : Played(b, z, j, a) = SumFunction(f(z))
      /\ Full(F) = SumFunction(g)
  BY DEF Played, Full
<1> HIDE DEF f, g
<1>7. \A r \in Moves : f(x)[r] \in Nat /\ g[r] \in Nat /\ f(x)[r] <= g[r] BY <1>2, <1>3
<1>8. SumFunction(f(x)) \in Nat /\ SumFunction(g) \in Nat /\ SumFunction(f(x)) <= SumFunction(g)
  BY <1>2, <1>3, <1>7, SumsOverMoves
<1>9. ASSUME NEW y \in Int, x <= y PROVE SumFunction(f(x)) <= SumFunction(f(y))
  <2>1. \A r \in Moves : f(x)[r] \in Nat /\ f(y)[r] \in Nat /\ f(x)[r] <= f(y)[r]
    BY <1>2, <1>5, <1>9
  <2> QED BY <1>2, <2>1, SumsOverMoves
<1> QED BY <1>4, <1>6, <1>8, <1>9

LEMMA BestFacts ==
  ASSUME NEW F \in Nat, NEW v, Value(v, F), NEW x \in Int, NEW j \in leverage_grid
  PROVE  /\ Best(v, x, j).chance \in 0..Full(F)
         /\ \A a \in leverage_grid : Expected(v, x, j, a) <= Best(v, x, j).chance
         /\ \E a \in leverage_grid : Expected(v, x, j, a) = Best(v, x, j).chance
         /\ Best(v, x, j).leverage \in leverage_grid
         /\ x >= Safe(j) => Best(v, x, j).chance = Full(F) /\ Best(v, x, j).leverage = 0
<1> DEFINE S == {Expected(v, x, j, a) : a \in leverage_grid}
           A == {a \in leverage_grid : Expected(v, x, j, a) = Max(S)}
<1>1. Best(v, x, j).chance = Max(S) /\ Best(v, x, j).leverage = Min(A) BY DEF Best
<1>2. Full(F) \in Nat /\ S \in SUBSET (0..Full(F)) /\ S # {}
  <2>1. \A a \in leverage_grid : Expected(v, x, j, a) \in 0..Full(F) BY ExpectedFacts
  <2> QED BY <2>1, FullIsNat, Sizes
<1>3. Max(S) \in S /\ \A y \in S : y <= Max(S)
  <2> HIDE DEF S
  <2> QED BY <1>2, MaxFacts
<1>4. A # {} /\ A \in SUBSET Nat BY <1>3, Sizes
<1>5. Min(A) \in A /\ \A y \in A : Min(A) <= y
  <2> HIDE DEF A
  <2> QED BY <1>4, MinFacts
<1>6. ASSUME x >= Safe(j) PROVE Max(S) = Full(F) /\ Min(A) = 0
  <2>1. 0 \in leverage_grid /\ Expected(v, x, j, 0) = Full(F) BY <1>6, Sizes, ExpectedFacts
  <2>2. Full(F) \in S BY <2>1
  <2>3. Max(S) = Full(F)
    <3> HIDE DEF S
    <3>1. Max(S) \in 0..Full(F) /\ Full(F) <= Max(S) BY <1>2, <1>3, <2>2
    <3> QED BY <1>2, <3>1
  <2>4. 0 \in A BY <2>1, <2>3
  <2> HIDE DEF A
  <2>5. Min(A) <= 0 /\ Min(A) \in Nat BY <1>4, <1>5, <2>4
  <2> QED BY <2>3, <2>5
<1>7. Max(S) \in 0..Full(F) BY <1>2, <1>3
<1>8. \A a \in leverage_grid : Expected(v, x, j, a) <= Max(S) BY <1>3
<1>9. \E a \in leverage_grid : Expected(v, x, j, a) = Max(S) BY <1>3
<1>10. Min(A) \in leverage_grid BY <1>5
<1> HIDE DEF S, A
<1> QED BY <1>1, <1>6, <1>7, <1>8, <1>9, <1>10

LEMMA SolvedAt ==
  ASSUME NEW v, NEW x \in wealth_grid, NEW j \in leverage_grid
  PROVE  /\ Solved(v).value[<<x, j>>] = IF x = 0 THEN 0 ELSE Best(v, x, j).chance
         /\ Solved(v).policy[<<x, j>>] = Best(v, x, j).leverage
<1> DEFINE best0 == [s \in wealth_grid \X leverage_grid |-> Best(v, s[1], s[2])]
           s0 == <<x, j>>
<1>1. s0 \in wealth_grid \X leverage_grid /\ s0[1] = x /\ s0[2] = j OBVIOUS
<1>2. DOMAIN best0 = wealth_grid \X leverage_grid /\ best0[s0] = Best(v, x, j) BY <1>1
<1>3. /\ Solved(v).value = [s \in DOMAIN best0 |-> IF s[1] = Floor THEN 0 ELSE best0[s].chance]
      /\ Solved(v).policy = [s \in DOMAIN best0 |-> best0[s].leverage]
  BY DEF Solved
<1> HIDE DEF best0, s0
<1>4. /\ Solved(v).value[s0] = IF s0[1] = Floor THEN 0 ELSE best0[s0].chance
      /\ Solved(v).policy[s0] = best0[s0].leverage
  BY <1>1, <1>2, <1>3
<1> QED BY <1>1, <1>2, <1>4 DEF s0, Floor

LEMMA BestBeforeAt ==
  ASSUME NEW b, NEW x \in Reach, NEW j \in leverage_grid
  PROVE  BestBefore(b)[<<x, j>>] =
           IF x = 0 THEN 0 ELSE Max({Played(b, x, j, a) : a \in leverage_grid})
BY DEF BestBefore, Floor

LEMMA SolvedKeeps ==
  ASSUME NEW F \in Nat, NEW v, Value(v, F)
  PROVE  Value(Solved(v).value, Full(F)) /\ Locks(Solved(v).policy)
<1>1. ASSUME NEW x \in wealth_grid, NEW j \in leverage_grid
      PROVE  /\ Solved(v).value[<<x, j>>] \in 0..Full(F)
             /\ x = 0 => Solved(v).value[<<x, j>>] = 0
             /\ x >= Safe(j) => Solved(v).value[<<x, j>>] = Full(F)
             /\ Solved(v).policy[<<x, j>>] \in leverage_grid
             /\ x >= Safe(j) => Solved(v).policy[<<x, j>>] = 0
  <2>1. x \in Int BY Nodes
  <2>2. x >= Safe(j) => x # 0 BY Sizes
  <2> QED BY <2>1, <2>2, BestFacts, SolvedAt, FullIsNat
<1> QED BY <1>1 DEF Value, Locks

LEMMA BestBeforeKeeps ==
  ASSUME NEW F \in Nat, NEW b, Game(b, F)
  PROVE  /\ Game(BestBefore(b), Full(F))
         /\ \A x \in Reach, j \in leverage_grid : x # 0 =>
              /\ \A a \in leverage_grid : Played(b, x, j, a) <= BestBefore(b)[<<x, j>>]
              /\ \E a \in leverage_grid : Played(b, x, j, a) = BestBefore(b)[<<x, j>>]
<1>1. ASSUME NEW x \in Reach, NEW j \in leverage_grid, x # 0
      PROVE  /\ BestBefore(b)[<<x, j>>] \in 0..Full(F)
             /\ x >= Safe(j) => BestBefore(b)[<<x, j>>] = Full(F)
             /\ \A a \in leverage_grid : Played(b, x, j, a) <= BestBefore(b)[<<x, j>>]
             /\ \E a \in leverage_grid : Played(b, x, j, a) = BestBefore(b)[<<x, j>>]
  <2> DEFINE S == {Played(b, x, j, a) : a \in leverage_grid}
  <2>1. x \in Int BY OnReachFacts
  <2>2. \A a \in leverage_grid : Played(b, x, j, a) \in 0..Full(F) BY <2>1, PlayedFacts
  <2>3. Full(F) \in Nat /\ S \in SUBSET (0..Full(F)) /\ S # {} BY <2>2, FullIsNat, Sizes
  <2>4. Max(S) \in S /\ \A y \in S : y <= Max(S)
    <3> HIDE DEF S
    <3> QED BY <2>3, MaxFacts
  <2>5. BestBefore(b)[<<x, j>>] = Max(S) BY <1>1, BestBeforeAt
  <2>6. x >= Safe(j) => Max(S) = Full(F)
    <3> SUFFICES ASSUME x >= Safe(j) PROVE Max(S) = Full(F) OBVIOUS
    <3>1. Played(b, x, j, 0) = Full(F) /\ 0 \in leverage_grid BY <2>1, PlayedFacts, Sizes
    <3>2. Full(F) \in S BY <3>1
    <3> HIDE DEF S
    <3>3. Max(S) \in 0..Full(F) /\ Full(F) <= Max(S) BY <2>3, <2>4, <3>2
    <3> QED BY <2>3, <3>3
  <2>7. \A a \in leverage_grid : Played(b, x, j, a) <= Max(S) BY <2>4
  <2>8. \E a \in leverage_grid : Played(b, x, j, a) = Max(S) BY <2>4
  <2>9. Max(S) \in 0..Full(F) BY <2>3, <2>4
  <2> HIDE DEF S
  <2> QED BY <2>5, <2>6, <2>7, <2>8, <2>9
<1>2. \A j \in leverage_grid : 0 \in Reach /\ BestBefore(b)[<<0, j>>] = 0
  <2>1. 0 \in Reach BY OnReachFacts, Sizes
  <2> QED BY <2>1, BestBeforeAt
<1>3. ASSUME NEW x \in Reach, NEW y \in Reach, NEW j \in leverage_grid, x <= y
      PROVE  BestBefore(b)[<<x, j>>] <= BestBefore(b)[<<y, j>>]
  <2>1. x \in Nat /\ y \in Nat BY OnReachFacts, Sizes
  <2>2. CASE x = 0
    <3>1. BestBefore(b)[<<y, j>>] \in Nat BY <1>1, <1>2
    <3> QED BY <1>2, <2>2, <3>1
  <2>3. CASE x # 0
    <3>1. y # 0 BY <1>3, <2>1, <2>3
    <3>2. PICK a \in leverage_grid : Played(b, x, j, a) = BestBefore(b)[<<x, j>>] BY <1>1, <2>3
    <3>3. Played(b, x, j, a) <= Played(b, y, j, a) BY <1>3, <2>1, PlayedFacts
    <3>4. Played(b, y, j, a) <= BestBefore(b)[<<y, j>>] BY <1>1, <3>1
    <3>5. /\ Played(b, x, j, a) \in 0..Full(F) /\ Played(b, y, j, a) \in 0..Full(F)
      BY <2>1, PlayedFacts
    <3>6. BestBefore(b)[<<y, j>>] \in 0..Full(F) BY <1>1, <3>1
    <3> QED BY <3>2, <3>3, <3>4, <3>5, <3>6
  <2> QED BY <2>2, <2>3
<1>4. ASSUME NEW x \in Reach, NEW j \in leverage_grid
      PROVE  /\ BestBefore(b)[<<x, j>>] \in 0..Full(F)
             /\ x = 0 => BestBefore(b)[<<x, j>>] = 0
             /\ x >= Safe(j) => BestBefore(b)[<<x, j>>] = Full(F)
  <2>1. CASE x = 0
    <3>1. Full(F) \in Nat /\ ~ (0 >= Safe(j)) BY FullIsNat, Sizes
    <3> QED BY <1>2, <2>1, <3>1
  <2>2. CASE x # 0 BY <1>1, <2>2
  <2> QED BY <2>1, <2>2
<1>5. Game(BestBefore(b), Full(F)) BY <1>3, <1>4 DEF Game
<1> QED BY <1>1, <1>5

LEMMA SolvedClose ==
  ASSUME NEW F \in Nat, NEW v, Value(v, F), NEW b, Game(b, F), NEW k \in Nat, Close(v, b, k)
  PROVE  Close(Solved(v).value, BestBefore(b), k + 1)
<1> SUFFICES ASSUME NEW x \in wealth_grid, NEW j \in leverage_grid
             PROVE  /\ BestBefore(b)[<<OnReach(x - (k + 1)), j>>] <= Solved(v).value[<<x, j>>]
                    /\ Solved(v).value[<<x, j>>] <= BestBefore(b)[<<OnReach(x + (k + 1)), j>>]
  BY DEF Close
<1> DEFINE lo == OnReach(x - (k + 1))
           hi == OnReach(x + (k + 1))
           new == Solved(v).value[<<x, j>>]
           bl == BestBefore(b)[<<lo, j>>]
           bh == BestBefore(b)[<<hi, j>>]
<1>1. x \in Nat /\ x <= Top /\ Top \in Nat BY Nodes, Sizes
<1>2. lo \in Reach /\ hi \in Reach BY <1>1, OnReachFacts
<1>3. Full(F) \in Nat /\ new \in 0..Full(F) /\ (x = 0 => new = 0) BY FullIsNat, SolvedKeeps DEF Value
<1>4. /\ bl \in 0..Full(F) /\ bh \in 0..Full(F)
      /\ lo = 0 => bl = 0
      /\ hi >= Safe(j) => bh = Full(F)
  BY <1>2, BestBeforeKeeps DEF Game
<1>5. x # 0 => new = Best(v, x, j).chance BY SolvedAt
(* What the grid promises of an action lies between what the game gives    *)
(* for it from a little lower and from a little higher.                    *)
<1>6. ASSUME NEW z \in Int, NEW a \in leverage_grid, z = x - (k + 1)
      PROVE  Played(b, z, j, a) <= Expected(v, x, j, a)
  <2> DEFINE f == [r \in Moves |-> 2 * b[<<OnReach(z + Step(j, a, r)), a>>]]
             g == [r \in Moves |-> Interp(v, x + Step(j, a, r), a)]
  <2>1. ASSUME NEW r \in Moves PROVE f[r] \in Nat /\ g[r] \in Nat /\ f[r] <= g[r]
    <3> DEFINE y == x + Step(j, a, r)
    <3>1. y \in Int /\ Step(j, a, r) \in Int BY <1>1, StepFacts
    <3>2. z + Step(j, a, r) = y - k - 1 BY <1>1, <1>6, <3>1
    <3>3. f[r] = 2 * b[<<OnReach(y - k - 1), a>>] /\ g[r] = Interp(v, y, a) BY <3>2
    <3> HIDE DEF y, f, g
    <3>4. 2 * b[<<OnReach(y - k - 1), a>>] <= Interp(v, y, a) BY <3>1, InterpClose
    <3>5. Interp(v, y, a) \in Nat BY <3>1, InterpFacts
    <3>6. y - k - 1 \in Int BY <3>1
    <3>7. b[<<OnReach(y - k - 1), a>>] \in 0..F BY <3>6, OnReachFacts DEF Game
    <3> QED BY <3>3, <3>4, <3>5, <3>7
  <2>2. f = [r \in Moves |-> f[r]] /\ g = [r \in Moves |-> g[r]] OBVIOUS
  <2>3. Played(b, z, j, a) = SumFunction(f) /\ Expected(v, x, j, a) = SumFunction(g)
    BY DEF Played, Expected
  <2> HIDE DEF f, g
  <2> QED BY <2>1, <2>2, <2>3, SumsOverMoves
<1>7. ASSUME NEW z \in Int, NEW a \in leverage_grid, z = x + (k + 1)
      PROVE  Expected(v, x, j, a) <= Played(b, z, j, a)
  <2> DEFINE f == [r \in Moves |-> Interp(v, x + Step(j, a, r), a)]
             g == [r \in Moves |-> 2 * b[<<OnReach(z + Step(j, a, r)), a>>]]
  <2>1. ASSUME NEW r \in Moves PROVE f[r] \in Nat /\ g[r] \in Nat /\ f[r] <= g[r]
    <3> DEFINE y == x + Step(j, a, r)
    <3>1. y \in Int /\ Step(j, a, r) \in Int BY <1>1, StepFacts
    <3>2. z + Step(j, a, r) = y + k + 1 BY <1>1, <1>7, <3>1
    <3>3. g[r] = 2 * b[<<OnReach(y + k + 1), a>>] /\ f[r] = Interp(v, y, a) BY <3>2
    <3> HIDE DEF y, f, g
    <3>4. Interp(v, y, a) <= 2 * b[<<OnReach(y + k + 1), a>>] BY <3>1, InterpClose
    <3>5. Interp(v, y, a) \in Nat BY <3>1, InterpFacts
    <3>6. y + k + 1 \in Int BY <3>1
    <3>7. b[<<OnReach(y + k + 1), a>>] \in 0..F BY <3>6, OnReachFacts DEF Game
    <3> QED BY <3>3, <3>4, <3>5, <3>7
  <2>2. f = [r \in Moves |-> f[r]] /\ g = [r \in Moves |-> g[r]] OBVIOUS
  <2>3. Played(b, z, j, a) = SumFunction(g) /\ Expected(v, x, j, a) = SumFunction(f)
    BY DEF Played, Expected
  <2> HIDE DEF f, g
  <2> QED BY <2>1, <2>2, <2>3, SumsOverMoves
<1>8. bl <= new
  <2>1. CASE x - (k + 1) <= 0
    <3>1. lo = 0 BY <1>1, <2>1, OnReachFacts
    <3> HIDE DEF lo, new, bl
    <3> QED BY <1>3, <1>4, <3>1
  <2>2. CASE x - (k + 1) > 0
    <3> DEFINE z == x - (k + 1)
    <3>1. z \in Reach /\ z # 0 /\ z \in Int /\ x # 0 BY <1>1, <2>2, OnReachFacts
    <3>2. lo = z BY <3>1, OnReachFacts
    <3>3. PICK a \in leverage_grid : Played(b, z, j, a) = BestBefore(b)[<<z, j>>]
      <4> HIDE DEF z
      <4> QED BY <3>1, BestBeforeKeeps
    <3>4. Played(b, z, j, a) <= Expected(v, x, j, a) BY <3>1, <1>6
    <3>5. Expected(v, x, j, a) <= new BY <1>1, <1>5, <3>1, BestFacts
    <3>6. Expected(v, x, j, a) \in 0..Full(F)
      <4> x \in Int BY <1>1
      <4> HIDE DEF z
      <4> QED BY ExpectedFacts
    <3>7. bl = Played(b, z, j, a) BY <3>2, <3>3
    <3> HIDE DEF z, bl, new
    <3> QED BY <1>3, <1>4, <3>4, <3>5, <3>6, <3>7
  <2> QED BY <1>1, <2>1, <2>2
<1>9. new <= bh
  <2>1. CASE x = 0
    <3> HIDE DEF new, bh
    <3> QED BY <1>3, <1>4, <2>1
  <2>2. CASE x # 0 /\ x + (k + 1) >= 2 * Top
    <3>1. hi = 2 * Top BY <1>1, <2>2, OnReachFacts
    <3>2. hi >= Safe(j) BY <3>1, Sizes
    <3> HIDE DEF new, bh, hi
    <3> QED BY <1>3, <1>4, <3>2
  <2>3. CASE x # 0 /\ x + (k + 1) < 2 * Top
    <3> DEFINE z == x + (k + 1)
    <3>1. z \in Reach /\ z # 0 /\ z \in Int BY <1>1, <2>3, OnReachFacts
    <3>2. hi = z BY <3>1, OnReachFacts
    <3>3. PICK a \in leverage_grid : Expected(v, x, j, a) = new BY <1>1, <1>5, <2>3, BestFacts
    <3>4. Expected(v, x, j, a) <= Played(b, z, j, a) BY <3>1, <1>7
    <3>5. Played(b, z, j, a) <= BestBefore(b)[<<z, j>>]
      <4> HIDE DEF z
      <4> QED BY <3>1, BestBeforeKeeps
    <3>6. Played(b, z, j, a) \in 0..Full(F) BY <3>1, PlayedFacts
    <3>7. bh = BestBefore(b)[<<z, j>>] BY <3>2
    <3> HIDE DEF z, bh, new
    <3> QED BY <1>3, <1>4, <3>3, <3>4, <3>5, <3>6, <3>7
  <2> QED BY <1>1, <2>1, <2>2, <2>3
<1> QED BY <1>8, <1>9
-----------------------------------------------------------------------------
(* The steps that solve the policy.                                        *)
Policies == {p \in [wealth_grid \X leverage_grid -> leverage_grid] : Locks(p)}

Promised ==
  /\ sol = [value |-> sol.value, policy |-> sol.policy]
  /\ sol.policy \in Seq(Policies)
  /\ phase # "solve" => Len(sol.policy) = Horizon
  /\ phase = "solve" =>
       \E F \in Nat : /\ Value(sol.value, F) /\ Game(best, F)
                      /\ Close(sol.value, best, Len(sol.policy))

LEMMA NearestFacts ==
  ASSUME NEW l \in Nat
  PROVE  /\ NearestLeverage(l) \in leverage_grid
         /\ l \in leverage_grid => NearestLeverage(l) = l
<1> DEFINE S == {Distance(a, l) : a \in leverage_grid}
           d == Min(S)
           A == {a \in leverage_grid : Distance(a, l) = d}
<1>1. \A a \in leverage_grid : a \in Nat /\ Distance(a, l) \in Nat /\ (Distance(a, l) = 0 <=> a = l)
  BY Sizes DEF Distance
<1>2. S \in SUBSET Nat /\ S # {} BY <1>1, Sizes
<1>3. d \in S /\ \A y \in S : d <= y
  <2> HIDE DEF S
  <2> QED BY <1>2, MinFacts
<1>4. A \in SUBSET Nat /\ A # {} BY <1>1, <1>3
<1>5. Min(A) \in A
  <2> HIDE DEF A
  <2> QED BY <1>4, MinFacts
<1>6. l \in leverage_grid => d = 0
  <2> SUFFICES ASSUME l \in leverage_grid PROVE d = 0 OBVIOUS
  <2>1. 0 \in S
    <3>1. Distance(l, l) = 0 BY <1>1
    <3> QED BY <3>1
  <2> HIDE DEF d
  <2> QED BY <1>2, <1>3, <2>1
<1>7. NearestLeverage(l) = Min(A) BY DEF NearestLeverage
<1> HIDE DEF d
<1>8. Min(A) \in leverage_grid /\ Distance(Min(A), l) = d BY <1>5
<1> HIDE DEF A
<1> QED BY <1>1, <1>6, <1>7, <1>8

LEMMA SolvedPolicy ==
  ASSUME NEW F \in Nat, NEW v, Value(v, F)
  PROVE  Solved(v).policy \in Policies
<1>1. Locks(Solved(v).policy) BY SolvedKeeps
<1>2. \A x \in wealth_grid, j \in leverage_grid : Best(v, x, j).leverage \in leverage_grid
  <2>1. \A x \in wealth_grid : x \in Int BY Nodes
  <2> QED BY <2>1, BestFacts
<1>3. Solved(v).policy = [s \in wealth_grid \X leverage_grid |-> Best(v, s[1], s[2]).leverage]
  BY DEF Solved
<1>4. \A s \in wealth_grid \X leverage_grid : Best(v, s[1], s[2]).leverage \in leverage_grid
  BY <1>2
<1>5. Solved(v).policy \in [wealth_grid \X leverage_grid -> leverage_grid]
  BY <1>3, <1>4
<1> QED BY <1>1, <1>5 DEF Policies

LEMMA PromisedInit == ASSUME Init PROVE Promised
<1>1. /\ phase = "solve" /\ sol = [value |-> AtDeadline, policy |-> <<>>] /\ best = BestAtDeadline
  BY DEF Init
<1>2. sol.policy = <<>> /\ sol.value = AtDeadline /\ Len(sol.policy) = 0 BY <1>1
<1>3. ASSUME NEW x \in wealth_grid, NEW j \in leverage_grid
      PROVE  AtDeadline[<<x, j>>] = IF x >= Target THEN 1 ELSE 0
  BY DEF AtDeadline
<1>4. ASSUME NEW x \in Reach, NEW j \in leverage_grid
      PROVE  BestAtDeadline[<<x, j>>] = IF x >= Target THEN 1 ELSE 0
  BY DEF BestAtDeadline
<1>5. Value(AtDeadline, 1)
  <2> SUFFICES ASSUME NEW x \in wealth_grid, NEW j \in leverage_grid
               PROVE  /\ AtDeadline[<<x, j>>] \in 0..1
                      /\ x = 0 => AtDeadline[<<x, j>>] = 0
                      /\ x >= Safe(j) => AtDeadline[<<x, j>>] = 1
    BY DEF Value
  <2>1. x \in Nat BY Nodes
  <2> QED BY <1>3, <2>1, Sizes
<1>6. Game(BestAtDeadline, 1)
  <2>1. ASSUME NEW x \in Reach, NEW j \in leverage_grid
        PROVE  /\ BestAtDeadline[<<x, j>>] \in 0..1
               /\ x = 0 => BestAtDeadline[<<x, j>>] = 0
               /\ x >= Safe(j) => BestAtDeadline[<<x, j>>] = 1
    <3>1. x \in Int BY OnReachFacts
    <3> QED BY <1>4, <3>1, Sizes
  <2>2. ASSUME NEW x \in Reach, NEW y \in Reach, NEW j \in leverage_grid, x <= y
        PROVE  BestAtDeadline[<<x, j>>] <= BestAtDeadline[<<y, j>>]
    <3>1. x \in Int /\ y \in Int BY OnReachFacts
    <3> QED BY <1>4, <2>2, <3>1, Sizes
  <2> QED BY <2>1, <2>2 DEF Game
<1>7. Close(AtDeadline, BestAtDeadline, 0)
  <2> SUFFICES ASSUME NEW x \in wealth_grid, NEW j \in leverage_grid
               PROVE  /\ BestAtDeadline[<<OnReach(x - 0), j>>] <= AtDeadline[<<x, j>>]
                      /\ AtDeadline[<<x, j>>] <= BestAtDeadline[<<OnReach(x + 0), j>>]
    BY DEF Close
  <2>1. x \in Reach /\ x \in Int /\ OnReach(x) = x BY OnReachFacts
  <2>2. x - 0 = x /\ x + 0 = x BY <2>1
  <2>3. AtDeadline[<<x, j>>] = BestAtDeadline[<<x, j>>] /\ AtDeadline[<<x, j>>] \in 0..1
    BY <1>3, <1>4, <2>1, <1>5 DEF Value
  <2> QED BY <2>1, <2>2, <2>3
<1> QED BY <1>1, <1>2, <1>5, <1>6, <1>7 DEF Promised

LEMMA PromisedNext == ASSUME Promised, [Next]_vars PROVE Promised'
<1>1. CASE Solves
  <2> DEFINE more == Solved(sol.value)
  <2>1. /\ phase = "solve" /\ phase' = "solve" /\ best' = BestBefore(best)
        /\ sol' = [value |-> more.value, policy |-> Append(sol.policy, more.policy)]
    BY <1>1 DEF Solves
  <2>2. PICK F \in Nat : /\ Value(sol.value, F) /\ Game(best, F)
                         /\ Close(sol.value, best, Len(sol.policy))
    BY <2>1 DEF Promised
  <2>3. sol'.value = more.value /\ sol'.policy = Append(sol.policy, more.policy) BY <2>1
  <2>4. more.policy \in Policies BY <2>2, SolvedPolicy
  <2>5. sol.policy \in Seq(Policies) /\ Len(sol.policy) \in Nat BY DEF Promised
  <2>6. sol'.policy \in Seq(Policies) /\ Len(sol'.policy) = Len(sol.policy) + 1
    <3> HIDE DEF more
    <3> QED BY <2>3, <2>4, <2>5
  <2>7. /\ Full(F) \in Nat /\ Value(more.value, Full(F)) /\ Game(BestBefore(best), Full(F))
        /\ Close(more.value, BestBefore(best), Len(sol.policy) + 1)
    BY <2>2, <2>5, FullIsNat, SolvedKeeps, BestBeforeKeeps, SolvedClose
  <2>8. sol' = [value |-> sol'.value, policy |-> sol'.policy] BY <2>1
  <2> HIDE DEF more
  <2>9. /\ Value(sol'.value, Full(F)) /\ Game(best', Full(F))
        /\ Close(sol'.value, best', Len(sol'.policy))
    BY <2>1, <2>3, <2>6, <2>7
  <2> QED BY <2>1, <2>6, <2>7, <2>8, <2>9 DEF Promised
<1>2. CASE Saves
  <2>1. /\ phase' = "round" /\ sol' = [sol EXCEPT !.value = <<>>] /\ Len(sol.policy) = Horizon
    BY <1>2 DEF Saves
  <2>2. sol'.policy = sol.policy /\ sol' = [value |-> sol'.value, policy |-> sol'.policy]
    BY <2>1 DEF Promised
  <2> QED BY <2>1, <2>2 DEF Promised
<1>3. CASE Thaws \/ Over \/ UNCHANGED vars
  <2>1. UNCHANGED <<phase, sol, best>> BY <1>3 DEF Thaws, Over, vars, history
  <2> QED BY <2>1 DEF Promised
<1>4. CASE Bar \/ \E bad : Beat(bad)
  <2>1. phase # "solve" /\ phase' # "solve" /\ UNCHANGED sol BY <1>4 DEF Bar, Beat
  <2> QED BY <2>1 DEF Promised
<1> QED BY <1>1, <1>2, <1>3, <1>4 DEF Next

LEMMA PromisedIsBest == ASSUME Promised PROVE PromiseIsBest
<1> SUFFICES ASSUME phase = "solve", NEW x \in Floor..Top, NEW j \in leverage_grid
             PROVE  LET k == Len(sol.policy)
                    IN /\ p_success(sol.value, x, j) >= 2 * best[<<OnReach(x - k - 1), j>>]
                       /\ p_success(sol.value, x, j) <= 2 * best[<<OnReach(x + k + 1), j>>]
  BY DEF PromiseIsBest
<1> DEFINE k == Len(sol.policy)
<1>1. PICK F \in Nat : Value(sol.value, F) /\ Game(best, F) /\ Close(sol.value, best, k)
  BY DEF Promised
<1>2. k \in Nat /\ x \in Int BY Sizes DEF Promised, Floor
<1>3. p_success(sol.value, x, j) = Interp(sol.value, x, j)
  <2>1. j \in Nat BY Sizes
  <2> QED BY <2>1, NearestFacts DEF p_success
<1> HIDE DEF k
<1>4. /\ 2 * best[<<OnReach(x - k - 1), j>>] <= Interp(sol.value, x, j)
      /\ Interp(sol.value, x, j) <= 2 * best[<<OnReach(x + k + 1), j>>]
  BY <1>1, <1>2, InterpClose
<1>5. Interp(sol.value, x, j) \in Nat BY <1>1, <1>2, InterpFacts
<1>6. /\ x - k - 1 \in Int /\ x + k + 1 \in Int BY <1>2
<1>7. /\ best[<<OnReach(x - k - 1), j>>] \in 0..F /\ best[<<OnReach(x + k + 1), j>>] \in 0..F
  BY <1>1, <1>6, OnReachFacts DEF Game
<1> QED BY <1>3, <1>4, <1>5, <1>7 DEF k

(* What the overlay reports as the chance of the target is the best chance *)
(* there is, to within half a step of the grid for every period left and   *)
(* one: for every market of finitely many moves, every cost and horizon.   *)
THEOREM PromiseIsKept == Spec => []PromiseIsBest
<1>1. Init => Promised BY PromisedInit
<1>2. Promised /\ [Next]_vars => Promised' BY PromisedNext
<1>3. Promised => PromiseIsBest BY PromisedIsBest
<1> QED BY <1>1, <1>2, <1>3, PTL DEF Spec
-----------------------------------------------------------------------------
(* What was locked in.  If the buffer was enough for one of the books that *)
(* were closed, the book is empty from then on, and what is left is enough *)
(* for the policy to want no other, whatever size of the book it is told.  *)
Bases == {BaseLeverage, BaseLeverage \div 2}

Secure == \E h \in locked : Affords(h)

Kept ==
  /\ wealth \in Reach /\ left \in Int
  /\ held = [leverage |-> held.leverage, neutral |-> held.neutral]
  /\ held.neutral \in BOOLEAN /\ held.leverage \in 0..BaseLeverage
  /\ Secure => /\ held = Nothing
               /\ \A l \in Bases : wealth >= Safe(NearestLeverage(l))

LEMMA BaseFacts ==
  /\ BaseLeverage \in Nat /\ Horizon \in Nat /\ Horizon >= 1 /\ MaxMultiplier * BaseLeverage \in Nat
  /\ Bases \subseteq 0..BaseLeverage
  /\ \A l \in Bases : NearestLeverage(l) \in leverage_grid
<1>1. BaseLeverage \in Nat /\ MaxMultiplier \in Nat /\ Horizon \in Nat /\ Horizon >= 1
  BY GoalAssumption
<1>2. Bases \subseteq 0..BaseLeverage BY <1>1 DEF Bases
<1>3. \A l \in Bases : l \in Nat BY <1>1, <1>2
<1>4. MaxMultiplier * BaseLeverage \in Nat BY <1>1
<1> QED BY <1>1, <1>2, <1>3, <1>4, NearestFacts

(* The policy asks for a book of the grid, and for none where the target   *)
(* is safe.                                                                *)
LEMMA PolicyAsks ==
  ASSUME Promised, phase # "solve", NEW x \in Reach, NEW n \in Int, NEW l \in Bases
  PROVE  /\ leverage_for(sol.policy, x, n, l) \in Nat
         /\ x >= Safe(NearestLeverage(l)) => leverage_for(sol.policy, x, n, l) = 0
<1> DEFINE k == Clip(1, n, Horizon)
           y == NodeAbove(x)
           j == NearestLeverage(l)
           p == sol.policy[k]
<1>1. k \in 1..Horizon BY BaseFacts DEF Clip
<1>2. sol.policy \in Seq(Policies) /\ Len(sol.policy) = Horizon BY DEF Promised
<1>3. p \in Policies BY <1>1, <1>2
<1>4. Locks(p) BY <1>3 DEF Policies
<1>5. j \in leverage_grid BY BaseFacts
<1>6. x \in Nat /\ x <= 2 * Top /\ Top \in Nat /\ Top % 2 = 0
  BY OnReachFacts, Sizes, GoalAssumption
<1>7. x + (x % 2) \in Nat /\ (x + (x % 2)) % 2 = 0 /\ x + (x % 2) >= x BY <1>6
<1>8. /\ y = IF x + (x % 2) > Top THEN Top ELSE x + (x % 2)
      BY <1>6, <1>7 DEF NodeAbove, Clip, Floor
<1>9. y \in wealth_grid
  <2>1. y \in 0..Top /\ y % 2 = 0 BY <1>6, <1>7, <1>8
  <2> HIDE DEF y
  <2> QED BY <2>1, Nodes
<1>10. x >= Safe(j) => y >= Safe(j)
  <2>1. Safe(j) \in Nat /\ Safe(j) <= Top BY <1>5, Sizes
  <2> HIDE DEF j, y
  <2> QED BY <1>6, <1>7, <1>8, <2>1
<1>11. leverage_for(sol.policy, x, n, l) = p[<<y, j>>] BY DEF leverage_for
<1> HIDE DEF p, y, j
<1>12. p[<<y, j>>] \in leverage_grid /\ (y >= Safe(j) => p[<<y, j>>] = 0)
  BY <1>4, <1>5, <1>9 DEF Locks
<1> QED BY <1>10, <1>11, <1>12, Sizes DEF j

LEMMA DemandFacts ==
  ASSUME Promised, phase # "solve", Kept, NEW tier \in Tiers, NEW troubles
  PROVE  /\ _position_multiplier(tier, troubles) \in 0..BaseLeverage
         /\ Secure /\ "policy" \notin troubles => _position_multiplier(tier, troubles) = 0
<1> DEFINE dd == IF tier >= 1 THEN BaseLeverage \div 2 ELSE BaseLeverage
           dp == Demand(sol.policy, wealth, left, dd)
           m == multiplier(TRUE, sol.policy, wealth, left, dd)
<1>1. dd \in Bases /\ dd \in 0..BaseLeverage BY BaseFacts DEF Bases
<1>2. wealth \in Reach /\ left \in Int BY DEF Kept
<1>3. dp \in Nat
  <2> HIDE DEF dd
  <2> QED BY <1>1, <1>2, PolicyAsks DEF Demand
<1>4. Secure => dp = 0
  <2> SUFFICES ASSUME Secure PROVE dp = 0 OBVIOUS
  <2>1. wealth >= Safe(NearestLeverage(dd))
    <3> HIDE DEF dd
    <3> QED BY <1>1 DEF Kept
  <2> HIDE DEF dd
  <2> QED BY <1>1, <1>2, <2>1, PolicyAsks DEF Demand
<1>5. m = IF dp > BaseLeverage THEN BaseLeverage ELSE Clip(0, dp, MaxMultiplier * BaseLeverage)
  BY DEF multiplier
<1> DEFINE hi == MaxMultiplier * BaseLeverage
<1>6. hi \in Nat BY BaseFacts
<1> HIDE DEF dd, dp, m, hi
<1>7. m \in Nat /\ (dp = 0 => m = 0)
  BY <1>3, <1>5, <1>6, BaseFacts DEF Clip, hi
<1>8. {dd, m} \in SUBSET Nat /\ {dd, m} # {} BY <1>1, <1>7, BaseFacts
<1>9. Min({dd, m}) \in {dd, m} /\ Min({dd, m}) <= dd /\ Min({dd, m}) <= m
  BY <1>8, MinFacts
<1>10. _position_multiplier(tier, troubles) = IF "policy" \in troubles THEN dd ELSE Min({dd, m})
  BY DEF _position_multiplier, dd, m
<1>11. Min({dd, m}) \in 0..BaseLeverage /\ (m = 0 => Min({dd, m}) = 0)
  BY <1>1, <1>7, <1>9, BaseFacts
<1> QED BY <1>1, <1>4, <1>7, <1>10, <1>11

LEMMA NothingFacts ==
  /\ Nothing.leverage = 0 /\ Nothing.neutral = TRUE
  /\ Nothing = [leverage |-> 0, neutral |-> TRUE]
BY DEF Nothing

LEMMA FilledFacts ==
  ASSUME Kept, NEW target \in 0..BaseLeverage, NEW book \in Filled(target)
  PROVE  /\ book = [leverage |-> book.leverage, neutral |-> book.neutral]
         /\ book.neutral \in BOOLEAN /\ book.leverage \in 0..BaseLeverage
<1>1. CASE book = held BY <1>1 DEF Kept
<1>2. CASE book = [leverage |-> target, neutral |-> TRUE] BY <1>2
<1>3. CASE book \in Book /\ book.leverage = (held.leverage + target) \div 2
  <2>1. BaseLeverage \in Nat /\ held.leverage \in 0..BaseLeverage BY BaseFacts DEF Kept
  <2>2. (held.leverage + target) \div 2 \in 0..BaseLeverage BY <2>1
  <2> QED BY <1>3, <2>2 DEF Book
<1> QED BY <1>1, <1>2, <1>3 DEF Filled

LEMMA BeatLocks ==
  ASSUME Promised, Kept, NEW bad, Beat(bad)
  PROVE  Kept'
<1> DEFINE troubles == bad \cup (IF held # state THEN {"books"} ELSE {})
           tier == Tier(Max({peak, wealth}))
           first == state = Nothing /\ ~ rebalanced
           due == since = Rhythm \/ ~ rebalanced
           target == _position_multiplier(tier, troubles)
           derisk == ~ due /\ state # Nothing /\ target = 0
           outcome == Outcome(troubles, account, tier, first, due, derisk, target)
<1>1. /\ phase = "round" /\ left' = left
      /\ \/ \E slip \in Slips(bad) : Trades(target, slip[1], slip[2])
         \/ Stops(outcome, tier, first)
      /\ locked' = IF "policy" \in troubles THEN {} ELSE locked \cup ClosedAtTarget
  <2> HIDE DEF target, outcome, tier
  <2> QED BY DEF Beat, target, outcome, tier, troubles
<1>2. tier \in Tiers BY TierTyped
<1> HIDE DEF troubles, tier
<1>3. target \in 0..BaseLeverage /\ (Secure /\ "policy" \notin troubles => target = 0)
  BY <1>1, <1>2, DemandFacts
<1> HIDE DEF target, outcome
<1>4. wealth \in Reach /\ wealth \in Int /\ left \in Int BY OnReachFacts DEF Kept
<1>5. CASE Stops(outcome, tier, first)
  <2>1. wealth' = wealth /\ held' = held BY <1>5 DEF Stops
  <2>2. Secure' => Secure
    <3>1. ClosedAtTarget = {} BY <2>1 DEF ClosedAtTarget
    <3>2. locked' \subseteq locked BY <1>1, <3>1
    <3> QED BY <3>2 DEF Secure, Affords
  <2> QED BY <1>1, <2>1, <2>2 DEF Kept
<1>6. ASSUME NEW hitch, NEW death, Trades(target, hitch, death) PROVE Kept'
  <2> DEFINE meant == [leverage |-> target, neutral |-> TRUE]
             paid == Cost * Distance(held.leverage, held'.leverage)
  <2>1. /\ held' \in Filled(target)
        /\ held = meant => held' = held
        /\ wealth' = OnReach(wealth - paid)
    BY <1>6 DEF Trades
  <2>2. /\ held' = [leverage |-> held'.leverage, neutral |-> held'.neutral]
        /\ held'.neutral \in BOOLEAN /\ held'.leverage \in 0..BaseLeverage
    <3>1. \A book \in Filled(target) :
             /\ book = [leverage |-> book.leverage, neutral |-> book.neutral]
             /\ book.neutral \in BOOLEAN /\ book.leverage \in 0..BaseLeverage
      BY <1>3, FilledFacts
    <3> QED BY <2>1, <3>1
  <2>3. /\ held.leverage \in Nat /\ held'.leverage \in Nat /\ Cost \in Nat
        /\ held.leverage \in 0..BaseLeverage
    BY <2>2, BaseFacts, Sizes DEF Kept
  <2>4. Distance(held.leverage, held'.leverage) \in Nat BY <2>3 DEF Distance
  <2>5. paid \in Nat BY <2>3, <2>4
  <2>6. wealth' \in Reach
    <3> HIDE DEF paid
    <3>1. wealth - paid \in Int BY <1>4, <2>5
    <3> QED BY <2>1, <3>1, OnReachFacts
  <2>7. ASSUME Secure, "policy" \notin troubles
        PROVE  held' = Nothing /\ wealth' = wealth
    <3>1. target = 0 /\ held = Nothing BY <1>3, <2>7 DEF Kept
    <3>2. held' = held BY <2>1, <3>1 DEF Nothing
    <3>3. Distance(held.leverage, held'.leverage) = 0
      BY <2>3, <3>1, <3>2, NothingFacts DEF Distance
    <3>4. paid = 0 BY <2>3, <3>3
    <3> HIDE DEF paid
    <3>5. wealth - paid = wealth BY <1>4, <3>4
    <3> QED BY <1>4, <2>1, <3>1, <3>2, <3>5, OnReachFacts
  <2>8. ASSUME held' = Nothing, LockIn(wealth), Affords(held.leverage), NEW l \in Bases
        PROVE  wealth' >= Safe(NearestLeverage(l))
    <3> DEFINE fee == Cost * held.leverage
               near == Cost * NearestLeverage(l)
    <3>1. Distance(held.leverage, held'.leverage) = held.leverage
      BY <2>3, <2>8, NothingFacts DEF Distance
    <3>2. paid = fee BY <3>1
    <3>3. NearestLeverage(l) \in leverage_grid /\ NearestLeverage(l) \in Nat BY BaseFacts, Sizes
    <3>4. fee \in Nat /\ near \in Nat BY <2>3, <3>3
    <3>5. fee + near <= LockInBuffer
      BY <2>8 DEF Affords, Bases
    <3>6. wealth >= Target + LockInBuffer /\ LockInBuffer \in Nat /\ Target \in Nat
      BY <2>8, GoalAssumption DEF LockIn
    <3>7. Safe(NearestLeverage(l)) = Target + near BY DEF Safe
    <3> DEFINE safe == Safe(NearestLeverage(l))
    <3>8. safe \in Nat /\ safe <= Top BY <3>3, Sizes
    <3> HIDE DEF paid, fee, near, safe
    <3>9. wealth - paid \in Int /\ wealth - paid >= safe
      BY <1>4, <3>2, <3>4, <3>5, <3>6, <3>7 DEF safe
    <3>10. safe \in Reach BY <3>8, OnReachFacts, Sizes
    <3>11. OnReach(safe) = safe /\ OnReach(safe) <= OnReach(wealth - paid)
      BY <3>8, <3>9, <3>10, OnReachFacts
    <3> QED BY <2>1, <3>11 DEF safe
  <2>9. Secure' => held' = Nothing /\ \A l \in Bases : wealth' >= Safe(NearestLeverage(l))
    <3> SUFFICES ASSUME Secure'
                 PROVE  held' = Nothing /\ \A l \in Bases : wealth' >= Safe(NearestLeverage(l))
      OBVIOUS
    <3> PICK h \in locked' : Affords(h) BY DEF Secure, Affords
    <3>0. "policy" \notin troubles /\ h \in locked \cup ClosedAtTarget BY <1>1
    <3>1. CASE h \in locked
      <4>1. Secure BY <3>1 DEF Secure
      <4>2. held' = Nothing /\ wealth' = wealth BY <2>7, <3>0, <4>1
      <4> QED BY <4>1, <4>2 DEF Kept
    <3>2. CASE h \in ClosedAtTarget
      <4>1. held' = Nothing /\ LockIn(wealth) /\ h = held.leverage BY <3>2 DEF ClosedAtTarget
      <4> QED BY <4>1, <2>8
    <3> QED BY <3>0, <3>1, <3>2
  <2> QED BY <1>1, <1>4, <2>2, <2>6, <2>9 DEF Kept
<1> QED BY <1>1, <1>5, <1>6

LEMMA BarLocks == ASSUME Kept, Bar PROVE Kept'
<1>1. /\ left > 0 /\ left' = left - 1 /\ held' = held /\ locked' = locked
      /\ \E r \in Moves : wealth' = OnReach(wealth + held.leverage * r)
  BY DEF Bar, history
<1>2. PICK r \in Moves : wealth' = OnReach(wealth + held.leverage * r) BY <1>1
<1>3. /\ r \in Int /\ held.leverage \in Nat /\ wealth \in Reach /\ wealth \in Int
      /\ left \in Int
  BY GoalAssumption, BaseFacts, OnReachFacts DEF Kept
<1>4. held.leverage * r \in Int BY <1>3
<1>5. wealth + held.leverage * r \in Int BY <1>3, <1>4
<1>6. wealth' \in Reach BY <1>2, <1>5, OnReachFacts
<1>7. Secure => wealth' = wealth
  <2> SUFFICES ASSUME Secure PROVE wealth' = wealth OBVIOUS
  <2>1. held.leverage = 0 BY NothingFacts DEF Kept
  <2>2. held.leverage * r = 0 BY <1>3, <2>1
  <2>3. wealth + held.leverage * r = wealth BY <1>3, <2>2
  <2> QED BY <1>2, <1>3, <2>3, OnReachFacts
<1>8. left' \in Int BY <1>1, <1>3
<1>9. Secure' => Secure BY <1>1 DEF Secure, Affords
<1> QED BY <1>1, <1>6, <1>7, <1>8, <1>9 DEF Kept

LEMMA KeptNext == ASSUME Promised, Kept, [Next]_vars PROVE Kept'
<1>1. CASE Solves \/ Saves \/ Thaws \/ Over \/ UNCHANGED vars
  <2>1. UNCHANGED <<wealth, left, held, locked>>
    BY <1>1 DEF Solves, Saves, Thaws, Over, vars, market, history
  <2> QED BY <2>1 DEF Kept, Secure, Affords
<1>2. CASE Bar BY <1>2, BarLocks
<1>3. CASE \E bad : Beat(bad) BY <1>3, BeatLocks
<1> QED BY <1>1, <1>2, <1>3 DEF Next

(* What was locked in stays: as long as the policy file is there, an       *)
(* account that closed a book above the target stays at the target, if     *)
(* the buffer was enough for the leverage that was held: for every buffer, *)
(* leverage and cost, every market, every trouble and death of the daemon. *)
THEOREM LockedStays == Spec => []LockedIsKept
<1>1. Init => Promised /\ Kept
  <2> SUFFICES ASSUME Init PROVE Promised /\ Kept OBVIOUS
  <2>1. Promised BY PromisedInit
  <2>2. wealth = Start /\ left = Horizon /\ held = Nothing /\ ~ Secure BY DEF Init, Secure
  <2>3. Start \in Reach BY RoundsAssumption, Sizes, OnReachFacts
  <2>4. held.leverage = 0 /\ held.neutral = TRUE /\ held = [leverage |-> held.leverage, neutral |-> held.neutral]
    BY <2>2, NothingFacts
  <2>5. left \in Int /\ wealth \in Reach /\ held.leverage \in 0..BaseLeverage /\ held.neutral \in BOOLEAN
    <3>1. Horizon \in Int /\ 0 \in 0..BaseLeverage
      <4>1. BaseLeverage \in Nat /\ Horizon \in Nat BY GoalAssumption
      <4> QED BY <4>1
    <3>2. left \in Int /\ wealth \in Reach BY <2>2, <2>3, <3>1
    <3> QED BY <2>4, <3>1, <3>2
  <2>6. Kept BY <2>2, <2>4, <2>5 DEF Kept
  <2> QED BY <2>1, <2>6
<1>2. Promised /\ Kept /\ [Next]_vars => (Promised /\ Kept)' BY PromisedNext, KeptNext
<1>3. Promised /\ Kept => LockedIsKept
  <2> SUFFICES ASSUME Kept, Secure PROVE wealth >= Target BY DEF LockedIsKept, Secure
  <2>1. BaseLeverage \in Bases BY DEF Bases
  <2> DEFINE safe == Safe(NearestLeverage(BaseLeverage))
  <2>2. wealth >= safe /\ safe >= Target /\ safe \in Nat
    BY <2>1, BaseFacts, Sizes DEF Kept
  <2>3. wealth \in Int /\ Target \in Int BY OnReachFacts, Sizes DEF Kept
  <2> HIDE DEF safe
  <2> QED BY <2>2, <2>3
<1> QED BY <1>1, <1>2, <1>3, PTL DEF Spec
=============================================================================
