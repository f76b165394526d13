------------------------------ MODULE Commands ------------------------------
(***************************************************************************)
(* The owner's messages on their way to the account.  Telegram keeps them  *)
(* until a poll asks for later ones; the bot keeps the number it asks with *)
(* in memory only.  So what was handled and not yet confirmed comes again  *)
(* after a death, and it is the pace and the kill mark of the account that *)
(* must make the repetition harmless.  A command works on the account in   *)
(* steps, beside the rounds of the daemon and without a lock: it loads the *)
(* saved state, sends orders, saves its copy; each step may fail, and the  *)
(* bot may die between any two.                                            *)
(*                                                                         *)
(* One tick of the clock is a day.  The names that Watch has too begin     *)
(* with Bot here.                                                          *)
(***************************************************************************)
EXTENDS Integers, FiniteSets, SequencesExt

CONSTANTS Kinds,          \* what may arrive
          MaxMessages,    \* bound
          MaxDeaths,      \* bound: how often a process of the bot dies
          Retention,      \* Telegram forgets an update of that age (1)
          RebalanceEvery, \* rebalance_hours (3)
          Limit,          \* TELEGRAM_LIMIT
          Suffix,         \* the number of a piece, "(i/n)"
          MaxLength,      \* what Telegram takes (4096)
          Reports         \* reports of the positions, as the lengths of their lines

Commands == {"/rebalance", "/kill", "/sync", "/vithe", "question"}
Others == {"foreign", "no_text"}

ASSUME CommandsAssumption ==
  /\ Kinds \subseteq Commands \cup Others
  /\ MaxMessages \in Nat /\ MaxDeaths \in Nat
  /\ Retention \in Nat \ {0} /\ RebalanceEvery \in Nat
  /\ Limit \in Nat \ {0} /\ Suffix \in Nat
  /\ MaxLength \in Nat /\ Limit + Suffix <= MaxLength
  /\ Reports \subseteq Seq(Nat)

VARIABLES server,    \* the updates that Telegram holds: the age of each
          arrived,   \* history: the kinds of all messages, in the order of their ids
          bot,       \* its process, last_update_id, what is left of the last poll,
                     \* and the message whose handler runs (0: none)
          account,   \* the saved is_dead and the days since the last rebalance
          at,        \* how far the round of each actor is
          copy,      \* the state it loaded
          outbox,    \* the pieces of the last report
          ran,       \* history: the messages whose handler came to its end
          traded,    \* history: how often each of them rebalanced the account
          unmarked,  \* history: how often no save followed
          failed,    \* history: the /kills whose handler caught an error
          overwrote, \* history: who saved an old copy over a newer file
          lost       \* history: the messages that Telegram forgot

queueVars == <<server, arrived, lost>>
roundVars == <<account, at, copy, traded, unmarked, failed, overwrote>>
botVars == <<queueVars, roundVars, bot, outbox, ran>>

Ids == 1..MaxMessages

(* The bot, and whoever holds the lock of run_daily.                       *)
Actor == {"bot", "daemon"}
State == [dead : BOOLEAN, since : 0..RebalanceEvery]
NoCopy == [dead |-> FALSE, since |-> 0]

BotTypeOK ==
  /\ DOMAIN server \subseteq DOMAIN arrived /\ server \in [DOMAIN server -> 0..Retention]
  /\ arrived \in Seq(Kinds)
  /\ bot \in [pc : {"down", "poll", "batch"}, last_update_id : Nat,
              batch : SUBSET DOMAIN arrived, work : {0} \cup DOMAIN arrived, deaths : 0..MaxDeaths]
  /\ account \in State
  /\ at \in [Actor -> {"idle", "loaded", "sent", "saved"}] /\ copy \in [Actor -> State]
  /\ ran \subseteq DOMAIN arrived /\ lost \subseteq DOMAIN arrived /\ failed \subseteq DOMAIN arrived
  /\ traded \in [Ids -> Nat] /\ unmarked \in [Ids -> Nat]
  /\ overwrote \subseteq Actor

BotInit ==
  /\ server = <<>> /\ arrived = <<>> /\ outbox = <<>>
  /\ bot = [pc |-> "down", last_update_id |-> 0, batch |-> {}, work |-> 0, deaths |-> 0]
  /\ account \in [dead : {FALSE}, since : {0, RebalanceEvery}]
  /\ at = [a \in Actor |-> "idle"] /\ copy = [a \in Actor |-> NoCopy]
  /\ ran = {} /\ lost = {} /\ failed = {} /\ overwrote = {}
  /\ traded = [id \in Ids |-> 0] /\ unmarked = [id \in Ids |-> 0]
-----------------------------------------------------------------------------
(* Long reports.                                                           *)

Length(lines) == SumFunction(lines) + Len(lines) - 1

(* Mutant: the line breaks are not counted.                                *)
FitsWithoutBreaks(piece, line) == SumFunction(piece) + line <= Limit

(* With a line break after each line.                                      *)
Fits(piece, line) == SumFunction(piece) + Len(piece) + line + 1 <= Limit

(* chunk_message cuts at the lines; a line that is too long is cut in      *)
(* itself, and what is left of it starts the next piece.                   *)
Cuts(line) == IF line > Limit THEN (line - 1) \div Limit ELSE 0

AddLine(pieces, line) ==
  LET cut == [i \in 1..Cuts(line) |-> <<Limit>>]
      rest == line - Cuts(line) * Limit
  IN IF cut = <<>> /\ pieces # <<>> /\ Fits(Last(pieces), line)
     THEN Front(pieces) \o <<Append(Last(pieces), line)>>
     ELSE pieces \o cut \o <<<<rest>>>>

chunk_message(lines) ==
  LET pieces[i \in 0..Len(lines)] ==
        IF i = 0 THEN <<>> ELSE AddLine(pieces[i - 1], lines[i])
  IN  IF Length(lines) <= Limit THEN <<lines>> ELSE pieces[Len(lines)]

Sent(pieces) ==
  [i \in DOMAIN pieces |-> Length(pieces[i]) + (IF Len(pieces) > 1 THEN Suffix ELSE 0)]
-----------------------------------------------------------------------------
(* The account.                                                            *)

(* Mutant: without the pace of run_once (F30).                             *)
RunsAlways(a) == ~ a.dead

(* run_once rebalances a living account when a rebalance is due.           *)
Rebalances(a) == ~ a.dead /\ a.since = RebalanceEvery

(* What an actor is about; the daemon always makes rounds.                 *)
Kind(a) == IF a = "daemon" THEN "/rebalance"
           ELSE IF bot.work = 0 THEN "none" ELSE arrived[bot.work]

(* The save writes the whole copy, whatever the file has become.           *)
Writes(a, state) ==
  /\ account' = state
  /\ overwrote' = IF copy[a] = account THEN overwrote ELSE overwrote \cup {a}

Goes(a, step) == at' = [at EXCEPT ![a] = step] /\ UNCHANGED <<bot, ran>>

(* The handler answers, or the round of the daemon is over.                *)
Returns(a) ==
  /\ at' = [at EXCEPT ![a] = "idle"] /\ copy' = [copy EXCEPT ![a] = NoCopy]
  /\ IF a = "bot" THEN bot' = [bot EXCEPT !.work = 0] /\ ran' = ran \cup {bot.work}
     ELSE UNCHANGED <<bot, ran>>

(* Orders were sent, and nothing says so.                                  *)
Unmarked == IF at["bot"] = "sent" THEN [unmarked EXCEPT ![bot.work] = @ + 1] ELSE unmarked

Loads(a) ==
  /\ at[a] = "idle" /\ Kind(a) \in {"/rebalance", "/kill", "/sync"}
  /\ Goes(a, "loaded") /\ copy' = [copy EXCEPT ![a] = account]
  /\ UNCHANGED <<queueVars, account, traded, unmarked, failed, overwrote, outbox>>

(* A round that sends no orders saves its copy, which the third tier of    *)
(* the breaker may have marked as dead, or raises before; /sync saves too. *)
Rests(a) ==
  /\ at[a] = "loaded" /\ Kind(a) \in {"/rebalance", "/sync"}
  /\ Returns(a)
  /\ \/ Writes(a, copy[a])
     \/ Kind(a) = "/rebalance" /\ Writes(a, [copy[a] EXCEPT !.dead = TRUE])
     \/ UNCHANGED <<account, overwrote>>
  /\ UNCHANGED <<queueVars, traded, unmarked, failed, outbox>>

Trades(a) ==
  /\ at[a] = "loaded" /\ Kind(a) = "/rebalance" /\ Rebalances(copy[a])
  /\ Goes(a, "sent")
  /\ traded' = IF a = "bot" THEN [traded EXCEPT ![bot.work] = @ + 1] ELSE traded
  /\ UNCHANGED <<queueVars, account, copy, unmarked, failed, overwrote, outbox>>

(* run_once saves in its finally, and a second time if the book it got is  *)
(* not neutral.                                                            *)
Saves(a) ==
  /\ at[a] = "sent"
  /\ Goes(a, "saved")
  /\ copy' = [copy EXCEPT ![a].since = 0] /\ Writes(a, [copy[a] EXCEPT !.since = 0])
  /\ UNCHANGED <<queueVars, traded, unmarked, failed, outbox>>

SavesAgain(a) ==
  /\ at[a] = "saved"
  /\ Returns(a)
  /\ Writes(a, copy[a]) \/ UNCHANGED <<account, overwrote>>
  /\ UNCHANGED <<queueVars, traded, unmarked, failed, outbox>>

(* The positions cannot be read in the finally, or the disk is full; or    *)
(* the daemon dies with its orders sent.                                   *)
SaveFails(a) ==
  /\ at[a] = "sent"
  /\ Returns(a)
  /\ unmarked' = IF a = "bot" THEN Unmarked ELSE unmarked
  /\ UNCHANGED <<queueVars, account, traded, failed, overwrote, outbox>>

Round(a) == Loads(a) \/ Rests(a) \/ Trades(a) \/ Saves(a) \/ SavesAgain(a) \/ SaveFails(a)

(* kill loads only when all positions are closed, and saves at once.       *)
KillSaves ==
  /\ at["bot"] = "loaded" /\ Kind("bot") = "/kill"
  /\ Returns("bot") /\ Writes("bot", [copy["bot"] EXCEPT !.dead = TRUE])
  /\ UNCHANGED <<queueVars, traded, unmarked, failed, outbox>>

(* The exchange does not close them, or the save fails; handle_kill        *)
(* answers with the error, and the account lives.                          *)
KillFails ==
  /\ at["bot"] \in {"idle", "loaded"} /\ Kind("bot") = "/kill"
  /\ Returns("bot") /\ failed' = failed \cup {bot.work}
  /\ UNCHANGED <<queueVars, account, traded, unmarked, overwrote, outbox>>

(* /sync cannot read the exchange; or a question, or a report.             *)
Answers ==
  /\ at["bot"] = "idle" /\ Kind("bot") \in {"/rebalance", "/sync", "/vithe", "question"}
  /\ Returns("bot")
  /\ IF Kind("bot") = "/vithe"
     THEN \E report \in Reports : outbox' = chunk_message(report)
     ELSE UNCHANGED outbox
  /\ UNCHANGED <<queueVars, account, traded, unmarked, failed, overwrote>>
-----------------------------------------------------------------------------
(* The messages.                                                           *)

Ours(id) == arrived[id] \in Commands

(* The next update of the batch: they come in the order of their ids, one  *)
(* at a time.                                                              *)
Oldest == Min(bot.batch)
Handled == [bot EXCEPT !.last_update_id = Oldest + 1, !.batch = @ \ {Oldest},
                       !.work = IF Ours(Oldest) THEN Oldest ELSE 0]

(* Mutant: a message from somewhere else ends the batch.                   *)
HandlesOnlyOurs ==
  /\ bot.pc = "batch" /\ bot.work = 0 /\ bot.batch # {}
  /\ bot' = IF Ours(Oldest) THEN Handled ELSE [bot EXCEPT !.pc = "poll", !.batch = {}]
  /\ outbox' = <<>>
  /\ UNCHANGED <<queueVars, roundVars, ran>>

Handles ==
  /\ bot.pc = "batch" /\ bot.work = 0 /\ bot.batch # {}
  /\ bot' = Handled /\ outbox' = <<>>
  /\ UNCHANGED <<queueVars, roundVars, ran>>

BatchEnds ==
  /\ bot.pc = "batch" /\ bot.work = 0 /\ bot.batch = {}
  /\ bot' = [bot EXCEPT !.pc = "poll"] /\ outbox' = <<>>
  /\ UNCHANGED <<queueVars, roundVars, ran>>

(* What the bot does when nothing is in its way.                           *)
Works == Handles \/ Answers \/ Round("bot") \/ KillSaves \/ KillFails \/ BatchEnds

(* Mutant: what came while the bot was away is dropped.                    *)
StartsAfresh ==
  /\ bot.pc = "down"
  /\ bot' = [bot EXCEPT !.pc = "poll", !.last_update_id = Len(arrived) + 1]
  /\ UNCHANGED <<queueVars, roundVars, outbox, ran>>

Starts ==
  /\ bot.pc = "down"
  /\ bot' = [bot EXCEPT !.pc = "poll", !.last_update_id = 0]
  /\ UNCHANGED <<queueVars, roundVars, outbox, ran>>

(* getUpdates: Telegram drops what is before the offset and answers with   *)
(* the rest, if it can.                                                    *)
Unconfirmed == {id \in DOMAIN server : id >= bot.last_update_id}
Kept(ids) == [id \in ids |-> server[id]]

Polls ==
  /\ bot.pc = "poll"
  /\ server' = Kept(Unconfirmed)
  /\ bot' = [bot EXCEPT !.pc = "batch", !.batch = Unconfirmed]
  /\ UNCHANGED <<arrived, lost, roundVars, outbox, ran>>

(* No answer, or one the bot cannot use: it waits and polls again.         *)
PollFails ==
  /\ bot.pc = "poll"
  /\ server' = Kept(Unconfirmed)
  /\ UNCHANGED <<arrived, lost, roundVars, bot, outbox, ran>>

(* The process dies, wherever it is; what it had not confirmed comes       *)
(* again, and its offset is gone.                                          *)
ProcessDies ==
  /\ bot.pc # "down" /\ bot.deaths < MaxDeaths
  /\ bot' = [pc |-> "down", last_update_id |-> 0, batch |-> {}, work |-> 0,
             deaths |-> bot.deaths + 1]
  /\ at' = [at EXCEPT !["bot"] = "idle"] /\ copy' = [copy EXCEPT !["bot"] = NoCopy]
  /\ unmarked' = Unmarked
  /\ UNCHANGED <<queueVars, account, traded, failed, overwrote, outbox, ran>>
-----------------------------------------------------------------------------
Arrives ==
  /\ Len(arrived) < MaxMessages
  /\ \E kind \in Kinds : arrived' = Append(arrived, kind)
  /\ server' = [id \in DOMAIN server \cup {Len(arrived) + 1} |->
                   IF id \in DOMAIN server THEN server[id] ELSE 0]
  /\ UNCHANGED <<lost, roundVars, bot, outbox, ran>>

(* A day goes by.  The messages of a poll, and a round of the daemon, take *)
(* less.                                                                   *)
DayPasses ==
  /\ bot.pc # "batch" /\ at["daemon"] = "idle"
  /\ account' = [account EXCEPT !.since = IF @ < RebalanceEvery THEN @ + 1 ELSE @]
  /\ LET forgotten == {id \in DOMAIN server : server[id] = Retention}
     IN /\ server' = [id \in DOMAIN server \ forgotten |-> server[id] + 1]
        /\ lost' = lost \cup forgotten
  /\ UNCHANGED <<arrived, at, copy, traded, unmarked, failed, overwrote, bot, outbox, ran>>

BotNext ==
  \/ Works \/ Round("daemon") \/ Starts \/ Polls \/ PollFails \/ ProcessDies
  \/ Arrives \/ DayPasses

BotSpec == BotInit /\ [][BotNext]_botVars

(* launchd keeps a process of the bot, which never stops polling, each of  *)
(* its calls returns or times out, and the network is not down for ever.   *)
BotFairSpec == BotSpec /\ WF_botVars(Starts) /\ WF_botVars(Works) /\ SF_botVars(Polls)
-----------------------------------------------------------------------------
(* Telegram is told that a message arrived only when its handler came to   *)
(* its end: what the owner wrote while the bot was down, or when it died   *)
(* over it, is not dropped.                                                *)
NothingIsDropped ==
  \A id \in DOMAIN arrived : Ours(id) => id \in ran \cup lost \cup DOMAIN server

(* While nobody saved an old copy over a newer file: a /rebalance moves    *)
(* the account once, however often deaths have it processed again, and     *)
(* once more only for each time that its orders were sent and no save      *)
(* followed; and none moves it after a /kill that came before it and did   *)
(* not answer with an error.                                               *)
TradesOnce ==
  overwrote = {} =>
    \A id \in DOMAIN arrived :
      /\ traded[id] <= 1 + unmarked[id]
      /\ traded[id] > 0 => \A k \in DOMAIN arrived :
           arrived[k] = "/kill" /\ k < id => k \in lost \cup failed

(* The characters of all the pieces.                                       *)
Characters(pieces) == SumFunction([i \in DOMAIN pieces |-> SumFunction(pieces[i])])

(* Whatever the report, each of its pieces is short enough for Telegram    *)
(* and together they are all of it.                                        *)
PiecesArrive ==
  /\ \A i \in DOMAIN outbox : Sent(outbox)[i] <= MaxLength
  /\ outbox # <<>> => \E report \in Reports : Characters(outbox) = SumFunction(report)

(* Every message is processed, if the bot lives long enough.               *)
EveryMessageIsRead ==
  \A id \in Ids : (id \in DOMAIN arrived /\ Ours(id)) ~> (id \in ran \cup lost)
=============================================================================
