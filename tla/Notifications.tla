----------------------------- MODULE Notifications -----------------------------
(***************************************************************************)
(* What the ladder says, and who waits for it to be said: the channel of   *)
(* notifications between the Back (internal/back/notification.go), whose   *)
(* goroutines put notifications in it, most of them in the middle of a SQL *)
(* transaction, and the Discord bot (internal/bot), which takes them out;  *)
(* and the shutdown of the two by serve (main.go).                         *)
(*                                                                         *)
(* A transaction holds the database from its first statement to its end.   *)
(* It is one record, tx: the notifications it still has to send, in order, *)
(* and the tables it will have written once it is committed.  Between two  *)
(* sends, anybody who does not need the database may take a step, and so   *)
(* may a failure that rolls it back.                                       *)
(*                                                                         *)
(* Every race is at a given date; the players of a session are those who   *)
(* are registered when it is prepared, those of no other, and they are     *)
(* paired in the order they joined (MatchSessions and Pairing say more of  *)
(* both).                                                                  *)
(***************************************************************************)
EXTENDS MatchEntry, Sequences, SequencesExt, FiniteSets

CONSTANTS
    Sessions,
    Players,
    Entrants,        \* the sequences of players that may have joined a session
    Channel,         \* [Sessions -> announce channel of the league, or NoRecipient]
    NoRecipient,     \* the empty Discord ID
    StartDate,       \* [Sessions -> Nat], in ticks of the clock
    JoinableAt,      \* ticks before the start a session opens at (1 hour)
    PreparationAt,   \* ticks before the start it is prepared at (15 minutes)
    StartLead,       \* ticks before the start its countdown may begin (90 s)
    Countdowns,      \* ticks left at which the countdown speaks (60 s to 1 s)
    Capacity,        \* of the channel (32)
    MaxAttempts,     \* of a message to Discord (4)
    Prompt,          \* bound: TRUE: a pass of the daemon takes less than a tick
    Signals,         \* bound: TRUE: the process may be asked to stop
    Commanders,      \* bound: the players who give commands
    MaxSeeds,        \* bound: seeds whose generation ends
    MaxTime,         \* bound: the clock stops there
    Incidents,       \* bound: those of "failure" (of a transaction), "post" (a
                     \* failed attempt at posting) and "ask" (a recap, a seed)
                     \* that may happen
    MaxIncidents     \* bound: as many times in all

ASSUME ChannelAssumption ==
    /\ Capacity \in Nat \ {0}
    /\ MaxAttempts \in Nat \ {0}
    /\ Signals \in BOOLEAN
    /\ Prompt \in BOOLEAN
    /\ Entrants \subseteq Seq(Players) /\ \A e \in Entrants : IsInjective(e)
    /\ Commanders \subseteq Players

ASSUME SessionsAssumption ==
    /\ IsFiniteSet(Sessions)
    /\ StartDate \in [Sessions -> Nat]
    /\ JoinableAt \in Nat /\ PreparationAt \in Nat /\ StartLead \in Nat
    /\ Countdowns \subseteq Nat
    /\ MaxIncidents \in Nat

VARIABLES
    now,         \* the clock
    \* the tables, as committed
    joined,      \* [Sessions -> the players, in the order they joined]
    status,      \* [Sessions -> status of the row, or "None"]
    paired,      \* sessions whose matches have rows
    entry,       \* [Players -> the MatchEntry row]
    \* the transaction that holds the database
    tx,
    \* goroutines
    daemon,      \* the next transaction of Back.Run, or where it waits
    prepared,    \* sessions it prepared in this pass
    closing,     \* sessions it closed in this pass
    count,       \* [Sessions -> state of the countdown goroutine]
    least,       \* [Sessions -> least countdown it has spoken at]
    go,          \* [Sessions -> state of the goroutine that says "starts now"]
    seeds,       \* [player of the first entry of a match -> worker that makes its seed]
    command,     \* [Players -> where the command of the player is]
    \* the channel and the bot
    queue,       \* Back.notifications
    bot,         \* "booting", "serving" or "left"
    sending,     \* the notification the bot has taken, or NoNotification
    attempts,    \* failed attempts at it
    \* the process
    main,        \* "serving", "closing" (done is closed) or "exited"
    added,       \* goroutines that have called wg.Add
    \* what was said
    announced,   \* status updates, kicks and closures that entered the channel
    told,        \* [Players -> outcomes of the last MatchEnd posted to him]
    lost,        \* players whose last MatchEnd was given up
    incidents    \* how many there have been

tableVars   == <<joined, status, paired, entry>>
daemonVars  == <<daemon, prepared, closing>>
raceVars    == <<count, least, go, seeds>>
botVars     == <<bot, sending, attempts>>
processVars == <<main, added>>
vars == <<now, tableVars, tx, daemonVars, raceVars, command, queue, botVars,
          processVars, announced, told, lost, incidents>>

\* Players in the order they joined, without the last of an odd number.
Kept(s) == SubSeq(joined[s], 1, 2 * (Len(joined[s]) \div 2))

\* Player q has the second entry of the match whose first entry is f's.
AreMatched(f, q) ==
    \E s \in Sessions : \E i \in 1..(Len(joined[s]) \div 2) :
        f = Kept(s)[2*i - 1] /\ q = Kept(s)[2*i]

\* A match is known by the player of its first entry.
MatchesOf(s) == {Kept(s)[2*i - 1] : i \in 1..(Len(joined[s]) \div 2)}

Matches == UNION {MatchesOf(s) : s \in Sessions}

Opponent(p) == CHOOSE q \in Players : AreMatched(p, q) \/ AreMatched(q, p)

BothOf(m) == {m, Opponent(m)}

SessionOf(p) == CHOOSE s \in Sessions : p \in ToSet(joined[s])

Left(s) == StartDate[s] - now

-------------------------------------------------------------------------------
(***************************************************************************)
(* The notifications.  A notification is addressed to a player or to an    *)
(* announce channel; "shows" is what its body tells of the results.        *)
(***************************************************************************)

Recipients == Players \cup {Channel[s] : s \in Sessions} \cup {NoRecipient}

NotificationTypes ==
    {"StatusUpdate", "MatchEnd", "MatchSeed", "Countdown", "Empty", "OddKick", "Recap",
     "SpoilerLog", "LeaderboardUpdate"}

NoNotification == [type |-> "none", to |-> NoRecipient, about |-> "none", shows |-> {}]

Note(type, to, about, shows) ==
    [type |-> type, to |-> to, about |-> about, shows |-> shows]

Say(type, to, about, shows) == <<Note(type, to, about, shows)>>

\* sendSessionStatusUpdateNotification; the countdown has a type of its own here,
\* and that of a status update in the code.
StatusUpdate(s, st)  == Say("StatusUpdate", Channel[s], s, {st})
Countdown(s)         == Say("Countdown", Channel[s], s, {})
OddKick(s, p)        == Say("OddKick", p, s, {})
MatchSeed(to, m)     == Note("MatchSeed", to, m, {})
SpoilerLog(to)       == Note("SpoilerLog", to, "none", {})

Empty_ChannelOnly(s, ids) == Say("Empty", Channel[s], s, {})

\* sendMatchSessionEmptyNotification: the announce channel, then whoever joined.
Empty(s, ids) ==
    Say("Empty", Channel[s], s, {})
        \o [i \in 1..Len(ids) |-> Note("Empty", ids[i], s, {})]

\* sendMatchEndNotification tells a player who has ended what he may know of
\* the outcome so far.
MatchEnd(p, self) == Say("MatchEnd", p, SessionOf(p), {self.outcome})

\* A leaderboard without any rating certain enough is not sent.
LeaderboardUpdate(s, isEmpty) ==
    IF isEmpty THEN <<>> ELSE Say("LeaderboardUpdate", Channel[s], s, {})

MatchEnds_SelfOnly(p, self, against) == MatchEnd(p, self)

\* maybeSendMatchEndNotifications: the player, then the opponent if he ended too.
MatchEnds(p, self, against) ==
    (IF HasEnded(self) THEN MatchEnd(p, self) ELSE <<>>)
        \o (IF HasEnded(against) THEN MatchEnd(Opponent(p), against) ELSE <<>>)

\* writeResultsTable: a recap shows a match whose two entries have ended, one
\* of them to a runner, none to an administrator.
Shown_OneEnded(m, scope) == \E p \in BothOf(m) : HasEnded(entry[p])

Shown(m, scope) ==
    CASE scope = "Public" -> \A p \in BothOf(m) : HasEnded(entry[p])
      [] scope = "Runner" -> \E p \in BothOf(m) : HasEnded(entry[p])
      [] scope = "Admin"  -> TRUE

\* sendSessionRecapNotification; what it shows is, of each player, his outcome.
Recap(s, to, scope) ==
    LET known == IF s \in paired THEN {m \in MatchesOf(s) : Shown(m, scope)} ELSE {}
    IN  Say("Recap", to, <<s, scope>>, {<<p, entry[p].outcome>> : p \in UNION {BothOf(m) : m \in known}})

-------------------------------------------------------------------------------
(***************************************************************************)
(* Transactions.                                                           *)
(***************************************************************************)

Nobody == <<"nobody">>
Daemon == <<"daemon">>
Bot == <<"bot">>
Counting(s) == <<"count", s>>
GoingLive(s) == <<"go", s>>
Commanding(p) == <<"command", p>>

NoTx == [by |-> Nobody, sends |-> <<>>, status |-> <<>>, paired |-> {}, entry |-> <<>>]

IsFree == tx.by = Nobody

\* A goroutine runs a transaction that sends these notifications and writes those
\* tables.  It is one step when there is nothing to send; else the goroutine is
\* held in it until it is committed or rolled back.
Transact(by, sends, newStatus, newPaired, newEntry) ==
    /\ IsFree
    /\ UNCHANGED joined
    /\ IF sends = <<>>
       THEN status' = newStatus /\ paired' = newPaired /\ entry' = newEntry /\ UNCHANGED tx
       ELSE /\ tx' = [by |-> by, sends |-> sends, status |-> newStatus, paired |-> newPaired,
                      entry |-> newEntry]
            /\ UNCHANGED <<status, paired, entry>>

\* One that only reads.
Read(by, sends) == Transact(by, sends, status, paired, entry)

\* What the announcements are remembered by.
Announcement(n) == <<n.type, n.about, n.to, n.shows>>

Happens(kind) ==
    /\ kind \in Incidents
    /\ incidents < MaxIncidents
    /\ incidents' = incidents + 1

Put_Unbounded(n) ==
    /\ queue' = Append(queue, n)
    /\ announced' = announced

Put(n) ==
    /\ Len(queue) < Capacity
    /\ queue' = Append(queue, n)
    /\ announced' = IF n.type \in {"StatusUpdate", "OddKick", "Empty"}
                    THEN announced \cup {Announcement(n)} ELSE announced

\* A send inside the transaction: it waits for room in the channel.
TxSend ==
    /\ tx.sends # <<>>
    /\ Put(Head(tx.sends))
    /\ tx' = [tx EXCEPT !.sends = Tail(@)]
    /\ UNCHANGED <<now, tableVars, daemonVars, raceVars, command, botVars, processVars,
                   told, lost, incidents>>

\* The transaction whose callback returned is committed.
TxCommits ==
    /\ ~IsFree
    /\ tx.sends = <<>>
    /\ status' = tx.status
    /\ paired' = tx.paired
    /\ entry' = tx.entry
    /\ tx' = NoTx
    /\ UNCHANGED <<now, joined, daemonVars, raceVars, command, queue, botVars, processVars,
                   announced, told, lost, incidents>>

\* A transaction fails at any point and is rolled back; the notifications it has
\* sent are not taken back.  The daemon's pass ends there, a command answers with
\* the error, and the goroutines of a race log it and go on.
TxFails ==
    /\ ~IsFree
    /\ Happens("failure")
    /\ tx' = NoTx
    /\ IF tx.by = Daemon
       THEN daemon' = "asleep" /\ prepared' = {} /\ closing' = {}
       ELSE UNCHANGED daemonVars
    /\ command' = [p \in Players |-> IF tx.by = Commanding(p) THEN "idle" ELSE command[p]]
    /\ UNCHANGED <<now, tableVars, raceVars, queue, botVars, processVars, announced, told, lost>>

-------------------------------------------------------------------------------
(***************************************************************************)
(* The daemon.  Its passes run these transactions one after the other; it  *)
(* waits a minute between two passes, and leaves once done is closed.      *)
(***************************************************************************)

\* The notifications of a loop over sessions, given those of each.
EachOf(says) ==
    LET sessions == SetToSeq(DOMAIN says)
    IN  FlattenSeq([i \in 1..Len(sessions) |-> says[sessions[i]]])

Updated(S, st) == [s \in Sessions |-> IF s \in S THEN st ELSE status[s]]

BootDaemon ==
    /\ daemon = "booting"
    /\ daemon' = "create"
    /\ added' = added \cup {Daemon}
    /\ UNCHANGED <<now, tableVars, tx, prepared, closing, raceVars, command, queue, botVars,
                   main, announced, told, lost, incidents>>

\* createNextScheduledMatchSessions, whatever the schedule says is next.
Create ==
    /\ daemon = "create"
    /\ LET S == {s \in Sessions : status[s] = "None" /\ Left(s) > 0}
       IN  Transact(Daemon, EachOf([s \in S |-> StatusUpdate(s, "Waiting")]),
                    Updated(S, "Waiting"), paired, entry)
    /\ UNCHANGED <<prepared, closing, count, seeds>>

MakeJoinable ==
    /\ daemon = "joinable"
    /\ LET S == {s \in Sessions : /\ status[s] = "Waiting"
                                  /\ PreparationAt < Left(s) /\ Left(s) <= JoinableAt}
       IN  Transact(Daemon, EachOf([s \in S |-> StatusUpdate(s, "Joinable")]),
                    Updated(S, "Joinable"), paired, entry)
    /\ UNCHANGED <<prepared, closing, count, seeds>>

\* makeMatchSessionsPreparing: a session without two players is closed.
MakePreparing ==
    /\ daemon = "prepare"
    /\ LET S == {s \in Sessions : status[s] = "Joinable" /\ 0 < Left(s) /\ Left(s) <= PreparationAt}
           Enough == {s \in S : Len(joined[s]) >= 2}
       IN  /\ Transact(Daemon,
                       EachOf([s \in S |-> IF s \in Enough THEN StatusUpdate(s, "Preparing")
                                                           ELSE Empty(s, joined[s])]),
                       [s \in Sessions |-> IF s \in Enough THEN "Preparing"
                                           ELSE IF s \in S THEN "Closed" ELSE status[s]],
                       paired, entry)
           /\ prepared' = Enough
    /\ UNCHANGED <<closing, count, seeds>>

\* doMatchMaking: the odd player is kicked, rows are made, and the workers that
\* generate the seeds are started before the transaction ends.
MatchMake ==
    /\ daemon = "matchmake"
    /\ LET rows == UNION {MatchesOf(s) : s \in prepared}
       IN  /\ Transact(Daemon,
                       EachOf([s \in {x \in prepared : Len(joined[x]) % 2 = 1} |->
                                  OddKick(s, Last(joined[s]))]),
                       status, paired \cup prepared,
                       [p \in Players |-> IF \E m \in rows : p \in BothOf(m)
                                          THEN NewMatchEntry ELSE entry[p]])
           /\ seeds' = [m \in Players |-> IF m \in rows THEN "generating" ELSE seeds[m]]
    /\ prepared' = {}
    /\ UNCHANGED <<closing, count>>

\* startMatchSessionsCountDown: nothing is sent; a session has one countdown.
StartCountdowns ==
    /\ daemon = "start"
    /\ Read(Daemon, <<>>)
    /\ count' = [s \in Sessions |->
                    IF status[s] = "Preparing" /\ count[s] = "none" /\ Left(s) <= StartLead
                    THEN "counting" ELSE count[s]]
    /\ UNCHANGED <<prepared, closing, seeds>>

ToEnd == {s \in Sessions : /\ status[s] \notin {"None", "Closed"}
                           /\ Left(s) < 0
                           /\ s \in paired => \A p \in ToSet(Kept(s)) : HasEnded(entry[p])}

\* The first two transactions of closeMatchSessionsAndUpdateRanks send nothing.
CloseSessions ==
    /\ daemon = "close"
    /\ Transact(Daemon, <<>>, Updated(ToEnd, "Closed"), paired, entry)
    /\ closing' = ToEnd
    /\ UNCHANGED <<prepared, count, seeds>>

\* The third one does.
AnnounceClosed ==
    /\ daemon = "announce"
    /\ \E isEmpty \in BOOLEAN :
          Read(Daemon, EachOf([s \in closing |-> StatusUpdate(s, "Closed")
                                                    \o Recap(s, Channel[s], "Public")
                                                    \o LeaderboardUpdate(s, isEmpty)]))
    /\ closing' = {}
    /\ UNCHANGED <<prepared, count, seeds>>

NextTransaction ==
    [create |-> "joinable", joinable |-> "prepare", prepare |-> "matchmake",
     matchmake |-> "start", start |-> "close", close |-> "announce", announce |-> "asleep"]

\* Back.runPeriodicTasks
DaemonTask ==
    /\ \/ Create \/ MakeJoinable \/ MakePreparing \/ MatchMake \/ StartCountdowns
       \/ CloseSessions \/ AnnounceClosed
    /\ daemon' = NextTransaction[daemon]
    /\ UNCHANGED <<now, least, go, command, queue, botVars, processVars, announced, told, lost,
                   incidents>>

DaemonWakes_IgnoresDone ==
    /\ daemon = "asleep"
    /\ tx.by # Daemon
    /\ daemon' = "create"
    /\ UNCHANGED <<now, tableVars, tx, prepared, closing, raceVars, command, queue, botVars,
                   processVars, announced, told, lost, incidents>>

\* The minute has passed, unless done is closed: it is then ready first.
DaemonWakes ==
    /\ daemon = "asleep"
    /\ tx.by # Daemon
    /\ daemon' = IF main = "closing" THEN "left" ELSE "create"
    /\ UNCHANGED <<now, tableVars, tx, prepared, closing, raceVars, command, queue, botVars,
                   processVars, announced, told, lost, incidents>>

-------------------------------------------------------------------------------
(***************************************************************************)
(* The goroutines of a race: its countdown, the one that says it starts,   *)
(* and the workers that make its seeds.                                    *)
(***************************************************************************)

\* The longest of the countdowns that are due and below the last one said.
Due(s) == {v \in Countdowns : v < least[s] /\ v >= Left(s)}

\* An error is logged, and the countdown goes on.
SayCountdown(s) ==
    /\ count[s] = "counting"
    /\ Left(s) > 0
    /\ \E v \in Due(s) : (\A w \in Due(s) : w <= v) /\ least' = [least EXCEPT ![s] = v]
    /\ Read(Counting(s), Countdown(s))
    /\ UNCHANGED <<count, go>>

\* The date is reached: another goroutine says so, this one starts the session.
Elapse(s) ==
    /\ count[s] = "counting"
    /\ tx.by # Counting(s)
    /\ Left(s) <= 0
    /\ count' = [count EXCEPT ![s] = "starting"]
    /\ go' = [go EXCEPT ![s] = "pending"]
    /\ UNCHANGED <<tableVars, tx, least>>

SayStartsNow(s) ==
    /\ go[s] = "pending"
    /\ Read(GoingLive(s), StatusUpdate(s, "InProgress"))
    /\ go' = [go EXCEPT ![s] = "said"]
    /\ UNCHANGED <<count, least>>

\* The last transaction of the countdown, from its copy of the session.
StartSession(s) ==
    /\ count[s] = "starting"
    /\ Transact(Counting(s), <<>>, [status EXCEPT ![s] = "InProgress"], paired,
                [p \in Players |-> IF s \in paired /\ p \in ToSet(Kept(s))
                                   THEN StartedEntry(entry[p]) ELSE entry[p]])
    /\ count' = [count EXCEPT ![s] = "started"]
    /\ UNCHANGED <<least, go>>

RaceStep ==
    /\ \E s \in Sessions : SayCountdown(s) \/ Elapse(s) \/ SayStartsNow(s) \/ StartSession(s)
    /\ UNCHANGED <<now, daemonVars, seeds, command, queue, botVars, processVars, announced,
                   told, lost, incidents>>

\* generateAndSendMatchSeed writes the match, and then sends, to one player after
\* the other; a generation or a write that fails is logged.
GenerateSeed(m) ==
    /\ seeds[m] = "generating"
    /\ \/ /\ IsFree
          /\ Cardinality({f \in Matches : seeds[f] \in {"first", "second", "sent"}}) < MaxSeeds
          /\ seeds' = [seeds EXCEPT ![m] = "first"]
          /\ UNCHANGED incidents
       \/ /\ Happens("failure")
          /\ seeds' = [seeds EXCEPT ![m] = "none"]
    /\ UNCHANGED <<queue, announced>>

SendSeed(m) ==
    /\ \/ /\ seeds[m] = "first"
          /\ Put(MatchSeed(m, m))
          /\ seeds' = [seeds EXCEPT ![m] = "second"]
       \/ /\ seeds[m] = "second"
          /\ Put(MatchSeed(Opponent(m), m))
          /\ seeds' = [seeds EXCEPT ![m] = "sent"]
    /\ UNCHANGED incidents

SeedStep ==
    /\ \E m \in Matches : GenerateSeed(m) \/ SendSeed(m)
    /\ UNCHANGED <<now, tableVars, tx, daemonVars, count, least, go, command, botVars,
                   processVars, told, lost>>

-------------------------------------------------------------------------------
(***************************************************************************)
(* The commands of the players; a player gives one at a time here.         *)
(***************************************************************************)

\* endActiveMatch, its first transaction: both entries are written, and the
\* players who have ended are told so before the commit.
EndRace(p, e, against) ==
    /\ command[p] = "idle"
    /\ Unfinished(entry[p])
    /\ status[SessionOf(p)] \in {"Preparing", "InProgress"}
    /\ Transact(Commanding(p), MatchEnds(p, e, against), status, paired,
                [entry EXCEPT ![p] = e, ![Opponent(p)] = against])
    /\ command' = [command EXCEPT ![p] = "ended"]
    /\ UNCHANGED <<queue, announced, incidents>>

Forfeit(p) ==
    EndRace(p, Forfeited(entry[Opponent(p)]), AgainstForfeit(entry[Opponent(p)]))

Complete(p) ==
    /\ entry[p].status = "InProgress"
    /\ EndRace(p, Completed(entry[Opponent(p)]), AgainstCompletion(entry[Opponent(p)]))

\* Then sendPrivateRecapForSessionID, in a transaction of its own.
SendPrivateRecap(p) ==
    /\ command[p] = "ended"
    /\ Read(Commanding(p), Recap(SessionOf(p), p, "Runner"))
    /\ command' = [command EXCEPT ![p] = "log"]
    /\ UNCHANGED <<queue, announced, incidents>>

\* And sendSpoilerLogNotification, out of any.
SendSpoilerLog(p) ==
    /\ command[p] = "log"
    /\ tx.by # Commanding(p)
    /\ Put(SpoilerLog(p))
    /\ command' = [command EXCEPT ![p] = "idle"]
    /\ UNCHANGED <<tableVars, tx, incidents>>

\* A command that reads, and answers with notifications.
Ask(p, sends) ==
    /\ command[p] = "idle"
    /\ tx.by # Commanding(p)
    /\ Happens("ask")
    /\ Read(Commanding(p), sends)
    /\ UNCHANGED <<command, queue, announced>>

\* SendRecaps, the answer to "!recap": each session that prepares or races.
AskRecap(p) ==
    \E scope \in {"Public", "Admin"} :
        Ask(p, EachOf([s \in {x \in Sessions : status[x] \in {"InProgress", "Preparing"}} |->
                          Recap(s, p, scope)]))

\* SendDevSeed, the answer to "!seed", keeps its transaction open while it
\* generates; the second player of the match it makes up is nobody.
AskSeed(p) ==
    Ask(p, <<MatchSeed(p, "none"), MatchSeed(NoRecipient, "none"), SpoilerLog(p)>>)

CommandStep ==
    /\ \E p \in Commanders : \/ Forfeit(p) \/ Complete(p)
                          \/ SendPrivateRecap(p) \/ SendSpoilerLog(p)
                          \/ AskRecap(p) \/ AskSeed(p)
    /\ UNCHANGED <<now, daemonVars, raceVars, botVars, processVars, told, lost>>

-------------------------------------------------------------------------------
(***************************************************************************)
(* The bot: the only consumer of the channel.                              *)
(***************************************************************************)

BootBot ==
    /\ bot = "booting"
    /\ bot' = "serving"
    /\ added' = added \cup {Bot}
    /\ UNCHANGED <<queue, sending, attempts, told, lost, incidents>>

\* The message was posted, or there was nobody to post it to.
Posted(n) ==
    /\ told' = IF n.type = "MatchEnd" THEN [told EXCEPT ![n.to] = n.shows] ELSE told
    /\ lost' = IF n.type = "MatchEnd" THEN lost \ {n.to} ELSE lost
    /\ sending' = NoNotification
    /\ attempts' = 0

\* Serve logs the error of sendNotification, and goes on to the next one.
GivenUp(n) ==
    /\ lost' = IF n.type = "MatchEnd" THEN lost \cup {n.to} ELSE lost
    /\ sending' = NoNotification
    /\ attempts' = 0
    /\ UNCHANGED told

AttemptFails_Forgets(n) ==
    /\ n.to # NoRecipient
    /\ Happens("post")
    /\ sending' = NoNotification
    /\ attempts' = 0
    /\ UNCHANGED <<told, lost>>

\* An attempt at posting a message fails; Flush gives up after the last one, and
\* nobody tries again to open the private channel of a player.
AttemptFails(n) ==
    /\ n.to # NoRecipient
    /\ Happens("post")
    /\ \/ /\ attempts + 1 < MaxAttempts
          /\ attempts' = attempts + 1
          /\ sending' = n
          /\ UNCHANGED <<told, lost>>
       \/ /\ attempts + 1 = MaxAttempts \/ (attempts = 0 /\ n.to \in Players)
          /\ GivenUp(n)

Take_NeedsDatabase ==
    /\ bot = "serving"
    /\ sending = NoNotification
    /\ queue # <<>>
    /\ IsFree
    /\ queue' = Tail(queue)
    /\ Posted(Head(queue))
    /\ UNCHANGED <<bot, added, incidents>>

\* One turn of Serve's loop takes a notification, whether or not done is closed,
\* and posts it; there is nothing to post without a recipient.
Take ==
    /\ bot = "serving"
    /\ sending = NoNotification
    /\ queue # <<>>
    /\ queue' = Tail(queue)
    /\ \/ Posted(Head(queue)) /\ UNCHANGED incidents
       \/ AttemptFails(Head(queue))
    /\ UNCHANGED <<bot, added>>

Retry ==
    /\ sending # NoNotification
    /\ \/ Posted(sending) /\ UNCHANGED incidents
       \/ AttemptFails(sending)
    /\ UNCHANGED <<bot, queue, added>>

BotLeaves ==
    /\ bot = "serving"
    /\ sending = NoNotification
    /\ main = "closing"
    /\ bot' = "left"
    /\ UNCHANGED <<queue, sending, attempts, told, lost, added, incidents>>

BotStep ==
    /\ BootBot \/ Take \/ Retry \/ BotLeaves
    /\ UNCHANGED <<now, tableVars, tx, daemonVars, raceVars, command, main, announced>>

-------------------------------------------------------------------------------
(***************************************************************************)
(* The process and time.                                                   *)
(***************************************************************************)

\* serve receives the signal and closes done.
Signal ==
    /\ main = "serving"
    /\ Signals
    /\ main' = "closing"

\* wg.Wait returns once those who called wg.Add have left: the process exits,
\* whatever the goroutines of the races and of the commands are doing.
Exit ==
    /\ main = "closing"
    /\ Daemon \in added => daemon = "left"
    /\ Bot \in added => bot = "left"
    /\ main' = "exited"

ProcessStep ==
    /\ Signal \/ Exit
    /\ UNCHANGED <<now, tableVars, tx, daemonVars, raceVars, command, queue, botVars, added,
                   announced, told, lost, incidents>>

Tick ==
    /\ now < MaxTime
    /\ Prompt => daemon \in {"asleep", "left"} /\ tx.by # Daemon
    /\ now' = now + 1
    /\ UNCHANGED <<tableVars, tx, daemonVars, raceVars, command, queue, botVars, processVars,
                   announced, told, lost, incidents>>

Init ==
    /\ now = 0
    /\ status = [s \in Sessions |-> "None"]
    /\ joined \in [Sessions -> Entrants]
    /\ \A s, t \in Sessions : s # t => ToSet(joined[s]) \cap ToSet(joined[t]) = {}
    /\ paired = {}
    /\ entry = [p \in Players |-> NoEntry]
    /\ tx = NoTx
    /\ daemon = "booting" /\ prepared = {} /\ closing = {}
    /\ count = [s \in Sessions |-> "none"]
    /\ least = [s \in Sessions |-> StartLead + 1]
    /\ go = [s \in Sessions |-> "none"]
    /\ seeds = [m \in Players |-> "none"]
    /\ command = [p \in Players |-> "idle"]
    /\ queue = <<>>
    /\ bot = "booting" /\ sending = NoNotification /\ attempts = 0
    /\ main = "serving" /\ added = {}
    /\ announced = {}
    /\ told = [p \in Players |-> {}] /\ lost = {}
    /\ incidents = 0

DaemonStep == BootDaemon \/ DaemonTask \/ DaemonWakes

\* Nothing survives the exit of the process but the tables.
Next ==
    /\ main # "exited"
    /\ \/ TxSend \/ TxCommits \/ TxFails
       \/ DaemonStep \/ RaceStep \/ SeedStep \/ CommandStep
       \/ BotStep
       \/ ProcessStep
       \/ Tick

Spec == Init /\ [][Next]_vars

Alive(A) == main # "exited" /\ A

\* Goroutines that can run do, an attempt to post ends one way or another, and a
\* lock that is free again and again is given in the end.  Nobody owes a signal
\* or a command.  Between a notification and done, both ready, select picks at
\* random: the bot that is asked to leave does not take notifications for ever.
Fairness ==
    /\ WF_vars(Alive(TxSend))
    /\ SF_vars(Alive(DaemonStep))
    /\ SF_vars(Alive(RaceStep))
    /\ SF_vars(Alive(SeedStep))
    /\ SF_vars(Alive(\E p \in Players : SendPrivateRecap(p) /\ CommandStep))
    /\ SF_vars(Alive(\E p \in Players : SendSpoilerLog(p) /\ CommandStep))
    /\ WF_vars(Alive(TxCommits))
    /\ WF_vars(Alive(BotStep))
    /\ SF_vars(Alive(BotLeaves /\ BotStep))
    /\ WF_vars(Alive(ProcessStep /\ main = "closing"))
    /\ WF_vars(Alive(Tick))

FairSpec == Spec /\ Fairness

-------------------------------------------------------------------------------
(***************************************************************************)
(* Safety.                                                                 *)
(***************************************************************************)

DaemonStates ==
    {"booting", "create", "joinable", "prepare", "matchmake", "start", "close", "announce",
     "asleep", "left"}

TypeOK ==
    /\ now \in Nat
    /\ joined \in [Sessions -> Entrants]
    /\ status \in [Sessions -> {"None", "Waiting", "Joinable", "Preparing", "InProgress",
                              "Closed"}]
    /\ paired \in SUBSET Sessions
    /\ entry \in [Players -> Entries]
    /\ tx.by \in {Nobody, Daemon} \cup {Counting(s) : s \in Sessions}
                  \cup {GoingLive(s) : s \in Sessions} \cup {Commanding(p) : p \in Players}
    /\ \A n \in ToSet(tx.sends) : n.type \in NotificationTypes /\ n.to \in Recipients
    /\ daemon \in DaemonStates
    /\ prepared \in SUBSET Sessions /\ closing \in SUBSET Sessions
    /\ count \in [Sessions -> {"none", "counting", "starting", "started"}]
    /\ least \in [Sessions -> Nat]
    /\ go \in [Sessions -> {"none", "pending", "said"}]
    /\ seeds \in [Players -> {"none", "generating", "first", "second", "sent"}]
    /\ command \in [Players -> {"idle", "ended", "log"}]
    /\ \A n \in ToSet(queue) : n.type \in NotificationTypes /\ n.to \in Recipients
    /\ Len(queue) <= Capacity
    /\ bot \in {"booting", "serving", "left"}
    /\ sending.to \in Recipients
    /\ attempts \in 0..(MaxAttempts - 1)
    /\ main \in {"serving", "closing", "exited"}
    /\ added \subseteq {Daemon, Bot}
    /\ told \in [Players -> SUBSET EntryOutcome]
    /\ lost \subseteq Players
    /\ incidents \in 0..MaxIncidents

\* What is on its way to its recipient.
InFlight == (IF sending = NoNotification THEN <<>> ELSE <<sending>>) \o queue

EndsMatchOf(n, p) == n.type = "MatchEnd" /\ n.to = p

EndingsTo(p) == {i \in DOMAIN InFlight : EndsMatchOf(InFlight[i], p)}

LastWord(p) == IF EndingsTo(p) = {} THEN told[p] ELSE InFlight[Max(EndingsTo(p))].shows

\* The last a player hears of a match that is over is its outcome, whoever of the
\* two ended first and although the two are told by different goroutines, with
\* transactions that are rolled back after they have told it (back_racing.go,
\* maybeSendMatchEndNotifications); what the bot could not post is not heard.
LastWordIsOutcome ==
    IsFree => \A m \in Matches :
        (\A p \in BothOf(m) : HasEnded(entry[p])) =>
            \A p \in BothOf(m) :
                \/ LastWord(p) = {entry[p].outcome}
                \/ EndingsTo(p) = {} /\ p \in lost

\* A player who has ended his race has heard of it or is about to, although
\* transactions fail and so do attempts at posting: only a message that the bot
\* gives up is lost (bot_notifications.go, channel_writer.go).
EndedIsTold ==
    IsFree => \A p \in Players :
        HasEnded(entry[p]) => LastWord(p) # {} \/ p \in lost

IsDue(n) ==
    n.type = "Recap" =>
        /\ n.about[2] = "Public" => \A r \in n.shows :
              /\ entry[r[1]].outcome = r[2]
              /\ HasEnded(entry[r[1]]) /\ HasEnded(entry[Opponent(r[1])])
        /\ n.about[2] = "Runner" => HasEnded(entry[n.to])

\* A recap that anybody may read shows only the results of matches that are over,
\* and they will not change; a recap for runners is read by nobody who is still
\* racing (notification.go, writeResultsTable).
RecapsAreDue == \A n \in ToSet(InFlight) : IsDue(n)

AreAnnounced(rows, matched, said) ==
    \A s \in Sessions :
        /\ rows[s] \in {"Waiting", "Joinable", "Preparing"} =>
              <<"StatusUpdate", s, Channel[s], {rows[s]}>> \in said
        /\ s \in matched =>
              \A p \in ToSet(joined[s]) \ ToSet(Kept(s)) : <<"OddKick", s, p, {}>> \in said
        /\ rows[s] = "Closed" /\ Left(s) >= 0 =>
              \A r \in {Channel[s]} \cup ToSet(joined[s]) : <<"Empty", s, r, {}>> \in said

\* What is committed has been announced to whom it concerns: a step of a session
\* in its league's channel, a player who is kicked, and everybody when there is
\* no race, although the daemon may fail anywhere (back_periodic.go).
CommittedIsAnnounced == AreAnnounced(status, paired, announced)

-------------------------------------------------------------------------------
(***************************************************************************)
(* Liveness.                                                               *)
(***************************************************************************)

\* Nobody holds the database for ever because the channel is full: the bot takes
\* what is in it without needing the database (bot.go, Serve).
DatabaseIsReleased == []<>(IsFree \/ bot = "left")

\* Once the process is asked to stop it does, and nothing but a full channel that
\* the bot no longer reads can prevent it (main.go, serve).
ShutdownEnds ==
    (main = "closing") ~> (main = "exited" \/ (bot = "left" /\ Len(queue) = Capacity))

-------------------------------------------------------------------------------
(***************************************************************************)
(* What a comment says, where the code disagrees.                          *)
(***************************************************************************)

\* back.go: "Run performs all the matchmaking business until the done channel is
\* closed": the daemon stops then.
RunsUntilDone == (main = "closing") ~> (daemon = "left" \/ Daemon \notin added)

===============================================================================
