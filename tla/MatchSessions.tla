----------------------------- MODULE MatchSessions -----------------------------
(***************************************************************************)
(* The life of the race sessions of the ladder (internal/back): the        *)
(* periodic daemon that opens, matchmakes, starts and closes them, the     *)
(* goroutines it leaves behind (the countdown of a session, the generation *)
(* of a match's seed), and the players who join, cancel, complete and      *)
(* forfeit from Discord and from the web.                                  *)
(*                                                                         *)
(* Every SQL transaction is one atomic action (SQLite serializes them).    *)
(* What a goroutine read in one transaction and uses in a later one is a   *)
(* copy held in a variable of its own.  A transaction of the daemon may    *)
(* fail and roll back, and the process may stop and boot again at any      *)
(* point: the tables survive, everything in memory is lost.                *)
(***************************************************************************)
EXTENDS MatchEntry, Sequences

CONSTANTS
    Players,
    Sessions,             \* the slots of the schedules, each one race session
    LeagueOf,             \* [Sessions -> leagues]
    StartDate,            \* [Sessions -> Nat], in ticks of the clock
    JoinableAfterOffset,  \* MatchSessionJoinableAfterOffset (1 hour), in ticks
    PreparationOffset,    \* MatchSessionPreparationOffset (15 minutes), in ticks
    CountdownLead,        \* the 90 s of getMatchSessionsToStart, in ticks
    Prompt,               \* TRUE: the clock waits for the running daemon
    MaxTime,              \* bound: the clock stops there
    MaxFailures,          \* bound: failed transactions
    MaxStops              \* bound: stops of the process

ASSUME OffsetsAssumption ==
    /\ JoinableAfterOffset \in Nat
    /\ PreparationOffset \in Nat
    /\ CountdownLead \in Nat
    /\ CountdownLead <= PreparationOffset
    /\ PreparationOffset < JoinableAfterOffset

ASSUME ScheduleAssumption ==
    /\ StartDate \in [Sessions -> Nat]
    /\ \A s, t \in Sessions :
          s # t /\ LeagueOf[s] = LeagueOf[t] => StartDate[s] # StartDate[t]

ASSUME BoundsAssumption ==
    /\ Prompt \in BOOLEAN
    /\ MaxTime \in Nat
    /\ MaxFailures \in Nat
    /\ MaxStops \in Nat

VARIABLES
    now,           \* the clock
    \* MatchSession table
    status,        \* [Sessions -> Status of the row, or "None"]
    playerIDs,     \* [Sessions -> sequence of the players, by join date]
    \* Match and MatchEntry tables; a match is the pair of its two players
    matches,       \* [Sessions -> set of pairs that have a row]
    started,       \* [Sessions -> those whose StartedAt is not NULL]
    ended,         \* [Sessions -> those whose EndedAt is not NULL]
    entry,         \* [Sessions -> [Players -> the MatchEntry row]]
    \* the daemon
    pc,            \* the transaction it runs next, or "down"
    swept,         \* a whole pass was made since the clock last moved
    prepared,      \* sessions returned by makeMatchSessionsPreparing
    preparedIDs,   \* [Sessions -> PlayerIDs of those copies]
    closing,       \* sessions closed by this pass
    \* goroutines
    countingDown,  \* keys of Back.countingDown
    counting,      \* sessions with a live countdown goroutine
    countingIDs,   \* [Sessions -> PlayerIDs of the copy it holds]
    generating,    \* [Sessions -> matches whose seed is being generated]
    \* what was published
    recapped,      \* sessions whose public recap was sent
    \* bounds
    failures, stops

clockVars   == <<now, swept>>
sessionVars == <<status, playerIDs>>
matchVars   == <<matches, started, ended, entry>>
daemonVars  == <<pc, prepared, preparedIDs, closing>>
countVars   == <<countingDown, counting, countingIDs>>
boundVars   == <<failures, stops>>
vars == <<clockVars, sessionVars, matchVars, daemonVars, countVars,
          generating, recapped, boundVars>>

Status == {"None", "Waiting", "Joinable", "Preparing", "InProgress", "Closed"}

Pairs == {pr \in SUBSET Players : \E p, q \in Players : p # q /\ pr = {p, q}}

DaemonSteps ==
    {"create", "joinable", "prepare", "matchmake", "start", "close", "notify"}

TypeOK ==
    /\ now \in Nat
    /\ swept \in BOOLEAN
    /\ status \in [Sessions -> Status]
    /\ playerIDs \in [Sessions -> Seq(Players)]
    /\ matches \in [Sessions -> SUBSET Pairs]
    /\ started \in [Sessions -> SUBSET Pairs]
    /\ ended \in [Sessions -> SUBSET Pairs]
    /\ entry \in [Sessions -> [Players -> Entries]]
    /\ pc \in DaemonSteps \cup {"down"}
    /\ prepared \in SUBSET Sessions
    /\ preparedIDs \in [Sessions -> Seq(Players)]
    /\ closing \in SUBSET Sessions
    /\ countingDown \in SUBSET Sessions
    /\ counting \in SUBSET Sessions
    /\ countingIDs \in [Sessions -> Seq(Players)]
    /\ generating \in [Sessions -> SUBSET Pairs]
    /\ recapped \in SUBSET Sessions
    /\ failures \in Nat
    /\ stops \in Nat

Init ==
    /\ now = 0
    /\ swept = FALSE
    /\ status = [s \in Sessions |-> "None"]
    /\ playerIDs = [s \in Sessions |-> <<>>]
    /\ matches = [s \in Sessions |-> {}]
    /\ started = [s \in Sessions |-> {}]
    /\ ended = [s \in Sessions |-> {}]
    /\ entry = [s \in Sessions |-> [p \in Players |-> NoEntry]]
    /\ pc = "create"
    /\ prepared = {}
    /\ preparedIDs = [s \in Sessions |-> <<>>]
    /\ closing = {}
    /\ countingDown = {}
    /\ counting = {}
    /\ countingIDs = [s \in Sessions |-> <<>>]
    /\ generating = [s \in Sessions |-> {}]
    /\ recapped = {}
    /\ failures = 0
    /\ stops = 0

-------------------------------------------------------------------------------
(***************************************************************************)
(* PlayerIDs of a session.                                                 *)
(***************************************************************************)

HasPlayerID(ids, p) == \E i \in 1..Len(ids) : ids[i] = p

\* Entries are deduplicated, the order of registration is kept.
AddPlayerID(ids, p) == IF HasPlayerID(ids, p) THEN ids ELSE Append(ids, p)

RemovePlayerID(ids, p) ==
    LET i == CHOOSE k \in 1..Len(ids) : ids[k] = p
    IN  SubSeq(ids, 1, i - 1) \o SubSeq(ids, i + 1, Len(ids))

-------------------------------------------------------------------------------
(***************************************************************************)
(* The daemon: runPeriodicTasks runs these transactions in this order,     *)
(* every minute; the first error ends the pass.                            *)
(***************************************************************************)

\* The very next race of every league gets a session, if it has none yet.
CreateNextScheduledMatchSessions ==
    LET Upcoming(s) == StartDate[s] > now
        next == {s \in Sessions :
                    /\ Upcoming(s)
                    /\ \A t \in Sessions :
                          LeagueOf[t] = LeagueOf[s] /\ Upcoming(t)
                              => StartDate[s] <= StartDate[t]}
    IN  /\ pc = "create"
        /\ status' = [s \in Sessions |->
                         IF s \in next /\ status[s] = "None" THEN "Waiting" ELSE status[s]]
        /\ pc' = "joinable"
        /\ UNCHANGED <<clockVars, playerIDs, matchVars, prepared, preparedIDs, closing,
                       countVars, generating, recapped, boundVars>>

ToOpen_Strict == {s \in Sessions : /\ status[s] = "Waiting"
                                   /\ StartDate[s] > now + PreparationOffset
                                   /\ StartDate[s] < now + JoinableAfterOffset}

ToOpen == {s \in Sessions : /\ status[s] = "Waiting"
                            /\ StartDate[s] > now + PreparationOffset
                            /\ StartDate[s] <= now + JoinableAfterOffset}

MakeMatchSessionsJoinable ==
    /\ pc = "joinable"
    /\ status' = [s \in Sessions |-> IF s \in ToOpen THEN "Joinable" ELSE status[s]]
    /\ pc' = "prepare"
    /\ UNCHANGED <<clockVars, playerIDs, matchVars, prepared, preparedIDs, closing,
                   countVars, generating, recapped, boundVars>>

ToPrepare == {s \in Sessions : /\ status[s] = "Joinable"
                               /\ StartDate[s] > now
                               /\ StartDate[s] <= now + PreparationOffset}

EnoughPlayers(s) == Len(playerIDs[s]) >= 2

\* A session without two players is closed at once; the others are handed, as
\* copies, to the matchmaking of this same pass.
MakeMatchSessionsPreparing ==
    LET full == {s \in ToPrepare : EnoughPlayers(s)}
    IN  /\ pc = "prepare"
        /\ status' = [s \in Sessions |->
                         IF s \in full THEN "Preparing"
                         ELSE IF s \in ToPrepare THEN "Closed"
                         ELSE status[s]]
        /\ prepared' = full
        /\ preparedIDs' = [s \in Sessions |-> IF s \in full THEN playerIDs[s] ELSE <<>>]
        /\ pc' = "matchmake"
        /\ UNCHANGED <<clockVars, playerIDs, matchVars, closing, countVars,
                       generating, recapped, boundVars>>

KeptIDs_FirstGoes(s) ==
    IF Len(preparedIDs[s]) % 2 = 1 THEN Tail(preparedIDs[s]) ELSE preparedIDs[s]

\* ensureSessionIsValidForMatchMaking: the last of an odd number of players goes.
KeptIDs(s) ==
    LET ids == preparedIDs[s]
    IN  IF Len(ids) % 2 = 1 THEN RemovePlayerID(ids, ids[Len(ids)]) ELSE ids

KeptPlayers(s) == {p \in Players : HasPlayerID(KeptIDs(s), p)}

Pairings_NotRemoved(S) ==
    {M \in SUBSET {pr \in Pairs : pr \subseteq S} : \A p \in S : \E pr \in M : p \in pr}

\* What rangedPairPlayers may return: every player in exactly one pair.
Pairings(S) ==
    {M \in SUBSET {pr \in Pairs : pr \subseteq S} :
        \A p \in S : \E pr \in M : p \in pr /\ \A o \in M : p \in o => o = pr}

\* One pairing for each prepared session, none for the others.
PairingChoices ==
    {f \in [Sessions -> SUBSET Pairs] :
        \A s \in Sessions : IF s \in prepared THEN f[s] \in Pairings(KeptPlayers(s))
                                              ELSE f[s] = {}}

\* doMatchMaking: one transaction for all the prepared sessions.  It writes the
\* copy of each session back, creates its matches and their entries, and spawns
\* the goroutine that generates their seeds.
DoMatchMaking ==
    \E pairing \in PairingChoices :
        /\ pc = "matchmake"
        /\ status' = [s \in Sessions |-> IF s \in prepared THEN "Preparing" ELSE status[s]]
        /\ playerIDs' = [s \in Sessions |-> IF s \in prepared THEN KeptIDs(s)
                                                              ELSE playerIDs[s]]
        /\ matches' = [s \in Sessions |-> matches[s] \cup pairing[s]]
        /\ entry' = [s \in Sessions |-> [p \in Players |->
                        IF \E pr \in pairing[s] : p \in pr THEN NewMatchEntry
                                                           ELSE entry[s][p]]]
        /\ generating' = [s \in Sessions |-> IF s \in prepared
                                             THEN generating[s] \cup matches'[s]
                                             ELSE generating[s]]
        /\ prepared' = {}
        /\ preparedIDs' = [s \in Sessions |-> <<>>]
        /\ pc' = "start"
        /\ UNCHANGED <<clockVars, started, ended, closing, countVars, recapped, boundVars>>

ToStart_NotPast == {s \in Sessions : /\ status[s] = "Preparing"
                                     /\ StartDate[s] > now
                                     /\ StartDate[s] <= now + CountdownLead}

\* getMatchSessionsToStart: those whose start date is past are included.
ToStart == {s \in Sessions : status[s] = "Preparing" /\ StartDate[s] <= now + CountdownLead}

\* startMatchSessions spawns a countdown goroutine, with a copy of the session,
\* for each session about to start; a goroutine whose session is already in
\* countingDown returns at once.
StartMatchSessions ==
    LET fresh == ToStart \ countingDown
    IN  /\ pc = "start"
        /\ counting' = counting \cup fresh
        /\ countingIDs' = [s \in Sessions |-> IF s \in fresh THEN playerIDs[s]
                                                             ELSE countingIDs[s]]
        /\ countingDown' = countingDown \cup ToStart
        /\ pc' = "close"
        /\ UNCHANGED <<clockVars, sessionVars, matchVars, prepared, preparedIDs, closing,
                       generating, recapped, boundVars>>

ToEnd_AnyMatch == {s \in Sessions : /\ status[s] \notin {"None", "Closed"}
                                    /\ StartDate[s] < now
                                    /\ matches[s] = {} \/ matches[s] \cap ended[s] # {}}

ToEnd_Started == {s \in Sessions : /\ status[s] = "InProgress"
                                   /\ StartDate[s] < now
                                   /\ matches[s] \subseteq ended[s]}

\* getMatchSessionsToEnd: past their start, whatever their status, and with no
\* match still to end; a session that has no match at all is "stale".
ToEnd == {s \in Sessions : /\ status[s] \notin {"None", "Closed"}
                           /\ StartDate[s] < now
                           /\ matches[s] \subseteq ended[s]}

\* closeMatchSessionsAndUpdateRanks, first transaction.
CloseMatchSessions ==
    /\ pc = "close"
    /\ status' = [s \in Sessions |-> IF s \in ToEnd THEN "Closed" ELSE status[s]]
    /\ closing' = ToEnd
    /\ pc' = "notify"
    /\ UNCHANGED <<clockVars, playerIDs, matchVars, prepared, preparedIDs, countVars,
                   generating, recapped, boundVars>>

\* closeMatchSessionsAndUpdateRanks, the transactions that follow: rankings,
\* which are not state of this module, then the public recaps.
AnnounceClosedSessions ==
    /\ pc = "notify"
    /\ recapped' = recapped \cup closing
    /\ closing' = {}
    /\ pc' = "create"
    /\ swept' = TRUE
    /\ UNCHANGED <<now, sessionVars, matchVars, prepared, preparedIDs, countVars,
                   generating, boundVars>>

\* The seeds that a failing matchmaking leaves in generation: the goroutine of
\* a session is spawned inside the transaction, before it commits.
SpawnedBeforeRollback ==
    {f \in [Sessions -> SUBSET Pairs] :
        \A s \in Sessions : \/ f[s] = {}
                            \/ s \in prepared /\ f[s] \in Pairings(KeptPlayers(s))}

\* A transaction of the pass fails, is rolled back and ends the pass.
DaemonFails ==
    /\ failures < MaxFailures
    /\ pc \in DaemonSteps
    /\ IF pc = "matchmake"
       THEN \E f \in SpawnedBeforeRollback :
               generating' = [s \in Sessions |-> generating[s] \cup f[s]]
       ELSE UNCHANGED generating
    /\ pc' = "create"
    /\ prepared' = {}
    /\ preparedIDs' = [s \in Sessions |-> <<>>]
    /\ closing' = {}
    /\ failures' = failures + 1
    /\ UNCHANGED <<clockVars, sessionVars, matchVars, countVars, recapped, stops>>

DaemonStep ==
    \/ CreateNextScheduledMatchSessions
    \/ MakeMatchSessionsJoinable
    \/ MakeMatchSessionsPreparing
    \/ DoMatchMaking
    \/ StartMatchSessions
    \/ CloseMatchSessions
    \/ AnnounceClosedSessions

-------------------------------------------------------------------------------
(***************************************************************************)
(* The goroutines.                                                         *)
(***************************************************************************)

CountdownElapsed_Early(s) == now + CountdownLead >= StartDate[s]

CountdownElapsed(s) == now >= StartDate[s]

StartedEntries_OnePerMatch(s, fresh) ==
    [p \in Players |-> IF \E pr \in fresh : p = CHOOSE q \in pr : TRUE
                       THEN StartedEntry(entry[s][p]) ELSE entry[s][p]]

\* The entries of a session once its matches that were not started are.
StartedEntries(s, fresh) ==
    [p \in Players |-> IF \E pr \in fresh : p \in pr
                       THEN StartedEntry(entry[s][p]) ELSE entry[s][p]]

StartedSession_Kept(s) == status[s]

\* MatchSession.start looks at the status of the copy, which is Preparing.
StartedSession(s) == "InProgress"

\* countdownAndStartMatchSession, once the delay has elapsed: one transaction
\* that trusts the status of its copy, starts the matches the tables hold and
\* writes the copy of the session back.
StartSession(s) ==
    LET fresh == matches[s] \ started[s]
    IN  /\ s \in counting
        /\ CountdownElapsed(s)
        /\ status' = [status EXCEPT ![s] = StartedSession(s)]
        /\ playerIDs' = [playerIDs EXCEPT ![s] = countingIDs[s]]
        /\ started' = [started EXCEPT ![s] = @ \cup fresh]
        /\ entry' = [entry EXCEPT ![s] = StartedEntries(s, fresh)]
        /\ counting' = counting \ {s}
        /\ countingIDs' = [countingIDs EXCEPT ![s] = <<>>]
        /\ UNCHANGED <<clockVars, matches, ended, daemonVars, countingDown,
                       generating, recapped, boundVars>>

\* That transaction fails: the goroutine logs and returns, countingDown keeps
\* the session.
StartSessionFails(s) ==
    /\ failures < MaxFailures
    /\ s \in counting
    /\ CountdownElapsed(s)
    /\ counting' = counting \ {s}
    /\ countingIDs' = [countingIDs EXCEPT ![s] = <<>>]
    /\ failures' = failures + 1
    /\ UNCHANGED <<clockVars, sessionVars, matchVars, daemonVars, countingDown,
                   generating, recapped, stops>>

\* generateAndSendMatchSeed: the copy of the match, read right after it was
\* created, is written back with the spoiler log: its StartedAt and EndedAt are
\* NULL.  A match whose creation was rolled back has no row to update.
GenerateMatchSeed(s, pr) ==
    /\ pr \in generating[s]
    /\ generating' = [generating EXCEPT ![s] = @ \ {pr}]
    /\ started' = [started EXCEPT ![s] = @ \ {pr}]
    /\ ended' = [ended EXCEPT ![s] = @ \ {pr}]
    /\ UNCHANGED <<clockVars, sessionVars, matches, entry, daemonVars, countVars,
                   recapped, boundVars>>

\* The generator, or the transaction, fails: nothing is written.
GenerateMatchSeedFails(s, pr) ==
    /\ failures < MaxFailures
    /\ pr \in generating[s]
    /\ generating' = [generating EXCEPT ![s] = @ \ {pr}]
    /\ failures' = failures + 1
    /\ UNCHANGED <<clockVars, sessionVars, matchVars, daemonVars, countVars, recapped, stops>>

-------------------------------------------------------------------------------
(***************************************************************************)
(* The players.                                                            *)
(***************************************************************************)

RegisteredActive_EvenEnded(p) ==
    {s \in Sessions : /\ status[s] \in {"Joinable", "Preparing", "InProgress"}
                      /\ HasPlayerID(playerIDs[s], p)}

\* getPlayerActiveSession looks first at the sessions the player registered to
\* that are not over for him, then at any session with an unfinished entry.
RegisteredActive(p) ==
    {s \in Sessions : /\ status[s] \in {"Joinable", "Preparing", "InProgress"}
                      /\ HasPlayerID(playerIDs[s], p)
                      /\ ~HasEnded(entry[s][p])}

StartedActive(p) == {s \in Sessions : Unfinished(entry[s][p])}

HasActiveSession_Started(p) == StartedActive(p) # {}

HasActiveSession(p) == RegisteredActive(p) \cup StartedActive(p) # {}

\* The one with the earliest start, of any league.
IsActiveSession(p, s) ==
    LET S == IF RegisteredActive(p) # {} THEN RegisteredActive(p) ELSE StartedActive(p)
    IN  s \in S /\ \A t \in S : StartDate[s] <= StartDate[t]

JoinMatchSession(p, s) ==
    /\ ~HasPlayerID(playerIDs[s], p)
    /\ ~HasActiveSession(p)
    /\ playerIDs' = [playerIDs EXCEPT ![s] = AddPlayerID(@, p)]
    /\ UNCHANGED <<clockVars, status, matchVars, daemonVars, countVars,
                   generating, recapped, boundVars>>

\* !join SHORTCODE: the next session of the league that is joinable.
JoinCurrentMatchSessionByShortcode(p, s) ==
    LET Open(t) == status[t] = "Joinable" /\ StartDate[t] > now
    IN  /\ Open(s)
        /\ \A t \in Sessions :
              LeagueOf[t] = LeagueOf[s] /\ Open(t) => StartDate[s] <= StartDate[t]
        /\ JoinMatchSession(p, s)

\* The web form: the page offers only a joinable session, but the page may be
\* old when the form is sent, and the session is not looked at again.  That it
\* is open already rests on the form alone (IsJoinable in current_races.html).
JoinMatchSessionByID(p, s) ==
    /\ status[s] \notin {"None", "Waiting"}
    /\ JoinMatchSession(p, s)

CanCancel(s) == status[s] = "Joinable" /\ now + PreparationOffset <= StartDate[s]

CanForfeit(s) == ~CanCancel(s) /\ status[s] \in {"Preparing", "InProgress"}

CancelActiveMatchSession(p, s) ==
    /\ IsActiveSession(p, s)
    /\ CanCancel(s)
    /\ playerIDs' = [playerIDs EXCEPT ![s] = RemovePlayerID(@, p)]
    /\ UNCHANGED <<clockVars, status, matchVars, daemonVars, countVars,
                   generating, recapped, boundVars>>

\* The match of p against q in the active session of p.
IsActiveMatch(s, p, q) ==
    /\ p # q
    /\ IsActiveSession(p, s)
    /\ CanForfeit(s)
    /\ {p, q} \in matches[s]

MatchEnds_Always(s, pr, against) == [ended EXCEPT ![s] = @ \cup {pr}]

\* The second player to end his race ends the match.
MatchEnds(s, pr, against) ==
    IF HasEnded(against) THEN [ended EXCEPT ![s] = @ \cup {pr}] ELSE ended

ForfeitActiveMatch(s, p, q) ==
    LET against == entry[s][q]
    IN  /\ IsActiveMatch(s, p, q)
        /\ entry' = [entry EXCEPT ![s][p] = Forfeited(against),
                                  ![s][q] = AgainstForfeit(against)]
        /\ ended' = MatchEnds(s, {p, q}, against)
        /\ UNCHANGED <<clockVars, sessionVars, matches, started, daemonVars, countVars,
                       generating, recapped, boundVars>>

CompleteActiveMatch(s, p, q) ==
    LET against == entry[s][q]
    IN  /\ IsActiveMatch(s, p, q)
        /\ entry[s][p].status = "InProgress"
        /\ entry' = [entry EXCEPT ![s][p] = Completed(against),
                                  ![s][q] = AgainstCompletion(against)]
        /\ ended' = MatchEnds(s, {p, q}, against)
        /\ UNCHANGED <<clockVars, sessionVars, matches, started, daemonVars, countVars,
                       generating, recapped, boundVars>>

-------------------------------------------------------------------------------
(***************************************************************************)
(* Time, and the process.                                                  *)
(***************************************************************************)

\* With Prompt, a tick (several minutes) leaves the running daemon the time to
\* make a whole pass, a failed one being tried again a minute later, and a
\* countdown that has elapsed the time of its transaction.
Tick ==
    /\ now < MaxTime
    /\ Prompt /\ pc # "down" =>
          /\ swept
          /\ pc = "create"
          /\ \A s \in counting : now < StartDate[s]
    /\ now' = now + 1
    /\ swept' = FALSE
    /\ UNCHANGED <<sessionVars, matchVars, daemonVars, countVars, generating,
                   recapped, boundVars>>

\* The process stops: everything in memory is lost.
Stop ==
    /\ stops < MaxStops
    /\ pc # "down"
    /\ pc' = "down"
    /\ prepared' = {}
    /\ preparedIDs' = [s \in Sessions |-> <<>>]
    /\ closing' = {}
    /\ countingDown' = {}
    /\ counting' = {}
    /\ countingIDs' = [s \in Sessions |-> <<>>]
    /\ generating' = [s \in Sessions |-> {}]
    /\ stops' = stops + 1
    /\ UNCHANGED <<clockVars, sessionVars, matchVars, recapped, failures>>

\* It boots again: Run begins with a pass.
Boot ==
    /\ pc = "down"
    /\ pc' = "create"
    /\ UNCHANGED <<clockVars, sessionVars, matchVars, prepared, preparedIDs, closing,
                   countVars, generating, recapped, boundVars>>

PlayerStep ==
    /\ pc # "down"
    /\ \/ \E p \in Players, s \in Sessions :
             \/ JoinCurrentMatchSessionByShortcode(p, s)
             \/ JoinMatchSessionByID(p, s)
             \/ CancelActiveMatchSession(p, s)
       \/ \E s \in Sessions, p, q \in Players :
             \/ ForfeitActiveMatch(s, p, q)
             \/ CompleteActiveMatch(s, p, q)

GoroutineStep ==
    \E s \in Sessions :
        \/ StartSession(s)
        \/ StartSessionFails(s)
        \/ \E pr \in Pairs : GenerateMatchSeed(s, pr) \/ GenerateMatchSeedFails(s, pr)

Next ==
    \/ DaemonStep
    \/ DaemonFails
    \/ GoroutineStep
    \/ PlayerStep
    \/ Tick
    \/ Stop
    \/ Boot

Spec == Init /\ [][Next]_vars

\* The daemon loops for as long as the process runs, a goroutine is scheduled
\* and a generator answers, somebody restarts the process, and time passes.
\* Players owe nothing.
Fairness ==
    /\ WF_vars(Tick)
    /\ WF_vars(Boot)
    /\ WF_vars(DaemonStep)
    /\ \A s \in Sessions :
          /\ WF_vars(StartSession(s))
          /\ \A pr \in Pairs : WF_vars(GenerateMatchSeed(s, pr))

FairSpec == Spec /\ Fairness

-------------------------------------------------------------------------------
(***************************************************************************)
(* Safety.                                                                 *)
(***************************************************************************)

\* The two entries of a match always agree: the outcomes written at each end of
\* a race, in whatever order the two players finish or forfeit, are the ones
\* their statuses deserve (match_entry.go, forfeit and complete).
OutcomesConsistent ==
    \A s \in Sessions : \A p, q \in Players :
        p # q /\ {p, q} \in matches[s] => OutcomesAgree(entry[s][p], entry[s][q])

\* A player is never paired twice in a session, and has an entry exactly when
\* he is paired (back_matchmaking.go, matchMakeSession).
OneMatchPerEntry ==
    \A s \in Sessions :
        /\ \A pr, o \in matches[s] : pr \cap o # {} => pr = o
        /\ \A p \in Players :
              entry[s][p].status # "None" <=> \E pr \in matches[s] : p \in pr

\* A match that is marked ended is over for both its players, although the mark
\* is written by one of them and a goroutine may erase it.
EndedMatchIsOver ==
    \A s \in Sessions : \A pr \in ended[s] :
        pr \in matches[s] /\ \A p \in pr : HasEnded(entry[s][p])

\* Whoever still has to end his race finds his session in a status that lets him
\* (match_session.go, canForfeit): no session is closed under a runner, whatever
\* stale copy of it is written back.
UnfinishedRaceIsOpen ==
    \A s \in Sessions : \A p \in Players :
        Unfinished(entry[s][p]) => status[s] \in {"Preparing", "InProgress"}

\* No runner is racing while his opponent still waits for the start: the panic
\* of match_entry.go, complete, is unreachable.
OpponentsStartTogether ==
    \A s \in Sessions : \A pr \in matches[s] : \A p, q \in pr :
        entry[s][p].status = "InProgress" => entry[s][q].status # "Waiting"

\* A player never has two races to run, although joining, matchmaking and
\* starting happen in different transactions (back_racing.go,
\* ensurePlayerHasNoActiveMatch).
OneActiveRace ==
    \A p \in Players : \A s, t \in StartedActive(p) : s = t

\* Nobody runs or has completed a race before its start date.
NoRaceBeforeStart ==
    \A s \in Sessions : \A p \in Players :
        entry[s][p].status \in {"InProgress", "Finished"} => now >= StartDate[s]

\* A race is fair from its start to its end: both players are let go at its date
\* and together, it goes on while one of them runs, and is over when both have
\* ended, whatever copies the goroutines write back (match_session.go, match.go).
RacesAreFair ==
    /\ EndedMatchIsOver
    /\ UnfinishedRaceIsOpen
    /\ OpponentsStartTogether
    /\ NoRaceBeforeStart

\* Results are published for everybody to read only once nobody of the session
\* is racing any more (back_periodic.go, closeMatchSessionsAndUpdateRanks).
RecapOnlyWhenAllEnded ==
    \A s \in closing \cup recapped : \A p \in Players : ~Unfinished(entry[s][p])

\* Once both players have ended, nothing rewrites their statuses and outcomes:
\* not a late forfeit, not the start of the session, not the seed generation.
ResultsAreFinal ==
    [][\A s \in Sessions : \A pr \in matches[s] :
          (\A p \in pr : HasEnded(entry[s][p])) =>
              pr \in matches'[s] /\ \A p \in pr : entry'[s][p] = entry[s][p]]_vars

\* Matchmaking leaves out nobody but the last to join, and then only when their
\* number is odd; whoever is left out is free to join another race
\* (back_matchmaking.go, ensureSessionIsValidForMatchMaking).
OnlyTheLastIsKicked ==
    [][\A s \in prepared : matches'[s] # matches[s] =>
          \A i \in 1..Len(preparedIDs[s]) :
              LET p == preparedIDs[s][i]
                  paired == \E pr \in matches'[s] : p \in pr
              IN  /\ ~paired => i = Len(preparedIDs[s]) /\ i % 2 = 1
                  /\ paired <=> HasPlayerID(playerIDs'[s], p)]_vars

-------------------------------------------------------------------------------
(***************************************************************************)
(* What a daemon that runs every minute and never fails gives on top.      *)
(***************************************************************************)

\* Every session has left its waiting phases by its start date (stated of runs
\* with Prompt): its players are racing, or it was closed.
StartsOnTime ==
    \A s \in Sessions : now > StartDate[s] => status[s] \in {"InProgress", "Closed"}

\* The goroutine of a session that was counted down has started it.
CountedDownIsStarted ==
    \A s \in countingDown \ counting : status[s] \in {"InProgress", "Closed"}

-------------------------------------------------------------------------------
(***************************************************************************)
(* Liveness.                                                               *)
(***************************************************************************)

\* A late seed wrote back a match that both players had ended: its EndedAt is
\* NULL again, and neither can end his race a second time.
EndIsErased(s) ==
    \E pr \in matches[s] \ ended[s] : \A p \in pr : HasEnded(entry[s][p])

\* A session past its start in which nobody has a race to end.
IsOver(s) ==
    /\ status[s] # "None"
    /\ StartDate[s] < now
    /\ s \notin prepared
    /\ \A p \in Players : ~Unfinished(entry[s][p])

\* A session whose races are all over, or that will never have any, is closed,
\* whatever transactions fail and whenever the process restarts: nothing but an
\* erased end keeps it open (back_periodic.go, getMatchSessionsToEnd).
EndedSessionIsClosed ==
    \A s \in Sessions : IsOver(s) ~> status[s] = "Closed" \/ EndIsErased(s)

\* A registered player does not wait for ever: he gets a match, or he cancels or
\* is kicked, or the session is closed and he may join another.
RegisteredPlayerIsServed ==
    \A s \in Sessions : \A p \in Players :
        (status[s] = "Joinable" /\ HasPlayerID(playerIDs[s], p))
            ~> \/ entry[s][p].status # "None"
               \/ status[s] = "Closed"
               \/ ~HasPlayerID(playerIDs[s], p)

\* The start of a session failed: countingDown keeps it, so that no countdown of
\* it is spawned again by this process.
StartIsLost(s) == s \in countingDown \ counting /\ status[s] = "Preparing"

\* The matches that were created are started, or ended by their players before
\* that, whatever fails and whenever the process restarts: nothing but a start
\* that failed leaves them waiting (back_periodic.go,
\* countdownAndStartMatchSession).
MatchIsStarted ==
    \A s \in Sessions :
        (\E p \in Players : entry[s][p].status = "Waiting")
            ~> (\A p \in Players : entry[s][p].status # "Waiting") \/ StartIsLost(s)

-------------------------------------------------------------------------------
(***************************************************************************)
(* What the repository says of the sessions, where the code disagrees.     *)
(***************************************************************************)

\* match.go: "HasEnded returns true if both players ended their race."
HasEndedWhenBothEnded ==
    \A s \in Sessions : \A pr \in matches[s] :
        (\A p \in pr : HasEnded(entry[s][p])) => pr \in ended[s]

\* back_periodic.go: "getMatchSessionsToEnd returns all non-closed sessions that
\* are both stale (we are past their StartDate) and have no matches in progress",
\* and they are closed: so a session in which nobody races ends up closed.
OverIsClosed == \A s \in Sessions : IsOver(s) ~> status[s] = "Closed"

\* bot.go, !help: "You can't join a race that is in progress or has begun its
\* preparation phase".
NoJoinAfterPreparation ==
    [][\A s \in Sessions : \A p \in Players :
          status[s] \in {"Preparing", "InProgress"} /\ HasPlayerID(playerIDs'[s], p)
              => HasPlayerID(playerIDs[s], p)]_vars

\* match_session.go, start: "attempted to start a MatchSession that was not
\* preparing" is an error.
StartsOnlyPreparing ==
    [][\A s \in Sessions : status'[s] = "InProgress" /\ status[s] # "InProgress"
          => status[s] = "Preparing"]_vars

-------------------------------------------------------------------------------
(***************************************************************************)
(* The inductive invariant: what the copies held in memory still say of    *)
(* the tables, and what keeps a player out of a second race.               *)
(***************************************************************************)

\* Nobody is registered before the joinable phase; nothing of a race exists
\* before the preparation phase, in the tables or in the memory of the process.
FreshSessions ==
    \A s \in Sessions :
        /\ status[s] \in {"None", "Waiting"} => playerIDs[s] = <<>>
        /\ status[s] \in {"None", "Waiting", "Joinable"} =>
              matches[s] = {} /\ s \notin counting /\ s \notin countingDown

\* Between its two transactions, the daemon's copy of a session is still right,
\* save for players who joined late; no countdown of it can be running.
PreparedSessions ==
    \A s \in prepared :
        /\ pc = "matchmake"
        /\ status[s] = "Preparing"
        /\ matches[s] = {}
        /\ s \notin counting
        /\ \A p \in Players : HasPlayerID(preparedIDs[s], p) => HasPlayerID(playerIDs[s], p)

\* A session that was closed with all its matches never goes back to a phase
\* that precedes its races.
ClosedSessions ==
    \A s \in closing \cup recapped :
        /\ status[s] \in {"InProgress", "Closed"}
        /\ \A p \in Players : ~Unfinished(entry[s][p])

\* What commits a player to a session: a registration that can still be
\* matchmade, in the table or in the daemon's copy, or an unfinished entry.
Engaged(s, p) ==
    \/ status[s] = "Joinable" /\ HasPlayerID(playerIDs[s], p)
    \/ s \in prepared /\ HasPlayerID(preparedIDs[s], p)
    \/ Unfinished(entry[s][p])

OneEngagement ==
    \A p \in Players : \A s, t \in Sessions : Engaged(s, p) /\ Engaged(t, p) => s = t

IInv ==
    /\ TypeOK
    /\ FreshSessions
    /\ PreparedSessions
    /\ ClosedSessions
    /\ OneMatchPerEntry
    /\ EndedMatchIsOver
    /\ UnfinishedRaceIsOpen
    /\ OpponentsStartTogether
    /\ OutcomesConsistent
    /\ NoRaceBeforeStart
    /\ OneEngagement

===============================================================================
