-------------------------------- MODULE Rankings --------------------------------
(***************************************************************************)
(* The weekly ratings of one league (internal/back: back_ranking.go,       *)
(* player_rating.go, and the closing of sessions in back_periodic.go).     *)
(*                                                                         *)
(* Closing a session, ranking its league and announcing it are three       *)
(* transactions of the daemon; Rerank deletes every rating in one          *)
(* transaction and recomputes each week in one of its own.  Players start  *)
(* and end races meanwhile, transactions fail, the process stops.          *)
(*                                                                         *)
(* A Glicko-2 rating is a function of the rating of the week before and of *)
(* the results of the week.  It is modelled by what it was computed from:  *)
(* the sequence, week after week, of the results that went into it.        *)
(***************************************************************************)
EXTENDS Integers, Sequences

CONSTANTS
    Players,
    Sessions,     \* the sessions of the league
    Races,        \* their matches
    SessionOf,    \* [Races -> Sessions]
    RacersOf,     \* [Races -> pairs of players]
    StartDate,    \* [Sessions -> Nat], in ticks of the clock (hours)
    Week,         \* the length of a rating period, in ticks
    Prompt,       \* TRUE: the clock waits for the pass of the running daemon
    MaxTime,      \* bound: the clock stops there
    MaxFailures,  \* bound: failed transactions
    MaxStops,     \* bound: stops of the process
    MaxReranks    \* bound: calls of Rerank

ASSUME RacesAssumption ==
    /\ SessionOf \in [Races -> Sessions]
    /\ RacersOf \in [Races -> SUBSET Players]
    /\ StartDate \in [Sessions -> Nat]

ASSUME WeekAssumption == Week \in Nat \ {0}

ASSUME BoundsAssumption ==
    /\ Prompt \in BOOLEAN
    /\ MaxTime \in Nat /\ MaxFailures \in Nat /\ MaxStops \in Nat /\ MaxReranks \in Nat

VARIABLES
    now,
    \* Match and MatchSession tables
    startedAt,   \* [Races -> Match.StartedAt, or NoDate for NULL]
    ended,       \* races with a Match.EndedAt
    over,        \* races whose two entries have ended
    closed,      \* closed sessions
    \* PlayerRating and PlayerRatingHistory tables
    rating,      \* [Players -> rating]
    history,     \* [Weeks -> [Players -> rating]]
    \* the daemon
    pc,          \* the transaction it runs next, or "down"
    swept,       \* a whole pass was made since the clock last moved
    closing,     \* sessions closed by this pass
    \* the seed generation
    seeding,     \* races whose seed is not stored yet
    \* Rerank
    reranking,   \* is running
    rerankWeek,  \* the period it recomputes next
    rerankEnd,   \* curPeriodEnd
    \* what was published
    announced,   \* sessions whose recap was sent
    \* history variables, which the tables do not hold
    begun,       \* [Sessions -> when it was started, or NoDate]
    outdated,    \* the ratings were last written by a Rerank that was computing a
                 \* week already over
    \* bounds
    failures, stops, reranks

tableVars  == <<startedAt, ended, over, closed>>
ratingVars == <<rating, history>>
daemonVars == <<pc, swept, closing>>
rerankVars == <<reranking, rerankWeek, rerankEnd>>
boundVars  == <<failures, stops, reranks>>
historyVars == <<begun, outdated>>
vars == <<now, tableVars, ratingVars, daemonVars, seeding, rerankVars, announced,
          historyVars, boundVars>>

NoDate == -1

RacesOf(s) == {r \in Races : SessionOf[r] = s}

WeekOf(t) == t \div Week

Weeks == 0..WeekOf(MaxTime)

\* A result that went into a rating; the outcome, which is that of the entries, is
\* provisional as long as they have not ended.
Results == [race : Races, final : BOOLEAN]

NoRating == <<>>

TypeOK ==
    /\ now \in Nat
    /\ startedAt \in [Races -> Nat \cup {NoDate}]
    /\ ended \in SUBSET Races
    /\ over \in SUBSET Races
    /\ closed \in SUBSET Sessions
    /\ rating \in [Players -> Seq(SUBSET Results)]
    /\ history \in [Weeks -> [Players -> Seq(SUBSET Results)]]
    /\ pc \in {"close", "rank", "announce", "down"}
    /\ swept \in BOOLEAN
    /\ closing \in SUBSET Sessions
    /\ seeding \in SUBSET Races
    /\ reranking \in BOOLEAN
    /\ rerankWeek \in Nat
    /\ rerankEnd \in Nat
    /\ announced \in SUBSET Sessions
    /\ begun \in [Sessions -> Nat \cup {NoDate}]
    /\ outdated \in BOOLEAN
    /\ failures \in Nat /\ stops \in Nat /\ reranks \in Nat

Init ==
    /\ now = 0
    /\ startedAt = [r \in Races |-> NoDate]
    /\ ended = {}
    /\ over = {}
    /\ closed = {}
    /\ rating = [p \in Players |-> NoRating]
    /\ history = [w \in Weeks |-> [p \in Players |-> NoRating]]
    /\ pc = "close"
    /\ swept = FALSE
    /\ closing = {}
    /\ seeding = Races
    /\ reranking = FALSE
    /\ rerankWeek = 0
    /\ rerankEnd = 0
    /\ announced = {}
    /\ begun = [s \in Sessions |-> NoDate]
    /\ outdated = FALSE
    /\ failures = 0
    /\ stops = 0
    /\ reranks = 0

-------------------------------------------------------------------------------
(***************************************************************************)
(* The computation of a period.                                            *)
(***************************************************************************)

\* From a monday to the next, excluded.
InWeek(t, w) == w * Week <= t /\ t < (w + 1) * Week

\* getMatchesByPeriod: the matches whose StartedAt is in the week, whether or not
\* they have ended.
RacesOfPeriod(w) == {r \in Races : InWeek(startedAt[r], w)}

ResultsOf(p, w) ==
    {[race |-> r, final |-> r \in over] : r \in {x \in RacesOfPeriod(w) : p \in RacersOf[x]}}

PreviousRating_Same(p, w) == IF w - 1 \in Weeks THEN history[w][p] ELSE NoRating

\* getGlickoPlayersForLeague reads the history of the previous period, and of
\* no other.
PreviousRating(p, w) == IF w - 1 \in Weeks THEN history[w - 1][p] ELSE NoRating

\* computePeriod: every player of the previous period, and every player of a
\* match of this one, who starts from a new rating if he is not among them.
ComputedRating(p, w) ==
    IF PreviousRating(p, w) # NoRating \/ ResultsOf(p, w) # {}
    THEN Append(PreviousRating(p, w), ResultsOf(p, w))
    ELSE NoRating

Upserted_IfAbsent(rows, w) ==
    [p \in Players |-> IF rows[p] = NoRating THEN ComputedRating(p, w) ELSE rows[p]]

Upserted(rows, w) ==
    [p \in Players |-> IF ComputedRating(p, w) # NoRating THEN ComputedRating(p, w)
                                                         ELSE rows[p]]

\* updateLeagueRankings: the ratings computed are upserted as the running ones
\* and as those of the period, other rows stay.
UpdateLeagueRankings(w) ==
    /\ rating' = Upserted(rating, w)
    /\ history' = [history EXCEPT ![w] = Upserted(@, w)]

-------------------------------------------------------------------------------
(***************************************************************************)
(* The daemon.                                                             *)
(***************************************************************************)

\* A tick is coarse: a race that starts in it starts after its date.
ToEnd == {s \in Sessions \ closed : StartDate[s] <= now /\ RacesOf(s) \subseteq ended}

\* closeMatchSessionsAndUpdateRanks, one transaction after the other.
CloseMatchSessions ==
    /\ pc = "close"
    /\ closed' = closed \cup ToEnd
    /\ closing' = ToEnd
    /\ pc' = "rank"
    /\ UNCHANGED <<now, startedAt, ended, over, ratingVars, swept, seeding, rerankVars,
                   announced, historyVars, boundVars>>

\* The period is the one of the time of this transaction.  Ranking once for each
\* session of the league is the same as ranking once.
RankClosedSessions ==
    /\ pc = "rank"
    /\ IF closing = {} THEN UNCHANGED <<ratingVars, outdated>>
       ELSE UpdateLeagueRankings(WeekOf(now)) /\ outdated' = FALSE
    /\ pc' = "announce"
    /\ UNCHANGED <<now, tableVars, swept, closing, seeding, rerankVars, announced, begun,
                   boundVars>>

AnnounceClosedSessions ==
    /\ pc = "announce"
    /\ announced' = announced \cup closing
    /\ closing' = {}
    /\ pc' = "close"
    /\ swept' = TRUE
    /\ UNCHANGED <<now, tableVars, ratingVars, seeding, rerankVars, historyVars, boundVars>>

\* A transaction fails and ends the pass: what it was to do with the sessions
\* already closed is forgotten.
DaemonFails ==
    /\ failures < MaxFailures
    /\ pc # "down"
    /\ pc' = "close"
    /\ closing' = {}
    /\ failures' = failures + 1
    /\ UNCHANGED <<now, tableVars, ratingVars, swept, seeding, rerankVars, announced,
                   historyVars, stops, reranks>>

DaemonStep == CloseMatchSessions \/ RankClosedSessions \/ AnnounceClosedSessions

-------------------------------------------------------------------------------
(***************************************************************************)
(* Rerank, called from Discord or, in a process of its own, by "kaepora     *)
(* rerank".                                                                *)
(***************************************************************************)

Dated_All == Races

Dated == {r \in Races : startedAt[r] # NoDate}

FirstPeriods_Current == {WeekOf(now)}

\* The period of getFirstMatchStartOfLeague, if there is one.
FirstPeriods ==
    {WeekOf(startedAt[r]) :
        r \in {x \in Dated : \A y \in Dated : startedAt[x] <= startedAt[y]}}

\* Its first transaction: all is deleted, and stays so, without an error, if no
\* match has a date or the query for the first of them fails.
\* Bound: one call at a time.
Rerank ==
    /\ reranks < MaxReranks
    /\ ~reranking
    /\ rating' = [p \in Players |-> NoRating]
    /\ history' = [w \in Weeks |-> [p \in Players |-> NoRating]]
    /\ outdated' = FALSE
    /\ \/ FirstPeriods = {} /\ UNCHANGED <<rerankVars, failures>>
       \/ failures < MaxFailures /\ failures' = failures + 1 /\ UNCHANGED rerankVars
       \/ /\ reranking' = TRUE
          /\ rerankWeek' \in FirstPeriods
          /\ rerankEnd' = WeekOf(now) + 1
          /\ UNCHANGED failures
    /\ reranks' = reranks + 1
    /\ UNCHANGED <<now, tableVars, daemonVars, seeding, announced, begun, stops>>

\* The following ones: a week each, the current one included.
RerankPeriod ==
    /\ reranking
    /\ UpdateLeagueRankings(rerankWeek)
    /\ outdated' = (rerankWeek < WeekOf(now))
    /\ rerankWeek' = rerankWeek + 1
    /\ reranking' = (rerankWeek + 1 < rerankEnd)
    /\ UNCHANGED <<now, tableVars, daemonVars, seeding, rerankEnd, announced, begun, boundVars>>

\* One of these fails: the weeks that follow stay deleted.
RerankFails ==
    /\ failures < MaxFailures
    /\ reranking
    /\ reranking' = FALSE
    /\ failures' = failures + 1
    /\ UNCHANGED <<now, tableVars, ratingVars, daemonVars, seeding, rerankWeek, rerankEnd,
                   announced, historyVars, stops, reranks>>

-------------------------------------------------------------------------------
(***************************************************************************)
(* The races, as far as their dates go; time; the process.                 *)
(***************************************************************************)

\* A session is matchmade a tick before its date at most: its races exist.
Matchmade(r) == StartDate[SessionOf[r]] <= now + 1

\* The StartSession of MatchSessions, which starts all the matches of the session.
\* Those both players forfeited before are started too, and the session is reopened
\* if it was closed by then.
StartSession(s) ==
    /\ begun[s] = NoDate
    /\ StartDate[s] <= now
    /\ s \in closed => now = StartDate[s]
    /\ startedAt' = [r \in Races |-> IF SessionOf[r] = s THEN now ELSE startedAt[r]]
    /\ begun' = [begun EXCEPT ![s] = now]
    /\ closed' = closed \ {s}
    /\ UNCHANGED <<now, ended, over, ratingVars, daemonVars, seeding, rerankVars, announced,
                   outdated, boundVars>>

\* ForfeitActiveMatch or CompleteActiveMatch of MatchSessions, by the second of
\* the two players.
EndRace(r) ==
    /\ r \notin over
    /\ Matchmade(r)
    /\ ended' = ended \cup {r}
    /\ over' = over \cup {r}
    /\ UNCHANGED <<now, startedAt, closed, ratingVars, daemonVars, seeding, rerankVars,
                   announced, historyVars, boundVars>>

\* The GenerateMatchSeed of MatchSessions: the copy of the match that is written
\* back with the seed was made before it was started, both dates are NULL.
StoreSeed(r) ==
    /\ r \in seeding
    /\ Matchmade(r)
    /\ seeding' = seeding \ {r}
    /\ startedAt' = [startedAt EXCEPT ![r] = NoDate]
    /\ ended' = ended \ {r}
    /\ UNCHANGED <<now, over, closed, ratingVars, daemonVars, rerankVars, announced,
                   historyVars, boundVars>>

\* With Prompt, a tick leaves the daemon the time to close and rank what has ended.
\* It does not wait for Rerank.
Tick ==
    /\ now < MaxTime
    /\ Prompt /\ pc # "down" => swept /\ pc = "close" /\ ToEnd = {}
    /\ now' = now + 1
    /\ swept' = FALSE
    /\ UNCHANGED <<tableVars, ratingVars, pc, closing, seeding, rerankVars, announced,
                   historyVars, boundVars>>

\* With it stop the goroutines of the seeds and the Rerank that was called from
\* Discord.
Stop ==
    /\ stops < MaxStops
    /\ pc # "down"
    /\ pc' = "down"
    /\ closing' = {}
    /\ seeding' = {r \in seeding : ~Matchmade(r)}
    /\ reranking' \in {reranking, FALSE}
    /\ stops' = stops + 1
    /\ UNCHANGED <<now, tableVars, ratingVars, swept, rerankWeek, rerankEnd, announced,
                   historyVars, failures, reranks>>

Boot ==
    /\ pc = "down"
    /\ pc' = "close"
    /\ UNCHANGED <<now, tableVars, ratingVars, swept, closing, seeding, rerankVars, announced,
                   historyVars, boundVars>>

RaceStep ==
    /\ pc # "down"
    /\ \/ \E s \in Sessions : StartSession(s)
       \/ \E r \in Races : EndRace(r) \/ StoreSeed(r)

Next ==
    \/ DaemonStep
    \/ DaemonFails
    \/ Rerank
    \/ RerankPeriod
    \/ RerankFails
    \/ RaceStep
    \/ Tick
    \/ Stop
    \/ Boot

Spec == Init /\ [][Next]_vars

\* The daemon loops, a call that was made goes on, the process is restarted and
\* time passes; players owe nothing.
Fairness ==
    /\ WF_vars(DaemonStep)
    /\ WF_vars(RerankPeriod)
    /\ WF_vars(Boot)
    /\ WF_vars(Tick)

FairSpec == Spec /\ Fairness

-------------------------------------------------------------------------------
(***************************************************************************)
(* Properties.                                                             *)
(***************************************************************************)

RacesIn(results) == {x.race : x \in results}

CountedRaces(row) == UNION {RacesIn(row[i]) : i \in 1..Len(row)}

IsRanked(r) ==
    \A p \in RacersOf[r] : \E i \in 1..Len(rating[p]) :
        [race |-> r, final |-> TRUE] \in rating[p][i]

\* The races of a player whose date is in a week or before.
DatedUntil(w, p) == {r \in Dated : p \in RacersOf[r] /\ WeekOf(startedAt[r]) <= w}

BegunOn(r) == begun[SessionOf[r]]

\* A late seed has taken from a race the dates it had.
DateIsErased(r) == BegunOn(r) # NoDate /\ startedAt[r] = NoDate

\* A race counts in the week it really started, and so in one week at most, although
\* a period is recomputed each time a session closes, by Rerank too, and upserted,
\* and although its date may be gone by then (back_ranking.go, closeRatingPeriod).
CountedInItsWeek ==
    \A w \in Weeks : \A p \in Players :
        LET row == history[w][p]
        IN  \A i \in 1..Len(row) : \A r \in RacesIn(row[i]) :
                WeekOf(BegunOn(r)) = w - Len(row) + i

\* A Rerank may have stopped midway.
RerankWasCut == reranks > 0 /\ failures + stops > 0

\* When the recap of a session is sent, whoever raced in it finds the race, and its
\* outcome, in his rating: unless the week is over since the race started, its date
\* was erased, a late start has reopened the session, or Rerank is at work, was
\* interrupted, or has ended after the week it was called in, with the ratings of
\* that week (back_periodic.go, closeMatchSessionsAndUpdateRanks).
AnnouncedIsRanked ==
    [][\A s \in (announced' \ announced) \cap closed :
          ~reranking /\ ~RerankWasCut /\ ~outdated =>
              \A r \in RacesOf(s) :
                  startedAt[r] # NoDate /\ WeekOf(startedAt[r]) = WeekOf(now)
                      => IsRanked(r)]_vars

\* A Rerank that goes to its end has counted every race that has a date, in every
\* week it went over, whatever started, ended, lost its date, closed or was ranked
\* meanwhile (back_ranking.go, Rerank).
RerankIsComplete ==
    [][reranking /\ ~reranking' /\ failures' = failures /\ stops' = stops =>
          \A w \in 0..(rerankEnd - 1) : \A p \in Players :
              DatedUntil(w, p) \subseteq CountedRaces(history'[w][p])]_vars

\* A session whose races all end in the week they started is ranked in the end,
\* unless a failed transaction, a stop, an erased date or a Rerank that ended too
\* late came in between: nothing is ranked twice for that (back_periodic.go,
\* closeMatchSessionsAndUpdateRanks).
EndedIsRanked ==
    \A s \in Sessions :
        (\A r \in RacesOf(s) :
            r \in ended /\ startedAt[r] # NoDate /\ WeekOf(startedAt[r]) = WeekOf(now))
        ~> \/ \A r \in RacesOf(s) : IsRanked(r)
           \/ failures > 0 \/ stops > 0
           \/ \E r \in RacesOf(s) : DateIsErased(r)
           \/ outdated /\ ~reranking

-------------------------------------------------------------------------------
(***************************************************************************)
(* What the repository says of the ratings, where the code disagrees.      *)
(***************************************************************************)

\* documentation.md: "When all races of a session are completed the leaderboard
\* is updated".
LeaderboardIsUpdated ==
    [][\A s \in (announced' \ announced) \cap closed : \A r \in RacesOf(s) :
          startedAt[r] # NoDate => IsRanked(r)]_vars

\* back_ranking.go: "Rerank removes and regenerates all rankings for a given league."
RerankRegenerates ==
    [][reranking /\ ~reranking' /\ failures' = failures /\ stops' = stops =>
          \A p \in Players : \A r \in Races :
              p \in RacersOf[r] /\ BegunOn(r) # NoDate /\ WeekOf(BegunOn(r)) < rerankEnd
                  => r \in CountedRaces(history'[rerankEnd - 1][p])]_vars

\* back_periodic.go, of the announcements: "In a separate transaction to avoid
\* delaying ranking updates and working with stale data".
AnnouncedIsCurrent ==
    [][\A s \in (announced' \ announced) \cap closed :
          ~reranking =>
              \A r \in RacesOf(s) :
                  startedAt[r] # NoDate /\ WeekOf(startedAt[r]) = WeekOf(now)
                      => IsRanked(r)]_vars

\* documentation.md: "Not racing for a week will slightly increase your rating
\* deviation": it does not make the rating forget what was won before.
RatingsAreKept ==
    [][~reranking =>
          \A p \in Players : CountedRaces(rating[p]) \subseteq CountedRaces(rating'[p])]_vars

-------------------------------------------------------------------------------
(***************************************************************************)
(* The inductive invariant.                                                *)
(***************************************************************************)

\* The only date a race ever has is the one of the start of its session.
DatesAreBeginnings ==
    \A r \in Dated : startedAt[r] = BegunOn(r)

\* What was counted has begun, whatever became of its date.
CountedIsBegun ==
    \A w \in Weeks : \A p \in Players :
        \A r \in CountedRaces(history[w][p]) : r \in Races /\ BegunOn(r) # NoDate

IInv ==
    /\ TypeOK
    /\ DatesAreBeginnings
    /\ CountedInItsWeek
    /\ CountedIsBegun

DatesArePast ==
    /\ now <= MaxTime
    /\ \A r \in Dated : startedAt[r] <= now

\* Rerank has counted the races of the weeks before the next one.
RerankIsUnderWay ==
    reranking =>
        /\ reranks > 0
        /\ rerankWeek < rerankEnd
        /\ rerankEnd <= WeekOf(now) + 1
        /\ \A p \in Players : \A w \in 0..(rerankWeek - 1) :
              DatedUntil(w, p) \subseteq CountedRaces(history[w][p])

RerankInv == IInv /\ DatesArePast /\ RerankIsUnderWay

\* What is about to be announced was ranked, by the daemon or by a Rerank since.
RankedBeforeAnnounced ==
    /\ ended \subseteq over
    /\ \A s \in closing : RacesOf(s) \subseteq over
    /\ pc = "announce" /\ ~reranking /\ ~RerankWasCut /\ ~outdated =>
          \A s \in closing \cap closed : \A r \in RacesOf(s) :
              startedAt[r] # NoDate /\ WeekOf(startedAt[r]) = WeekOf(now) => IsRanked(r)

AnnounceInv == RerankInv /\ RankedBeforeAnnounced

===============================================================================
