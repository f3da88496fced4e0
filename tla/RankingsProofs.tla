---------------------------- MODULE RankingsProofs ----------------------------
(***************************************************************************)
(* For any sessions, races, length of the week and bounds: a race counts   *)
(* in the week it started and in no other, a Rerank that goes to its end   *)
(* has counted every race that has a date, and what is announced is ranked.*)
(***************************************************************************)
EXTENDS Rankings, Induction, TLAPS

-------------------------------------------------------------------------------
(***************************************************************************)
(* Types.                                                                  *)
(***************************************************************************)

\* A time that is not before the first week is in a week.
LEMMA WeekOfIsNat == ASSUME NEW t \in Nat PROVE WeekOf(t) \in Nat
BY WeekAssumption, SMTT(30) DEF WeekOf

\* The weeks of the history are numbered from 0.
LEMMA WeeksAreNats == Weeks \subseteq Nat
BY BoundsAssumption, WeekOfIsNat DEF Weeks

\* The initial state has the right type.
LEMMA InitType == Init => TypeOK
<1> SUFFICES ASSUME Init PROVE TypeOK
  OBVIOUS
<1>1. swept \in BOOLEAN /\ reranking \in BOOLEAN /\ outdated \in BOOLEAN
  BY Zenon DEF Init
<1>2. NoRating \in Seq(SUBSET Results)
  BY DEF NoRating
<1> QED
  BY <1>1, <1>2 DEF Init, TypeOK

\* What a period counts for a player is a set of results.
LEMMA ResultsOfType == ASSUME NEW p, NEW w PROVE ResultsOf(p, w) \in SUBSET Results
<1>1. ASSUME NEW x \in ResultsOf(p, w) PROVE x \in Results
  <2>1. PICK r \in Races : x = [race |-> r, final |-> r \in over]
    BY <1>1, Zenon DEF ResultsOf, RacesOfPeriod
  <2> QED
    BY <2>1 DEF Results
<1> QED
  BY <1>1, Zenon

\* A computed rating is a rating (back_ranking.go, computePeriod).
LEMMA ComputedRatingType ==
    ASSUME TypeOK, NEW p \in Players, NEW w \in Nat
    PROVE  /\ PreviousRating(p, w) \in Seq(SUBSET Results)
           /\ ComputedRating(p, w) \in Seq(SUBSET Results)
<1>1. PreviousRating(p, w) \in Seq(SUBSET Results)
  BY DEF PreviousRating, TypeOK, NoRating
<1> QED
  BY <1>1, ResultsOfType DEF ComputedRating, NoRating

\* Upserting the ratings computed keeps the type of both tables
\* (back_ranking.go, updateLeagueRankings).
LEMMA UpdateType ==
    ASSUME TypeOK, NEW w \in Nat, UpdateLeagueRankings(w)
    PROVE  /\ rating' \in [Players -> Seq(SUBSET Results)]
           /\ history' \in [Weeks -> [Players -> Seq(SUBSET Results)]]
<1>1. \A rows \in [Players -> Seq(SUBSET Results)] :
          Upserted(rows, w) \in [Players -> Seq(SUBSET Results)]
  BY ComputedRatingType DEF Upserted
<1> QED
  BY <1>1 DEF UpdateLeagueRankings, TypeOK

\* Deleting every rating keeps the type of both tables.
LEMMA NoRatingsType ==
    /\ [p \in Players |-> NoRating] \in [Players -> Seq(SUBSET Results)]
    /\ [w \in Weeks |-> [p \in Players |-> NoRating]]
           \in [Weeks -> [Players -> Seq(SUBSET Results)]]
BY DEF NoRating

\* Every step of the daemon keeps the types.
LEMMA DaemonType == TypeOK /\ (DaemonStep \/ DaemonFails) => TypeOK'
<1> USE DEF TypeOK, tableVars, ratingVars, daemonVars, rerankVars, historyVars, boundVars
<1>1. ASSUME TypeOK, CloseMatchSessions PROVE TypeOK'
  BY <1>1 DEF CloseMatchSessions, ToEnd
<1>2. ASSUME TypeOK, RankClosedSessions PROVE TypeOK'
  <2>1. WeekOf(now) \in Nat
    BY <1>2, WeekOfIsNat
  <2>2. /\ rating' \in [Players -> Seq(SUBSET Results)]
        /\ history' \in [Weeks -> [Players -> Seq(SUBSET Results)]]
    BY <1>2, <2>1, UpdateType DEF RankClosedSessions
  <2>3. outdated' \in BOOLEAN /\ reranking' \in BOOLEAN /\ swept' \in BOOLEAN
    BY <1>2, Zenon DEF RankClosedSessions
  <2>4. /\ pc' = "announce"
        /\ UNCHANGED <<now, startedAt, ended, over, closed, closing, seeding, rerankWeek,
                       rerankEnd, announced, begun, failures, stops, reranks>>
    BY <1>2 DEF RankClosedSessions
  <2> QED
    BY <1>2, <2>2, <2>3, <2>4
<1>3. ASSUME TypeOK, AnnounceClosedSessions PROVE TypeOK'
  BY <1>3 DEF AnnounceClosedSessions
<1>4. ASSUME TypeOK, DaemonFails PROVE TypeOK'
  BY <1>4 DEF DaemonFails
<1> QED
  BY <1>1, <1>2, <1>3, <1>4 DEF DaemonStep

\* Every step of Rerank keeps the types.
LEMMA RerankType == TypeOK /\ (Rerank \/ RerankPeriod \/ RerankFails) => TypeOK'
<1> USE DEF TypeOK, tableVars, ratingVars, daemonVars, rerankVars, historyVars, boundVars
<1>1. ASSUME TypeOK, Rerank PROVE TypeOK'
  <2>1. FirstPeriods \subseteq Nat /\ WeekOf(now) + 1 \in Nat
    <3>1. \A r \in Dated : startedAt[r] \in Nat
      BY <1>1 DEF Dated
    <3> QED
      BY <1>1, <3>1, WeekOfIsNat DEF FirstPeriods
  <2>2. reranking' \in BOOLEAN /\ outdated' \in BOOLEAN /\ swept' \in BOOLEAN
    BY <1>1, Zenon DEF Rerank
  <2>3. /\ rerankWeek' = rerankWeek \/ rerankWeek' \in FirstPeriods
        /\ rerankEnd' = rerankEnd \/ rerankEnd' = WeekOf(now) + 1
        /\ failures' = failures \/ failures' = failures + 1
    BY <1>1, Zenon DEF Rerank
  <2>4. /\ rating' \in [Players -> Seq(SUBSET Results)]
        /\ history' \in [Weeks -> [Players -> Seq(SUBSET Results)]]
    BY <1>1, NoRatingsType DEF Rerank
  <2>5. rerankWeek \in Nat /\ rerankEnd \in Nat /\ failures \in Nat
    BY <1>1
  <2>6. rerankWeek' \in Nat /\ rerankEnd' \in Nat /\ failures' \in Nat
    <3>1. rerankWeek' \in Nat
      BY <2>1, <2>3, <2>5
    <3>2. rerankEnd' \in Nat
      BY <2>1, <2>3, <2>5
    <3>3. failures' \in Nat
      BY <2>3, <2>5
    <3> QED
      BY <3>1, <3>2, <3>3
  <2>7. pc' = pc
    BY <1>1, Zenon DEF Rerank
  <2>8. /\ UNCHANGED <<now, startedAt, ended, over, closed, closing, seeding, announced,
                       begun, stops>>
        /\ reranks' = reranks + 1
    BY <1>1 DEF Rerank
  <2> QED
    BY <1>1, <2>2, <2>4, <2>6, <2>7, <2>8
<1>2. ASSUME TypeOK, RerankPeriod PROVE TypeOK'
  <2>1. /\ rating' \in [Players -> Seq(SUBSET Results)]
        /\ history' \in [Weeks -> [Players -> Seq(SUBSET Results)]]
    BY <1>2, UpdateType DEF RerankPeriod
  <2>2. reranking' \in BOOLEAN
    <3> DEFINE goesOn == rerankWeek + 1 < rerankEnd
    <3>1. reranking' = goesOn
      BY <1>2 DEF RerankPeriod
    <3>2. goesOn \in BOOLEAN
      OBVIOUS
    <3> HIDE DEF goesOn
    <3> QED
      BY <3>1, <3>2, Zenon
  <2>3. outdated' \in BOOLEAN
    <3> DEFINE late == rerankWeek < WeekOf(now)
    <3>1. outdated' = late
      BY <1>2 DEF RerankPeriod
    <3>2. late \in BOOLEAN
      OBVIOUS
    <3> HIDE DEF late
    <3> QED
      BY <3>1, <3>2, Zenon
  <2>4. UNCHANGED <<swept, pc>>
    BY <1>2, Zenon DEF RerankPeriod
  <2> QED
    BY <1>2, <2>1, <2>2, <2>3, <2>4 DEF RerankPeriod
<1>3. ASSUME TypeOK, RerankFails PROVE TypeOK'
  <2>1. reranking' \in BOOLEAN /\ swept' \in BOOLEAN /\ outdated' \in BOOLEAN
    BY <1>3, Zenon DEF RerankFails
  <2> QED
    BY <1>3, <2>1 DEF RerankFails
<1> QED
  BY <1>1, <1>2, <1>3

\* So do the races, the clock and the process.
LEMMA OtherType == TypeOK /\ (RaceStep \/ Tick \/ Stop \/ Boot) => TypeOK'
<1> USE DEF TypeOK, tableVars, ratingVars, daemonVars, rerankVars, historyVars, boundVars
<1>1. ASSUME TypeOK, NEW s \in Sessions, StartSession(s) PROVE TypeOK'
  <2>1. startedAt' \in [Races -> Nat \cup {NoDate}] /\ begun' \in [Sessions -> Nat \cup {NoDate}]
    BY <1>1 DEF StartSession
  <2> QED
    BY <1>1, <2>1 DEF StartSession
<1>2. ASSUME TypeOK, NEW r \in Races, EndRace(r) PROVE TypeOK'
  BY <1>2 DEF EndRace
<1>3. ASSUME TypeOK, NEW r \in Races, StoreSeed(r) PROVE TypeOK'
  BY <1>3 DEF StoreSeed
<1>4. ASSUME TypeOK, Tick PROVE TypeOK'
  <2>1. reranking' \in BOOLEAN /\ swept' \in BOOLEAN /\ outdated' \in BOOLEAN
    BY <1>4, Zenon DEF Tick
  <2> QED
    BY <1>4, <2>1 DEF Tick
<1>5. ASSUME TypeOK, Stop PROVE TypeOK'
  <2>1. reranking' \in BOOLEAN /\ swept' \in BOOLEAN /\ outdated' \in BOOLEAN
    BY <1>5, Zenon DEF Stop
  <2> QED
    BY <1>5, <2>1 DEF Stop
<1>6. ASSUME TypeOK, Boot PROVE TypeOK'
  BY <1>6 DEF Boot
<1> QED
  BY <1>1, <1>2, <1>3, <1>4, <1>5, <1>6 DEF RaceStep

-------------------------------------------------------------------------------
(***************************************************************************)
(* The weeks.                                                              *)
(***************************************************************************)

\* A time is in one week at most, so that what counts in its week counts once.
THEOREM OneWeek ==
    ASSUME NEW t \in Int, NEW v \in Int, NEW w \in Int, InWeek(t, v), InWeek(t, w)
    PROVE  v = w
<1>1. ASSUME NEW a \in Int, NEW b \in Int, InWeek(t, a), InWeek(t, b), a < b PROVE FALSE
  <2>1. (a + 1) * Week <= b * Week
    BY <1>1, WeekAssumption, SMTT(30)
  <2> QED
    BY <1>1, <2>1, WeekAssumption DEF InWeek
<1> QED
  BY <1>1

\* The week of a time is the only one that contains it.
LEMMA InItsWeek ==
    ASSUME NEW t \in Nat, NEW w \in Int
    PROVE  InWeek(t, w) => WeekOf(t) = w
<1>1. WeekOf(t) \in Int /\ InWeek(t, WeekOf(t))
  BY WeekAssumption, SMTT(30) DEF WeekOf, InWeek
<1> QED
  BY <1>1, OneWeek

\* The row of the history for a week and a player is as the invariant says.
RightRow(row, w) ==
    /\ \A i \in 1..Len(row) : \A r \in RacesIn(row[i]) : WeekOf(BegunOn(r)) = w - Len(row) + i
    /\ \A r \in CountedRaces(row) : r \in Races /\ BegunOn(r) # NoDate

\* The two parts of the invariant, row by row.
LEMMA RightRows ==
    (\A w \in Weeks : \A p \in Players : RightRow(history[w][p], w))
        <=> CountedInItsWeek /\ CountedIsBegun
BY DEF RightRow, CountedInItsWeek, CountedIsBegun

\* What a period counts has its date in it (match.go, getMatchesByPeriod).
LEMMA ResultsOfPeriod ==
    ASSUME TypeOK, NEW p, NEW w \in Nat, NEW r \in RacesIn(ResultsOf(p, w))
    PROVE  r \in Dated /\ WeekOf(startedAt[r]) = w
<1>1. PICK x \in ResultsOf(p, w) : r = x.race
  BY DEF RacesIn
<1>2. PICK y \in RacesOfPeriod(w) : x = [race |-> y, final |-> y \in over]
  BY <1>1, Zenon DEF ResultsOf
<1>3. r \in Races /\ InWeek(startedAt[r], w)
  BY <1>1, <1>2 DEF RacesOfPeriod
<1>4. startedAt[r] # NoDate
  <2> DEFINE first == w * Week
  <2>1. first \in Nat
    BY WeekAssumption, SMTT(30)
  <2>2. first <= startedAt[r]
    BY <1>3 DEF InWeek
  <2> HIDE DEF first
  <2> QED
    BY <2>1, <2>2 DEF NoDate
<1>5. startedAt[r] \in Nat
  BY <1>3, <1>4 DEF TypeOK
<1> QED
  BY <1>3, <1>4, <1>5, InItsWeek DEF Dated

\* That is the week its session was really started in.
LEMMA ResultsHaveBegun ==
    ASSUME IInv, NEW p, NEW w \in Nat, NEW r \in RacesIn(ResultsOf(p, w))
    PROVE  r \in Races /\ BegunOn(r) # NoDate /\ WeekOf(BegunOn(r)) = w
<1>1. r \in Dated /\ WeekOf(startedAt[r]) = w
  BY ResultsOfPeriod DEF IInv
<1> QED
  BY <1>1 DEF Dated, IInv, DatesAreBeginnings

\* A rating computed from the history of the week before is right for its week.
LEMMA ComputedRatingIsRight ==
    ASSUME IInv, NEW p \in Players, NEW w \in Nat
    PROVE  RightRow(ComputedRating(p, w), w)
<1> DEFINE prev == PreviousRating(p, w)
           row == Append(prev, ResultsOf(p, w))
<1>1. prev \in Seq(SUBSET Results) /\ ResultsOf(p, w) \in SUBSET Results
  BY ComputedRatingType, ResultsOfType DEF IInv
<1>2. \A i \in 1..Len(prev) : \A r \in RacesIn(prev[i]) :
          WeekOf(BegunOn(r)) = (w - 1) - Len(prev) + i /\ r \in Races /\ BegunOn(r) # NoDate
  <2>1. CASE w - 1 \in Weeks
    <3>1. prev = history[w - 1][p]
      BY <2>1 DEF PreviousRating
    <3>2. RightRow(history[w - 1][p], w - 1)
      BY <2>1, RightRows DEF IInv
    <3> QED
      BY <3>1, <3>2 DEF RightRow, CountedRaces
  <2>2. CASE w - 1 \notin Weeks
    <3>1. prev = <<>>
      BY <2>2 DEF PreviousRating, NoRating
    <3>2. 1..Len(prev) = {}
      BY <3>1
    <3> QED
      BY <3>2
  <2> QED
    BY <2>1, <2>2
<1>3. \A r \in RacesIn(ResultsOf(p, w)) : WeekOf(BegunOn(r)) = w /\ r \in Races /\ BegunOn(r) # NoDate
  BY ResultsHaveBegun
<1> HIDE DEF prev
<1>4. ASSUME NEW i \in 1..Len(row), NEW r \in RacesIn(row[i])
      PROVE  WeekOf(BegunOn(r)) = w - Len(row) + i /\ r \in Races /\ BegunOn(r) # NoDate
  <2>1. Len(row) = Len(prev) + 1
    BY <1>1
  <2>2. CASE i \in 1..Len(prev)
    <3>1. row[i] = prev[i]
      BY <1>1, <2>2
    <3>2. /\ WeekOf(BegunOn(r)) = (w - 1) - Len(prev) + i
          /\ r \in Races /\ BegunOn(r) # NoDate
      BY <1>2, <1>4, <2>2, <3>1
    <3>3. (w - 1) - Len(prev) + i = w - Len(row) + i
      BY <1>1, <2>1, <2>2
    <3> QED
      BY <3>2, <3>3
  <2>3. CASE i = Len(prev) + 1
    <3>1. row[i] = ResultsOf(p, w)
      BY <1>1, <2>3
    <3>2. WeekOf(BegunOn(r)) = w /\ r \in Races /\ BegunOn(r) # NoDate
      BY <1>3, <1>4, <3>1
    <3>3. w = w - Len(row) + i
      BY <1>1, <2>1, <2>3
    <3> QED
      BY <3>2, <3>3
  <2> QED
    BY <1>1, <2>1, <2>2, <2>3
<1>5. RightRow(row, w)
  BY <1>4 DEF RightRow, CountedRaces
<1>6. RightRow(NoRating, w)
  BY DEF RightRow, NoRating, CountedRaces
<1> QED
  BY <1>5, <1>6 DEF ComputedRating, prev

\* Ranking a week, by the daemon or by Rerank, keeps each row right.
LEMMA UpdateIsRight ==
    ASSUME IInv, NEW w \in Nat, UpdateLeagueRankings(w), begun' = begun
    PROVE  CountedInItsWeek' /\ CountedIsBegun'
<1>1. \A v \in Weeks : \A p \in Players :
          \/ history'[v][p] = history[v][p]
          \/ v = w /\ history'[v][p] = ComputedRating(p, w)
  BY DEF UpdateLeagueRankings, Upserted, IInv, TypeOK
<1>2. \A v \in Weeks : \A p \in Players : RightRow(history'[v][p], v)
  BY <1>1, ComputedRatingIsRight, RightRows DEF IInv
<1>3. CountedInItsWeek'
  BY <1>2 DEF CountedInItsWeek, RightRow, BegunOn
<1>4. CountedIsBegun'
  BY <1>2 DEF CountedIsBegun, RightRow, BegunOn
<1> QED
  BY <1>3, <1>4

\* A step that writes no row, and starts only sessions that were not, keeps each
\* row right.
LEMMA BeginningsAreKept ==
    ASSUME IInv, history' = history,
           \A r \in Races : BegunOn(r) # NoDate => BegunOn(r)' = BegunOn(r)
    PROVE  CountedInItsWeek' /\ CountedIsBegun'
<1>1. \A w \in Weeks : \A p \in Players : \A i \in 1..Len(history[w][p]) :
          \A r \in RacesIn(history[w][p][i]) :
              /\ r \in Races /\ BegunOn(r) # NoDate
              /\ WeekOf(BegunOn(r)) = w - Len(history[w][p]) + i
  BY DEF IInv, CountedInItsWeek, CountedIsBegun, CountedRaces
<1>2. CountedInItsWeek'
  BY <1>1 DEF CountedInItsWeek
<1>3. CountedIsBegun'
  BY DEF IInv, CountedIsBegun
<1> QED
  BY <1>2, <1>3

\* A step on the races writes no beginning twice, and dates a race by its beginning
\* or not at all.
LEMMA RacesBeginOnce ==
    ASSUME TypeOK, DatesAreBeginnings, RaceStep
    PROVE  /\ history' = history
           /\ DatesAreBeginnings'
           /\ \A r \in Races : BegunOn(r) # NoDate => BegunOn(r)' = BegunOn(r)
<1> USE DEF TypeOK, DatesAreBeginnings, Dated, BegunOn, ratingVars, historyVars
<1>1. CASE \E s \in Sessions : StartSession(s)
  <2>1. PICK s \in Sessions : StartSession(s)
    BY <1>1
  <2>2. /\ history' = history
        /\ begun[s] = NoDate
        /\ begun' = [begun EXCEPT ![s] = now]
        /\ startedAt' = [r \in Races |-> IF SessionOf[r] = s THEN now ELSE startedAt[r]]
    BY <2>1 DEF StartSession
  <2>3. ASSUME NEW r \in Races
        PROVE  /\ BegunOn(r) # NoDate => BegunOn(r)' = BegunOn(r)
               /\ startedAt'[r] # NoDate => startedAt'[r] = BegunOn(r)'
    <3>1. SessionOf[r] \in Sessions
      BY RacesAssumption
    <3> QED
      BY <2>2, <3>1
  <2> QED
    BY <2>2, <2>3
<1>2. CASE \E r \in Races : EndRace(r) \/ StoreSeed(r)
  <2>1. PICK r \in Races : EndRace(r) \/ StoreSeed(r)
    BY <1>2
  <2>2. /\ history' = history /\ begun' = begun
        /\ startedAt' = startedAt \/ startedAt' = [startedAt EXCEPT ![r] = NoDate]
    BY <2>1 DEF EndRace, StoreSeed
  <2> QED
    BY <2>2
<1> QED
  BY <1>1, <1>2 DEF RaceStep

\* The invariant holds when the tables are empty.
LEMMA InitInvariant == Init => IInv
<1> SUFFICES ASSUME Init PROVE IInv
  OBVIOUS
<1>1. \A w \in Weeks : \A p \in Players : RightRow(history[w][p], w)
  <2>1. \A w \in Weeks : \A p \in Players : history[w][p] = NoRating
    BY DEF Init
  <2>2. \A w : RightRow(NoRating, w)
    BY DEF RightRow, NoRating, CountedRaces
  <2> QED
    BY <2>1, <2>2
<1>2. DatesAreBeginnings
  BY DEF Init, DatesAreBeginnings, Dated
<1> QED
  BY <1>1, <1>2, InitType, RightRows DEF IInv

\* Every step keeps the invariant.
LEMMA NextInvariant == IInv /\ [Next]_vars => IInv'
<1> USE DEF tableVars, ratingVars, daemonVars, rerankVars, historyVars, boundVars
<1> SUFFICES ASSUME IInv, [Next]_vars PROVE IInv'
  OBVIOUS
<1>1. TypeOK'
  <2>1. CASE UNCHANGED vars
    BY <2>1 DEF vars, IInv, TypeOK
  <2> QED
    BY <2>1, DaemonType, RerankType, OtherType DEF Next, IInv
<1>2. CASE RaceStep
  <2>1. /\ history' = history
        /\ DatesAreBeginnings'
        /\ \A r \in Races : BegunOn(r) # NoDate => BegunOn(r)' = BegunOn(r)
    BY <1>2, RacesBeginOnce DEF IInv
  <2> QED
    BY <1>1, <2>1, BeginningsAreKept DEF IInv
<1>3. CASE ~RaceStep
  <2>1. startedAt' = startedAt /\ begun' = begun
    BY <1>3 DEF Next, DaemonStep, CloseMatchSessions, RankClosedSessions,
                AnnounceClosedSessions, DaemonFails, Rerank, RerankPeriod, RerankFails,
                Tick, Stop, Boot, vars
  <2>2. DatesAreBeginnings'
    BY <2>1 DEF IInv, DatesAreBeginnings, Dated, BegunOn
  <2>3. \A r \in Races : BegunOn(r)' = BegunOn(r)
    BY <2>1 DEF BegunOn
  <2>4. CASE history' = history
    BY <1>1, <2>2, <2>3, <2>4, BeginningsAreKept DEF IInv
  <2>5. CASE RankClosedSessions
    <3>1. CASE closing = {}
      BY <2>4, <2>5, <3>1 DEF RankClosedSessions
    <3>2. CASE closing # {}
      <4>1. WeekOf(now) \in Nat
        BY WeekOfIsNat DEF IInv, TypeOK
      <4>2. UpdateLeagueRankings(WeekOf(now))
        BY <2>5, <3>2 DEF RankClosedSessions
      <4> QED
        BY <1>1, <2>1, <2>2, <4>1, <4>2, UpdateIsRight DEF IInv
    <3> QED
      BY <3>1, <3>2
  <2>6. CASE Rerank
    <3>1. history' = [w \in Weeks |-> [p \in Players |-> NoRating]]
      BY <2>6 DEF Rerank
    <3>2. CountedInItsWeek' /\ CountedIsBegun'
      BY <3>1 DEF CountedInItsWeek, CountedIsBegun, NoRating, CountedRaces
    <3> QED
      BY <1>1, <2>2, <3>2 DEF IInv
  <2>7. CASE RerankPeriod
    <3>1. rerankWeek \in Nat /\ UpdateLeagueRankings(rerankWeek)
      BY <2>7 DEF RerankPeriod, IInv, TypeOK
    <3> QED
      BY <1>1, <2>1, <2>2, <3>1, UpdateIsRight DEF IInv
  <2>8. CASE CloseMatchSessions \/ AnnounceClosedSessions \/ DaemonFails \/ RerankFails
             \/ Tick \/ Stop \/ Boot \/ UNCHANGED vars
    BY <2>4, <2>8 DEF CloseMatchSessions, AnnounceClosedSessions, DaemonFails, RerankFails,
                      Tick, Stop, Boot, vars
  <2> QED
    BY <1>3, <2>5, <2>6, <2>7, <2>8 DEF Next, DaemonStep
<1> QED
  BY <1>2, <1>3

\* The inductive invariant holds in every reachable state.
THEOREM RankingsInvariance == Spec => []IInv
BY InitInvariant, NextInvariant, PTL DEF Spec

\* The tables of the ratings and the state of the daemon and of Rerank keep their
\* types (back_ranking.go).
THEOREM RankingsTypeCorrect == Spec => []TypeOK
<1>1. IInv => TypeOK
  BY DEF IInv
<1> QED
  BY <1>1, RankingsInvariance, PTL

\* A race counts in the week it started, whatever the daemon and Rerank do at
\* the same time (back_ranking.go, updateLeagueRankings and Rerank).
THEOREM CountedInItsWeekHolds == Spec => [](TypeOK /\ CountedInItsWeek)
<1>1. IInv => TypeOK /\ CountedInItsWeek
  BY DEF IInv
<1> QED
  BY <1>1, RankingsInvariance, PTL

-------------------------------------------------------------------------------
(***************************************************************************)
(* A Rerank that goes to its end.                                          *)
(***************************************************************************)

\* A later time is not in an earlier week.
LEMMA WeekOfIsMonotonic ==
    ASSUME NEW t \in Nat, NEW u \in Nat, t <= u
    PROVE  WeekOf(t) <= WeekOf(u)
<1> DEFINE v == WeekOf(t)
           w == WeekOf(u)
           weeks(n) == n * Week
<1>1. v \in Int /\ w \in Int /\ weeks(v) <= t /\ u < weeks(w + 1)
  BY WeekAssumption, SMTT(30) DEF WeekOf
<1>2. w < v => weeks(w + 1) <= weeks(v)
  <2> HIDE DEF v, w
  <2> QED
    BY <1>1, WeekAssumption, SMTT(30)
<1>3. weeks(v) \in Int /\ weeks(w + 1) \in Int
  <2> HIDE DEF v, w
  <2> QED
    BY <1>1, WeekAssumption, SMTT(30)
<1> HIDE DEF v, w, weeks
<1>4. v <= w
  BY <1>1, <1>2, <1>3
<1> QED
  BY <1>4 DEF v, w

\* The week of now, and those before, are in the history.
LEMMA PastWeeks ==
    ASSUME TypeOK, DatesArePast
    PROVE  /\ WeekOf(now) \in Nat
           /\ 0..WeekOf(now) \subseteq Weeks
           /\ \A r \in Dated : /\ startedAt[r] \in Nat
                                 /\ WeekOf(startedAt[r]) \in 0..WeekOf(now)
<1>1. now \in Nat /\ MaxTime \in Nat /\ now <= MaxTime
  BY BoundsAssumption DEF TypeOK, DatesArePast
<1>2. WeekOf(now) \in Nat /\ WeekOf(MaxTime) \in Nat /\ WeekOf(now) <= WeekOf(MaxTime)
  BY <1>1, WeekOfIsNat, WeekOfIsMonotonic
<1>3. ASSUME NEW r \in Dated
      PROVE  startedAt[r] \in Nat /\ WeekOf(startedAt[r]) \in 0..WeekOf(now)
  <2>1. startedAt[r] \in Nat /\ startedAt[r] <= now
    BY <1>3 DEF Dated, TypeOK, DatesArePast
  <2> QED
    BY <1>1, <1>2, <2>1, WeekOfIsNat, WeekOfIsMonotonic
<1> QED
  BY <1>2, <1>3 DEF Weeks

\* A race that has a date is one of the period of its week (match.go,
\* getMatchesByPeriod).
LEMMA RacesOfPeriodAreDated ==
    ASSUME TypeOK, NEW w \in Nat
    PROVE  RacesOfPeriod(w) = {r \in Dated : WeekOf(startedAt[r]) = w}
<1>1. ASSUME NEW r \in RacesOfPeriod(w) PROVE r \in Dated /\ WeekOf(startedAt[r]) = w
  <2>1. r \in Races /\ startedAt[r] \in Int /\ InWeek(startedAt[r], w)
    BY <1>1 DEF RacesOfPeriod, TypeOK, NoDate
  <2> DEFINE first == w * Week
  <2>2. first \in Nat
    BY WeekAssumption, SMTT(30)
  <2>3. first <= startedAt[r]
    BY <2>1 DEF InWeek
  <2> HIDE DEF first
  <2>4. startedAt[r] \in Nat /\ startedAt[r] # NoDate
    BY <2>1, <2>2, <2>3 DEF NoDate
  <2> QED
    BY <2>1, <2>4, InItsWeek DEF Dated
<1>2. ASSUME NEW r \in Dated, WeekOf(startedAt[r]) = w PROVE r \in RacesOfPeriod(w)
  <2>1. r \in Races /\ startedAt[r] \in Nat
    BY <1>2 DEF Dated, TypeOK
  <2>2. InWeek(startedAt[r], WeekOf(startedAt[r]))
    BY <2>1, WeekAssumption, SMTT(30) DEF WeekOf, InWeek
  <2> QED
    BY <1>2, <2>1, <2>2 DEF RacesOfPeriod
<1> QED
  BY <1>1, <1>2

\* What a period counts for a player: the races of the week he is in (back_ranking.go,
\* computePeriod).
LEMMA RacesInResults ==
    ASSUME NEW p, NEW w
    PROVE  RacesIn(ResultsOf(p, w)) = {r \in RacesOfPeriod(w) : p \in RacersOf[r]}
<1> DEFINE result(r) == [race |-> r, final |-> r \in over]
<1>1. ResultsOf(p, w) = {result(r) : r \in {x \in RacesOfPeriod(w) : p \in RacersOf[x]}}
  BY Zenon DEF ResultsOf
<1>2. \A r : result(r).race = r
  OBVIOUS
<1> HIDE DEF result
<1> QED
  BY <1>1, <1>2 DEF RacesIn

\* The races counted once one more week is.
LEMMA CountedOneMore ==
    ASSUME NEW row \in Seq(SUBSET Results), NEW results \in SUBSET Results
    PROVE  CountedRaces(Append(row, results)) = CountedRaces(row) \cup RacesIn(results)
<1> DEFINE longer == Append(row, results)
<1>1. /\ Len(longer) = Len(row) + 1
      /\ \A i \in 1..Len(row) : longer[i] = row[i]
      /\ longer[Len(row) + 1] = results
      /\ Len(row) \in Nat
  OBVIOUS
<1> HIDE DEF longer
<1>2. 1..Len(longer) = 1..Len(row) \cup {Len(row) + 1}
  BY <1>1
<1>3. CountedRaces(longer) = CountedRaces(row) \cup RacesIn(results)
  BY <1>1, <1>2 DEF CountedRaces
<1> QED
  BY <1>3 DEF longer

\* Whatever row it replaces or leaves, a week that is upserted counts every race of a
\* player once the week before it does.
LEMMA UpsertedIsComplete ==
    ASSUME TypeOK, DatesArePast, NEW p \in Players, NEW w \in 0..WeekOf(now),
           UpdateLeagueRankings(w),
           w > 0 => DatedUntil(w - 1, p) \subseteq CountedRaces(history[w - 1][p])
    PROVE  DatedUntil(w, p) \subseteq CountedRaces(history'[w][p])
<1> DEFINE prev == PreviousRating(p, w)
           new == ResultsOf(p, w)
<1>1. /\ w \in Nat /\ w \in Weeks
      /\ w > 0 => w - 1 \in Weeks
      /\ w = 0 => w - 1 \notin Weeks
      /\ \A r \in Dated : WeekOf(startedAt[r]) \in Nat
  BY PastWeeks, WeeksAreNats
<1>2. CountedRaces(NoRating) = {}
  BY DEF CountedRaces, NoRating
<1>3. ASSUME NEW r \in DatedUntil(w, p), WeekOf(startedAt[r]) # w
      PROVE  r \in CountedRaces(prev)
  <2>1. r \in Dated /\ WeekOf(startedAt[r]) <= w /\ w > 0
    BY <1>1, <1>3 DEF DatedUntil
  <2>2. r \in DatedUntil(w - 1, p)
    BY <1>1, <1>3, <2>1 DEF DatedUntil
  <2> QED
    BY <1>1, <2>1, <2>2 DEF PreviousRating
<1>4. ASSUME NEW r \in DatedUntil(w, p), WeekOf(startedAt[r]) = w
      PROVE  r \in RacesIn(new)
  BY <1>1, <1>4, RacesInResults, RacesOfPeriodAreDated DEF DatedUntil
<1>5. DatedUntil(w, p) \subseteq CountedRaces(prev) \cup RacesIn(new)
  BY <1>3, <1>4
<1>6. prev \in Seq(SUBSET Results) /\ new \in SUBSET Results
  BY <1>1, ComputedRatingType, ResultsOfType
<1>7. history'[w][p] = IF ComputedRating(p, w) # NoRating THEN ComputedRating(p, w)
                                                          ELSE history[w][p]
  BY <1>1 DEF UpdateLeagueRankings, Upserted, TypeOK
<1>8. CASE prev # NoRating \/ new # {}
  <2>1. ComputedRating(p, w) = Append(prev, new)
    BY <1>8 DEF ComputedRating
  <2> HIDE DEF prev, new
  <2>2. Append(prev, new) # NoRating
    BY <1>6 DEF NoRating
  <2>3. history'[w][p] = Append(prev, new)
    BY <1>7, <2>1, <2>2
  <2> QED
    BY <1>5, <1>6, <2>3, CountedOneMore
<1>9. CASE prev = NoRating /\ new = {}
  <2>1. DatedUntil(w, p) = {}
    BY <1>2, <1>5, <1>9 DEF RacesIn
  <2> QED
    BY <2>1
<1> QED
  BY <1>8, <1>9

\* A week that Rerank has computed is complete, with those before it.
LEMMA PeriodIsComplete ==
    ASSUME RerankInv, RerankPeriod, NEW p \in Players, NEW w \in 0..rerankWeek
    PROVE  DatedUntil(w, p) \subseteq CountedRaces(history'[w][p])
<1> USE DEF RerankInv, IInv
<1>1. reranking /\ UpdateLeagueRankings(rerankWeek)
  BY DEF RerankPeriod
<1>2. rerankWeek \in Nat /\ rerankEnd \in Nat /\ WeekOf(now) \in Nat
      /\ 0..WeekOf(now) \subseteq Weeks
  BY PastWeeks DEF TypeOK
<1>3. /\ rerankWeek \in 0..WeekOf(now)
      /\ \A v \in 0..(rerankWeek - 1) : DatedUntil(v, p) \subseteq CountedRaces(history[v][p])
  BY <1>1, <1>2 DEF RerankIsUnderWay
<1>4. CASE w = rerankWeek
  <2>1. w > 0 => w - 1 \in 0..(rerankWeek - 1)
    BY <1>2, <1>4
  <2> QED
    BY <1>1, <1>3, <1>4, <2>1, UpsertedIsComplete
<1>5. CASE w # rerankWeek
  <2>1. w \in 0..(rerankWeek - 1) /\ w \in Weeks
    BY <1>2, <1>3, <1>5
  <2>2. history'[w] = history[w]
    BY <1>1, <1>5, <2>1 DEF UpdateLeagueRankings, TypeOK
  <2> QED
    BY <1>3, <2>1, <2>2
<1> QED
  BY <1>4, <1>5

\* A date is written only with the present time, and the clock does not go back.
LEMMA DatesStayPast ==
    ASSUME RerankInv, [Next]_vars
    PROVE  /\ DatesArePast'
           /\ now <= now'
           /\ \A r \in Dated' : \/ r \in Dated /\ startedAt'[r] = startedAt[r]
                                \/ startedAt'[r] = now
<1> USE DEF RerankInv, IInv
<1>1. now \in Nat /\ now <= MaxTime /\ MaxTime \in Nat
  BY BoundsAssumption DEF TypeOK, DatesArePast
<1>2. CASE RaceStep
  <2>1. now' = now
    BY <1>2 DEF RaceStep, StartSession, EndRace, StoreSeed
  <2>2. \/ \E s \in Sessions :
              startedAt' = [r \in Races |-> IF SessionOf[r] = s THEN now ELSE startedAt[r]]
        \/ \E r \in Races : startedAt' = [startedAt EXCEPT ![r] = NoDate]
        \/ startedAt' = startedAt
    <3>1. CASE \E s \in Sessions : StartSession(s)
      BY <3>1 DEF StartSession
    <3>2. CASE \E r \in Races : EndRace(r) \/ StoreSeed(r)
      BY <3>2 DEF EndRace, StoreSeed
    <3> QED
      BY <1>2, <3>1, <3>2 DEF RaceStep
  <2>3. \A r \in Dated' : \/ r \in Dated /\ startedAt'[r] = startedAt[r]
                          \/ startedAt'[r] = now
    BY <2>2 DEF Dated, TypeOK
  <2>4. \A r \in Dated : startedAt[r] <= now
    BY DEF DatesArePast
  <2>5. \A r \in Dated' : startedAt'[r] <= now'
    BY <1>1, <2>1, <2>3, <2>4
  <2> QED
    BY <1>1, <2>1, <2>3, <2>5 DEF DatesArePast
<1>3. CASE ~RaceStep
  <2>1. startedAt' = startedAt
    BY <1>3 DEF Next, DaemonStep, CloseMatchSessions, RankClosedSessions,
           AnnounceClosedSessions, DaemonFails, Rerank, RerankPeriod, RerankFails,
           Tick, Stop, Boot, vars, tableVars
  <2>2. \/ now' = now
        \/ now < MaxTime /\ now' = now + 1
    BY <1>3 DEF Next, DaemonStep, CloseMatchSessions, RankClosedSessions,
           AnnounceClosedSessions, DaemonFails, Rerank, RerankPeriod, RerankFails,
           Tick, Stop, Boot, vars
  <2>3. now <= now' /\ now' <= MaxTime /\ now' \in Nat
    BY <1>1, <2>2
  <2>4. Dated' = Dated
    BY <2>1 DEF Dated
  <2>5. \A r \in Dated : startedAt[r] \in Nat /\ startedAt[r] <= now
    BY DEF Dated, TypeOK, DatesArePast
  <2> QED
    BY <1>1, <2>1, <2>3, <2>4, <2>5 DEF DatesArePast
<1> QED
  BY <1>2, <1>3

\* A step that writes no row of the weeks before, and dates races with the present
\* time only, leaves Rerank where it is.
LEMMA RerankIsLeftAlone ==
    ASSUME RerankInv, TypeOK',
           UNCHANGED <<rerankWeek, rerankEnd, reranks>>,
           reranking' => reranking,
           \A w \in 0..(WeekOf(now) - 1) : history'[w] = history[w],
           now <= now',
           \A r \in Dated' : \/ r \in Dated /\ startedAt'[r] = startedAt[r]
                             \/ startedAt'[r] = now
    PROVE  RerankIsUnderWay'
<1> USE DEF RerankInv, IInv
<1> SUFFICES ASSUME reranking' PROVE RerankIsUnderWay'
  BY DEF RerankIsUnderWay
<1>1. /\ reranking /\ reranks > 0 /\ rerankWeek < rerankEnd /\ rerankEnd <= WeekOf(now) + 1
      /\ rerankWeek \in Nat /\ rerankEnd \in Nat
  BY DEF RerankIsUnderWay, TypeOK
<1>2. WeekOf(now) \in Nat /\ WeekOf(now') \in Nat /\ WeekOf(now) <= WeekOf(now')
  BY WeekOfIsNat, WeekOfIsMonotonic DEF TypeOK
<1>3. ASSUME NEW p \in Players, NEW w \in 0..(rerankWeek - 1)
      PROVE  DatedUntil(w, p)' \subseteq CountedRaces(history'[w][p])
  <2>1. w \in 0..(WeekOf(now) - 1) /\ w \in Int
    BY <1>1, <1>2
  <2>2. DatedUntil(w, p)' \subseteq DatedUntil(w, p)
    <3>1. ASSUME NEW r \in DatedUntil(w, p)' PROVE r \in DatedUntil(w, p)
      <4>1. r \in Dated' /\ WeekOf(startedAt'[r]) <= w /\ p \in RacersOf[r]
        BY <3>1 DEF DatedUntil
      <4>2. startedAt'[r] # now
        BY <1>2, <2>1, <4>1
      <4> QED
        BY <4>1, <4>2 DEF DatedUntil
    <3> QED
      BY <3>1
  <2>3. DatedUntil(w, p) \subseteq CountedRaces(history[w][p])
    BY <1>1 DEF RerankIsUnderWay
  <2> QED
    BY <2>1, <2>2, <2>3
<1>4. rerankEnd' <= WeekOf(now') + 1
  BY <1>1, <1>2
<1> QED
  BY <1>1, <1>3, <1>4 DEF RerankIsUnderWay

\* Rerank starts with the week of the first date.
LEMMA RerankStarts ==
    ASSUME RerankInv, Rerank
    PROVE  RerankIsUnderWay'
<1> USE DEF RerankInv, IInv
<1> SUFFICES ASSUME reranking' PROVE RerankIsUnderWay'
  BY DEF RerankIsUnderWay
<1>1. /\ rerankWeek' \in FirstPeriods
      /\ rerankEnd' = WeekOf(now) + 1
      /\ UNCHANGED <<now, startedAt>>
      /\ reranks' = reranks + 1
  BY DEF Rerank, rerankVars, tableVars
<1>2. PICK r \in Dated : /\ rerankWeek' = WeekOf(startedAt[r])
                         /\ \A y \in Dated : startedAt[r] <= startedAt[y]
  BY <1>1 DEF FirstPeriods
<1>3. /\ WeekOf(now) \in Nat
      /\ \A x \in Dated : /\ startedAt[x] \in Nat
                          /\ WeekOf(startedAt[x]) \in 0..WeekOf(now)
  BY PastWeeks
<1>4. rerankWeek' \in 0..WeekOf(now)
  BY <1>2, <1>3
<1>5. \A y \in Dated : rerankWeek' <= WeekOf(startedAt[y])
  BY <1>2, <1>3, WeekOfIsMonotonic
<1>6. ASSUME NEW p \in Players, NEW w \in 0..(rerankWeek' - 1)
      PROVE  DatedUntil(w, p)' = {}
  <2> DEFINE first == rerankWeek'
  <2>1. first \in 0..WeekOf(now) /\ w \in 0..(first - 1)
    BY <1>4
  <2>2. \A y \in Dated : first <= WeekOf(startedAt[y])
    BY <1>5
  <2> HIDE DEF first
  <2>3. \A y \in Dated : ~(WeekOf(startedAt[y]) <= w)
    BY <1>3, <2>1, <2>2
  <2> QED
    BY <1>1, <2>3 DEF DatedUntil, Dated
<1>7. reranks' > 0 /\ rerankWeek' < rerankEnd' /\ rerankEnd' <= WeekOf(now') + 1
  BY <1>1, <1>3, <1>4 DEF TypeOK
<1> QED
  BY <1>6, <1>7 DEF RerankIsUnderWay

\* Rerank goes from a week to the next (back_ranking.go, Rerank).
LEMMA RerankGoesOn ==
    ASSUME RerankInv, RerankPeriod
    PROVE  RerankIsUnderWay'
<1> USE DEF RerankInv, IInv
<1> SUFFICES ASSUME reranking' PROVE RerankIsUnderWay'
  BY DEF RerankIsUnderWay
<1>1. /\ reranking /\ reranks > 0 /\ rerankEnd <= WeekOf(now) + 1
      /\ rerankWeek \in Nat /\ rerankEnd \in Nat
  BY DEF RerankPeriod, RerankIsUnderWay, TypeOK
<1>2. /\ rerankWeek' = rerankWeek + 1
      /\ UNCHANGED <<now, startedAt, rerankEnd, reranks>>
  BY DEF RerankPeriod, tableVars, boundVars
<1>3. rerankWeek + 1 < rerankEnd
  BY Zenon DEF RerankPeriod
<1>4. ASSUME NEW p \in Players, NEW w \in 0..(rerankWeek' - 1)
      PROVE  DatedUntil(w, p)' \subseteq CountedRaces(history'[w][p])
  <2>1. w \in 0..rerankWeek
    BY <1>1, <1>2
  <2>2. DatedUntil(w, p)' = DatedUntil(w, p)
    BY <1>2 DEF DatedUntil, Dated
  <2> QED
    BY <2>1, <2>2, PeriodIsComplete
<1> QED
  BY <1>1, <1>2, <1>3, <1>4 DEF RerankIsUnderWay

\* The invariant of Rerank holds when no race has a date.
LEMMA InitRerank == Init => RerankInv
<1> SUFFICES ASSUME Init PROVE RerankInv
  OBVIOUS
<1>1. Dated = {}
  BY DEF Init, Dated
<1>2. now <= MaxTime /\ ~reranking
  BY BoundsAssumption DEF Init
<1> QED
  BY <1>1, <1>2, InitInvariant DEF RerankInv, DatesArePast, RerankIsUnderWay

\* Every step keeps the invariant of Rerank.
LEMMA NextRerank == RerankInv /\ [Next]_vars => RerankInv'
<1> SUFFICES ASSUME RerankInv, [Next]_vars PROVE RerankInv'
  OBVIOUS
<1> USE DEF tableVars, ratingVars, daemonVars, rerankVars, boundVars
<1>1. IInv' /\ TypeOK'
  BY NextInvariant DEF RerankInv, IInv
<1>2. /\ DatesArePast'
      /\ now <= now'
      /\ \A r \in Dated' : \/ r \in Dated /\ startedAt'[r] = startedAt[r]
                           \/ startedAt'[r] = now
  BY DatesStayPast
<1>3. RerankIsUnderWay'
  <2>1. CASE /\ UNCHANGED <<rerankWeek, rerankEnd, reranks>>
             /\ reranking' => reranking
             /\ \A w \in 0..(WeekOf(now) - 1) : history'[w] = history[w]
    BY <1>1, <1>2, <2>1, RerankIsLeftAlone
  <2>2. CASE RankClosedSessions
    <3>1. UNCHANGED <<reranking, rerankWeek, rerankEnd, reranks>>
      BY <2>2 DEF RankClosedSessions
    <3>2. history' = history \/ UpdateLeagueRankings(WeekOf(now))
      BY <2>2 DEF RankClosedSessions
    <3>3. WeekOf(now) \in Nat
      BY WeekOfIsNat DEF RerankInv, IInv, TypeOK
    <3>4. \A w \in 0..(WeekOf(now) - 1) : history'[w] = history[w]
      <4>1. 0..WeekOf(now) \subseteq Weeks
        BY PastWeeks DEF RerankInv, IInv
      <4>2. history \in [Weeks -> [Players -> Seq(SUBSET Results)]]
        BY DEF RerankInv, IInv, TypeOK
      <4>3. ASSUME NEW w \in 0..(WeekOf(now) - 1) PROVE w \in Weeks /\ w # WeekOf(now)
        BY <3>3, <4>1
      <4> QED
        BY <3>2, <4>2, <4>3 DEF UpdateLeagueRankings
    <3> QED
      BY <2>1, <3>1, <3>4
  <2>3. CASE Rerank
    BY <2>3, RerankStarts
  <2>4. CASE RerankPeriod
    BY <2>4, RerankGoesOn
  <2>5. CASE CloseMatchSessions \/ AnnounceClosedSessions \/ DaemonFails
    BY <2>1, <2>5 DEF CloseMatchSessions, AnnounceClosedSessions, DaemonFails
  <2>6. CASE RerankFails \/ Stop
    <3>1. UNCHANGED <<history, rerankWeek, rerankEnd, reranks>>
      BY <2>6 DEF RerankFails, Stop
    <3>2. reranking' => reranking
      BY <2>6, Zenon DEF RerankFails, Stop
    <3> QED
      BY <2>1, <3>1, <3>2
  <2>7. CASE RaceStep \/ Tick \/ Boot \/ UNCHANGED vars
    BY <2>1, <2>7 DEF RaceStep, StartSession, EndRace, StoreSeed, Tick, Boot, vars
  <2> QED
    BY <2>2, <2>3, <2>4, <2>5, <2>6, <2>7 DEF Next, DaemonStep
<1> QED
  BY <1>1, <1>2, <1>3 DEF RerankInv

\* The invariant of Rerank holds in every reachable state.
LEMMA RerankInvariance == Spec => []RerankInv
BY InitRerank, NextRerank, PTL DEF Spec

\* A Rerank that goes to its end has counted every race that has a date, in every
\* week it went over, though races start, end and lose their dates and the daemon
\* ranks meanwhile, and whatever the clock does (back_ranking.go, Rerank).
THEOREM RerankIsAlwaysComplete == Spec => RerankIsComplete
<1> DEFINE Complete == \A w \in 0..(rerankEnd - 1) : \A p \in Players :
                           DatedUntil(w, p) \subseteq CountedRaces(history'[w][p])
           Finishes == reranking /\ ~reranking' /\ failures' = failures /\ stops' = stops
<1>1. RerankInv /\ [Next]_vars => [Finishes => Complete]_vars
  <2> SUFFICES ASSUME RerankInv, [Next]_vars, Finishes PROVE Complete
    OBVIOUS
  <2>1. failures \in Nat /\ stops \in Nat /\ rerankWeek \in Nat /\ rerankEnd \in Nat
    BY DEF RerankInv, IInv, TypeOK
  <2>2. RerankPeriod
    <3>1. reranking' # reranking
      BY Zenon
    <3>2. failures' # failures + 1 /\ stops' # stops + 1
      BY <2>1
    <3> QED
      BY <3>1, <3>2, Zenon DEF Next, DaemonStep, CloseMatchSessions, RankClosedSessions,
             AnnounceClosedSessions, DaemonFails, Rerank, RerankFails, RaceStep, StartSession,
             EndRace, StoreSeed, Tick, Stop, Boot, vars, tableVars, ratingVars, daemonVars,
             rerankVars, historyVars, boundVars
  <2>3. ~(rerankWeek + 1 < rerankEnd)
    BY <2>2, Zenon DEF RerankPeriod
  <2>4. 0..(rerankEnd - 1) \subseteq 0..rerankWeek
    BY <2>1, <2>3
  <2> QED
    BY <2>2, <2>4, PeriodIsComplete
<1>2. RerankIsComplete <=> [][Finishes => Complete]_vars
  BY PTL DEF RerankIsComplete
<1> HIDE DEF Finishes, Complete
<1> QED
  BY <1>1, <1>2, RerankInvariance, PTL DEF Spec

-------------------------------------------------------------------------------
(***************************************************************************)
(* What is announced is ranked.                                            *)
(***************************************************************************)

\* A league where a race has a date has a first period (back_ranking.go,
\* getFirstMatchStartOfLeague).
LEMMA FirstPeriodExists ==
    ASSUME TypeOK, Dated # {}
    PROVE  FirstPeriods # {}
<1> DEFINE dates == {startedAt[r] : r \in Dated}
<1>1. dates \subseteq Nat /\ dates # {}
  BY DEF Dated, TypeOK
<1>2. PICK d \in dates : \A e \in dates : d <= e
  <2> HIDE DEF dates
  <2> QED
    BY <1>1, LeastOf
<1>3. PICK r \in Dated : d = startedAt[r]
  OBVIOUS
<1>4. \A y \in Dated : startedAt[r] <= startedAt[y]
  BY <1>2, <1>3
<1> QED
  BY <1>4 DEF FirstPeriods

\* Ranking the week of a race that is over gives it, and its outcome, to the ratings
\* of both its racers (back_ranking.go, updateLeagueRankings).
LEMMA UpdateRanks ==
    ASSUME TypeOK, NEW r \in over \cap Dated,
           UpdateLeagueRankings(WeekOf(startedAt[r]))
    PROVE  IsRanked(r)'
<1> DEFINE w == WeekOf(startedAt[r])
           result == [race |-> r, final |-> TRUE]
<1>1. r \in Races /\ startedAt[r] \in Nat /\ w \in Nat
  BY WeekOfIsNat DEF TypeOK, Dated
<1>2. r \in RacesOfPeriod(w) /\ UpdateLeagueRankings(w)
  BY <1>1, RacesOfPeriodAreDated
<1> HIDE DEF w
<1>3. ASSUME NEW p \in RacersOf[r]
      PROVE  \E i \in 1..Len(rating'[p]) : result \in rating'[p][i]
  <2>1. p \in Players
    BY <1>1, RacesAssumption
  <2> DEFINE prev == PreviousRating(p, w)
             new == ResultsOf(p, w)
  <2>2. result \in new
    <3>1. result = [race |-> r, final |-> r \in over]
      OBVIOUS
    <3> QED
      BY <1>2, <3>1 DEF ResultsOf
  <2>3. prev \in Seq(SUBSET Results) /\ new \in SUBSET Results
    BY <1>1, <2>1, ComputedRatingType, ResultsOfType
  <2>4. ComputedRating(p, w) = Append(prev, new)
    BY <2>2 DEF ComputedRating
  <2> HIDE DEF prev, new, result
  <2>5. Append(prev, new) # NoRating
    BY <2>3 DEF NoRating
  <2>6. rating'[p] = Append(prev, new)
    BY <1>2, <2>1, <2>4, <2>5 DEF UpdateLeagueRankings, Upserted
  <2>7. Len(prev) + 1 \in 1..Len(rating'[p]) /\ rating'[p][Len(prev) + 1] = new
    BY <2>3, <2>6
  <2> QED
    BY <2>2, <2>7
<1> QED
  BY <1>3 DEF IsRanked

\* A race that is due in a recap: it has a date, in the week of the recap.
IsDue(s, r) ==
    /\ s \in closing \cap closed
    /\ r \in RacesOf(s)
    /\ startedAt[r] # NoDate
    /\ WeekOf(startedAt[r]) = WeekOf(now)

\* The invariant, race by race.
LEMMA DueIsRanked ==
    RankedBeforeAnnounced <=>
        /\ ended \subseteq over
        /\ \A s \in closing : RacesOf(s) \subseteq over
        /\ pc = "announce" /\ ~reranking /\ ~RerankWasCut /\ ~outdated =>
              \A s, r : IsDue(s, r) => IsRanked(r)
BY Zenon DEF RankedBeforeAnnounced, IsDue

\* The invariant holds when nothing ended.
LEMMA InitAnnounce == Init => AnnounceInv
BY InitRerank DEF Init, AnnounceInv, RankedBeforeAnnounced

\* The daemon announces what it has just ranked (back_periodic.go,
\* closeMatchSessionsAndUpdateRanks).
LEMMA DaemonAnnounces ==
    ASSUME AnnounceInv, DaemonStep \/ DaemonFails
    PROVE  RankedBeforeAnnounced'
<1> USE DEF AnnounceInv, RerankInv, IInv, tableVars, rerankVars
<1>1. CASE CloseMatchSessions
  <2>1. \A s \in ToEnd : RacesOf(s) \subseteq over
    BY DEF ToEnd, RankedBeforeAnnounced
  <2> QED
    BY <1>1, <2>1 DEF CloseMatchSessions, RankedBeforeAnnounced
<1>2. CASE RankClosedSessions
  <2>1. /\ UNCHANGED <<now, startedAt, ended, over, closed, closing>>
        /\ closing # {} => UpdateLeagueRankings(WeekOf(now))
    BY <1>2 DEF RankClosedSessions
  <2>2. ended \subseteq over /\ \A s \in closing : RacesOf(s) \subseteq over
    BY DEF RankedBeforeAnnounced
  <2>3. ASSUME NEW s, NEW r, IsDue(s, r) PROVE IsRanked(r)'
    <3>1. r \in over \cap Dated /\ closing # {} /\ WeekOf(startedAt[r]) = WeekOf(now)
      BY <2>2, <2>3 DEF IsDue, Dated, RacesOf
    <3> QED
      BY <2>1, <3>1, UpdateRanks
  <2>4. \A s, r : IsDue(s, r)' <=> IsDue(s, r)
    BY <2>1 DEF IsDue
  <2> QED
    BY <2>1, <2>2, <2>3, <2>4, DueIsRanked DEF RankedBeforeAnnounced, IsDue
<1>3. CASE AnnounceClosedSessions
  BY <1>3 DEF AnnounceClosedSessions, RankedBeforeAnnounced
<1>4. CASE DaemonFails
  BY <1>4 DEF DaemonFails, RankedBeforeAnnounced
<1> QED
  BY <1>1, <1>2, <1>3, <1>4 DEF DaemonStep

\* A Rerank that ends in between has ranked the current week last, or leaves the
\* ratings outdated (back_ranking.go, Rerank).
LEMMA RerankAnnounces ==
    ASSUME AnnounceInv, Rerank \/ RerankPeriod \/ RerankFails
    PROVE  RankedBeforeAnnounced'
<1> USE DEF AnnounceInv, RerankInv, IInv, tableVars, daemonVars, rerankVars
<1>1. /\ UNCHANGED <<now, startedAt, ended, over, closed, closing, pc>>
      /\ ended \subseteq over /\ \A s \in closing : RacesOf(s) \subseteq over
  BY DEF Rerank, RerankPeriod, RerankFails, RankedBeforeAnnounced
<1>2. SUFFICES ASSUME ~reranking', ~RerankWasCut', ~outdated', NEW s, NEW r, IsDue(s, r)
               PROVE  IsRanked(r)'
  <2>1. \A s, r : IsDue(s, r)' <=> IsDue(s, r)
    BY <1>1 DEF IsDue
  <2> QED
    BY <1>1, <2>1 DEF RankedBeforeAnnounced, IsDue
<1>3. r \in over \cap Dated /\ WeekOf(startedAt[r]) = WeekOf(now)
  BY <1>1, <1>2 DEF IsDue, Dated, RacesOf
<1>4. failures \in Nat /\ stops \in Nat /\ reranks \in Nat
  BY DEF TypeOK
<1>5. CASE Rerank
  <2>1. FirstPeriods # {}
    BY <1>3, FirstPeriodExists
  <2>2. failures' = failures + 1 /\ reranks' = reranks + 1
    BY <1>2, <1>5, <2>1, Zenon DEF Rerank
  <2>3. RerankWasCut'
    BY <1>4, <1>5, <2>2 DEF Rerank, RerankWasCut
  <2> QED
    BY <1>2, <2>3
<1>6. CASE RerankPeriod
  <2>1. /\ reranking
        /\ rerankWeek < rerankEnd
        /\ rerankEnd <= WeekOf(now) + 1
        /\ UpdateLeagueRankings(rerankWeek)
    BY <1>6 DEF RerankPeriod, RerankIsUnderWay
  <2>2. ~(rerankWeek < WeekOf(now))
    BY <1>2, <1>6, Zenon DEF RerankPeriod
  <2>3. rerankWeek = WeekOf(now)
    <3>1. WeekOf(now) \in Nat /\ rerankWeek \in Nat /\ rerankEnd \in Nat
      BY WeekOfIsNat DEF TypeOK
    <3> QED
      BY <2>1, <2>2, <3>1
  <2> QED
    BY <1>3, <2>1, <2>3, UpdateRanks
<1>7. CASE RerankFails
  <2>1. /\ reranks' = reranks /\ stops' = stops /\ failures' = failures + 1
        /\ reranks > 0
    BY <1>7 DEF RerankFails, RerankIsUnderWay
  <2>2. RerankWasCut'
    BY <1>4, <2>1 DEF RerankWasCut
  <2> QED
    BY <1>2, <2>2
<1> QED
  BY <1>5, <1>6, <1>7

\* A late start reopens the session, a late seed takes the date away, and the clock
\* may end the week, but none of them ranks (match_session.go, start;
\* back_matchmaking.go, generateAndSendMatchSeed).
LEMMA OthersAnnounce ==
    ASSUME AnnounceInv, [Next]_vars, RaceStep \/ Tick \/ Stop \/ Boot
    PROVE  RankedBeforeAnnounced'
<1> USE DEF AnnounceInv, RerankInv, IInv, tableVars, ratingVars, daemonVars, rerankVars,
            historyVars, boundVars
<1>1. CASE RaceStep
  <2>1. /\ UNCHANGED <<now, rating, pc, closing, reranking, outdated, failures, stops, reranks>>
        /\ over \subseteq over' /\ ended' \subseteq over'
        /\ \A s \in closing' : RacesOf(s) \subseteq over'
    BY <1>1 DEF RaceStep, StartSession, EndRace, StoreSeed, RankedBeforeAnnounced
  <2>2. ASSUME NEW s, NEW r, IsDue(s, r)' PROVE IsDue(s, r)
    <3>1. CASE \E t \in Sessions : StartSession(t)
      BY <2>2, <3>1 DEF StartSession, IsDue, RacesOf
    <3>2. CASE \E x \in Races : EndRace(x) \/ StoreSeed(x)
      BY <2>2, <3>2 DEF EndRace, StoreSeed, IsDue, RacesOf, TypeOK
    <3> QED
      BY <1>1, <3>1, <3>2 DEF RaceStep
  <2>3. \A r : IsRanked(r)' <=> IsRanked(r)
    BY <2>1 DEF IsRanked
  <2>4. RerankWasCut' <=> RerankWasCut
    BY <2>1 DEF RerankWasCut
  <2>5. ASSUME pc' = "announce", ~reranking', ~RerankWasCut', ~outdated',
               NEW s, NEW r, IsDue(s, r)'
        PROVE  IsRanked(r)'
    <3>1. pc = "announce" /\ ~reranking /\ ~outdated
      BY <2>1, <2>5, Zenon
    <3> QED
      BY <2>2, <2>3, <2>4, <2>5, <3>1, DueIsRanked
  <2> QED
    BY <2>1, <2>5 DEF RankedBeforeAnnounced, IsDue
<1>2. CASE Tick
  <2>1. UNCHANGED <<startedAt, ended, over, closed, rating, pc, closing, reranking, outdated,
                    failures, stops, reranks>>
    BY <1>2 DEF Tick
  <2>2. ASSUME NEW s, NEW r, IsDue(s, r)' PROVE IsDue(s, r)
    <3>1. /\ now' = now + 1 /\ now \in Nat
          /\ r \in Dated /\ startedAt[r] \in Nat /\ startedAt[r] <= now
      BY <1>2, <2>1, <2>2 DEF Tick, TypeOK, IsDue, RacesOf, Dated, DatesArePast
    <3>2. /\ WeekOf(startedAt[r]) <= WeekOf(now) /\ WeekOf(now) <= WeekOf(now')
          /\ WeekOf(startedAt[r]) \in Nat /\ WeekOf(now) \in Nat /\ WeekOf(now') \in Nat
      BY <3>1, WeekOfIsMonotonic, WeekOfIsNat
    <3>3. WeekOf(startedAt[r]) = WeekOf(now')
      BY <2>1, <2>2 DEF IsDue
    <3> QED
      BY <2>1, <2>2, <3>2, <3>3 DEF IsDue
  <2>3. \A r : IsRanked(r)' <=> IsRanked(r)
    BY <2>1 DEF IsRanked
  <2>4. RerankWasCut' <=> RerankWasCut
    BY <2>1 DEF RerankWasCut
  <2>5. ASSUME pc' = "announce", ~reranking', ~RerankWasCut', ~outdated',
               NEW s, NEW r, IsDue(s, r)'
        PROVE  IsRanked(r)'
    <3>1. pc = "announce" /\ ~reranking /\ ~outdated
      BY <2>1, <2>5, Zenon
    <3> QED
      BY <2>2, <2>3, <2>4, <2>5, <3>1, DueIsRanked
  <2> QED
    BY <2>1, <2>5 DEF RankedBeforeAnnounced, IsDue
<1>3. CASE Stop
  BY <1>3 DEF Stop, RankedBeforeAnnounced
<1>4. CASE Boot
  BY <1>4 DEF Boot, RankedBeforeAnnounced
<1> QED
  BY <1>1, <1>2, <1>3, <1>4

\* When a recap is sent, whoever raced in it finds the race in his rating, but in the
\* cases the property names, whatever the clock does (back_periodic.go,
\* closeMatchSessionsAndUpdateRanks).
THEOREM AnnouncedIsAlwaysRanked == Spec => AnnouncedIsRanked
<1> DEFINE Ranked == \A s \in (announced' \ announced) \cap closed :
                        ~reranking /\ ~RerankWasCut /\ ~outdated =>
                            \A r \in RacesOf(s) :
                                startedAt[r] # NoDate /\ WeekOf(startedAt[r]) = WeekOf(now)
                                    => IsRanked(r)
<1>1. AnnounceInv /\ [Next]_vars => AnnounceInv'
  <2> SUFFICES ASSUME AnnounceInv, [Next]_vars PROVE AnnounceInv'
    OBVIOUS
  <2>1. RerankInv'
    BY NextRerank DEF AnnounceInv
  <2>2. RankedBeforeAnnounced'
    <3>1. CASE UNCHANGED vars
      BY <3>1 DEF vars, tableVars, ratingVars, daemonVars, rerankVars, historyVars, boundVars,
                  AnnounceInv, RankedBeforeAnnounced, RerankWasCut, IsRanked
    <3> QED
      BY <3>1, DaemonAnnounces, RerankAnnounces, OthersAnnounce DEF Next
  <2> QED
    BY <2>1, <2>2 DEF AnnounceInv
<1>2. AnnounceInv /\ [Next]_vars => [Ranked]_vars
  <2> SUFFICES ASSUME AnnounceInv, [Next]_vars, announced' # announced PROVE Ranked
    OBVIOUS
  <2>1. AnnounceClosedSessions
    BY DEF Next, DaemonStep, CloseMatchSessions, RankClosedSessions, DaemonFails, Rerank,
           RerankPeriod, RerankFails, RaceStep, StartSession, EndRace, StoreSeed, Tick, Stop,
           Boot, vars
  <2>2. pc = "announce" /\ announced' = announced \cup closing
    BY <2>1 DEF AnnounceClosedSessions
  <2> QED
    BY <2>2 DEF AnnounceInv, RankedBeforeAnnounced
<1>3. AnnouncedIsRanked <=> [][Ranked]_vars
  BY PTL DEF AnnouncedIsRanked
<1> HIDE DEF Ranked
<1> QED
  BY <1>1, <1>2, <1>3, InitAnnounce, PTL DEF Spec

==============================================================================
