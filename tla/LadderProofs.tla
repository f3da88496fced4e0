----------------------------- MODULE LadderProofs ------------------------------
(***************************************************************************)
(* What the ladder owes to those who registered.  Matchmaking leaves out   *)
(* nobody but the last of an odd number of players, the others race at the *)
(* date of their session, and each of their matches is a duel (Duel).      *)
(*                                                                         *)
(* The odd player is taken out by his name (RemovePlayerID), and Go slices *)
(* may hold one twice: that nobody is registered twice, in the table or in *)
(* a copy of it, is what makes the right one go.                           *)
(***************************************************************************)
EXTENDS MatchSessionsDuel, MatchSessionsProofs

\* No player is twice in a list.
Once(ids) == \A i, j \in 1..Len(ids) : ids[i] = ids[j] => i = j

NoDuplicates ==
    \A s \in Sessions :
        Once(playerIDs[s]) /\ Once(preparedIDs[s]) /\ Once(countingIDs[s])

-------------------------------------------------------------------------------
(***************************************************************************)
(* The lists.                                                              *)
(***************************************************************************)

\* Nobody is in an empty list.
LEMMA EmptyOnce == Once(<<>>)
  BY DEF Once

\* AddPlayerID does not add a player twice (match_session.go, AddPlayerID).
LEMMA AddOnce ==
    ASSUME NEW ids \in Seq(Players), NEW p \in Players, Once(ids)
    PROVE  Once(AddPlayerID(ids, p))
<1>1. CASE HasPlayerID(ids, p)
  BY <1>1 DEF AddPlayerID
<1>2. CASE ~HasPlayerID(ids, p)
  <2>1. /\ AddPlayerID(ids, p) = Append(ids, p)
        /\ \A i \in 1..Len(ids) : ids[i] # p
    BY <1>2 DEF AddPlayerID, HasPlayerID
  <2>2. /\ Len(Append(ids, p)) = Len(ids) + 1
        /\ Len(ids) \in Nat
        /\ \A i \in 1..Len(ids) : Append(ids, p)[i] = ids[i]
        /\ Append(ids, p)[Len(ids) + 1] = p
    OBVIOUS
  <2> QED
    BY <2>1, <2>2 DEF Once
<1> QED
  BY <1>1, <1>2

\* What RemovePlayerID returns: the list without the place of the player.
LEMMA RemoveAt ==
    ASSUME NEW ids \in Seq(Players), NEW p, HasPlayerID(ids, p)
    PROVE  \E i \in 1..Len(ids) :
              /\ ids[i] = p
              /\ RemovePlayerID(ids, p) \in Seq(Players)
              /\ Len(RemovePlayerID(ids, p)) = Len(ids) - 1
              /\ \A k \in 1..(Len(ids) - 1) :
                    RemovePlayerID(ids, p)[k] = IF k < i THEN ids[k] ELSE ids[k + 1]
<1> DEFINE i == CHOOSE k \in 1..Len(ids) : ids[k] = p
           a == SubSeq(ids, 1, i - 1)
           b == SubSeq(ids, i + 1, Len(ids))
<1>1. i \in 1..Len(ids) /\ ids[i] = p /\ Len(ids) \in Nat
  BY DEF HasPlayerID
<1> HIDE DEF i
<1>2. /\ a \in Seq(Players)
      /\ Len(a) = i - 1
      /\ \A k \in 1..(i - 1) : a[k] = ids[k]
  BY <1>1, SubSeqProperties
<1>3. /\ b \in Seq(Players)
      /\ Len(b) = Len(ids) - i
      /\ \A k \in 1..(Len(ids) - i) : b[k] = ids[i + k]
  BY <1>1, SubSeqProperties
<1> HIDE DEF a, b
<1>4. /\ a \o b \in Seq(Players)
      /\ Len(a \o b) = Len(a) + Len(b)
      /\ \A k \in 1..(Len(a) + Len(b)) :
            (a \o b)[k] = IF k <= Len(a) THEN a[k] ELSE b[k - Len(a)]
  BY <1>2, <1>3, ConcatProperties
<1>5. RemovePlayerID(ids, p) = a \o b
  BY DEF RemovePlayerID, a, b, i
<1>6. Len(a \o b) = Len(ids) - 1
  BY <1>1, <1>2, <1>3, <1>4
<1>7. ASSUME NEW k \in 1..(Len(ids) - 1)
      PROVE  (a \o b)[k] = IF k < i THEN ids[k] ELSE ids[k + 1]
  <2>1. CASE k < i
    BY <2>1, <1>1, <1>2, <1>3, <1>4
  <2>2. CASE ~(k < i)
    <3>1. k - (i - 1) \in 1..(Len(ids) - i)
      BY <2>2, <1>1
    <3>2. (a \o b)[k] = b[k - (i - 1)]
      BY <2>2, <1>1, <1>2, <1>3, <1>4
    <3>3. b[k - (i - 1)] = ids[i + (k - (i - 1))]
      BY <3>1, <1>3
    <3>4. i + (k - (i - 1)) = k + 1
      BY <1>1
    <3> QED
      BY <2>2, <3>2, <3>3, <3>4
  <2> QED
    BY <2>1, <2>2
<1> QED
  BY <1>1, <1>4, <1>5, <1>6, <1>7

\* RemovePlayerID moves players, and duplicates none (match_session.go).
LEMMA RemoveOnce ==
    ASSUME NEW ids \in Seq(Players), NEW p, HasPlayerID(ids, p), Once(ids)
    PROVE  Once(RemovePlayerID(ids, p))
<1> DEFINE rest == RemovePlayerID(ids, p)
<1>1. PICK i \in 1..Len(ids) :
        /\ Len(rest) = Len(ids) - 1
        /\ \A k \in 1..(Len(ids) - 1) : rest[k] = IF k < i THEN ids[k] ELSE ids[k + 1]
  BY RemoveAt
<1>2. Len(ids) \in Nat
  OBVIOUS
<1> HIDE DEF rest
<1>3. ASSUME NEW j \in 1..Len(rest), NEW k \in 1..Len(rest), rest[j] = rest[k]
      PROVE  j = k
  <2> DEFINE at(x) == IF x < i THEN x ELSE x + 1
  <2>1. at(j) \in 1..Len(ids) /\ at(k) \in 1..Len(ids)
    BY <1>1, <1>2
  <2>2. rest[j] = ids[at(j)] /\ rest[k] = ids[at(k)]
    BY <1>1
  <2>3. at(j) = at(k)
    BY <1>3, <2>1, <2>2 DEF Once
  <2> QED
    BY <1>1, <1>2, <2>3
<1> QED
  BY <1>3 DEF Once, rest

\* The copy that matchmaking writes back has everybody of the copy it was given
\* but the last of an odd number (ensureSessionIsValidForMatchMaking).
LEMMA KeptAreAllButTheLast ==
    ASSUME TypeOK, NEW s \in Sessions, Once(preparedIDs[s])
    PROVE  /\ Once(KeptIDs(s))
           /\ \A i \in 1..Len(preparedIDs[s]) :
                 HasPlayerID(KeptIDs(s), preparedIDs[s][i])
                     <=> ~(i = Len(preparedIDs[s]) /\ i % 2 = 1)
<1> DEFINE ids == preparedIDs[s]
           n == Len(ids)
<1>1. ids \in Seq(Players) /\ Once(ids)
  BY DEF TypeOK
<1>2. n \in Nat
  BY <1>1
<1>3. KeptIDs(s) = IF n % 2 = 1 THEN RemovePlayerID(ids, ids[n]) ELSE ids
  BY DEF KeptIDs
<1> HIDE DEF ids
<1>4. CASE n % 2 = 1
  <2> DEFINE rest == RemovePlayerID(ids, ids[n])
  <2>1. n \in 1..n
    BY <1>2, <1>4
  <2>2. HasPlayerID(ids, ids[n])
    BY <2>1 DEF HasPlayerID
  <2>3. PICK i \in 1..n :
          /\ ids[i] = ids[n]
          /\ Len(rest) = n - 1
          /\ \A k \in 1..(n - 1) : rest[k] = IF k < i THEN ids[k] ELSE ids[k + 1]
    BY <1>1, <2>2, RemoveAt
  <2>4. i = n
    BY <1>1, <2>1, <2>3 DEF Once
  <2>5. Once(rest)
    BY <1>1, <2>2, RemoveOnce
  <2> HIDE DEF rest
  <2>6. \A k \in 1..(n - 1) : rest[k] = ids[k]
    BY <1>2, <2>3, <2>4
  <2>7. ASSUME NEW j \in 1..n
        PROVE  HasPlayerID(rest, ids[j]) <=> j # n
    <3>1. CASE j = n
      <4>1. ASSUME NEW k \in 1..Len(rest) PROVE rest[k] # ids[n]
        <5>1. k \in 1..(n - 1) /\ k \in 1..n /\ k # n
          BY <1>2, <2>3
        <5> QED
          BY <5>1, <1>1, <2>1, <2>6 DEF Once
      <4> QED
        BY <3>1, <4>1 DEF HasPlayerID
    <3>2. CASE j # n
      <4>1. j \in 1..(n - 1)
        BY <1>2, <3>2
      <4> QED
        BY <3>2, <4>1, <2>3, <2>6 DEF HasPlayerID
    <3> QED
      BY <3>1, <3>2
  <2>8. KeptIDs(s) = rest
    BY <1>3, <1>4 DEF rest
  <2> QED
    BY <1>4, <2>5, <2>7, <2>8 DEF ids
<1>5. CASE n % 2 # 1
  <2>1. KeptIDs(s) = ids
    BY <1>3, <1>5
  <2> QED
    BY <1>1, <1>5, <2>1 DEF HasPlayerID, ids
<1> QED
  BY <1>4, <1>5

-------------------------------------------------------------------------------
(***************************************************************************)
(* Nobody is registered twice.                                             *)
(***************************************************************************)

\* Lists that are dropped, kept, or copied from one another hold nobody twice.
LEMMA CopiesOnce ==
    ASSUME NoDuplicates,
           \A s \in Sessions :
              /\ playerIDs'[s] \in {playerIDs[s], countingIDs[s]}
              /\ preparedIDs'[s] \in {preparedIDs[s], playerIDs[s], <<>>}
              /\ countingIDs'[s] \in {countingIDs[s], playerIDs[s], <<>>}
    PROVE  NoDuplicates'
<1> SUFFICES ASSUME NEW s \in Sessions
             PROVE  Once(playerIDs'[s]) /\ Once(preparedIDs'[s]) /\ Once(countingIDs'[s])
  BY DEF NoDuplicates, Once
<1>1. Once(playerIDs[s]) /\ Once(preparedIDs[s]) /\ Once(countingIDs[s])
  BY DEF NoDuplicates
<1> QED
  BY <1>1, EmptyOnce

\* A player registers, or his registration is taken back.
LEMMA RegistrationOnce ==
    ASSUME IInv, NoDuplicates, NEW s \in Sessions, NEW ids, Once(ids),
           playerIDs' = [playerIDs EXCEPT ![s] = ids],
           UNCHANGED <<preparedIDs, countingIDs>>
    PROVE  NoDuplicates'
<1>1. \A t \in Sessions : playerIDs'[t] = IF t = s THEN ids ELSE playerIDs[t]
  BY DEF IInv, TypeOK
<1> SUFFICES ASSUME NEW t \in Sessions
             PROVE  Once(playerIDs'[t]) /\ Once(preparedIDs'[t]) /\ Once(countingIDs'[t])
  BY DEF NoDuplicates, Once
<1> QED
  BY <1>1 DEF NoDuplicates

\* Matchmaking writes its copies back without the odd players.
LEMMA MatchMakingOnce ==
    ASSUME IInv, NoDuplicates, DoMatchMaking
    PROVE  NoDuplicates'
<1>1. /\ playerIDs' = [s \in Sessions |-> IF s \in prepared THEN KeptIDs(s)
                                                            ELSE playerIDs[s]]
      /\ preparedIDs' = [s \in Sessions |-> <<>>]
      /\ countingIDs' = countingIDs
  BY DEF DoMatchMaking, countVars
<1> SUFFICES ASSUME NEW s \in Sessions
             PROVE  Once(playerIDs'[s]) /\ Once(preparedIDs'[s]) /\ Once(countingIDs'[s])
  BY DEF NoDuplicates, Once
<1>2. Once(playerIDs[s]) /\ Once(preparedIDs[s]) /\ Once(countingIDs[s])
  BY DEF NoDuplicates
<1>3. Once(KeptIDs(s))
  BY <1>2, KeptAreAllButTheLast DEF IInv
<1> QED
  BY <1>1, <1>2, <1>3, EmptyOnce

\* Every other step of the daemon copies lists or drops them.
LEMMA DaemonOnce == IInv /\ NoDuplicates /\ DaemonStep => NoDuplicates'
<1> SUFFICES ASSUME IInv, NoDuplicates, DaemonStep PROVE NoDuplicates'
  OBVIOUS
<1>1. CASE DoMatchMaking
  BY <1>1, MatchMakingOnce
<1>2. CASE MakeMatchSessionsPreparing
  BY <1>2, CopiesOnce DEF MakeMatchSessionsPreparing, countVars
<1>3. CASE StartMatchSessions
  BY <1>3, CopiesOnce DEF StartMatchSessions, sessionVars
<1>4. CASE \/ CreateNextScheduledMatchSessions
           \/ MakeMatchSessionsJoinable
           \/ CloseMatchSessions
           \/ AnnounceClosedSessions
  BY <1>4, CopiesOnce
  DEF CreateNextScheduledMatchSessions, MakeMatchSessionsJoinable, CloseMatchSessions,
      AnnounceClosedSessions, countVars, sessionVars
<1> QED
  BY <1>1, <1>2, <1>3, <1>4 DEF DaemonStep

\* A start writes the list of its copy back.
LEMMA StartOnce ==
    ASSUME IInv, NoDuplicates, NEW s \in Sessions, StartSession(s)
    PROVE  NoDuplicates'
<1>1. /\ playerIDs' = [playerIDs EXCEPT ![s] = countingIDs[s]]
      /\ countingIDs' = [countingIDs EXCEPT ![s] = <<>>]
      /\ preparedIDs' = preparedIDs
  BY DEF StartSession, daemonVars
<1>2. \A t \in Sessions :
        /\ playerIDs'[t] = IF t = s THEN countingIDs[s] ELSE playerIDs[t]
        /\ countingIDs'[t] = IF t = s THEN <<>> ELSE countingIDs[t]
  BY <1>1 DEF IInv, TypeOK
<1> QED
  BY <1>1, <1>2, CopiesOnce

\* Goroutines write back, or drop, what they hold.
LEMMA GoroutineOnce == IInv /\ NoDuplicates /\ GoroutineStep => NoDuplicates'
<1> SUFFICES ASSUME IInv, NoDuplicates, GoroutineStep PROVE NoDuplicates'
  OBVIOUS
<1>1. PICK s \in Sessions : \/ StartSession(s)
                            \/ StartSessionFails(s)
                            \/ \E pr \in Pairs : \/ GenerateMatchSeed(s, pr)
                                                 \/ GenerateMatchSeedFails(s, pr)
  BY DEF GoroutineStep
<1>2. CASE StartSession(s)
  BY <1>2, StartOnce
<1>3. CASE StartSessionFails(s)
  <2>1. /\ countingIDs' = [countingIDs EXCEPT ![s] = <<>>]
        /\ UNCHANGED <<playerIDs, preparedIDs>>
    BY <1>3 DEF StartSessionFails, sessionVars, daemonVars
  <2>2. \A t \in Sessions : countingIDs'[t] = IF t = s THEN <<>> ELSE countingIDs[t]
    BY <2>1 DEF IInv, TypeOK
  <2> QED
    BY <2>1, <2>2, CopiesOnce
<1>4. CASE \E pr \in Pairs : GenerateMatchSeed(s, pr) \/ GenerateMatchSeedFails(s, pr)
  BY <1>4, CopiesOnce
  DEF GenerateMatchSeed, GenerateMatchSeedFails, sessionVars, daemonVars, countVars
<1> QED
  BY <1>1, <1>2, <1>3, <1>4

\* Players register once, and leave once.
LEMMA PlayerOnce == IInv /\ NoDuplicates /\ PlayerStep => NoDuplicates'
<1> SUFFICES ASSUME IInv, NoDuplicates, PlayerStep PROVE NoDuplicates'
  OBVIOUS
<1>1. ASSUME NEW p \in Players, NEW s \in Sessions, JoinMatchSession(p, s)
      PROVE  NoDuplicates'
  <2>1. playerIDs[s] \in Seq(Players) /\ Once(playerIDs[s])
    BY DEF IInv, TypeOK, NoDuplicates
  <2>2. Once(AddPlayerID(playerIDs[s], p))
    BY <2>1, AddOnce
  <2>3. /\ playerIDs' = [playerIDs EXCEPT ![s] = AddPlayerID(playerIDs[s], p)]
        /\ UNCHANGED <<preparedIDs, countingIDs>>
    BY <1>1 DEF JoinMatchSession, daemonVars, countVars
  <2> QED
    BY <2>2, <2>3, RegistrationOnce
<1>2. ASSUME NEW p \in Players, NEW s \in Sessions, CancelActiveMatchSession(p, s)
      PROVE  NoDuplicates'
  <2>1. playerIDs[s] \in Seq(Players) /\ Once(playerIDs[s])
    BY DEF IInv, TypeOK, NoDuplicates
  <2>2. HasPlayerID(playerIDs[s], p)
    <3>1. s \in RegisteredActive(p) \cup StartedActive(p) /\ status[s] = "Joinable"
      BY <1>2 DEF CancelActiveMatchSession, IsActiveSession, CanCancel
    <3>2. s \notin StartedActive(p)
      BY <3>1, UnfinishedIsActive DEF StartedActive
    <3> QED
      BY <3>1, <3>2 DEF RegisteredActive
  <2>3. Once(RemovePlayerID(playerIDs[s], p))
    BY <2>1, <2>2, RemoveOnce
  <2>4. /\ playerIDs' = [playerIDs EXCEPT ![s] = RemovePlayerID(playerIDs[s], p)]
        /\ UNCHANGED <<preparedIDs, countingIDs>>
    BY <1>2 DEF CancelActiveMatchSession, daemonVars, countVars
  <2> QED
    BY <2>3, <2>4, RegistrationOnce
<1>3. ASSUME NEW s \in Sessions, NEW p \in Players, NEW q \in Players,
             ForfeitActiveMatch(s, p, q) \/ CompleteActiveMatch(s, p, q)
      PROVE  NoDuplicates'
  BY <1>3, CopiesOnce
  DEF ForfeitActiveMatch, CompleteActiveMatch, sessionVars, daemonVars, countVars
<1> QED
  BY <1>1, <1>2, <1>3
  DEF PlayerStep, JoinCurrentMatchSessionByShortcode, JoinMatchSessionByID

\* Nobody is registered twice in a session, nor in a copy of it that the daemon or
\* a countdown holds (match_session.go, PlayerIDs).
THEOREM NobodyIsRegisteredTwice == Spec => []NoDuplicates
<1>1. Init => NoDuplicates
  BY EmptyOnce DEF Init, NoDuplicates
<1>2. IInv /\ NoDuplicates /\ [Next]_vars => NoDuplicates'
  <2> SUFFICES ASSUME IInv, NoDuplicates, [Next]_vars PROVE NoDuplicates'
    OBVIOUS
  <2>1. CASE DaemonFails
    BY <2>1, CopiesOnce DEF DaemonFails, sessionVars, countVars
  <2>2. CASE Tick \/ Boot
    BY <2>2, CopiesOnce DEF Tick, Boot, sessionVars, daemonVars, countVars
  <2>3. CASE Stop
    BY <2>3, CopiesOnce DEF Stop, sessionVars
  <2>4. CASE UNCHANGED vars
    BY <2>4, CopiesOnce DEF vars, sessionVars, daemonVars, countVars
  <2> QED
    BY <2>1, <2>2, <2>3, <2>4, DaemonOnce, GoroutineOnce, PlayerOnce DEF Next
<1> QED
  BY <1>1, <1>2, Invariance, PTL DEF Spec

-------------------------------------------------------------------------------

\* What OnlyTheLastIsKicked asks of a step.
KickStep ==
    \A s \in prepared : matches'[s] # matches[s] =>
        \A i \in 1..Len(preparedIDs[s]) :
            LET p == preparedIDs[s][i]
                paired == \E pr \in matches'[s] : p \in pr
            IN  /\ ~paired => i = Len(preparedIDs[s]) /\ i % 2 = 1
                /\ paired <=> HasPlayerID(playerIDs'[s], p)

\* Matchmaking pairs whom it keeps, and keeps all but the last of an odd number.
LEMMA MatchMakingKicksTheLast == IInv /\ NoDuplicates /\ DoMatchMaking => KickStep
<1> SUFFICES ASSUME IInv, NoDuplicates, DoMatchMaking,
                    NEW s \in prepared, NEW i \in 1..Len(preparedIDs[s])
             PROVE  LET p == preparedIDs[s][i]
                        paired == \E pr \in matches'[s] : p \in pr
                    IN  /\ ~paired => i = Len(preparedIDs[s]) /\ i % 2 = 1
                        /\ paired <=> HasPlayerID(playerIDs'[s], p)
  BY DEF KickStep
<1> DEFINE p == preparedIDs[s][i]
<1>1. PICK pairing \in PairingChoices :
      /\ matches' = [t \in Sessions |-> matches[t] \cup pairing[t]]
      /\ playerIDs' = [t \in Sessions |-> IF t \in prepared THEN KeptIDs(t)
                                                            ELSE playerIDs[t]]
  BY DEF DoMatchMaking
<1>2. s \in Sessions /\ matches[s] = {}
  BY DEF IInv, TypeOK, PreparedSessions
<1>3. matches'[s] = pairing[s] /\ playerIDs'[s] = KeptIDs(s)
  BY <1>1, <1>2
<1>4. pairing[s] \in Pairings(KeptPlayers(s))
  BY <1>2 DEF PairingChoices
<1>5. p \in Players
  BY <1>2 DEF IInv, TypeOK
<1>6. p \in KeptPlayers(s) <=> HasPlayerID(KeptIDs(s), p)
  BY <1>5 DEF KeptPlayers
<1>7. (\E pr \in pairing[s] : p \in pr) <=> p \in KeptPlayers(s)
  BY <1>4 DEF Pairings
<1>8. HasPlayerID(KeptIDs(s), p) <=> ~(i = Len(preparedIDs[s]) /\ i % 2 = 1)
  BY <1>2, KeptAreAllButTheLast DEF IInv, NoDuplicates
<1> QED
  BY <1>3, <1>6, <1>7, <1>8

\* Whoever joins and cancels while the daemon works on its copies, matchmaking
\* leaves out the last to have joined, of an odd number, and nobody else
\* (back_matchmaking.go, ensureSessionIsValidForMatchMaking).
THEOREM OnlyTheLastIsKickedHolds == Spec => OnlyTheLastIsKicked
<1>1. IInv /\ NoDuplicates /\ [Next]_vars => [KickStep]_vars
  <2> SUFFICES ASSUME IInv, NoDuplicates, Next PROVE KickStep
    OBVIOUS
  <2>1. ASSUME UNCHANGED matches PROVE KickStep
    BY <2>1 DEF KickStep
  <2>2. DaemonStep => DoMatchMaking \/ UNCHANGED matches
    BY DEF DaemonStep, CreateNextScheduledMatchSessions, MakeMatchSessionsJoinable,
       MakeMatchSessionsPreparing, StartMatchSessions, CloseMatchSessions,
       AnnounceClosedSessions, matchVars
  <2>3. GoroutineStep => UNCHANGED matches
    BY DEF GoroutineStep, StartSession, StartSessionFails, GenerateMatchSeed,
       GenerateMatchSeedFails, matchVars
  <2>4. PlayerStep => UNCHANGED matches
    BY DEF PlayerStep, JoinCurrentMatchSessionByShortcode, JoinMatchSessionByID,
       JoinMatchSession, CancelActiveMatchSession, ForfeitActiveMatch,
       CompleteActiveMatch, matchVars
  <2>5. DaemonFails \/ Tick \/ Stop \/ Boot => UNCHANGED matches
    BY DEF DaemonFails, Tick, Stop, Boot, matchVars
  <2> QED
    BY <2>1, <2>2, <2>3, <2>4, <2>5, MatchMakingKicksTheLast DEF Next
<1> QED
  BY <1>1, Invariance, NobodyIsRegisteredTwice, PTL
  DEF Spec, OnlyTheLastIsKicked, KickStep

-------------------------------------------------------------------------------
(***************************************************************************)
(* The sessions are on time as long as the daemon makes its pass in every  *)
(* tick and nothing has failed or stopped: by the last time it looked for  *)
(* the sessions to create, to open, to prepare and to count down, none was *)
(* late for that.                                                          *)
(***************************************************************************)

\* The time at which the daemon last ran the transaction that ends this beginning
\* of a pass, or the tick before it first did.
LastRun(beginning) == IF swept \/ pc \notin beginning THEN now ELSE now - 1

\* The other races of the league that come before s are over or due at time n.
IsNextAt(s, n) ==
    \A t \in Sessions :
        LeagueOf[t] = LeagueOf[s] /\ StartDate[t] < StartDate[s] => StartDate[t] <= n

CreatedInTime ==
    \A s \in Sessions :
        LET n == LastRun({"create"})
        IN  n >= 0 /\ IsNextAt(s, n) => status[s] # "None"

OpenedInTime ==
    \A s \in Sessions :
        LET n == LastRun({"create", "joinable"})
        IN  n >= 0 /\ IsNextAt(s, n) /\ StartDate[s] <= n + JoinableAfterOffset
                => status[s] \notin {"None", "Waiting"}

PreparedInTime ==
    \A s \in Sessions :
        StartDate[s] <= LastRun({"create", "joinable", "prepare"}) + PreparationOffset
            => status[s] \in {"Preparing", "InProgress", "Closed"}

CountedInTime ==
    \A s \in Sessions :
        StartDate[s] <= LastRun({"create", "joinable", "prepare", "matchmake", "start"})
                            + CountdownLead
            => status[s] \in {"InProgress", "Closed"} \/ s \in counting

InTime ==
    /\ pc # "down"
    /\ CreatedInTime
    /\ OpenedInTime
    /\ PreparedInTime
    /\ CountedInTime
    /\ StartsOnTime

\* The races of a league, and the first of them and the first pass of the daemon,
\* are more than the preparation (15 minutes) apart: else a session would be
\* created too late to be joined (schedule, createNextScheduledMatchSessions).
RacesAreApart ==
    \A s \in Sessions :
        /\ PreparationOffset < StartDate[s]
        /\ \A t \in Sessions :
              LeagueOf[t] = LeagueOf[s] /\ StartDate[t] < StartDate[s]
                  => StartDate[t] + PreparationOffset < StartDate[s]

\* A session that has started, or was closed, never waits again: not even the copy
\* that matchmaking writes back can make it (back_matchmaking.go, doMatchMaking).
LEMMA StatusIsKept ==
    ASSUME IInv, [Next]_vars, NEW s \in Sessions, status[s] \in {"InProgress", "Closed"}
    PROVE  status'[s] \in {"InProgress", "Closed"}
<1>1. ASSUME UNCHANGED status PROVE status'[s] \in {"InProgress", "Closed"}
  BY <1>1
<1>2. CASE DaemonStep
  <2>1. CASE DoMatchMaking
    BY <2>1 DEF DoMatchMaking, IInv, PreparedSessions
  <2>2. CASE MakeMatchSessionsPreparing
    BY <2>2 DEF MakeMatchSessionsPreparing, ToPrepare
  <2>3. CASE ~DoMatchMaking /\ ~MakeMatchSessionsPreparing
    BY <1>2, <2>3 DEF DaemonStep, CreateNextScheduledMatchSessions,
       MakeMatchSessionsJoinable, StartMatchSessions, CloseMatchSessions,
       AnnounceClosedSessions, ToOpen, sessionVars
  <2> QED
    BY <2>1, <2>2, <2>3
<1>3. CASE GoroutineStep
  BY <1>3 DEF GoroutineStep, StartSession, StartedSession, StartSessionFails,
     GenerateMatchSeed, GenerateMatchSeedFails, sessionVars, IInv, TypeOK
<1>4. CASE PlayerStep
  BY <1>4 DEF PlayerStep, JoinCurrentMatchSessionByShortcode, JoinMatchSessionByID,
     JoinMatchSession, CancelActiveMatchSession, ForfeitActiveMatch, CompleteActiveMatch,
     sessionVars
<1>5. CASE DaemonFails \/ Tick \/ Stop \/ Boot \/ UNCHANGED vars
  BY <1>5 DEF DaemonFails, Tick, Stop, Boot, vars, sessionVars
<1> QED
  BY <1>2, <1>3, <1>4, <1>5 DEF Next

\* Failures and stops are only counted up.
LEMMA BoundsGrow ==
    ASSUME IInv, [Next]_vars
    PROVE  /\ failures' = 0 => failures = 0
           /\ stops' = 0 => stops = 0
<1>1. failures \in Nat /\ stops \in Nat
  BY DEF IInv, TypeOK
<1>2. DaemonStep => UNCHANGED boundVars
  BY DEF DaemonStep, CreateNextScheduledMatchSessions, MakeMatchSessionsJoinable,
     MakeMatchSessionsPreparing, DoMatchMaking, StartMatchSessions, CloseMatchSessions,
     AnnounceClosedSessions, boundVars
<1>3. GoroutineStep => stops' = stops /\ failures' \in {failures, failures + 1}
  BY DEF GoroutineStep, StartSession, StartSessionFails, GenerateMatchSeed,
     GenerateMatchSeedFails, boundVars
<1>4. PlayerStep => UNCHANGED boundVars
  BY DEF PlayerStep, JoinCurrentMatchSessionByShortcode, JoinMatchSessionByID,
     JoinMatchSession, CancelActiveMatchSession, ForfeitActiveMatch, CompleteActiveMatch,
     boundVars
<1>5. Tick \/ Boot \/ UNCHANGED vars => UNCHANGED boundVars
  BY DEF Tick, Boot, vars, boundVars
<1>6. DaemonFails => stops' = stops /\ failures' = failures + 1
  BY DEF DaemonFails
<1>7. Stop => failures' = failures /\ stops' = stops + 1
  BY DEF Stop
<1> QED
  BY <1>1, <1>2, <1>3, <1>4, <1>5, <1>6, <1>7 DEF Next, boundVars

\* Only a failure makes a session that was counted down miss its start.
LEMMA CountedDownStep ==
    ASSUME IInv, [Next]_vars, failures' = 0, CountedDownIsStarted
    PROVE  CountedDownIsStarted'
<1> SUFFICES ASSUME NEW s \in countingDown', s \notin counting'
             PROVE  status'[s] \in {"InProgress", "Closed"}
  BY DEF CountedDownIsStarted
<1>1. ASSUME UNCHANGED <<countingDown, counting>>
      PROVE  s \in countingDown /\ s \notin counting
  BY <1>1
<1>2. CASE s \in countingDown /\ s \notin counting
  BY <1>2, StatusIsKept DEF CountedDownIsStarted, IInv, TypeOK
<1>3. CASE DaemonStep
  BY <1>1, <1>2, <1>3 DEF DaemonStep, CreateNextScheduledMatchSessions,
     MakeMatchSessionsJoinable, MakeMatchSessionsPreparing, DoMatchMaking,
     StartMatchSessions, CloseMatchSessions, AnnounceClosedSessions, countVars
<1>4. CASE GoroutineStep
  <2>1. PICK t \in Sessions : \/ StartSession(t)
                              \/ StartSessionFails(t)
                              \/ \E pr \in Pairs : \/ GenerateMatchSeed(t, pr)
                                                   \/ GenerateMatchSeedFails(t, pr)
    BY <1>4 DEF GoroutineStep
  <2>2. CASE StartSession(t)
    <3>1. CASE s = t
      BY <2>2, <3>1 DEF StartSession, StartedSession, IInv, TypeOK
    <3>2. CASE s # t
      BY <2>2, <3>2, <1>2 DEF StartSession
    <3> QED
      BY <3>1, <3>2
  <2>3. ~StartSessionFails(t)
    BY DEF StartSessionFails, IInv, TypeOK
  <2> QED
    BY <2>1, <2>2, <2>3, <1>1, <1>2 DEF GenerateMatchSeed, GenerateMatchSeedFails, countVars
<1>5. CASE PlayerStep
  BY <1>1, <1>2, <1>5 DEF PlayerStep, JoinCurrentMatchSessionByShortcode,
     JoinMatchSessionByID, JoinMatchSession, CancelActiveMatchSession, ForfeitActiveMatch,
     CompleteActiveMatch, countVars
<1>6. CASE DaemonFails \/ Tick \/ Boot \/ UNCHANGED vars
  BY <1>1, <1>2, <1>6 DEF DaemonFails, Tick, Boot, vars, countVars
<1>7. ~Stop
  BY DEF Stop
<1> QED
  BY <1>3, <1>4, <1>5, <1>6, <1>7 DEF Next

\* Until a transaction fails, a session that was counted down has started, or is
\* closed, once its goroutine is gone: stops of the process do not change that
\* (back_periodic.go, countdownAndStartMatchSession).
THEOREM CountedDownIsAlwaysStarted == Spec => [](failures = 0 => CountedDownIsStarted)
<1>1. Init => CountedDownIsStarted
  BY DEF Init, CountedDownIsStarted
<1>2. IInv /\ (failures = 0 => CountedDownIsStarted) /\ [Next]_vars
          => (failures = 0 => CountedDownIsStarted)'
  BY CountedDownStep, BoundsGrow
<1> QED
  BY <1>1, <1>2, Invariance, PTL DEF Spec

-------------------------------------------------------------------------------

\* Without a failure or a stop, no step takes a session back to an earlier phase,
\* and a countdown ends with the start of its session.
LEMMA Forward ==
    ASSUME IInv, [Next]_vars, failures' = 0, stops' = 0, NEW s \in Sessions
    PROVE  /\ status[s] # "None" => status'[s] # "None"
           /\ status[s] \notin {"None", "Waiting"} => status'[s] \notin {"None", "Waiting"}
           /\ status[s] \in {"Preparing", "InProgress", "Closed"}
                  => status'[s] \in {"Preparing", "InProgress", "Closed"}
           /\ s \in counting => s \in counting' \/ status'[s] = "InProgress"
<1>1. failures \in Nat /\ stops \in Nat /\ status[s] \in Status
  BY DEF IInv, TypeOK
<1>2. CASE DaemonStep
  <2>1. CASE DoMatchMaking
    BY <2>1 DEF DoMatchMaking, countVars
  <2>2. CASE MakeMatchSessionsPreparing
    BY <2>2 DEF MakeMatchSessionsPreparing, ToPrepare, countVars
  <2>3. CASE ~DoMatchMaking /\ ~MakeMatchSessionsPreparing
    BY <1>2, <2>3 DEF DaemonStep, CreateNextScheduledMatchSessions,
       MakeMatchSessionsJoinable, StartMatchSessions, CloseMatchSessions,
       AnnounceClosedSessions, ToOpen, sessionVars, countVars
  <2> QED
    BY <2>1, <2>2, <2>3
<1>3. CASE GoroutineStep
  <2>1. PICK t \in Sessions : \/ StartSession(t)
                              \/ StartSessionFails(t)
                              \/ \E pr \in Pairs : \/ GenerateMatchSeed(t, pr)
                                                   \/ GenerateMatchSeedFails(t, pr)
    BY <1>3 DEF GoroutineStep
  <2>2. CASE StartSession(t)
    <3>1. CASE s = t
      BY <2>2, <3>1 DEF StartSession, StartedSession, IInv, TypeOK
    <3>2. CASE s # t
      BY <2>2, <3>2 DEF StartSession
    <3> QED
      BY <3>1, <3>2
  <2>3. ~StartSessionFails(t)
    BY <1>1 DEF StartSessionFails
  <2> QED
    BY <2>1, <2>2, <2>3 DEF GenerateMatchSeed, GenerateMatchSeedFails, sessionVars, countVars
<1>4. CASE PlayerStep
  BY <1>4 DEF PlayerStep, JoinCurrentMatchSessionByShortcode, JoinMatchSessionByID,
     JoinMatchSession, CancelActiveMatchSession, ForfeitActiveMatch, CompleteActiveMatch,
     sessionVars, countVars
<1>5. CASE Tick \/ Boot \/ UNCHANGED vars
  BY <1>5 DEF Tick, Boot, vars, sessionVars, countVars
<1>6. ~DaemonFails /\ ~Stop
  BY <1>1 DEF DaemonFails, Stop
<1> QED
  BY <1>2, <1>3, <1>4, <1>5, <1>6 DEF Next

\* The time of the last run of a transaction changes with its runs only: a prompt
\* clock moves once a whole pass was made, and a pass ends as it began.
LEMMA LastRunIsKept ==
    ASSUME IInv, InTime, Prompt, [Next]_vars, failures' = 0, stops' = 0
    PROVE  /\ \/ CreateNextScheduledMatchSessions
              \/ LastRun({"create"})' = LastRun({"create"})
           /\ \/ MakeMatchSessionsJoinable
              \/ LastRun({"create", "joinable"})' = LastRun({"create", "joinable"})
           /\ \/ MakeMatchSessionsPreparing
              \/ LastRun({"create", "joinable", "prepare"})'
                     = LastRun({"create", "joinable", "prepare"})
           /\ \/ StartMatchSessions
              \/ LastRun({"create", "joinable", "prepare", "matchmake", "start"})'
                     = LastRun({"create", "joinable", "prepare", "matchmake", "start"})
<1>1. failures \in Nat /\ stops \in Nat /\ now \in Nat /\ swept \in BOOLEAN
  BY DEF IInv, TypeOK
<1>2. CASE DaemonStep
  BY <1>2 DEF DaemonStep, CreateNextScheduledMatchSessions, MakeMatchSessionsJoinable,
     MakeMatchSessionsPreparing, DoMatchMaking, StartMatchSessions, CloseMatchSessions,
     AnnounceClosedSessions, LastRun, clockVars
<1>3. GoroutineStep => UNCHANGED <<clockVars, pc>>
  BY DEF GoroutineStep, StartSession, StartSessionFails, GenerateMatchSeed,
     GenerateMatchSeedFails, daemonVars
<1>4. PlayerStep => UNCHANGED <<clockVars, pc>>
  BY DEF PlayerStep, JoinCurrentMatchSessionByShortcode, JoinMatchSessionByID,
     JoinMatchSession, CancelActiveMatchSession, ForfeitActiveMatch, CompleteActiveMatch,
     daemonVars
<1>5. UNCHANGED vars => UNCHANGED <<clockVars, pc>>
  BY DEF vars, daemonVars
<1>6. CASE UNCHANGED <<clockVars, pc>>
  BY <1>6 DEF LastRun, clockVars
<1>7. CASE Tick
  <2>1. /\ swept /\ pc = "create" /\ now' = now + 1 /\ ~swept' /\ pc' = "create"
    BY <1>7 DEF Tick, InTime, daemonVars
  <2> QED
    BY <2>1, <1>1 DEF LastRun
<1>8. ~DaemonFails /\ ~Stop /\ ~Boot
  BY <1>1 DEF DaemonFails, Stop, Boot, InTime
<1> QED
  BY <1>2, <1>3, <1>4, <1>5, <1>6, <1>7, <1>8 DEF Next

\* A transaction last ran now or one tick ago.
LEMMA LastRunIsRecent ==
    ASSUME IInv, NEW beginning
    PROVE  /\ LastRun(beginning) \in {now - 1, now}
           /\ now \in Nat
           /\ pc \notin beginning => LastRun(beginning) = now
BY DEF LastRun, IInv, TypeOK

\* A race that is due was the next of its league one tick earlier.
LEMMA WasNext ==
    ASSUME RacesAreApart, NEW s \in Sessions, NEW t \in Nat,
           StartDate[s] <= t + PreparationOffset, NEW n \in {t - 1, t}
    PROVE  n \in Nat /\ IsNextAt(s, n)
BY OffsetsAssumption, ScheduleAssumption DEF RacesAreApart, IsNextAt

\* The very next race is created when it becomes the next.
LEMMA CreateInTime ==
    ASSUME IInv, InTime, RacesAreApart, CreateNextScheduledMatchSessions
    PROVE  CreatedInTime'
<1> SUFFICES ASSUME NEW s \in Sessions, IsNextAt(s, now) PROVE status'[s] # "None"
  <2>1. LastRun({"create"})' = now
    BY DEF CreateNextScheduledMatchSessions, clockVars, LastRun
  <2> QED
    BY <2>1 DEF CreatedInTime
<1>1. now \in Nat /\ StartDate \in [Sessions -> Nat]
  BY ScheduleAssumption DEF IInv, TypeOK
<1>2. CASE now < StartDate[s]
  BY <1>1, <1>2 DEF CreateNextScheduledMatchSessions, IsNextAt
<1>3. CASE StartDate[s] <= now
  <2>1. LastRun({"create"}) \in Nat /\ IsNextAt(s, LastRun({"create"}))
    BY <1>1, <1>3, LastRunIsRecent, WasNext, OffsetsAssumption
  <2>2. status[s] # "None"
    BY <2>1 DEF InTime, CreatedInTime
  <2> QED
    BY <2>2 DEF CreateNextScheduledMatchSessions
<1> QED
  BY <1>1, <1>2, <1>3

\* It opens at most an hour before, and was open before the preparation.
LEMMA OpenInTime ==
    ASSUME IInv, InTime, RacesAreApart, MakeMatchSessionsJoinable
    PROVE  OpenedInTime'
<1> SUFFICES ASSUME NEW s \in Sessions, IsNextAt(s, now),
                    StartDate[s] <= now + JoinableAfterOffset
             PROVE  status'[s] \notin {"None", "Waiting"}
  <2>1. LastRun({"create", "joinable"})' = now
    BY DEF MakeMatchSessionsJoinable, clockVars, LastRun
  <2> QED
    BY <2>1 DEF OpenedInTime
<1>1. now \in Nat /\ StartDate \in [Sessions -> Nat]
  BY ScheduleAssumption DEF IInv, TypeOK
<1>2. pc = "joinable" /\ status'[s] = IF s \in ToOpen THEN "Joinable" ELSE status[s]
  BY DEF MakeMatchSessionsJoinable
<1>3. CASE now + PreparationOffset < StartDate[s]
  <2>1. LastRun({"create"}) = now
    BY <1>2, LastRunIsRecent
  <2>2. status[s] # "None"
    BY <1>1, <2>1 DEF InTime, CreatedInTime
  <2> QED
    BY <1>1, <1>2, <1>3, <2>2, OffsetsAssumption DEF ToOpen
<1>4. CASE StartDate[s] <= now + PreparationOffset
  <2> DEFINE n == LastRun({"create", "joinable"})
  <2>1. n \in {now - 1, now}
    BY LastRunIsRecent
  <2>2. n \in Nat /\ IsNextAt(s, n)
    BY <1>1, <1>4, <2>1, WasNext
  <2>3. StartDate[s] <= n + JoinableAfterOffset
    BY <1>1, <1>4, <2>1, OffsetsAssumption
  <2>4. status[s] \notin {"None", "Waiting"}
    BY <2>2, <2>3 DEF InTime, OpenedInTime
  <2> QED
    BY <1>2, <2>4
<1> QED
  BY <1>1, <1>3, <1>4, OffsetsAssumption

\* It is prepared, or closed for want of players, a quarter of an hour before.
LEMMA PrepareInTime ==
    ASSUME IInv, InTime, RacesAreApart, 0 < PreparationOffset, MakeMatchSessionsPreparing
    PROVE  PreparedInTime'
<1> SUFFICES ASSUME NEW s \in Sessions, StartDate[s] <= now + PreparationOffset
             PROVE  status'[s] \in {"Preparing", "InProgress", "Closed"}
  <2>1. LastRun({"create", "joinable", "prepare"})' = now
    BY DEF MakeMatchSessionsPreparing, clockVars, LastRun
  <2> QED
    BY <2>1 DEF PreparedInTime
<1>1. now \in Nat /\ StartDate \in [Sessions -> Nat] /\ status[s] \in Status
  BY ScheduleAssumption DEF IInv, TypeOK
<1>2. /\ pc = "prepare"
      /\ status'[s] = IF s \in ToPrepare /\ EnoughPlayers(s) THEN "Preparing"
                      ELSE IF s \in ToPrepare THEN "Closed" ELSE status[s]
  BY DEF MakeMatchSessionsPreparing
<1>3. CASE now < StartDate[s]
  <2>1. LastRun({"create", "joinable"}) = now
    BY <1>2, LastRunIsRecent
  <2>2. IsNextAt(s, now)
    BY <1>1, WasNext
  <2>3. StartDate[s] <= now + JoinableAfterOffset
    BY <1>1, OffsetsAssumption
  <2>4. status[s] \notin {"None", "Waiting"}
    BY <1>1, <2>1, <2>2, <2>3 DEF InTime, OpenedInTime
  <2> QED
    BY <1>1, <1>2, <1>3, <2>4 DEF ToPrepare, Status
<1>4. CASE StartDate[s] <= now
  <2> DEFINE n == LastRun({"create", "joinable", "prepare"})
  <2>1. n \in {now - 1, now}
    BY LastRunIsRecent
  <2>2. StartDate[s] <= n + PreparationOffset
    BY <1>1, <1>4, <2>1, OffsetsAssumption
  <2>3. status[s] \in {"Preparing", "InProgress", "Closed"}
    BY <2>2 DEF InTime, PreparedInTime
  <2> QED
    BY <1>2, <2>3
<1> QED
  BY <1>1, <1>3, <1>4

\* A countdown that was not forgotten begins before it ends.
LEMMA CountInTime ==
    ASSUME IInv, InTime, CountedDownIsStarted, StartMatchSessions
    PROVE  CountedInTime'
<1> SUFFICES ASSUME NEW s \in Sessions, StartDate[s] <= now + CountdownLead
             PROVE  status'[s] \in {"InProgress", "Closed"} \/ s \in counting'
  <2>1. LastRun({"create", "joinable", "prepare", "matchmake", "start"})' = now
    BY DEF StartMatchSessions, clockVars, LastRun
  <2> QED
    BY <2>1 DEF CountedInTime
<1>1. now \in Nat /\ StartDate \in [Sessions -> Nat]
  BY ScheduleAssumption DEF IInv, TypeOK
<1>2. /\ pc = "start"
      /\ counting' = counting \cup (ToStart \ countingDown)
      /\ status' = status
  BY DEF StartMatchSessions, sessionVars
<1>3. LastRun({"create", "joinable", "prepare"}) = now
  BY <1>2, LastRunIsRecent
<1>4. status[s] \in {"Preparing", "InProgress", "Closed"}
  BY <1>1, <1>3, OffsetsAssumption DEF InTime, PreparedInTime
<1> QED
  BY <1>2, <1>4 DEF ToStart, CountedDownIsStarted

\* The clock does not pass a date whose countdown has not ended.
LEMMA StartInTime ==
    ASSUME IInv, InTime, Prompt, Tick
    PROVE  StartsOnTime'
<1> SUFFICES ASSUME NEW s \in Sessions, now' > StartDate[s]
             PROVE  status'[s] \in {"InProgress", "Closed"}
  BY DEF StartsOnTime
<1>1. now \in Nat /\ StartDate \in [Sessions -> Nat]
  BY ScheduleAssumption DEF IInv, TypeOK
<1>2. /\ swept /\ now' = now + 1 /\ status' = status
      /\ \A t \in counting : now < StartDate[t]
  BY DEF Tick, InTime, sessionVars
<1>3. LastRun({"create", "joinable", "prepare", "matchmake", "start"}) = now
  BY <1>2 DEF LastRun
<1>4. StartDate[s] <= now + CountdownLead
  BY <1>1, <1>2, OffsetsAssumption
<1> QED
  BY <1>1, <1>2, <1>3, <1>4 DEF InTime, CountedInTime

\* No step that neither fails nor stops the process makes a session late.
LEMMA InTimeStep ==
    ASSUME IInv, InTime, CountedDownIsStarted, Prompt, RacesAreApart, 0 < PreparationOffset,
           [Next]_vars, failures' = 0, stops' = 0
    PROVE  InTime'
<1>1. CreatedInTime'
  BY CreateInTime, LastRunIsKept, Forward DEF InTime, CreatedInTime
<1>2. OpenedInTime'
  BY OpenInTime, LastRunIsKept, Forward DEF InTime, OpenedInTime
<1>3. PreparedInTime'
  BY PrepareInTime, LastRunIsKept, Forward DEF InTime, PreparedInTime
<1>4. CountedInTime'
  BY CountInTime, LastRunIsKept, Forward, StatusIsKept DEF InTime, CountedInTime
<1>5. StartsOnTime'
  <2>1. CASE Tick
    BY <2>1, StartInTime
  <2>2. CASE ~Tick
    <3>1. now' = now
      BY <2>2 DEF Next, vars, DaemonStep, CreateNextScheduledMatchSessions,
         MakeMatchSessionsJoinable, MakeMatchSessionsPreparing, DoMatchMaking,
         StartMatchSessions, CloseMatchSessions, AnnounceClosedSessions, DaemonFails,
         GoroutineStep, StartSession, StartSessionFails, GenerateMatchSeed,
         GenerateMatchSeedFails, PlayerStep, JoinCurrentMatchSessionByShortcode,
         JoinMatchSessionByID, JoinMatchSession, CancelActiveMatchSession,
         ForfeitActiveMatch, CompleteActiveMatch, Stop, Boot, clockVars
    <3> QED
      BY <3>1, StatusIsKept DEF InTime, StartsOnTime
  <2> QED
    BY <2>1, <2>2
<1>6. pc' # "down"
  <2>1. ~Stop
    BY DEF Stop, IInv, TypeOK
  <2> QED
    BY <2>1 DEF InTime, Next, vars, DaemonStep, CreateNextScheduledMatchSessions,
       MakeMatchSessionsJoinable, MakeMatchSessionsPreparing, DoMatchMaking,
       StartMatchSessions, CloseMatchSessions, AnnounceClosedSessions, DaemonFails,
       GoroutineStep, StartSession, StartSessionFails, GenerateMatchSeed,
       GenerateMatchSeedFails, PlayerStep, JoinCurrentMatchSessionByShortcode,
       JoinMatchSessionByID, JoinMatchSession, CancelActiveMatchSession,
       ForfeitActiveMatch, CompleteActiveMatch, Tick, Boot, daemonVars
<1> QED
  BY <1>1, <1>2, <1>3, <1>4, <1>5, <1>6 DEF InTime

\* With a daemon that makes its pass in every tick and races that are apart, until
\* a transaction fails or the process stops no session waits beyond its date: its
\* players race, or it is closed (back_periodic.go, runPeriodicTasks).
THEOREM SessionsAlwaysStartOnTime ==
    ASSUME Prompt, RacesAreApart, 0 < PreparationOffset
    PROVE  Spec => [](failures = 0 /\ stops = 0 => StartsOnTime)
<1> DEFINE J == failures = 0 /\ stops = 0 => InTime
<1>1. Init => J
  BY OffsetsAssumption, ScheduleAssumption
  DEF Init, InTime, CreatedInTime, OpenedInTime, PreparedInTime, CountedInTime,
      StartsOnTime, LastRun, RacesAreApart
<1>2. IInv /\ (failures = 0 => CountedDownIsStarted) /\ J /\ [Next]_vars => J'
  BY InTimeStep, BoundsGrow
<1>3. J => (failures = 0 /\ stops = 0 => StartsOnTime)
  BY DEF InTime
<1> QED
  BY <1>1, <1>2, <1>3, Invariance, CountedDownIsAlwaysStarted, PTL DEF Spec

-------------------------------------------------------------------------------
(***************************************************************************)
(* The refinement of Duel: initial states map to initial states, and every *)
(* step of MatchSessions is a step of Duel or leaves its variables alone.  *)
(***************************************************************************)

\* The opponent read off the matches of a session is the only one.
LEMMA OpponentIs ==
    ASSUME IInv, NEW s \in Sessions, NEW p \in Players, NEW q \in Players,
           p # q, {p, q} \in matches[s]
    PROVE  (CHOOSE o \in Players : p # o /\ {p, o} \in matches[s]) = q
<1>1. ASSUME NEW o \in Players, p # o, {p, o} \in matches[s]
      PROVE  o = q
  <2>1. {p, o} = {p, q}
    BY <1>1 DEF IInv, OneMatchPerEntry
  <2> QED
    BY <2>1
<1> QED
  BY <1>1

\* The verdict of a paired player is read off the two entries of his match.
LEMMA VerdictOfMatch ==
    ASSUME IInv, NEW s \in Sessions, NEW p \in Players, NEW q \in Players,
           p # q, {p, q} \in matches[s]
    PROVE  PlayerVerdict(s, p) = EntryVerdict(entry[s][p], entry[s][q])
BY OpponentIs DEF PlayerVerdict

\* Whoever is not paired has no verdict.
LEMMA VerdictOfOthers ==
    ASSUME NEW s, NEW p \in Players,
           \A pr \in matches[s] : p \notin pr
    PROVE  PlayerVerdict(s, p) = "undecided"
BY DEF PlayerVerdict

\* An empty database is a ladder without duels.
LEMMA InitRefines == Init => Duels!Init
<1> SUFFICES ASSUME Init PROVE Duels!Init
  OBVIOUS
<1>1. matches = [s \in Sessions |-> {}]
  BY DEF Init
<1>2. \A s \in Sessions, p \in Players : Runner(entry[s][p]) = "out"
  BY DEF Init, Runner, NoEntry
<1>3. \A s \in Sessions, p \in Players : PlayerVerdict(s, p) = "undecided"
  BY <1>1, VerdictOfOthers
<1> QED
  BY <1>1, <1>2, <1>3 DEF Duels!Init, Runners, Verdicts

\* Runners and verdicts that stay the same, point by point, are no step of
\* Duel.
LEMMA StutterRefines ==
    ASSUME UNCHANGED matches,
           \A s \in Sessions, p \in Players :
              /\ Runner(entry[s][p])' = Runner(entry[s][p])
              /\ PlayerVerdict(s, p)' = PlayerVerdict(s, p)
    PROVE  UNCHANGED Duels!duelVars
BY DEF Duels!duelVars, Runners, Verdicts

\* A step that leaves matches and entries alone is no step of Duel.
LEMMA UnchangedRefines ==
    ASSUME UNCHANGED <<matches, entry>>
    PROVE  UNCHANGED Duels!duelVars
<1>1. \A s \in Sessions, p \in Players :
          /\ Runner(entry[s][p])' = Runner(entry[s][p])
          /\ PlayerVerdict(s, p)' = PlayerVerdict(s, p)
  BY DEF Runner, PlayerVerdict, EntryVerdict
<1> QED
  BY <1>1, StutterRefines

\* A player is in no match of a session or has an opponent there.
LEMMA InMatchOrNot ==
    ASSUME IInv, NEW s \in Sessions, NEW p \in Players
    PROVE  \/ \A pr \in matches[s] : p \notin pr
           \/ \E q \in Players : p # q /\ {p, q} \in matches[s]
<1> SUFFICES ASSUME NEW pr \in matches[s], p \in pr
             PROVE  \E q \in Players : p # q /\ {p, q} \in matches[s]
  OBVIOUS
<1>1. pr \in Pairs
  BY DEF IInv, TypeOK
<1> QED
  BY <1>1 DEF Pairs

-------------------------------------------------------------------------------
(***************************************************************************)
(* The actions that leave Duel alone, and matchmaking.                     *)
(***************************************************************************)

\* Matchmaking is Pair, for all the sessions it prepares at once
\* (back_matchmaking.go, doMatchMaking).
LEMMA MatchMakingRefines == IInv /\ IInv' /\ DoMatchMaking => Duels!Next
<1> SUFFICES ASSUME IInv, IInv', DoMatchMaking PROVE Duels!Next
  OBVIOUS
<1>1. PICK pairing \in PairingChoices :
      /\ matches' = [t \in Sessions |-> matches[t] \cup pairing[t]]
      /\ entry' = [t \in Sessions |-> [p \in Players |->
                      IF \E pr \in pairing[t] : p \in pr THEN NewMatchEntry ELSE entry[t][p]]]
  BY DEF DoMatchMaking
<1>2. pairing \in [Sessions -> SUBSET Duels!Pairs]
  BY DEF PairingChoices, Duels!Pairs, Pairs
<1>3. \A s \in Sessions :
          /\ s \notin prepared => pairing[s] = {}
          /\ s \in prepared => matches[s] = {}
          /\ \A pr, o \in pairing[s] : pr \cap o # {} => pr = o
  <2> SUFFICES ASSUME NEW s \in Sessions
               PROVE  /\ s \notin prepared => pairing[s] = {}
                      /\ s \in prepared => matches[s] = {}
                      /\ \A pr, o \in pairing[s] : pr \cap o # {} => pr = o
    OBVIOUS
  <2>1. IF s \in prepared THEN pairing[s] \in Pairings(KeptPlayers(s)) ELSE pairing[s] = {}
    BY DEF PairingChoices
  <2> QED
    BY <2>1, PairingsAreOfKeptPlayers DEF IInv, PreparedSessions
<1>4. \A s \in Sessions : \A pr \in pairing[s] : \A p \in pr :
          p \in Players /\ entry[s][p].status = "None"
  BY <1>2, <1>3 DEF IInv, OneMatchPerEntry, Duels!Pairs
<1>5. \A s \in Sessions : \A p \in Players :
          Runner(entry[s][p])' = IF \E pr \in pairing[s] : p \in pr THEN "racing"
                                                                    ELSE Runner(entry[s][p])
  BY <1>1 DEF Runner, NewMatchEntry
<1>6. ASSUME NEW s \in Sessions, NEW p \in Players
      PROVE  PlayerVerdict(s, p)' = PlayerVerdict(s, p)
  <2>1. CASE s \in prepared
    <3>1. PlayerVerdict(s, p) = "undecided"
      BY <2>1, <1>3, VerdictOfOthers
    <3>2. CASE \A pr \in matches'[s] : p \notin pr
      BY <3>1, <3>2 DEF PlayerVerdict
    <3>3. CASE ~(\A pr \in matches'[s] : p \notin pr)
      <4>1. PICK q \in Players : p # q /\ {p, q} \in matches'[s]
        <5>1. PICK pr \in matches'[s] : p \in pr
          BY <3>3
        <5>2. pr \in Pairs
          BY <5>1, <1>1, <1>2 DEF IInv, TypeOK, Duels!Pairs, Pairs
        <5> QED
          BY <5>1, <5>2 DEF Pairs
      <4>2. entry'[s][p] = NewMatchEntry
        BY <4>1, <2>1, <1>1, <1>3
      <4>3. PICK o : o = (CHOOSE r \in Players : p # r /\ {p, r} \in matches'[s])
        OBVIOUS
      <4>4. o \in Players /\ p # o /\ {p, o} \in matches'[s]
        BY <4>1, <4>3
      <4>5. entry'[s][o] = NewMatchEntry
        BY <4>4, <2>1, <1>1, <1>3
      <4>6. PlayerVerdict(s, p)' = EntryVerdict(entry'[s][p], entry'[s][o])
        BY <4>1, <4>3 DEF PlayerVerdict
      <4> QED
        BY <3>1, <4>2, <4>5, <4>6 DEF EntryVerdict, NewMatchEntry
    <3> QED
      BY <3>2, <3>3
  <2>2. CASE s \notin prepared
    <3>1. matches'[s] = matches[s] /\ \A r \in Players : entry'[s][r] = entry[s][r]
      BY <2>2, <1>1, <1>3
    <3> QED
      BY <3>1 DEF PlayerVerdict
  <2> QED
    BY <2>1, <2>2
<1>7. Duels!Pair(pairing)
  <2>1. \A s \in Sessions : \A pr \in pairing[s] : \A p \in pr : Runner(entry[s][p]) = "out"
    BY <1>4 DEF Runner
  <2> QED
    BY <1>1, <1>3, <1>4, <1>5, <1>6, <2>1 DEF Duels!Pair, Runners, Verdicts
<1> QED
  BY <1>2, <1>7 DEF Duels!Next

\* Starting a session is no step of Duel: nothing is decided by it
\* (back_periodic.go, startMatchSession).
LEMMA StartSessionRefines ==
    ASSUME IInv, NEW s \in Sessions, StartSession(s)
    PROVE  UNCHANGED Duels!duelVars
<1> DEFINE fresh == matches[s] \ started[s]
<1>1. /\ entry' = [entry EXCEPT ![s] = StartedEntries(s, fresh)]
      /\ matches' = matches
  BY DEF StartSession
<1>2. \A t \in Sessions, p \in Players :
          /\ entry[t][p] \in Entries
          /\ entry'[t][p] \in {entry[t][p], StartedEntry(entry[t][p])}
  BY <1>1 DEF StartedEntries, IInv, TypeOK
<1>3. \A t \in Sessions, p \in Players :
          /\ entry'[t][p].outcome = entry[t][p].outcome
          /\ entry'[t][p].status = "None" <=> entry[t][p].status = "None"
          /\ entry'[t][p].status = "Finished" <=> entry[t][p].status = "Finished"
          /\ entry'[t][p].status = "Forfeit" <=> entry[t][p].status = "Forfeit"
  BY <1>2, StartedEntryLemma
<1>4. \A t \in Sessions, p \in Players : Runner(entry[t][p])' = Runner(entry[t][p])
  BY <1>3 DEF Runner
<1>5. \A t \in Sessions, p, q \in Players :
          EntryVerdict(entry'[t][p], entry'[t][q]) = EntryVerdict(entry[t][p], entry[t][q])
  BY <1>3 DEF EntryVerdict
<1>6. ASSUME NEW t \in Sessions, NEW p \in Players
      PROVE  PlayerVerdict(t, p)' = PlayerVerdict(t, p)
  <2>1. CASE \E q \in Players : p # q /\ {p, q} \in matches[t]
    <3>1. PICK o : o = (CHOOSE q \in Players : p # q /\ {p, q} \in matches[t])
      OBVIOUS
    <3>2. o \in Players
      BY <2>1, <3>1
    <3>3. /\ PlayerVerdict(t, p) = EntryVerdict(entry[t][p], entry[t][o])
          /\ PlayerVerdict(t, p)' = EntryVerdict(entry'[t][p], entry'[t][o])
      BY <2>1, <3>1, <1>1 DEF PlayerVerdict
    <3> QED
      BY <3>2, <3>3, <1>5
  <2>2. CASE ~\E q \in Players : p # q /\ {p, q} \in matches[t]
    BY <2>2, <1>1 DEF PlayerVerdict
  <2> QED
    BY <2>1, <2>2
<1> QED
  BY <1>1, <1>4, <1>6, StutterRefines

\* A step that writes the two entries of an active match, and nothing else.
WritesMatch(s, p, q) ==
    /\ IsActiveMatch(s, p, q)
    /\ matches' = matches
    /\ \A t \in Sessions, r \in Players :
          t # s \/ (r # p /\ r # q) => entry'[t][r] = entry[t][r]

\* The verdicts after such a step.
VerdictsFollow(s, p, q) ==
    /\ Verdicts'[s][p] = EntryVerdict(entry'[s][p], entry'[s][q])
    /\ Verdicts'[s][q] = EntryVerdict(entry'[s][q], entry'[s][p])
    /\ \A t \in Sessions, r \in Players :
          t # s \/ (r # p /\ r # q) => Verdicts'[t][r] = Verdicts[t][r]

\* What such a step is to Duel, if the opponent stays where he was.
DuelFollows(s, p, q) ==
    /\ Runners' = [Runners EXCEPT ![s][p] = Runner(entry'[s][p])]
    /\ Verdicts' = [Verdicts EXCEPT ![s][p] = EntryVerdict(entry'[s][p], entry'[s][q]),
                                    ![s][q] = EntryVerdict(entry'[s][q], entry'[s][p])]
    /\ (/\ EntryVerdict(entry'[s][p], entry'[s][q]) = Verdicts[s][p]
        /\ EntryVerdict(entry'[s][q], entry'[s][p]) = Verdicts[s][q]) => Verdicts' = Verdicts

-------------------------------------------------------------------------------
(***************************************************************************)
(* The end of a race.                                                      *)
(***************************************************************************)

\* The verdicts after the two entries of a match were written are those of the
\* new entries, and nobody else's changes.
LEMMA EndRaceVerdicts ==
    ASSUME IInv, NEW s \in Sessions, NEW p \in Players, NEW q \in Players,
           WritesMatch(s, p, q)
    PROVE  VerdictsFollow(s, p, q)
<1>0. IsActiveMatch(s, p, q) /\ matches' = matches
  BY DEF WritesMatch
<1>1. p # q /\ {p, q} \in matches[s] /\ {q, p} \in matches[s]
  <2>1. p # q /\ {p, q} \in matches[s]
    BY <1>0, ActiveMatchIsRunning
  <2>2. {q, p} = {p, q}
    OBVIOUS
  <2> QED
    BY <2>1, <2>2
<1>2. \A t \in Sessions, r \in Players :
          t # s \/ (r # p /\ r # q) => entry'[t][r] = entry[t][r]
  BY DEF WritesMatch
<1>3. PlayerVerdict(s, p)' = EntryVerdict(entry'[s][p], entry'[s][q])
  <2>1. (CHOOSE o \in Players : p # o /\ {p, o} \in matches[s]) = q
    BY <1>1, OpponentIs
  <2> QED
    BY <1>0, <1>1, <2>1 DEF PlayerVerdict
<1>4. PlayerVerdict(s, q)' = EntryVerdict(entry'[s][q], entry'[s][p])
  <2>1. (CHOOSE o \in Players : q # o /\ {q, o} \in matches[s]) = p
    BY <1>1, OpponentIs
  <2> QED
    BY <1>0, <1>1, <2>1 DEF PlayerVerdict
<1>5. ASSUME NEW t \in Sessions, NEW r \in Players, t # s \/ (r # p /\ r # q)
      PROVE  /\ entry'[t][r] = entry[t][r]
             /\ PlayerVerdict(t, r)' = PlayerVerdict(t, r)
  <2>1. entry'[t][r] = entry[t][r]
    BY <1>2, <1>5
  <2>2. CASE \E o \in Players : r # o /\ {r, o} \in matches[t]
    <3>1. PICK o : o = (CHOOSE x \in Players : r # x /\ {r, x} \in matches[t])
      OBVIOUS
    <3>2. o \in Players /\ r # o /\ {r, o} \in matches[t]
      BY <2>2, <3>1
    <3>3. t # s \/ (o # p /\ o # q)
      <4> SUFFICES ASSUME t = s, o = p \/ o = q PROVE FALSE
        OBVIOUS
      <4>1. {r, o} = {p, q}
        BY <3>2, <1>1 DEF IInv, OneMatchPerEntry
      <4> QED
        BY <4>1, <1>5
    <3>4. entry'[t][o] = entry[t][o]
      BY <3>2, <3>3, <1>2
    <3>5. /\ PlayerVerdict(t, r) = EntryVerdict(entry[t][r], entry[t][o])
          /\ PlayerVerdict(t, r)' = EntryVerdict(entry'[t][r], entry'[t][o])
      BY <1>0, <2>2, <3>1 DEF PlayerVerdict
    <3> QED
      BY <2>1, <3>4, <3>5
  <2>3. CASE ~\E o \in Players : r # o /\ {r, o} \in matches[t]
    BY <1>0, <2>1, <2>3 DEF PlayerVerdict
  <2> QED
    BY <2>1, <2>2, <2>3
<1>6. /\ Verdicts'[s][p] = PlayerVerdict(s, p)'
      /\ Verdicts'[s][q] = PlayerVerdict(s, q)'
  BY DEF Verdicts, PlayerVerdict
<1>7. ASSUME NEW t \in Sessions, NEW r \in Players, t # s \/ (r # p /\ r # q)
      PROVE  Verdicts'[t][r] = Verdicts[t][r]
  <2>1. PlayerVerdict(t, r)' = PlayerVerdict(t, r)
    BY <1>5, <1>7
  <2>2. Verdicts'[t][r] = PlayerVerdict(t, r)'
    BY DEF Verdicts, PlayerVerdict
  <2>3. Verdicts[t][r] = PlayerVerdict(t, r)
    BY DEF Verdicts
  <2> QED
    BY <2>1, <2>2, <2>3
<1> QED
  BY <1>3, <1>4, <1>6, <1>7 DEF VerdictsFollow

\* The mapped variables have the types Duel gives them.
LEMMA RunnersAndVerdicts ==
    /\ Runners \in [Sessions -> [Players -> {"out", "racing", "finished", "forfeit"}]]
    /\ Runners' \in [Sessions -> [Players -> {"out", "racing", "finished", "forfeit"}]]
    /\ Verdicts \in [Sessions -> [Players -> {"undecided", "won", "lost", "tied"}]]
    /\ Verdicts' \in [Sessions -> [Players -> {"undecided", "won", "lost", "tied"}]]
<1>1. \A e : Runner(e) \in {"out", "racing", "finished", "forfeit"}
  BY DEF Runner
<1>2. \A e, f : EntryVerdict(e, f) \in {"undecided", "won", "lost", "tied"}
  BY DEF EntryVerdict
<1>3. \A s, p : PlayerVerdict(s, p) \in {"undecided", "won", "lost", "tied"}
  BY <1>2 DEF PlayerVerdict
<1>4. \A s, p : PlayerVerdict(s, p)' \in {"undecided", "won", "lost", "tied"}
  BY <1>2 DEF PlayerVerdict
<1> QED
  BY <1>1, <1>3, <1>4 DEF Runners, Verdicts

\* Two tables that agree at every session and player are equal.
LEMMA SameFunction ==
    ASSUME NEW V, NEW A \in [Sessions -> [Players -> V]], NEW B \in [Sessions -> [Players -> V]],
           \A t \in Sessions, r \in Players : A[t][r] = B[t][r]
    PROVE  A = B
<1>1. \A t \in Sessions : A[t] = B[t]
  OBVIOUS
<1> QED
  BY <1>1

\* Writing the two entries of an active match changes one runner and the two
\* verdicts, or none.
LEMMA EndRaceRefines ==
    ASSUME IInv, NEW s \in Sessions, NEW p \in Players, NEW q \in Players,
           WritesMatch(s, p, q), Runner(entry'[s][q]) = Runners[s][q]
    PROVE  DuelFollows(s, p, q)
<1>1. p # q
  BY ActiveMatchIsRunning DEF WritesMatch
<1>2. \A t \in Sessions, r \in Players :
          t # s \/ (r # p /\ r # q) => entry'[t][r] = entry[t][r]
  BY DEF WritesMatch
<1>4. /\ Runners'[s][p] = Runner(entry'[s][p]) /\ Runners'[s][q] = Runner(entry'[s][q])
      /\ \A t \in Sessions, r \in Players :
            t # s \/ (r # p /\ r # q) => Runners'[t][r] = Runners[t][r]
  BY <1>2 DEF Runners, Runner
<1>5. /\ Verdicts'[s][p] = EntryVerdict(entry'[s][p], entry'[s][q])
      /\ Verdicts'[s][q] = EntryVerdict(entry'[s][q], entry'[s][p])
      /\ \A t \in Sessions, r \in Players :
            t # s \/ (r # p /\ r # q) => Verdicts'[t][r] = Verdicts[t][r]
  <2>1. VerdictsFollow(s, p, q)
    BY EndRaceVerdicts
  <2> QED
    BY <2>1 DEF VerdictsFollow
<1>6. Runners' = [Runners EXCEPT ![s][p] = Runner(entry'[s][p])]
  <2> DEFINE R == [Runners EXCEPT ![s][p] = Runner(entry'[s][p])]
             V == {"out", "racing", "finished", "forfeit"}
  <2>1. Runner(entry'[s][p]) \in V
    BY DEF Runner
  <2>2. R \in [Sessions -> [Players -> V]]
    BY <2>1, RunnersAndVerdicts
  <2>3. R[s][p] = Runner(entry'[s][p])
    BY RunnersAndVerdicts
  <2>4. \A t \in Sessions, r \in Players : t # s \/ r # p => R[t][r] = Runners[t][r]
    BY RunnersAndVerdicts
  <2>5. Runners' \in [Sessions -> [Players -> V]]
    BY RunnersAndVerdicts
  <2> HIDE DEF R, V
  <2>6. \A t \in Sessions, r \in Players : Runners'[t][r] = R[t][r]
    BY <1>1, <1>4, <2>3, <2>4
  <2>7. Runners' = R
    BY <2>2, <2>5, <2>6, SameFunction
  <2> QED
    BY <2>7 DEF R
<1>7. Verdicts' = [Verdicts EXCEPT
                      ![s][p] = EntryVerdict(entry'[s][p], entry'[s][q]),
                      ![s][q] = EntryVerdict(entry'[s][q], entry'[s][p])]
  <2> DEFINE W == [Verdicts EXCEPT
                      ![s][p] = EntryVerdict(entry'[s][p], entry'[s][q]),
                      ![s][q] = EntryVerdict(entry'[s][q], entry'[s][p])]
             V == {"undecided", "won", "lost", "tied"}
  <2>1. EntryVerdict(entry'[s][p], entry'[s][q]) \in V /\ EntryVerdict(entry'[s][q], entry'[s][p]) \in V
    BY DEF EntryVerdict
  <2>2. W \in [Sessions -> [Players -> V]]
    BY <2>1, RunnersAndVerdicts
  <2>3. /\ W[s][p] = EntryVerdict(entry'[s][p], entry'[s][q])
        /\ W[s][q] = EntryVerdict(entry'[s][q], entry'[s][p])
    BY <1>1, RunnersAndVerdicts
  <2>4. \A t \in Sessions, r \in Players :
            t # s \/ (r # p /\ r # q) => W[t][r] = Verdicts[t][r]
    BY RunnersAndVerdicts
  <2>5. Verdicts' \in [Sessions -> [Players -> V]]
    BY RunnersAndVerdicts
  <2> HIDE DEF W, V
  <2>6. \A t \in Sessions, r \in Players : Verdicts'[t][r] = W[t][r]
    BY <1>5, <2>3, <2>4
  <2>7. Verdicts' = W
    BY <2>2, <2>5, <2>6, SameFunction
  <2> QED
    BY <2>7 DEF W
<1>8. EntryVerdict(entry'[s][p], entry'[s][q]) = Verdicts[s][p]
      /\ EntryVerdict(entry'[s][q], entry'[s][p]) = Verdicts[s][q] => Verdicts' = Verdicts
  <2> SUFFICES ASSUME EntryVerdict(entry'[s][p], entry'[s][q]) = Verdicts[s][p],
                      EntryVerdict(entry'[s][q], entry'[s][p]) = Verdicts[s][q]
               PROVE  Verdicts' = Verdicts
    OBVIOUS
  <2>1. \A t \in Sessions, r \in Players : Verdicts'[t][r] = Verdicts[t][r]
    BY <1>5
  <2> QED
    BY <2>1, RunnersAndVerdicts, SameFunction
<1> QED
  BY <1>6, <1>7, <1>8 DEF DuelFollows

\* What is known of the match of a player who may still end his race.
LEMMA MatchBefore ==
    ASSUME IInv, NEW s \in Sessions, NEW p \in Players, NEW q \in Players,
           IsActiveMatch(s, p, q)
    PROVE  /\ p # q /\ {p, q} \in matches[s]
           /\ entry[s][q] \in Entries /\ entry[s][q].status # "None"
           /\ OutcomesAgree(entry[s][p], entry[s][q])
           /\ Unfinished(entry[s][p])
           /\ Runners[s][p] = "racing" /\ Runners[s][q] = Runner(entry[s][q])
           /\ Verdicts[s][p] = EntryVerdict(entry[s][p], entry[s][q])
           /\ Verdicts[s][q] = EntryVerdict(entry[s][q], entry[s][p])
<1>1. /\ p # q /\ {p, q} \in matches[s]
      /\ Unfinished(entry[s][p]) /\ entry[s][q].status # "None"
  BY ActiveMatchIsRunning
<1>2. {q, p} = {p, q}
  OBVIOUS
<1>3. Runners[s][p] = "racing" /\ Runners[s][q] = Runner(entry[s][q])
  BY <1>1 DEF Runner, Runners, Unfinished
<1>4. entry[s][q] \in Entries
  BY DEF IInv, TypeOK
<1>5. OutcomesAgree(entry[s][p], entry[s][q])
  BY <1>1 DEF IInv, OutcomesConsistent
<1>6. /\ Verdicts[s][p] = EntryVerdict(entry[s][p], entry[s][q])
      /\ Verdicts[s][q] = EntryVerdict(entry[s][q], entry[s][p])
  BY <1>1, <1>2, VerdictOfMatch DEF Verdicts
<1> QED
  BY <1>1, <1>3, <1>4, <1>5, <1>6

\* A forfeit is GiveUp (back_racing.go, ForfeitActiveMatch; match_entry.go,
\* forfeit).
LEMMA ForfeitRefines ==
    ASSUME IInv, NEW s \in Sessions, NEW p \in Players, NEW q \in Players,
           ForfeitActiveMatch(s, p, q)
    PROVE  Duels!Next
<1> DEFINE e == entry[s][p]
           f == entry[s][q]
<1>1. /\ IsActiveMatch(s, p, q)
      /\ entry' = [entry EXCEPT ![s][p] = Forfeited(f), ![s][q] = AgainstForfeit(f)]
      /\ matches' = matches
  BY DEF ForfeitActiveMatch
<1>2. /\ p # q /\ {p, q} \in matches[s]
      /\ Runners[s][p] = "racing" /\ Runners[s][q] = Runner(f)
      /\ f \in Entries /\ f.status # "None"
      /\ OutcomesAgree(e, f) /\ Unfinished(e)
      /\ Verdicts[s][p] = EntryVerdict(e, f)
      /\ Verdicts[s][q] = EntryVerdict(f, e)
  BY <1>1, MatchBefore
<1>3. /\ entry'[s][p] = Forfeited(f) /\ entry'[s][q] = AgainstForfeit(f)
      /\ \A t \in Sessions, r \in Players :
            t # s \/ (r # p /\ r # q) => entry'[t][r] = entry[t][r]
  BY <1>1, <1>2 DEF IInv, TypeOK
<1> HIDE DEF e, f
<1>4. /\ Runner(Forfeited(f)) = "forfeit"
      /\ Runner(AgainstForfeit(f)) = Runners[s][q]
  BY <1>2 DEF Forfeited, AgainstForfeit, Runner, Entries
<1>5. /\ Runners' = [Runners EXCEPT ![s][p] = Runner(Forfeited(f))]
      /\ Verdicts' = [Verdicts EXCEPT
            ![s][p] = EntryVerdict(Forfeited(f), AgainstForfeit(f)),
            ![s][q] = EntryVerdict(AgainstForfeit(f), Forfeited(f))]
      /\ EntryVerdict(Forfeited(f), AgainstForfeit(f)) = Verdicts[s][p]
         /\ EntryVerdict(AgainstForfeit(f), Forfeited(f)) = Verdicts[s][q]
         => Verdicts' = Verdicts
  <2>1. /\ Runners' = [Runners EXCEPT ![s][p] = Runner(entry'[s][p])]
        /\ Verdicts' = [Verdicts EXCEPT
                            ![s][p] = EntryVerdict(entry'[s][p], entry'[s][q]),
                            ![s][q] = EntryVerdict(entry'[s][q], entry'[s][p])]
        /\ EntryVerdict(entry'[s][p], entry'[s][q]) = Verdicts[s][p]
           /\ EntryVerdict(entry'[s][q], entry'[s][p]) = Verdicts[s][q]
           => Verdicts' = Verdicts
    <3>1. Runner(entry'[s][q]) = Runners[s][q]
      BY <1>3, <1>4
    <3>2. WritesMatch(s, p, q)
      BY <1>1, <1>3 DEF WritesMatch
    <3>3. DuelFollows(s, p, q)
      BY <3>1, <3>2, EndRaceRefines
    <3> QED
      BY <3>3 DEF DuelFollows
  <2> QED
    BY <2>1, <1>3
<1>6. CASE f.status = "Forfeit"
  <2>1. /\ EntryVerdict(Forfeited(f), AgainstForfeit(f)) = "tied"
        /\ EntryVerdict(AgainstForfeit(f), Forfeited(f)) = "tied"
    BY <1>2, <1>6 DEF EntryVerdict, Forfeited, AgainstForfeit, Entries, Draw, Win, Loss
  <2>2. Runners[s][q] = "forfeit"
    BY <1>2, <1>6 DEF Runner
  <2>3. Duels!GiveUp(s, p, q)
    BY <1>1, <1>5, <1>2, <1>4, <2>1, <2>2 DEF Duels!GiveUp
  <2> QED
    BY <2>3 DEF Duels!Next
<1>7. CASE f.status # "Forfeit"
  <2>1. /\ EntryVerdict(Forfeited(f), AgainstForfeit(f)) = EntryVerdict(e, f)
        /\ EntryVerdict(AgainstForfeit(f), Forfeited(f)) = EntryVerdict(f, e)
    <3>1. CASE f.status = "Finished"
      <4>1. e.outcome = Loss /\ f.outcome = Win
        BY <3>1, <1>2 DEF OutcomesAgree, Verdict, Unfinished
      <4> QED
        BY <3>1, <4>1, <1>2 DEF EntryVerdict, Forfeited, AgainstForfeit, Entries, Win, Loss
    <3>2. CASE f.status # "Finished"
      BY <3>2, <1>2, <1>7 DEF EntryVerdict, Forfeited, AgainstForfeit, Entries, Unfinished
    <3> QED
      BY <3>1, <3>2
  <2>2. Runners[s][q] # "forfeit"
    BY <1>2, <1>7 DEF Runner
  <2>3. Duels!GiveUp(s, p, q)
    BY <1>1, <1>5, <1>2, <1>4, <2>1, <2>2 DEF Duels!GiveUp
  <2> QED
    BY <2>3 DEF Duels!Next
<1> QED
  BY <1>6, <1>7

\* A completion is Finish (back_racing.go, CompleteActiveMatch; match_entry.go,
\* complete).
LEMMA CompleteRefines ==
    ASSUME IInv, NEW s \in Sessions, NEW p \in Players, NEW q \in Players,
           CompleteActiveMatch(s, p, q)
    PROVE  Duels!Next
<1> DEFINE e == entry[s][p]
           f == entry[s][q]
<1>1. /\ IsActiveMatch(s, p, q)
      /\ entry' = [entry EXCEPT ![s][p] = Completed(f), ![s][q] = AgainstCompletion(f)]
      /\ matches' = matches
  BY DEF CompleteActiveMatch
<1>2. /\ p # q /\ {p, q} \in matches[s]
      /\ Runners[s][p] = "racing" /\ Runners[s][q] = Runner(f)
      /\ f \in Entries /\ f.status # "None"
      /\ OutcomesAgree(e, f) /\ Unfinished(e)
      /\ Verdicts[s][p] = EntryVerdict(e, f)
      /\ Verdicts[s][q] = EntryVerdict(f, e)
  BY <1>1, MatchBefore
<1>3. /\ entry'[s][p] = Completed(f) /\ entry'[s][q] = AgainstCompletion(f)
      /\ \A t \in Sessions, r \in Players :
            t # s \/ (r # p /\ r # q) => entry'[t][r] = entry[t][r]
  BY <1>1, <1>2 DEF IInv, TypeOK
<1> HIDE DEF e, f
<1>4. /\ Runner(Completed(f)) = "finished"
      /\ Runner(AgainstCompletion(f)) = Runners[s][q]
  BY <1>2 DEF Completed, AgainstCompletion, Runner, Entries
<1>5. /\ Runners' = [Runners EXCEPT ![s][p] = Runner(Completed(f))]
      /\ Verdicts' = [Verdicts EXCEPT
            ![s][p] = EntryVerdict(Completed(f), AgainstCompletion(f)),
            ![s][q] = EntryVerdict(AgainstCompletion(f), Completed(f))]
      /\ EntryVerdict(Completed(f), AgainstCompletion(f)) = Verdicts[s][p]
         /\ EntryVerdict(AgainstCompletion(f), Completed(f)) = Verdicts[s][q]
         => Verdicts' = Verdicts
  <2>1. /\ Runners' = [Runners EXCEPT ![s][p] = Runner(entry'[s][p])]
        /\ Verdicts' = [Verdicts EXCEPT
                            ![s][p] = EntryVerdict(entry'[s][p], entry'[s][q]),
                            ![s][q] = EntryVerdict(entry'[s][q], entry'[s][p])]
        /\ EntryVerdict(entry'[s][p], entry'[s][q]) = Verdicts[s][p]
           /\ EntryVerdict(entry'[s][q], entry'[s][p]) = Verdicts[s][q]
           => Verdicts' = Verdicts
    <3>1. Runner(entry'[s][q]) = Runners[s][q]
      BY <1>3, <1>4
    <3>2. WritesMatch(s, p, q)
      BY <1>1, <1>3 DEF WritesMatch
    <3>3. DuelFollows(s, p, q)
      BY <3>1, <3>2, EndRaceRefines
    <3> QED
      BY <3>3 DEF DuelFollows
  <2> QED
    BY <2>1, <1>3
<1>6. CASE f.status = "Finished"
  <2>1. e.outcome = Loss /\ f.outcome = Win
    BY <1>6, <1>2 DEF OutcomesAgree, Verdict, Unfinished
  <2>2. /\ EntryVerdict(Completed(f), AgainstCompletion(f)) = EntryVerdict(e, f)
        /\ EntryVerdict(AgainstCompletion(f), Completed(f)) = EntryVerdict(f, e)
    BY <1>2, <1>6, <2>1 DEF EntryVerdict, Completed, AgainstCompletion, Entries, Win, Loss
  <2>3. Runners[s][q] = "finished"
    BY <1>2, <1>6 DEF Runner
  <2>4. Duels!Finish(s, p, q)
    BY <1>1, <1>5, <1>2, <1>4, <2>2, <2>3 DEF Duels!Finish
  <2> QED
    BY <2>4 DEF Duels!Next
<1>7. CASE f.status # "Finished"
  <2>1. /\ EntryVerdict(Completed(f), AgainstCompletion(f)) = "won"
        /\ EntryVerdict(AgainstCompletion(f), Completed(f)) = "lost"
    BY <1>2, <1>7 DEF EntryVerdict, Completed, AgainstCompletion, Entries, Win, Loss
  <2>2. Runners[s][q] # "finished"
    BY <1>2, <1>7 DEF Runner
  <2>3. Duels!Finish(s, p, q)
    BY <1>1, <1>5, <1>2, <1>4, <2>1, <2>2 DEF Duels!Finish
  <2> QED
    BY <2>3 DEF Duels!Next
<1> QED
  BY <1>6, <1>7
-------------------------------------------------------------------------------
(***************************************************************************)
(* The refinement.                                                         *)
(***************************************************************************)

\* Every step of the sessions is a step of Duel or none.
LEMMA StepRefines == IInv /\ IInv' /\ [Next]_vars => [Duels!Next]_Duels!duelVars
<1> SUFFICES ASSUME IInv, IInv', [Next]_vars
             PROVE  Duels!Next \/ UNCHANGED Duels!duelVars
  OBVIOUS
<1>1. ASSUME UNCHANGED <<matches, entry>> PROVE UNCHANGED Duels!duelVars
  BY <1>1, UnchangedRefines
<1>2. CASE DaemonStep
  <2>1. CASE DoMatchMaking
    BY <2>1, MatchMakingRefines
  <2>2. CASE ~DoMatchMaking
    BY <1>2, <2>2, <1>1 DEF DaemonStep, CreateNextScheduledMatchSessions,
       MakeMatchSessionsJoinable, MakeMatchSessionsPreparing, StartMatchSessions,
       CloseMatchSessions, AnnounceClosedSessions, matchVars
  <2> QED
    BY <2>1, <2>2
<1>3. CASE GoroutineStep
  <2>1. PICK s \in Sessions : \/ StartSession(s)
                              \/ StartSessionFails(s)
                              \/ \E pr \in Pairs : \/ GenerateMatchSeed(s, pr)
                                                   \/ GenerateMatchSeedFails(s, pr)
    BY <1>3 DEF GoroutineStep
  <2>2. CASE StartSession(s)
    BY <2>2, StartSessionRefines
  <2>3. CASE ~StartSession(s)
    BY <2>1, <2>3, <1>1 DEF StartSessionFails, GenerateMatchSeed, GenerateMatchSeedFails,
       matchVars
  <2> QED
    BY <2>2, <2>3
<1>4. CASE PlayerStep
  <2>1. ASSUME NEW s \in Sessions, NEW p \in Players, NEW q \in Players,
               ForfeitActiveMatch(s, p, q) \/ CompleteActiveMatch(s, p, q)
        PROVE  Duels!Next
    BY <2>1, ForfeitRefines, CompleteRefines
  <2>2. ASSUME NEW s \in Sessions, NEW p \in Players,
               \/ JoinCurrentMatchSessionByShortcode(p, s)
               \/ JoinMatchSessionByID(p, s)
               \/ CancelActiveMatchSession(p, s)
        PROVE  UNCHANGED Duels!duelVars
    BY <2>2, <1>1 DEF JoinCurrentMatchSessionByShortcode, JoinMatchSessionByID,
       JoinMatchSession, CancelActiveMatchSession, matchVars
  <2> QED
    BY <1>4, <2>1, <2>2 DEF PlayerStep
<1>5. CASE DaemonFails \/ Tick \/ Stop \/ Boot
  BY <1>5, <1>1 DEF DaemonFails, Tick, Stop, Boot, matchVars
<1>6. CASE UNCHANGED vars
  BY <1>6, <1>1 DEF vars, matchVars
<1> QED
  BY <1>2, <1>3, <1>4, <1>5, <1>6 DEF Next

\* The sessions of the ladder implement Duel, for any players, schedule,
\* offsets and bounds: every player ends a race once, gets the verdict the
\* rules give, and gets it once (match_entry.go, back_racing.go, and every
\* write of MatchEntry by the daemon).
THEOREM Refinement == Spec => ImplementsDuel
<1>1. Init => Duels!Init
  BY InitRefines
<1>2. IInv /\ IInv' /\ [Next]_vars => [Duels!Next]_Duels!duelVars
  BY StepRefines
<1>3. Spec => []IInv
  BY Invariance
<1> QED
  BY <1>1, <1>2, <1>3, PTL DEF Spec, ImplementsDuel, Duels!Spec

===============================================================================
