------------------------- MODULE MatchSessionsProofs --------------------------
(***************************************************************************)
(* The inductive invariant of MatchSessions, and what follows from it for  *)
(* every value of the constants.                                           *)
(*                                                                         *)
(* IInv relates the copies that the daemon and its goroutines hold in      *)
(* memory to the tables: whatever a goroutine writes back from its copy,   *)
(* it is of a session or of a match whose races that copy still describes  *)
(* well enough. Each action has its lemma; the theorems are at the end.    *)
(***************************************************************************)
EXTENDS MatchSessions, SequenceTheorems, TLAPS

-------------------------------------------------------------------------------
(***************************************************************************)
(* PlayerIDs.                                                              *)
(***************************************************************************)

\* AddPlayerID keeps a sequence of players, adds the player and forgets nobody
\* (match_session.go, AddPlayerID).
LEMMA AddPlayerIDLemma ==
    ASSUME NEW ids \in Seq(Players), NEW p \in Players
    PROVE  /\ AddPlayerID(ids, p) \in Seq(Players)
           /\ \A q : HasPlayerID(AddPlayerID(ids, p), q) <=> HasPlayerID(ids, q) \/ q = p
<1>1. CASE HasPlayerID(ids, p)
  BY <1>1 DEF AddPlayerID, HasPlayerID
<1>2. CASE ~HasPlayerID(ids, p)
  <2>1. AddPlayerID(ids, p) = Append(ids, p)
    BY <1>2 DEF AddPlayerID
  <2>2. /\ Append(ids, p) \in Seq(Players)
        /\ Len(Append(ids, p)) = Len(ids) + 1
        /\ Len(ids) \in Nat
        /\ \A i \in 1..Len(ids) : Append(ids, p)[i] = ids[i]
        /\ Append(ids, p)[Len(ids) + 1] = p
    OBVIOUS
  <2> QED
    BY <2>1, <2>2 DEF HasPlayerID
<1> QED
  BY <1>1, <1>2

\* RemovePlayerID of a registered player keeps a sequence of players and adds
\* nobody (match_session.go, RemovePlayerID).
LEMMA RemovePlayerIDLemma ==
    ASSUME NEW ids \in Seq(Players), NEW p, HasPlayerID(ids, p)
    PROVE  /\ RemovePlayerID(ids, p) \in Seq(Players)
           /\ \A q : HasPlayerID(RemovePlayerID(ids, p), q) => HasPlayerID(ids, q)
<1> DEFINE i == CHOOSE k \in 1..Len(ids) : ids[k] = p
           a == SubSeq(ids, 1, i - 1)
           b == SubSeq(ids, i + 1, Len(ids))
<1>1. i \in 1..Len(ids) /\ Len(ids) \in Nat
  BY DEF HasPlayerID
<1> HIDE DEF i
<1>2. /\ a \in Seq(Players)
      /\ Len(a) = i - 1
      /\ \A k \in 1..(i - 1) : a[k] = ids[k]
  BY <1>1, SubSeqProperties
<1>3. /\ b \in Seq(Players)
      /\ Len(b) = Len(ids) - i
      /\ \A k \in 1..(Len(ids) - i) : b[k] = ids[i + k]
  BY <1>1, SubSeqProperties
<1> HIDE DEF a, b
<1>4. /\ a \o b \in Seq(Players)
      /\ Len(a \o b) = Len(a) + Len(b)
      /\ \A k \in 1..(Len(a) + Len(b)) :
            (a \o b)[k] = IF k <= Len(a) THEN a[k] ELSE b[k - Len(a)]
  BY <1>2, <1>3, ConcatProperties
<1>5. RemovePlayerID(ids, p) = a \o b
  BY DEF RemovePlayerID, a, b, i
<1>6. ASSUME NEW k \in 1..Len(a \o b)
      PROVE  \E j \in 1..Len(ids) : (a \o b)[k] = ids[j]
  <2>1. CASE k <= i - 1
    BY <2>1, <1>1, <1>2, <1>3, <1>4
  <2>2. CASE k > i - 1
    <3>1. k - (i - 1) \in 1..(Len(ids) - i) /\ k + 1 \in 1..Len(ids)
      BY <2>2, <1>1, <1>2, <1>3, <1>4
    <3>2. (a \o b)[k] = b[k - (i - 1)]
      BY <2>2, <1>1, <1>2, <1>3, <1>4
    <3>3. b[k - (i - 1)] = ids[k + 1]
      BY <3>1, <1>1, <1>3
    <3> QED
      BY <3>1, <3>2, <3>3
  <2> QED
    BY <2>1, <2>2, <1>1, <1>4
<1> QED
  BY <1>4, <1>5, <1>6 DEF HasPlayerID

\* The copy that matchmaking writes back registers only players of the copy it
\* was given (back_matchmaking.go, ensureSessionIsValidForMatchMaking).
LEMMA KeptIDsLemma ==
    ASSUME TypeOK, NEW s \in Sessions
    PROVE  /\ KeptIDs(s) \in Seq(Players)
           /\ \A q : HasPlayerID(KeptIDs(s), q) => HasPlayerID(preparedIDs[s], q)
<1> DEFINE ids == preparedIDs[s]
<1>1. ids \in Seq(Players)
  BY DEF TypeOK
<1> HIDE DEF ids
<1>2. CASE Len(ids) % 2 = 1
  <2>1. Len(ids) \in Nat
    BY <1>1
  <2>2. Len(ids) # 0
    BY <1>2, <2>1
  <2>3. HasPlayerID(ids, ids[Len(ids)])
    BY <2>1, <2>2 DEF HasPlayerID
  <2>4. KeptIDs(s) = RemovePlayerID(ids, ids[Len(ids)])
    BY <1>2 DEF KeptIDs, ids
  <2> QED
    BY <1>1, <2>3, <2>4, RemovePlayerIDLemma DEF ids
<1>3. CASE Len(ids) % 2 # 1
  BY <1>1, <1>3 DEF KeptIDs, ids
<1> QED
  BY <1>2, <1>3

-------------------------------------------------------------------------------
(***************************************************************************)
(* Facts used by the proofs of several actions.                            *)
(***************************************************************************)

\* The parts of the invariant about matches alone survive a step that leaves
\* the Match and MatchEntry tables alone.
LEMMA MatchesUnchanged ==
    ASSUME IInv, UNCHANGED matchVars
    PROVE  OneMatchPerEntry' /\ EndedMatchIsOver' /\ OpponentsStartTogether' /\ OutcomesConsistent'
<1>1. OneMatchPerEntry'
  BY DEF IInv, matchVars, OneMatchPerEntry
<1>2. EndedMatchIsOver'
  BY DEF IInv, matchVars, EndedMatchIsOver
<1>3. OpponentsStartTogether'
  BY DEF IInv, matchVars, OpponentsStartTogether
<1>4. OutcomesConsistent'
  BY DEF IInv, matchVars, OutcomesConsistent
<1> QED
  BY <1>1, <1>2, <1>3, <1>4

\* Without a match in a session, nobody has an entry there.
LEMMA NoMatchNoEntry ==
    ASSUME IInv, NEW s \in Sessions, matches[s] = {}, NEW p \in Players
    PROVE  entry[s][p].status = "None" /\ ~Unfinished(entry[s][p]) /\ ~HasEnded(entry[s][p])
<1>1. entry[s][p].status = "None"
  BY DEF IInv, OneMatchPerEntry
<1> QED
  BY <1>1 DEF Unfinished, HasEnded

\* A player with a race to end finds the session active.
LEMMA UnfinishedIsActive ==
    ASSUME IInv, NEW s \in Sessions, NEW p \in Players, Unfinished(entry[s][p])
    PROVE  status[s] \in {"Preparing", "InProgress"}
BY DEF IInv, UnfinishedRaceIsOpen

-------------------------------------------------------------------------------
(***************************************************************************)
(* The invariant, action by action.                                        *)
(***************************************************************************)

\* The invariant holds of an empty database (a first boot).
LEMMA InitInvariant == Init => IInv
<1> SUFFICES ASSUME Init PROVE IInv
  OBVIOUS
<1>0. NoEntry \in Entries
  BY DEF Entries, EntryStatus, EntryOutcome, NoEntry
<1>1. TypeOK
  <2>1. swept \in BOOLEAN
    BY DEF Init
  <2>2. /\ status \in [Sessions -> Status]
        /\ playerIDs \in [Sessions -> Seq(Players)]
        /\ entry \in [Sessions -> [Players -> Entries]]
        /\ preparedIDs \in [Sessions -> Seq(Players)]
        /\ countingIDs \in [Sessions -> Seq(Players)]
    BY <1>0 DEF Init, Status
  <2>3. /\ matches \in [Sessions -> SUBSET Pairs]
        /\ started \in [Sessions -> SUBSET Pairs]
        /\ ended \in [Sessions -> SUBSET Pairs]
        /\ generating \in [Sessions -> SUBSET Pairs]
    BY DEF Init
  <2>4. /\ now \in Nat /\ failures \in Nat /\ stops \in Nat
        /\ pc \in DaemonSteps
        /\ prepared = {} /\ closing = {} /\ countingDown = {} /\ counting = {}
        /\ recapped = {}
    BY DEF Init, DaemonSteps
  <2> QED
    BY <2>1, <2>2, <2>3, <2>4 DEF TypeOK
<1>2. \A s \in Sessions : /\ matches[s] = {} /\ ended[s] = {}
                          /\ status[s] = "None" /\ playerIDs[s] = <<>>
                          /\ \A p \in Players : entry[s][p].status = "None"
  BY DEF Init, NoEntry
<1>3. FreshSessions /\ PreparedSessions /\ ClosedSessions
  BY <1>2 DEF Init, FreshSessions, PreparedSessions, ClosedSessions
<1>4. OneMatchPerEntry /\ EndedMatchIsOver /\ OpponentsStartTogether /\ OutcomesConsistent
  BY <1>2 DEF OneMatchPerEntry, EndedMatchIsOver, OpponentsStartTogether, OutcomesConsistent
<1>5. UnfinishedRaceIsOpen /\ NoRaceBeforeStart
  BY <1>2 DEF UnfinishedRaceIsOpen, NoRaceBeforeStart, Unfinished
<1>6. OneEngagement
  BY <1>2 DEF Init, OneEngagement, Engaged, Unfinished
<1> QED
  BY <1>1, <1>3, <1>4, <1>5, <1>6 DEF IInv

\* Creating the next sessions keeps the invariant: they are new, hence empty
\* (back_periodic.go, createNextScheduledMatchSessions).
LEMMA CreateInvariant == IInv /\ CreateNextScheduledMatchSessions => IInv'
<1> SUFFICES ASSUME IInv, CreateNextScheduledMatchSessions PROVE IInv'
  OBVIOUS
<1> USE DEF clockVars, matchVars, countVars, boundVars
<1>0. /\ pc = "create" /\ pc' = "joinable"
      /\ UNCHANGED <<clockVars, playerIDs, matchVars, prepared, preparedIDs, closing,
                     countVars, generating, recapped, boundVars>>
  BY DEF CreateNextScheduledMatchSessions
<1>a. /\ status' \in [Sessions -> Status]
      /\ \A s \in Sessions :
            status'[s] = status[s] \/ (status[s] = "None" /\ status'[s] = "Waiting")
  <2>1. PICK N : status' = [s \in Sessions |->
                               IF s \in N /\ status[s] = "None" THEN "Waiting" ELSE status[s]]
    BY DEF CreateNextScheduledMatchSessions
  <2> QED
    BY <2>1 DEF IInv, TypeOK, Status
<1>1. TypeOK'
  BY <1>0, <1>a DEF IInv, TypeOK, DaemonSteps
<1>2. FreshSessions'
  BY <1>0, <1>a DEF IInv, FreshSessions
<1>3. PreparedSessions'
  BY <1>0 DEF IInv, PreparedSessions
<1>4. ClosedSessions'
  BY <1>0, <1>a DEF IInv, ClosedSessions, TypeOK
<1>5. OneMatchPerEntry' /\ EndedMatchIsOver' /\ OpponentsStartTogether' /\ OutcomesConsistent'
  BY <1>0, MatchesUnchanged
<1>6. UnfinishedRaceIsOpen'
  BY <1>0, <1>a DEF IInv, UnfinishedRaceIsOpen
<1>7. NoRaceBeforeStart'
  BY <1>0 DEF IInv, NoRaceBeforeStart
<1>8. OneEngagement'
  BY <1>0, <1>a DEF IInv, FreshSessions, OneEngagement, Engaged, HasPlayerID
<1> QED
  BY <1>1, <1>2, <1>3, <1>4, <1>5, <1>6, <1>7, <1>8 DEF IInv

\* Opening the registrations keeps the invariant: a session that waited has
\* nobody registered (back_periodic.go, makeMatchSessionsJoinable).
LEMMA JoinableInvariant == IInv /\ MakeMatchSessionsJoinable => IInv'
<1> SUFFICES ASSUME IInv, MakeMatchSessionsJoinable PROVE IInv'
  OBVIOUS
<1> USE DEF clockVars, matchVars, countVars, boundVars
<1>0. /\ pc = "joinable" /\ pc' = "prepare"
      /\ UNCHANGED <<clockVars, playerIDs, matchVars, prepared, preparedIDs, closing,
                     countVars, generating, recapped, boundVars>>
  BY DEF MakeMatchSessionsJoinable
<1>a. /\ status' \in [Sessions -> Status]
      /\ \A s \in Sessions :
            status'[s] = status[s] \/ (status[s] = "Waiting" /\ status'[s] = "Joinable")
  BY DEF MakeMatchSessionsJoinable, ToOpen, IInv, TypeOK, Status
<1>1. TypeOK'
  BY <1>0, <1>a DEF IInv, TypeOK, DaemonSteps
<1>2. FreshSessions'
  BY <1>0, <1>a DEF IInv, FreshSessions
<1>3. PreparedSessions'
  BY <1>0 DEF IInv, PreparedSessions
<1>4. ClosedSessions'
  BY <1>0, <1>a DEF IInv, ClosedSessions, TypeOK
<1>5. OneMatchPerEntry' /\ EndedMatchIsOver' /\ OpponentsStartTogether' /\ OutcomesConsistent'
  BY <1>0, MatchesUnchanged
<1>6. UnfinishedRaceIsOpen'
  BY <1>0, <1>a DEF IInv, UnfinishedRaceIsOpen
<1>7. NoRaceBeforeStart'
  BY <1>0 DEF IInv, NoRaceBeforeStart
<1>8. OneEngagement'
  BY <1>0, <1>a DEF IInv, FreshSessions, OneEngagement, Engaged, HasPlayerID
<1> QED
  BY <1>1, <1>2, <1>3, <1>4, <1>5, <1>6, <1>7, <1>8 DEF IInv

\* Preparing keeps the invariant: the copies handed to the matchmaking are
\* those of the table (back_periodic.go, makeMatchSessionsPreparing).
LEMMA PreparingInvariant == IInv /\ MakeMatchSessionsPreparing => IInv'
<1> SUFFICES ASSUME IInv, MakeMatchSessionsPreparing PROVE IInv'
  OBVIOUS
<1> USE DEF clockVars, matchVars, countVars, boundVars
<1> DEFINE full == {s \in ToPrepare : EnoughPlayers(s)}
<1>0. /\ pc = "prepare" /\ pc' = "matchmake"
      /\ prepared' = full
      /\ UNCHANGED <<clockVars, playerIDs, matchVars, closing, countVars,
                     generating, recapped, boundVars>>
  BY DEF MakeMatchSessionsPreparing
<1>a. /\ status' \in [Sessions -> Status]
      /\ \A s \in Sessions : status'[s] = IF s \in full THEN "Preparing"
                                          ELSE IF s \in ToPrepare THEN "Closed"
                                          ELSE status[s]
      /\ \A s \in ToPrepare : s \in Sessions /\ status[s] = "Joinable"
  BY DEF MakeMatchSessionsPreparing, ToPrepare, IInv, TypeOK, Status
<1>b. /\ preparedIDs' \in [Sessions -> Seq(Players)]
      /\ \A s \in full : preparedIDs'[s] = playerIDs[s]
  BY <1>a DEF MakeMatchSessionsPreparing, IInv, TypeOK
<1>c. full \subseteq ToPrepare
  OBVIOUS
<1> HIDE DEF full
<1>1. TypeOK'
  BY <1>0, <1>a, <1>b, <1>c DEF IInv, TypeOK, DaemonSteps
<1>2. FreshSessions'
  BY <1>0, <1>a DEF IInv, FreshSessions
<1>3. PreparedSessions'
  BY <1>0, <1>a, <1>b, <1>c DEF IInv, PreparedSessions, FreshSessions
<1>4. ClosedSessions'
  BY <1>0, <1>a, <1>c DEF IInv, ClosedSessions, TypeOK
<1>5. OneMatchPerEntry' /\ EndedMatchIsOver' /\ OpponentsStartTogether' /\ OutcomesConsistent'
  BY <1>0, MatchesUnchanged
<1>6. UnfinishedRaceIsOpen'
  BY <1>0, <1>a, <1>c DEF IInv, UnfinishedRaceIsOpen
<1>7. NoRaceBeforeStart'
  BY <1>0 DEF IInv, NoRaceBeforeStart
<1>8. OneEngagement'
  <2>1. ASSUME NEW s \in Sessions, NEW p \in Players, Engaged(s, p)'
        PROVE  Engaged(s, p)
    BY <2>1, <1>0, <1>a, <1>b, <1>c DEF Engaged
  <2> QED
    BY <2>1 DEF IInv, OneEngagement
<1> QED
  BY <1>1, <1>2, <1>3, <1>4, <1>5, <1>6, <1>7, <1>8 DEF IInv

\* Spawning the countdowns keeps the invariant (back_periodic.go,
\* startMatchSessions).
LEMMA StartInvariant == IInv /\ StartMatchSessions => IInv'
<1> SUFFICES ASSUME IInv, StartMatchSessions PROVE IInv'
  OBVIOUS
<1> USE DEF clockVars, sessionVars, matchVars, boundVars
<1>0. /\ pc = "start" /\ pc' = "close"
      /\ counting' = counting \cup (ToStart \ countingDown)
      /\ countingDown' = countingDown \cup ToStart
      /\ UNCHANGED <<clockVars, sessionVars, matchVars, prepared, preparedIDs, closing,
                     generating, recapped, boundVars>>
  BY DEF StartMatchSessions
<1>a. /\ countingIDs' \in [Sessions -> Seq(Players)]
      /\ ToStart \subseteq Sessions
      /\ \A s \in ToStart : status[s] = "Preparing"
  BY DEF StartMatchSessions, ToStart, IInv, TypeOK
<1>1. TypeOK'
  BY <1>0, <1>a DEF IInv, TypeOK, DaemonSteps
<1>2. FreshSessions'
  BY <1>0, <1>a DEF IInv, FreshSessions
<1>3. PreparedSessions'
  BY <1>0 DEF IInv, PreparedSessions
<1>4. ClosedSessions'
  BY <1>0 DEF IInv, ClosedSessions
<1>5. OneMatchPerEntry' /\ EndedMatchIsOver' /\ OpponentsStartTogether' /\ OutcomesConsistent'
  BY <1>0, MatchesUnchanged
<1>6. UnfinishedRaceIsOpen'
  BY <1>0 DEF IInv, UnfinishedRaceIsOpen
<1>7. NoRaceBeforeStart'
  BY <1>0 DEF IInv, NoRaceBeforeStart
<1>8. OneEngagement'
  BY <1>0 DEF IInv, OneEngagement, Engaged
<1> QED
  BY <1>1, <1>2, <1>3, <1>4, <1>5, <1>6, <1>7, <1>8 DEF IInv

\* Nobody is racing in a session the daemon is about to close
\* (back_periodic.go, getMatchSessionsToEnd).
LEMMA NothingLeftToRun ==
    ASSUME IInv, NEW s \in ToEnd, NEW p \in Players
    PROVE  ~Unfinished(entry[s][p])
<1>1. s \in Sessions /\ matches[s] \subseteq ended[s]
  BY DEF ToEnd
<1>2. CASE entry[s][p].status = "None"
  BY <1>2 DEF Unfinished
<1>3. CASE entry[s][p].status # "None"
  <2>1. PICK pr \in matches[s] : p \in pr
    BY <1>1, <1>3 DEF IInv, OneMatchPerEntry
  <2>2. HasEnded(entry[s][p])
    BY <1>1, <2>1 DEF IInv, EndedMatchIsOver
  <2> QED
    BY <2>2 DEF HasEnded, Unfinished
<1> QED
  BY <1>2, <1>3

\* Closing keeps the invariant: nobody is racing there (back_periodic.go,
\* closeMatchSessionsAndUpdateRanks).
LEMMA CloseInvariant == IInv /\ CloseMatchSessions => IInv'
<1> SUFFICES ASSUME IInv, CloseMatchSessions PROVE IInv'
  OBVIOUS
<1> USE DEF clockVars, matchVars, countVars, boundVars
<1>0. /\ pc = "close" /\ pc' = "notify"
      /\ closing' = ToEnd
      /\ UNCHANGED <<clockVars, playerIDs, matchVars, prepared, preparedIDs, countVars,
                     generating, recapped, boundVars>>
  BY DEF CloseMatchSessions
<1>a. /\ status' \in [Sessions -> Status]
      /\ ToEnd \subseteq Sessions
      /\ \A s \in Sessions : status'[s] = IF s \in ToEnd THEN "Closed" ELSE status[s]
  BY DEF CloseMatchSessions, ToEnd, IInv, TypeOK, Status
<1>b. \A s \in ToEnd, p \in Players : ~Unfinished(entry[s][p])
  BY NothingLeftToRun
<1>1. TypeOK'
  BY <1>0, <1>a DEF IInv, TypeOK, DaemonSteps
<1>2. FreshSessions'
  BY <1>0, <1>a DEF IInv, FreshSessions
<1>3. PreparedSessions'
  BY <1>0 DEF IInv, PreparedSessions
<1>4. ClosedSessions'
  BY <1>0, <1>a, <1>b DEF IInv, ClosedSessions, TypeOK
<1>5. OneMatchPerEntry' /\ EndedMatchIsOver' /\ OpponentsStartTogether' /\ OutcomesConsistent'
  BY <1>0, MatchesUnchanged
<1>6. UnfinishedRaceIsOpen'
  BY <1>0, <1>a, <1>b DEF IInv, UnfinishedRaceIsOpen
<1>7. NoRaceBeforeStart'
  BY <1>0 DEF IInv, NoRaceBeforeStart
<1>8. OneEngagement'
  BY <1>0, <1>a DEF IInv, OneEngagement, Engaged
<1> QED
  BY <1>1, <1>2, <1>3, <1>4, <1>5, <1>6, <1>7, <1>8 DEF IInv

\* Announcing the closed sessions keeps the invariant (back_periodic.go,
\* closeMatchSessionsAndUpdateRanks).
LEMMA AnnounceInvariant == IInv /\ AnnounceClosedSessions => IInv'
<1> SUFFICES ASSUME IInv, AnnounceClosedSessions PROVE IInv'
  OBVIOUS
<1> USE DEF sessionVars, matchVars, countVars, boundVars
<1>0. /\ pc = "notify" /\ pc' = "create"
      /\ recapped' = recapped \cup closing
      /\ closing' = {}
      /\ UNCHANGED <<now, sessionVars, matchVars, prepared, preparedIDs, countVars,
                     generating, boundVars>>
  BY DEF AnnounceClosedSessions
<1>a. swept' \in BOOLEAN
  BY DEF AnnounceClosedSessions
<1>1. TypeOK'
  BY <1>0, <1>a DEF IInv, TypeOK, DaemonSteps
<1>2. FreshSessions'
  BY <1>0 DEF IInv, FreshSessions
<1>3. PreparedSessions'
  BY <1>0 DEF IInv, PreparedSessions
<1>4. ClosedSessions'
  BY <1>0 DEF IInv, ClosedSessions
<1>5. OneMatchPerEntry' /\ EndedMatchIsOver' /\ OpponentsStartTogether' /\ OutcomesConsistent'
  BY <1>0, MatchesUnchanged
<1>6. UnfinishedRaceIsOpen'
  BY <1>0 DEF IInv, UnfinishedRaceIsOpen
<1>7. NoRaceBeforeStart'
  BY <1>0 DEF IInv, NoRaceBeforeStart
<1>8. OneEngagement'
  BY <1>0 DEF IInv, OneEngagement, Engaged
<1> QED
  BY <1>1, <1>2, <1>3, <1>4, <1>5, <1>6, <1>7, <1>8 DEF IInv

\* A step that leaves the tables alone and forgets part of what is in memory
\* keeps the invariant, as long as the clock does not go back.
LEMMA TablesUnchanged ==
    ASSUME IInv, TypeOK', UNCHANGED <<sessionVars, matchVars, recapped>>,
           now' >= now,
           prepared' = {} \/ UNCHANGED <<pc, prepared, preparedIDs>>,
           closing' \subseteq closing,
           counting' \subseteq counting,
           countingDown' \subseteq countingDown
    PROVE  IInv'
<1> USE DEF sessionVars, matchVars
<1>2. FreshSessions'
  BY DEF IInv, FreshSessions
<1>3. PreparedSessions'
  BY DEF IInv, PreparedSessions
<1>4. ClosedSessions'
  BY DEF IInv, ClosedSessions
<1>5. OneMatchPerEntry' /\ EndedMatchIsOver' /\ OpponentsStartTogether' /\ OutcomesConsistent'
  BY MatchesUnchanged
<1>6. UnfinishedRaceIsOpen'
  BY DEF IInv, UnfinishedRaceIsOpen
<1>7. NoRaceBeforeStart'
  BY ScheduleAssumption DEF IInv, TypeOK, NoRaceBeforeStart
<1>8. OneEngagement'
  BY DEF IInv, OneEngagement, Engaged
<1> QED
  BY <1>2, <1>3, <1>4, <1>5, <1>6, <1>7, <1>8 DEF IInv

\* A pairing is made of disjoint pairs of kept players (back_pair_players.go,
\* rangedPairPlayers).
LEMMA PairingsAreOfKeptPlayers ==
    ASSUME NEW s \in Sessions, NEW M \in Pairings(KeptPlayers(s))
    PROVE  /\ M \in SUBSET Pairs
           /\ \A pr \in M : pr \subseteq KeptPlayers(s)
           /\ \A pr, o \in M : pr \cap o # {} => pr = o
<1>1. /\ M \in SUBSET Pairs
      /\ \A pr \in M : pr \subseteq KeptPlayers(s)
  BY DEF Pairings
<1>2. ASSUME NEW pr \in M, NEW o \in M, NEW p \in pr, p \in o
      PROVE  pr = o
  BY <1>1, <1>2 DEF Pairings
<1> QED
  BY <1>1, <1>2

\* A transaction of the daemon that fails keeps the invariant: the copies are
\* dropped with it.
LEMMA DaemonFailsInvariant == IInv /\ DaemonFails => IInv'
<1> SUFFICES ASSUME IInv, DaemonFails PROVE IInv'
  OBVIOUS
<1> USE DEF clockVars, sessionVars, matchVars, countVars
<1>1. /\ pc' = "create" /\ prepared' = {} /\ closing' = {}
      /\ failures' = failures + 1
      /\ UNCHANGED <<clockVars, sessionVars, matchVars, countVars, recapped, stops>>
  BY DEF DaemonFails
<1>2. preparedIDs' \in [Sessions -> Seq(Players)]
  BY DEF DaemonFails
<1>3. generating' \in [Sessions -> SUBSET Pairs]
  <2>1. CASE pc = "matchmake"
    <3>1. PICK f \in SpawnedBeforeRollback :
              generating' = [s \in Sessions |-> generating[s] \cup f[s]]
      BY <2>1 DEF DaemonFails
    <3>2. \A s \in Sessions : f[s] \in SUBSET Pairs
      BY DEF SpawnedBeforeRollback
    <3> QED
      BY <3>1, <3>2 DEF IInv, TypeOK
  <2>2. CASE pc # "matchmake"
    BY <2>2 DEF DaemonFails, IInv, TypeOK
  <2> QED
    BY <2>1, <2>2
<1>4. TypeOK'
  BY <1>1, <1>2, <1>3 DEF IInv, TypeOK, DaemonSteps
<1> QED
  BY <1>1, <1>4, TablesUnchanged DEF IInv, TypeOK

\* A start that fails keeps the invariant (back_periodic.go,
\* countdownAndStartMatchSession).
LEMMA StartFailsInvariant ==
    ASSUME IInv, NEW s \in Sessions, StartSessionFails(s)
    PROVE  IInv'
<1> USE DEF clockVars, sessionVars, matchVars, daemonVars
<1>1. /\ counting' = counting \ {s}
      /\ countingIDs' = [countingIDs EXCEPT ![s] = <<>>]
      /\ failures' = failures + 1
      /\ UNCHANGED <<clockVars, sessionVars, matchVars, daemonVars, countingDown,
                     generating, recapped, stops>>
  BY DEF StartSessionFails
<1>2. countingIDs' \in [Sessions -> Seq(Players)]
  BY <1>1 DEF IInv, TypeOK
<1>3. TypeOK'
  BY <1>1, <1>2 DEF IInv, TypeOK
<1> QED
  BY <1>1, <1>3, TablesUnchanged DEF IInv, TypeOK

\* A seed that fails keeps the invariant (back_matchmaking.go,
\* generateAndSendMatchSeed).
LEMMA SeedFailsInvariant ==
    ASSUME IInv, NEW s \in Sessions, NEW pr \in Pairs, GenerateMatchSeedFails(s, pr)
    PROVE  IInv'
<1> USE DEF clockVars, sessionVars, matchVars, daemonVars, countVars
<1>1. /\ generating' = [generating EXCEPT ![s] = @ \ {pr}]
      /\ failures' = failures + 1
      /\ UNCHANGED <<clockVars, sessionVars, matchVars, daemonVars, countVars, recapped, stops>>
  BY DEF GenerateMatchSeedFails
<1>2. TypeOK'
  BY <1>1 DEF IInv, TypeOK
<1> QED
  BY <1>1, <1>2, TablesUnchanged DEF IInv, TypeOK

\* Time that passes keeps the invariant.
LEMMA TickInvariant == IInv /\ Tick => IInv'
<1> SUFFICES ASSUME IInv, Tick PROVE IInv'
  OBVIOUS
<1> USE DEF sessionVars, matchVars, daemonVars, countVars, boundVars
<1>1. /\ now' = now + 1
      /\ UNCHANGED <<sessionVars, matchVars, daemonVars, countVars, generating,
                     recapped, boundVars>>
  BY DEF Tick
<1>2. swept' \in BOOLEAN
  BY DEF Tick
<1>3. TypeOK' /\ now' >= now
  BY <1>1, <1>2 DEF IInv, TypeOK
<1> QED
  BY <1>1, <1>3, TablesUnchanged

\* A stop of the process keeps the invariant: what it forgets constrains
\* nothing.
LEMMA StopInvariant == IInv /\ Stop => IInv'
<1> SUFFICES ASSUME IInv, Stop PROVE IInv'
  OBVIOUS
<1> USE DEF clockVars, sessionVars, matchVars
<1>1. /\ pc' = "down" /\ prepared' = {} /\ closing' = {}
      /\ countingDown' = {} /\ counting' = {}
      /\ stops' = stops + 1
      /\ UNCHANGED <<clockVars, sessionVars, matchVars, recapped, failures>>
  BY DEF Stop
<1>2. /\ preparedIDs' \in [Sessions -> Seq(Players)]
      /\ countingIDs' \in [Sessions -> Seq(Players)]
      /\ generating' \in [Sessions -> SUBSET Pairs]
  BY DEF Stop
<1>3. TypeOK'
  BY <1>1, <1>2 DEF IInv, TypeOK
<1> QED
  BY <1>1, <1>3, TablesUnchanged DEF IInv, TypeOK

\* A boot keeps the invariant.
LEMMA BootInvariant == IInv /\ Boot => IInv'
<1> SUFFICES ASSUME IInv, Boot PROVE IInv'
  OBVIOUS
<1> USE DEF clockVars, sessionVars, matchVars, countVars, boundVars
<1>1. /\ pc = "down" /\ pc' = "create"
      /\ UNCHANGED <<clockVars, sessionVars, matchVars, prepared, preparedIDs, closing,
                     countVars, generating, recapped, boundVars>>
  BY DEF Boot
<1>2. TypeOK'
  BY <1>1 DEF IInv, TypeOK, DaemonSteps
<1>3. prepared' = {}
  BY <1>1 DEF IInv, TypeOK, PreparedSessions
<1> QED
  BY <1>1, <1>2, <1>3, TablesUnchanged DEF IInv, TypeOK

\* Joining keeps the invariant: whoever joins had no other engagement
\* (back_racing.go, joinMatchSessionTransaction and
\* ensurePlayerHasNoActiveMatch).
LEMMA JoinInvariant ==
    ASSUME IInv, NEW s \in Sessions, NEW p \in Players, JoinMatchSession(p, s),
           status[s] \notin {"None", "Waiting"}
    PROVE  IInv'
<1> USE DEF clockVars, matchVars, daemonVars, countVars, boundVars
<1>0. /\ ~HasActiveSession(p)
      /\ playerIDs' = [playerIDs EXCEPT ![s] = AddPlayerID(@, p)]
      /\ UNCHANGED <<clockVars, status, matchVars, daemonVars, countVars,
                     generating, recapped, boundVars>>
  BY DEF JoinMatchSession
<1>a. /\ playerIDs' \in [Sessions -> Seq(Players)]
      /\ \A t \in Sessions, q \in Players :
            HasPlayerID(playerIDs'[t], q) <=>
                HasPlayerID(playerIDs[t], q) \/ (t = s /\ q = p)
  <2>1. /\ playerIDs \in [Sessions -> Seq(Players)]
        /\ AddPlayerID(playerIDs[s], p) \in Seq(Players)
        /\ \A q : HasPlayerID(AddPlayerID(playerIDs[s], p), q) <=>
                      HasPlayerID(playerIDs[s], q) \/ q = p
    BY AddPlayerIDLemma DEF IInv, TypeOK
  <2> QED
    BY <1>0, <2>1
<1>b. \A t \in Sessions : ~Engaged(t, p)
  <2>1. ASSUME NEW t \in Sessions, Engaged(t, p)
        PROVE  t \in RegisteredActive(p) \cup StartedActive(p)
    <3>1. CASE status[t] = "Joinable" /\ HasPlayerID(playerIDs[t], p)
      <4>1. ~HasEnded(entry[t][p])
        BY <3>1, NoMatchNoEntry DEF IInv, FreshSessions
      <4> QED
        BY <3>1, <4>1 DEF RegisteredActive
    <3>2. CASE t \in prepared /\ HasPlayerID(preparedIDs[t], p)
      <4>1. /\ status[t] = "Preparing" /\ HasPlayerID(playerIDs[t], p)
            /\ matches[t] = {}
        BY <3>2 DEF IInv, PreparedSessions
      <4>2. ~HasEnded(entry[t][p])
        BY <4>1, NoMatchNoEntry
      <4> QED
        BY <4>1, <4>2 DEF RegisteredActive
    <3>3. CASE Unfinished(entry[t][p])
      BY <3>3 DEF StartedActive
    <3> QED
      BY <2>1, <3>1, <3>2, <3>3 DEF Engaged
  <2> QED
    BY <2>1, <1>0 DEF HasActiveSession
<1>1. TypeOK'
  BY <1>0, <1>a DEF IInv, TypeOK
<1>2. FreshSessions'
  BY <1>0 DEF IInv, FreshSessions
<1>3. PreparedSessions'
  BY <1>0, <1>a DEF IInv, PreparedSessions, TypeOK
<1>4. ClosedSessions'
  BY <1>0 DEF IInv, ClosedSessions
<1>5. OneMatchPerEntry' /\ EndedMatchIsOver' /\ OpponentsStartTogether' /\ OutcomesConsistent'
  BY <1>0, MatchesUnchanged
<1>6. UnfinishedRaceIsOpen'
  BY <1>0 DEF IInv, UnfinishedRaceIsOpen
<1>7. NoRaceBeforeStart'
  BY <1>0 DEF IInv, NoRaceBeforeStart
<1>8. OneEngagement'
  <2>1. ASSUME NEW t \in Sessions, NEW q \in Players, Engaged(t, q)'
        PROVE  Engaged(t, q) \/ (t = s /\ q = p)
    BY <2>1, <1>0, <1>a DEF Engaged
  <2> QED
    BY <2>1, <1>b DEF IInv, OneEngagement
<1> QED
  BY <1>1, <1>2, <1>3, <1>4, <1>5, <1>6, <1>7, <1>8 DEF IInv

\* Cancelling keeps the invariant (back_racing.go, CancelActiveMatchSession).
LEMMA CancelInvariant ==
    ASSUME IInv, NEW s \in Sessions, NEW p \in Players, CancelActiveMatchSession(p, s)
    PROVE  IInv'
<1> USE DEF clockVars, matchVars, daemonVars, countVars, boundVars
<1>0. /\ IsActiveSession(p, s)
      /\ status[s] = "Joinable"
      /\ playerIDs' = [playerIDs EXCEPT ![s] = RemovePlayerID(@, p)]
      /\ UNCHANGED <<clockVars, status, matchVars, daemonVars, countVars,
                     generating, recapped, boundVars>>
  BY DEF CancelActiveMatchSession, CanCancel
<1>b. HasPlayerID(playerIDs[s], p)
  <2>1. s \in RegisteredActive(p) \/ s \in StartedActive(p)
    BY <1>0 DEF IsActiveSession
  <2>2. s \notin StartedActive(p)
    BY <1>0, UnfinishedIsActive DEF StartedActive
  <2> QED
    BY <2>1, <2>2 DEF RegisteredActive
<1>a. /\ playerIDs' \in [Sessions -> Seq(Players)]
      /\ \A t \in Sessions, q \in Players :
            HasPlayerID(playerIDs'[t], q) => HasPlayerID(playerIDs[t], q)
      /\ \A t \in Sessions : t # s => playerIDs'[t] = playerIDs[t]
  <2>1. /\ playerIDs \in [Sessions -> Seq(Players)]
        /\ RemovePlayerID(playerIDs[s], p) \in Seq(Players)
        /\ \A q : HasPlayerID(RemovePlayerID(playerIDs[s], p), q) =>
                      HasPlayerID(playerIDs[s], q)
    BY <1>b, RemovePlayerIDLemma DEF IInv, TypeOK
  <2> QED
    BY <1>0, <2>1
<1>1. TypeOK'
  BY <1>0, <1>a DEF IInv, TypeOK
<1>2. FreshSessions'
  BY <1>0, <1>a DEF IInv, FreshSessions
<1>3. PreparedSessions'
  BY <1>0, <1>a DEF IInv, PreparedSessions, TypeOK
<1>4. ClosedSessions'
  BY <1>0 DEF IInv, ClosedSessions
<1>5. OneMatchPerEntry' /\ EndedMatchIsOver' /\ OpponentsStartTogether' /\ OutcomesConsistent'
  BY <1>0, MatchesUnchanged
<1>6. UnfinishedRaceIsOpen'
  BY <1>0 DEF IInv, UnfinishedRaceIsOpen
<1>7. NoRaceBeforeStart'
  BY <1>0 DEF IInv, NoRaceBeforeStart
<1>8. OneEngagement'
  BY <1>0, <1>a DEF IInv, OneEngagement, Engaged
<1> QED
  BY <1>1, <1>2, <1>3, <1>4, <1>5, <1>6, <1>7, <1>8 DEF IInv

\* Writing back the copy of a match once its seed is generated keeps the
\* invariant, whichever of its dates that erases (back_matchmaking.go,
\* generateAndSendMatchSeed).
LEMMA SeedInvariant ==
    ASSUME IInv, NEW s \in Sessions, NEW pr \in Pairs, GenerateMatchSeed(s, pr)
    PROVE  IInv'
<1> USE DEF clockVars, sessionVars, daemonVars, countVars, boundVars
<1>0. /\ started' = [started EXCEPT ![s] = @ \ {pr}]
      /\ ended' = [ended EXCEPT ![s] = @ \ {pr}]
      /\ generating' = [generating EXCEPT ![s] = @ \ {pr}]
      /\ UNCHANGED <<clockVars, sessionVars, matches, entry, daemonVars, countVars,
                     recapped, boundVars>>
  BY DEF GenerateMatchSeed
<1>a. \A t \in Sessions : ended'[t] \subseteq ended[t]
  BY <1>0 DEF IInv, TypeOK
<1>1. TypeOK'
  BY <1>0 DEF IInv, TypeOK
<1>2. FreshSessions' /\ PreparedSessions' /\ ClosedSessions'
  BY <1>0 DEF IInv, FreshSessions, PreparedSessions, ClosedSessions
<1>3. OneMatchPerEntry' /\ OpponentsStartTogether' /\ OutcomesConsistent'
  BY <1>0 DEF IInv, OneMatchPerEntry, OpponentsStartTogether, OutcomesConsistent
<1>4. EndedMatchIsOver'
  BY <1>0, <1>a DEF IInv, EndedMatchIsOver
<1>5. UnfinishedRaceIsOpen' /\ NoRaceBeforeStart'
  BY <1>0 DEF IInv, UnfinishedRaceIsOpen, NoRaceBeforeStart
<1>6. OneEngagement'
  BY <1>0 DEF IInv, OneEngagement, Engaged
<1> QED
  BY <1>1, <1>2, <1>3, <1>4, <1>5, <1>6 DEF IInv

-------------------------------------------------------------------------------
(***************************************************************************)
(* Entries and their outcomes.                                             *)
(***************************************************************************)

\* A pair with two given members has no other.
LEMMA PairOfTwo ==
    ASSUME NEW pr \in Pairs, NEW p \in pr, NEW q \in pr, p # q
    PROVE  pr = {p, q} /\ p \in Players /\ q \in Players
BY DEF Pairs

\* It does not matter which entry of a match is named first.
LEMMA OutcomesAgreeSymmetric ==
    ASSUME NEW e \in Entries, NEW f \in Entries, e.status # "None", f.status # "None",
           OutcomesAgree(e, f)
    PROVE  OutcomesAgree(f, e)
<1>1. /\ e.status \in {"Waiting", "InProgress", "Finished", "Forfeit"}
      /\ f.status \in {"Waiting", "InProgress", "Finished", "Forfeit"}
  BY DEF Entries, EntryStatus
<1>2. CASE e.status = "Finished"
  BY <1>1, <1>2 DEF OutcomesAgree, Verdict, Unfinished
<1>3. CASE e.status = "Forfeit"
  BY <1>1, <1>3 DEF OutcomesAgree, Verdict, Unfinished
<1>4. CASE Unfinished(e)
  BY <1>1, <1>4 DEF OutcomesAgree, Verdict, Unfinished
<1> QED
  BY <1>1, <1>2, <1>3, <1>4 DEF Unfinished

\* Starting an entry changes nothing but a Waiting status (match_entry.go,
\* start).
LEMMA StartedEntryLemma ==
    ASSUME NEW e \in Entries
    PROVE  /\ StartedEntry(e) \in Entries
           /\ StartedEntry(e).outcome = e.outcome
           /\ StartedEntry(e).status = "None" <=> e.status = "None"
           /\ Unfinished(StartedEntry(e)) <=> Unfinished(e)
           /\ HasEnded(StartedEntry(e)) <=> HasEnded(e)
           /\ HasEnded(e) => StartedEntry(e) = e
           /\ StartedEntry(e).status # "Waiting"
           /\ StartedEntry(e).status = "Finished" <=> e.status = "Finished"
           /\ StartedEntry(e).status = "Forfeit" <=> e.status = "Forfeit"
BY DEF StartedEntry, Entries, EntryStatus, Unfinished, HasEnded

\* After a forfeit the two entries agree, whatever they were (match_entry.go,
\* forfeit).
LEMMA ForfeitOutcomes ==
    ASSUME NEW f \in Entries, f.status # "None"
    PROVE  /\ Forfeited(f) \in Entries /\ AgainstForfeit(f) \in Entries
           /\ Forfeited(f).status = "Forfeit"
           /\ AgainstForfeit(f).status = f.status
           /\ OutcomesAgree(Forfeited(f), AgainstForfeit(f))
<1>1. /\ Forfeited(f) \in Entries
      /\ Forfeited(f).status = "Forfeit"
      /\ Forfeited(f).outcome = IF f.status = "Forfeit" THEN Draw ELSE Loss
  BY DEF Forfeited, Entries, EntryStatus, EntryOutcome
<1>2. /\ AgainstForfeit(f) \in Entries
      /\ AgainstForfeit(f).status = f.status
      /\ AgainstForfeit(f).outcome = IF f.status = "Forfeit" THEN Draw ELSE Win
  BY DEF AgainstForfeit, Entries, EntryStatus, EntryOutcome
<1>3. f.status \in {"Waiting", "InProgress", "Finished", "Forfeit"}
  BY DEF Entries, EntryStatus
<1>4. OutcomesAgree(Forfeited(f), AgainstForfeit(f))
  BY <1>1, <1>2, <1>3 DEF OutcomesAgree, Verdict, Unfinished
<1> QED
  BY <1>1, <1>2, <1>4

\* After a completion the two entries agree, whatever they were
\* (match_entry.go, complete).
LEMMA CompletionOutcomes ==
    ASSUME NEW f \in Entries, f.status # "None"
    PROVE  /\ Completed(f) \in Entries /\ AgainstCompletion(f) \in Entries
           /\ Completed(f).status = "Finished"
           /\ AgainstCompletion(f).status = f.status
           /\ OutcomesAgree(Completed(f), AgainstCompletion(f))
<1>1. /\ Completed(f) \in Entries
      /\ Completed(f).status = "Finished"
      /\ Completed(f).outcome = IF f.status = "Finished" THEN Loss ELSE Win
  BY DEF Completed, Entries, EntryStatus, EntryOutcome
<1>2. /\ AgainstCompletion(f) \in Entries
      /\ AgainstCompletion(f).status = f.status
      /\ AgainstCompletion(f).outcome = IF f.status = "Finished" THEN Win ELSE Loss
  BY DEF AgainstCompletion, Entries, EntryStatus, EntryOutcome
<1>3. f.status \in {"Waiting", "InProgress", "Finished", "Forfeit"}
  BY DEF Entries, EntryStatus
<1>4. OutcomesAgree(Completed(f), AgainstCompletion(f))
  BY <1>1, <1>2, <1>3 DEF OutcomesAgree, Verdict, Unfinished
<1> QED
  BY <1>1, <1>2, <1>4

-------------------------------------------------------------------------------
(***************************************************************************)
(* The actions that write entries.                                         *)
(***************************************************************************)

\* A start from a stale copy of the session keeps the invariant
\* (back_periodic.go, startMatchSession).
LEMMA StartSessionInvariant ==
    ASSUME IInv, NEW s \in Sessions, StartSession(s)
    PROVE  IInv'
<1> USE DEF clockVars, daemonVars, boundVars
<1> DEFINE fresh == matches[s] \ started[s]
           Starts(t, p) == t = s /\ \E pr \in fresh : p \in pr
<1>0. /\ s \in counting
      /\ now >= StartDate[s]
      /\ status' = [status EXCEPT ![s] = "InProgress"]
      /\ playerIDs' = [playerIDs EXCEPT ![s] = countingIDs[s]]
      /\ started' = [started EXCEPT ![s] = @ \cup fresh]
      /\ counting' = counting \ {s}
      /\ countingIDs' = [countingIDs EXCEPT ![s] = <<>>]
      /\ UNCHANGED <<clockVars, matches, ended, daemonVars, countingDown,
                     generating, recapped, boundVars>>
  BY DEF StartSession, CountdownElapsed, StartedSession
<1>a. /\ entry' \in [Sessions -> [Players -> Entries]]
      /\ \A t \in Sessions, p \in Players :
            entry'[t][p] = IF Starts(t, p) THEN StartedEntry(entry[t][p]) ELSE entry[t][p]
  <2>1. entry' = [entry EXCEPT ![s] =
                     [p \in Players |-> IF \E pr \in fresh : p \in pr
                                        THEN StartedEntry(entry[s][p]) ELSE entry[s][p]]]
    BY DEF StartSession, StartedEntries
  <2>2. /\ entry \in [Sessions -> [Players -> Entries]]
        /\ \A p \in Players : StartedEntry(entry[s][p]) \in Entries
    BY StartedEntryLemma DEF IInv, TypeOK
  <2> QED
    BY <2>1, <2>2
<1>b. \A t \in Sessions, p \in Players :
          /\ entry'[t][p].outcome = entry[t][p].outcome
          /\ entry'[t][p].status = "None" <=> entry[t][p].status = "None"
          /\ Unfinished(entry'[t][p]) <=> Unfinished(entry[t][p])
          /\ HasEnded(entry'[t][p]) <=> HasEnded(entry[t][p])
          /\ entry'[t][p].status = "Finished" <=> entry[t][p].status = "Finished"
          /\ entry'[t][p].status = "Forfeit" <=> entry[t][p].status = "Forfeit"
          /\ Starts(t, p) => entry'[t][p].status # "Waiting"
  <2>1. \A t \in Sessions, p \in Players : entry[t][p] \in Entries
    BY DEF IInv, TypeOK
  <2> QED
    BY <2>1, <1>a, StartedEntryLemma
<1>c. status[s] \in {"Preparing", "InProgress", "Closed"} /\ s \notin prepared
  BY <1>0 DEF IInv, TypeOK, Status, FreshSessions, PreparedSessions
<1>d. \A t \in Sessions : status'[t] = IF t = s THEN "InProgress" ELSE status[t]
  BY <1>0 DEF IInv, TypeOK
<1>e. matches \in [Sessions -> SUBSET Pairs]
  BY DEF IInv, TypeOK
<1> HIDE DEF fresh
<1>1. TypeOK'
  <2>1. status' \in [Sessions -> Status]
    BY <1>0 DEF IInv, TypeOK, Status
  <2>2. /\ playerIDs' \in [Sessions -> Seq(Players)]
        /\ countingIDs' \in [Sessions -> Seq(Players)]
    BY <1>0 DEF IInv, TypeOK
  <2>3. started' \in [Sessions -> SUBSET Pairs]
    BY <1>0, <1>e DEF IInv, TypeOK, fresh
  <2>4. counting' \in SUBSET Sessions
    BY <1>0 DEF IInv, TypeOK
  <2> QED
    BY <2>1, <2>2, <2>3, <2>4, <1>0, <1>a DEF IInv, TypeOK
<1>2. FreshSessions'
  BY <1>0, <1>d DEF IInv, FreshSessions, TypeOK
<1>3. PreparedSessions'
  BY <1>0, <1>c, <1>d DEF IInv, PreparedSessions, TypeOK
<1>4. ClosedSessions'
  BY <1>0, <1>b, <1>d DEF IInv, ClosedSessions, TypeOK
<1>5. OneMatchPerEntry'
  BY <1>0, <1>b DEF IInv, OneMatchPerEntry
<1>6. EndedMatchIsOver'
  BY <1>0, <1>b, <1>e, PairOfTwo DEF IInv, EndedMatchIsOver, Pairs
<1>7. UnfinishedRaceIsOpen'
  BY <1>b, <1>d DEF IInv, UnfinishedRaceIsOpen
<1>8. OpponentsStartTogether'
  <2> SUFFICES ASSUME NEW t \in Sessions, NEW pr \in matches[t], NEW p \in pr, NEW q \in pr,
                      entry'[t][p].status = "InProgress"
               PROVE  entry'[t][q].status # "Waiting"
    BY <1>0 DEF OpponentsStartTogether
  <2>1. p \in Players /\ q \in Players
    BY <1>e DEF Pairs
  <2>2. CASE Starts(t, q)
    BY <2>1, <2>2, <1>b
  <2>3. CASE ~Starts(t, q)
    <3>1. ~Starts(t, p)
      BY <2>1, <2>3 DEF IInv, OneMatchPerEntry, fresh
    <3>2. entry[t][p].status = "InProgress" /\ entry'[t][q] = entry[t][q]
      BY <3>1, <2>1, <2>3, <1>a
    <3> QED
      BY <3>2 DEF IInv, OpponentsStartTogether
  <2> QED
    BY <2>2, <2>3
<1>9. OutcomesConsistent'
  <2> SUFFICES ASSUME NEW t \in Sessions, NEW p \in Players, NEW q \in Players,
                      p # q, {p, q} \in matches[t]
               PROVE  OutcomesAgree(entry'[t][p], entry'[t][q])
    BY <1>0 DEF OutcomesConsistent
  <2>1. OutcomesAgree(entry[t][p], entry[t][q])
    BY DEF IInv, OutcomesConsistent
  <2> QED
    BY <2>1, <1>b DEF OutcomesAgree, Verdict
<1>10. NoRaceBeforeStart'
  <2> SUFFICES ASSUME NEW t \in Sessions, NEW p \in Players,
                      entry'[t][p].status \in {"InProgress", "Finished"}
               PROVE  now >= StartDate[t]
    BY <1>0 DEF NoRaceBeforeStart
  <2>1. CASE t = s
    BY <2>1, <1>0
  <2>2. CASE t # s
    BY <2>2, <1>a DEF IInv, NoRaceBeforeStart
  <2> QED
    BY <2>1, <2>2
<1>11. OneEngagement'
  <2>1. ASSUME NEW t \in Sessions, NEW p \in Players, Engaged(t, p)'
        PROVE  Engaged(t, p)
    BY <2>1, <1>0, <1>b, <1>d DEF Engaged, IInv, TypeOK
  <2> QED
    BY <2>1 DEF IInv, OneEngagement
<1> QED
  BY <1>1, <1>2, <1>3, <1>4, <1>5, <1>6, <1>7, <1>8, <1>9, <1>10, <1>11 DEF IInv

\* The match that getPlayerActiveMatch finds for a player is one he has not
\* ended, in an active session.
LEMMA ActiveMatchIsRunning ==
    ASSUME IInv, NEW s \in Sessions, NEW p \in Players, NEW q \in Players,
           IsActiveMatch(s, p, q)
    PROVE  /\ p # q
           /\ {p, q} \in matches[s]
           /\ status[s] \in {"Preparing", "InProgress"}
           /\ Unfinished(entry[s][p])
           /\ entry[s][q] \in Entries /\ entry[s][q].status # "None"
<1>1. /\ p # q /\ {p, q} \in matches[s]
      /\ status[s] \in {"Preparing", "InProgress"}
      /\ s \in RegisteredActive(p) \cup StartedActive(p)
  BY DEF IsActiveMatch, CanForfeit, IsActiveSession
<1>2. entry[s][p].status # "None" /\ entry[s][q].status # "None"
  BY <1>1 DEF IInv, OneMatchPerEntry
<1>3. Unfinished(entry[s][p])
  <2>1. entry[s][p].status \in EntryStatus
    BY DEF IInv, TypeOK, Entries
  <2>2. Unfinished(entry[s][p]) \/ ~HasEnded(entry[s][p])
    BY <1>1 DEF RegisteredActive, StartedActive
  <2> QED
    BY <1>2, <2>1, <2>2 DEF EntryStatus, Unfinished, HasEnded
<1>4. entry[s][q] \in Entries
  BY DEF IInv, TypeOK
<1> QED
  BY <1>1, <1>2, <1>3, <1>4

\* Ending one side of a match with entries that agree keeps the invariant;
\* forfeit and completion are its two instances.
LEMMA EndRaceInvariant ==
    ASSUME IInv, NEW s \in Sessions, NEW p \in Players, NEW q \in Players,
           IsActiveMatch(s, p, q),
           NEW mine \in Entries, NEW theirs \in Entries,
           mine.status \in {"Finished", "Forfeit"},
           mine.status = "Finished" => entry[s][p].status = "InProgress",
           theirs.status = entry[s][q].status,
           OutcomesAgree(mine, theirs),
           entry' = [entry EXCEPT ![s][p] = mine, ![s][q] = theirs],
           ended' = MatchEnds(s, {p, q}, entry[s][q]),
           UNCHANGED <<clockVars, sessionVars, matches, started, daemonVars, countVars,
                       generating, recapped, boundVars>>
    PROVE  IInv'
<1> USE DEF clockVars, sessionVars, daemonVars, countVars, boundVars
<1>a. /\ p # q
      /\ {p, q} \in matches[s]
      /\ status[s] \in {"Preparing", "InProgress"}
      /\ Unfinished(entry[s][p])
      /\ entry[s][q].status # "None"
  BY ActiveMatchIsRunning
<1>b. /\ entry' \in [Sessions -> [Players -> Entries]]
      /\ \A t \in Sessions, r \in Players :
            entry'[t][r] = IF t = s /\ r = p THEN mine
                           ELSE IF t = s /\ r = q THEN theirs
                           ELSE entry[t][r]
  BY <1>a DEF IInv, TypeOK
<1>c. /\ ended' \in [Sessions -> SUBSET Pairs]
      /\ \A t \in Sessions : \A pr \in ended'[t] :
            pr \in ended[t] \/ (t = s /\ pr = {p, q} /\ HasEnded(entry[s][q]))
  BY <1>a DEF IInv, TypeOK, MatchEnds, Pairs
<1>d. \A t \in Sessions, r \in Players :
          /\ Unfinished(entry'[t][r]) => Unfinished(entry[t][r])
          /\ HasEnded(entry[t][r]) => HasEnded(entry'[t][r])
          /\ entry'[t][r].status = "None" <=> entry[t][r].status = "None"
          /\ entry'[t][r].status = "Waiting" => entry[t][r].status = "Waiting"
          /\ entry'[t][r].status = "InProgress" => entry[t][r].status = "InProgress"
          /\ entry'[t][r].status = "Finished" =>
                entry[t][r].status \in {"InProgress", "Finished"}
  BY <1>a, <1>b DEF Unfinished, HasEnded
<1>e. \A pr \in matches[s] : p \in pr \/ q \in pr => pr = {p, q}
  BY <1>a DEF IInv, OneMatchPerEntry
<1>f. \A t \in Sessions : \A pr \in matches[t] : pr \subseteq Players
  BY DEF IInv, TypeOK, Pairs
<1>1. TypeOK'
  BY <1>b, <1>c DEF IInv, TypeOK
<1>2. FreshSessions'
  BY DEF IInv, FreshSessions
<1>3. PreparedSessions'
  BY DEF IInv, PreparedSessions
<1>4. ClosedSessions'
  BY <1>d DEF IInv, TypeOK, ClosedSessions
<1>5. OneMatchPerEntry'
  BY <1>d DEF IInv, OneMatchPerEntry
<1>6. EndedMatchIsOver'
  <2> SUFFICES ASSUME NEW t \in Sessions, NEW pr \in ended'[t]
               PROVE  pr \in matches[t] /\ \A r \in pr : HasEnded(entry'[t][r])
    BY DEF EndedMatchIsOver
  <2>1. CASE pr \in ended[t]
    <3>1. pr \in matches[t] /\ \A r \in pr : HasEnded(entry[t][r])
      BY <2>1 DEF IInv, EndedMatchIsOver
    <3> QED
      BY <3>1, <1>d, <1>f
  <2>2. CASE t = s /\ pr = {p, q} /\ HasEnded(entry[s][q])
    <3>1. HasEnded(entry'[s][p])
      BY <1>b DEF HasEnded
    <3> QED
      BY <2>2, <3>1, <1>a, <1>d
  <2> QED
    BY <2>1, <2>2, <1>c
<1>7. UnfinishedRaceIsOpen'
  BY <1>d DEF IInv, UnfinishedRaceIsOpen
<1>8. OpponentsStartTogether'
  <2> SUFFICES ASSUME NEW t \in Sessions, NEW pr \in matches[t], NEW a \in pr, NEW b \in pr,
                      entry'[t][a].status = "InProgress"
               PROVE  entry'[t][b].status # "Waiting"
    BY DEF OpponentsStartTogether
  <2>1. a \in Players /\ b \in Players
    BY <1>f
  <2>2. entry[t][a].status = "InProgress"
    BY <2>1, <1>d
  <2>3. entry[t][b].status # "Waiting"
    BY <2>2 DEF IInv, OpponentsStartTogether
  <2> QED
    BY <2>1, <2>3, <1>d
<1>9. OutcomesConsistent'
  <2> SUFFICES ASSUME NEW t \in Sessions, NEW a \in Players, NEW b \in Players,
                      a # b, {a, b} \in matches[t]
               PROVE  OutcomesAgree(entry'[t][a], entry'[t][b])
    BY DEF OutcomesConsistent
  <2>1. CASE t = s /\ {a, b} = {p, q}
    <3>1. entry'[s][p] = mine /\ entry'[s][q] = theirs
      BY <1>a, <1>b
    <3>2. OutcomesAgree(theirs, mine)
      BY <1>a, OutcomesAgreeSymmetric
    <3>3. (a = p /\ b = q) \/ (a = q /\ b = p)
      BY <2>1
    <3> QED
      BY <2>1, <3>1, <3>2, <3>3
  <2>2. CASE ~(t = s /\ {a, b} = {p, q})
    <3>1. entry'[t][a] = entry[t][a] /\ entry'[t][b] = entry[t][b]
      BY <2>2, <1>b, <1>e
    <3> QED
      BY <3>1 DEF IInv, OutcomesConsistent
  <2> QED
    BY <2>1, <2>2
<1>10. NoRaceBeforeStart'
  BY <1>d DEF IInv, NoRaceBeforeStart
<1>11. OneEngagement'
  <2>1. ASSUME NEW t \in Sessions, NEW r \in Players, Engaged(t, r)'
        PROVE  Engaged(t, r)
    BY <2>1, <1>d DEF Engaged
  <2> QED
    BY <2>1 DEF IInv, OneEngagement
<1> QED
  BY <1>1, <1>2, <1>3, <1>4, <1>5, <1>6, <1>7, <1>8, <1>9, <1>10, <1>11 DEF IInv

\* A forfeit keeps the invariant (back_racing.go, ForfeitActiveMatch).
LEMMA ForfeitInvariant ==
    ASSUME IInv, NEW s \in Sessions, NEW p \in Players, NEW q \in Players,
           ForfeitActiveMatch(s, p, q)
    PROVE  IInv'
<1> DEFINE against == entry[s][q]
<1>1. /\ IsActiveMatch(s, p, q)
      /\ entry' = [entry EXCEPT ![s][p] = Forfeited(against), ![s][q] = AgainstForfeit(against)]
      /\ ended' = MatchEnds(s, {p, q}, against)
      /\ UNCHANGED <<clockVars, sessionVars, matches, started, daemonVars, countVars,
                     generating, recapped, boundVars>>
  BY DEF ForfeitActiveMatch
<1>2. against \in Entries /\ against.status # "None"
  BY <1>1, ActiveMatchIsRunning
<1>3. /\ Forfeited(against) \in Entries /\ AgainstForfeit(against) \in Entries
      /\ Forfeited(against).status = "Forfeit"
      /\ AgainstForfeit(against).status = against.status
      /\ OutcomesAgree(Forfeited(against), AgainstForfeit(against))
  BY <1>2, ForfeitOutcomes
<1> QED
  BY <1>1, <1>3, EndRaceInvariant

\* A completion keeps the invariant (back_racing.go, CompleteActiveMatch).
LEMMA CompleteInvariant ==
    ASSUME IInv, NEW s \in Sessions, NEW p \in Players, NEW q \in Players,
           CompleteActiveMatch(s, p, q)
    PROVE  IInv'
<1> DEFINE against == entry[s][q]
<1>1. /\ IsActiveMatch(s, p, q)
      /\ entry[s][p].status = "InProgress"
      /\ entry' = [entry EXCEPT ![s][p] = Completed(against),
                                ![s][q] = AgainstCompletion(against)]
      /\ ended' = MatchEnds(s, {p, q}, against)
      /\ UNCHANGED <<clockVars, sessionVars, matches, started, daemonVars, countVars,
                     generating, recapped, boundVars>>
  BY DEF CompleteActiveMatch
<1>2. against \in Entries /\ against.status # "None"
  BY <1>1, ActiveMatchIsRunning
<1>3. /\ Completed(against) \in Entries /\ AgainstCompletion(against) \in Entries
      /\ Completed(against).status = "Finished"
      /\ AgainstCompletion(against).status = against.status
      /\ OutcomesAgree(Completed(against), AgainstCompletion(against))
  BY <1>2, CompletionOutcomes
<1> QED
  BY <1>1, <1>3, EndRaceInvariant

\* Matchmaking keeps the invariant, although it works on copies that the
\* previous transaction made (back_matchmaking.go, doMatchMaking).
LEMMA MatchMakingInvariant == IInv /\ DoMatchMaking => IInv'
<1> SUFFICES ASSUME IInv, DoMatchMaking PROVE IInv'
  OBVIOUS
<1> USE DEF clockVars, countVars, boundVars
<1>0. PICK pairing \in PairingChoices :
      /\ pc = "matchmake"
      /\ status' = [s \in Sessions |-> IF s \in prepared THEN "Preparing" ELSE status[s]]
      /\ playerIDs' = [s \in Sessions |-> IF s \in prepared THEN KeptIDs(s)
                                                            ELSE playerIDs[s]]
      /\ matches' = [s \in Sessions |-> matches[s] \cup pairing[s]]
      /\ entry' = [s \in Sessions |-> [p \in Players |->
                      IF \E pr \in pairing[s] : p \in pr THEN NewMatchEntry
                                                         ELSE entry[s][p]]]
      /\ generating' = [s \in Sessions |-> IF s \in prepared
                                           THEN generating[s] \cup matches'[s]
                                           ELSE generating[s]]
      /\ prepared' = {}
      /\ preparedIDs' = [s \in Sessions |-> <<>>]
      /\ pc' = "start"
      /\ UNCHANGED <<clockVars, started, ended, closing, countVars, recapped, boundVars>>
  BY DEF DoMatchMaking
<1>a. \A s \in Sessions :
          /\ pairing[s] \in SUBSET Pairs
          /\ s \notin prepared => pairing[s] = {}
          /\ s \in prepared => matches[s] = {}
          /\ \A pr \in pairing[s] : pr \subseteq KeptPlayers(s)
          /\ \A pr, o \in pairing[s] : pr \cap o # {} => pr = o
  <2> SUFFICES ASSUME NEW s \in Sessions
               PROVE  /\ pairing[s] \in SUBSET Pairs
                      /\ s \notin prepared => pairing[s] = {}
                      /\ s \in prepared => matches[s] = {}
                      /\ \A pr \in pairing[s] : pr \subseteq KeptPlayers(s)
                      /\ \A pr, o \in pairing[s] : pr \cap o # {} => pr = o
    OBVIOUS
  <2>1. s \in prepared => matches[s] = {}
    BY DEF IInv, PreparedSessions
  <2>2. IF s \in prepared THEN pairing[s] \in Pairings(KeptPlayers(s)) ELSE pairing[s] = {}
    BY DEF PairingChoices
  <2> QED
    BY <2>1, <2>2, PairingsAreOfKeptPlayers
<1>b. \A s \in Sessions :
          /\ KeptIDs(s) \in Seq(Players)
          /\ \A q : HasPlayerID(KeptIDs(s), q) => HasPlayerID(preparedIDs[s], q)
  BY KeptIDsLemma DEF IInv
<1>c. \A s \in Sessions :
          /\ matches'[s] = matches[s] \cup pairing[s]
          /\ status'[s] = IF s \in prepared THEN "Preparing" ELSE status[s]
          /\ \A p \in Players :
                entry'[s][p] = IF \E pr \in pairing[s] : p \in pr THEN NewMatchEntry
                                                                 ELSE entry[s][p]
  BY <1>0
<1>d. NewMatchEntry \in Entries /\ NewMatchEntry.status = "Waiting" /\ NewMatchEntry.outcome = Draw
  BY DEF NewMatchEntry, Entries, EntryStatus, EntryOutcome
<1>e. matches \in [Sessions -> SUBSET Pairs] /\ prepared \subseteq Sessions
  BY DEF IInv, TypeOK
<1>f. \A s \in prepared : status[s] = "Preparing" /\ s \notin counting
  BY DEF IInv, PreparedSessions
<1>g. \A s \in Sessions : s \in prepared =>
          ended[s] = {} /\ \A p \in Players : entry[s][p].status = "None"
  BY <1>a DEF IInv, EndedMatchIsOver, OneMatchPerEntry
<1>1. TypeOK'
  <2>1. /\ status' \in [Sessions -> Status]
        /\ playerIDs' \in [Sessions -> Seq(Players)]
        /\ preparedIDs' \in [Sessions -> Seq(Players)]
    BY <1>0, <1>b DEF IInv, TypeOK, Status
  <2>2. /\ matches' \in [Sessions -> SUBSET Pairs]
        /\ generating' \in [Sessions -> SUBSET Pairs]
    BY <1>0, <1>a DEF IInv, TypeOK
  <2>3. entry' \in [Sessions -> [Players -> Entries]]
    BY <1>0, <1>d DEF IInv, TypeOK
  <2> QED
    BY <1>0, <2>1, <2>2, <2>3 DEF IInv, TypeOK, DaemonSteps
<1>2. FreshSessions'
  BY <1>0, <1>a, <1>c DEF IInv, FreshSessions
<1>3. PreparedSessions'
  BY <1>0 DEF PreparedSessions
<1>4. ClosedSessions'
  BY <1>0, <1>a, <1>c, <1>f DEF IInv, ClosedSessions, TypeOK
<1>5. OneMatchPerEntry'
  <2> SUFFICES ASSUME NEW s \in Sessions
               PROVE  /\ \A pr, o \in matches'[s] : pr \cap o # {} => pr = o
                      /\ \A p \in Players :
                            entry'[s][p].status # "None" <=> \E pr \in matches'[s] : p \in pr
    BY DEF OneMatchPerEntry
  <2>1. CASE s \in prepared
    BY <2>1, <1>a, <1>c, <1>d, <1>g
  <2>2. CASE s \notin prepared
    BY <2>2, <1>a, <1>c DEF IInv, OneMatchPerEntry
  <2> QED
    BY <2>1, <2>2
<1>6. EndedMatchIsOver'
  <2> SUFFICES ASSUME NEW s \in Sessions, NEW pr \in ended[s]
               PROVE  pr \in matches'[s] /\ \A p \in pr : HasEnded(entry'[s][p])
    BY <1>0 DEF EndedMatchIsOver
  <2>1. s \notin prepared
    BY <1>g
  <2>2. pr \in matches[s] /\ \A p \in pr : p \in Players /\ HasEnded(entry[s][p])
    BY <1>e DEF IInv, EndedMatchIsOver, Pairs
  <2> QED
    BY <2>1, <2>2, <1>a, <1>c
<1>7. UnfinishedRaceIsOpen'
  BY <1>a, <1>c DEF IInv, UnfinishedRaceIsOpen
<1>8. OpponentsStartTogether'
  <2> SUFFICES ASSUME NEW s \in Sessions, NEW pr \in matches'[s], NEW p \in pr, NEW q \in pr,
                      entry'[s][p].status = "InProgress"
               PROVE  entry'[s][q].status # "Waiting"
    BY DEF OpponentsStartTogether
  <2>1. p \in Players /\ q \in Players
    BY <1>a, <1>c, <1>e DEF Pairs
  <2>2. CASE s \in prepared
    BY <2>1, <2>2, <1>a, <1>c, <1>d, <1>g
  <2>3. CASE s \notin prepared
    BY <2>1, <2>3, <1>a, <1>c DEF IInv, OpponentsStartTogether
  <2> QED
    BY <2>2, <2>3
<1>9. OutcomesConsistent'
  <2> SUFFICES ASSUME NEW s \in Sessions, NEW p \in Players, NEW q \in Players,
                      p # q, {p, q} \in matches'[s]
               PROVE  OutcomesAgree(entry'[s][p], entry'[s][q])
    BY DEF OutcomesConsistent
  <2>1. CASE s \in prepared
    <3>1. entry'[s][p] = NewMatchEntry /\ entry'[s][q] = NewMatchEntry
      BY <2>1, <1>a, <1>c
    <3> QED
      BY <3>1, <1>d DEF OutcomesAgree, Verdict, Unfinished
  <2>2. CASE s \notin prepared
    BY <2>2, <1>a, <1>c DEF IInv, OutcomesConsistent
  <2> QED
    BY <2>1, <2>2
<1>10. NoRaceBeforeStart'
  BY <1>0, <1>c, <1>d DEF IInv, NoRaceBeforeStart
<1>11. OneEngagement'
  <2>1. ASSUME NEW s \in Sessions, NEW p \in Players, Engaged(s, p)'
        PROVE  Engaged(s, p)
    <3>1. CASE s \in prepared
      <4>1. Unfinished(entry'[s][p])
        BY <2>1, <3>1, <1>0, <1>c DEF Engaged
      <4>2. p \in KeptPlayers(s)
        BY <4>1, <3>1, <1>a, <1>c, <1>g DEF Unfinished
      <4> QED
        BY <3>1, <4>2, <1>b DEF KeptPlayers, Engaged
    <3>2. CASE s \notin prepared
      BY <2>1, <3>2, <1>0, <1>a, <1>c DEF Engaged
    <3> QED
      BY <3>1, <3>2
  <2> QED
    BY <2>1 DEF IInv, OneEngagement
<1> QED
  BY <1>1, <1>2, <1>3, <1>4, <1>5, <1>6, <1>7, <1>8, <1>9, <1>10, <1>11 DEF IInv

-------------------------------------------------------------------------------
(***************************************************************************)
(* The theorems.                                                           *)
(***************************************************************************)

\* Every transaction of the daemon keeps the invariant.
LEMMA DaemonStepInvariant == IInv /\ DaemonStep => IInv'
BY CreateInvariant, JoinableInvariant, PreparingInvariant, MatchMakingInvariant,
   StartInvariant, CloseInvariant, AnnounceInvariant DEF DaemonStep

\* Every step of a goroutine keeps the invariant.
LEMMA GoroutineStepInvariant == IInv /\ GoroutineStep => IInv'
<1> SUFFICES ASSUME IInv, NEW s \in Sessions,
                    \/ StartSession(s)
                    \/ StartSessionFails(s)
                    \/ \E pr \in Pairs : GenerateMatchSeed(s, pr) \/ GenerateMatchSeedFails(s, pr)
             PROVE  IInv'
  BY DEF GoroutineStep
<1>1. CASE StartSession(s)
  BY <1>1, StartSessionInvariant
<1>2. CASE StartSessionFails(s)
  BY <1>2, StartFailsInvariant
<1>3. ASSUME NEW pr \in Pairs, GenerateMatchSeed(s, pr) PROVE IInv'
  BY <1>3, SeedInvariant
<1>4. ASSUME NEW pr \in Pairs, GenerateMatchSeedFails(s, pr) PROVE IInv'
  BY <1>4, SeedFailsInvariant
<1> QED
  BY <1>1, <1>2, <1>3, <1>4

\* Every command of a player keeps the invariant.
LEMMA PlayerStepInvariant == IInv /\ PlayerStep => IInv'
<1> SUFFICES ASSUME IInv, NEW s \in Sessions, NEW p \in Players, NEW q \in Players,
                    \/ JoinCurrentMatchSessionByShortcode(p, s)
                    \/ JoinMatchSessionByID(p, s)
                    \/ CancelActiveMatchSession(p, s)
                    \/ ForfeitActiveMatch(s, p, q)
                    \/ CompleteActiveMatch(s, p, q)
             PROVE  IInv'
  BY DEF PlayerStep
<1>1. CASE JoinCurrentMatchSessionByShortcode(p, s)
  BY <1>1, JoinInvariant DEF JoinCurrentMatchSessionByShortcode
<1>2. CASE JoinMatchSessionByID(p, s)
  BY <1>2, JoinInvariant DEF JoinMatchSessionByID
<1>3. CASE CancelActiveMatchSession(p, s)
  BY <1>3, CancelInvariant
<1>4. CASE ForfeitActiveMatch(s, p, q)
  BY <1>4, ForfeitInvariant
<1>5. CASE CompleteActiveMatch(s, p, q)
  BY <1>5, CompleteInvariant
<1> QED
  BY <1>1, <1>2, <1>3, <1>4, <1>5

\* The invariant is about the state alone.
LEMMA StutterInvariant == IInv /\ UNCHANGED vars => IInv'
<1> SUFFICES ASSUME IInv, UNCHANGED vars PROVE IInv'
  OBVIOUS
<1> USE DEF vars, clockVars, sessionVars, matchVars, daemonVars, countVars, boundVars
<1>1. TypeOK'
  BY DEF IInv, TypeOK
<1> QED
  BY <1>1, TablesUnchanged DEF IInv, TypeOK

\* Whatever step is taken, by whom.
LEMMA InductiveStep == IInv /\ [Next]_vars => IInv'
  BY DaemonStepInvariant, DaemonFailsInvariant, GoroutineStepInvariant, PlayerStepInvariant,
     TickInvariant, StopInvariant, BootInvariant, StutterInvariant DEF Next

\* The inductive invariant holds in every reachable state, for any players,
\* schedule, offsets and bounds.
THEOREM Invariance == Spec => []IInv
  BY InductiveStep, InitInvariant, PTL DEF Spec

\* Every variable keeps its type, the copies in memory and the tables alike.
THEOREM TypeCorrect == Spec => []TypeOK
<1>1. IInv => TypeOK
  BY DEF IInv
<1> QED
  BY <1>1, Invariance, PTL

\* No player ever has two races to run at once: the checks made when he joins
\* hold until matchmaking and start, whichever other daemon, goroutine or
\* player steps come between (back_racing.go, ensurePlayerHasNoActiveMatch).
THEOREM OneActiveRaceHolds == Spec => []OneActiveRace
<1>1. IInv => OneActiveRace
  BY DEF IInv, OneEngagement, Engaged, OneActiveRace, StartedActive
<1> QED
  BY <1>1, Invariance, PTL

\* The results of a session are published only once nobody is racing there,
\* although closing and announcing are two transactions (back_periodic.go,
\* closeMatchSessionsAndUpdateRanks).
THEOREM RecapHolds == Spec => []RecapOnlyWhenAllEnded
<1>1. IInv => RecapOnlyWhenAllEnded
  BY DEF IInv, ClosedSessions, RecapOnlyWhenAllEnded
<1> QED
  BY <1>1, Invariance, PTL

\* Each registered player is in one match of a session at most, whoever joins
\* and cancels while the daemon works on its copies (back_matchmaking.go).
THEOREM OneMatchHolds == Spec => []OneMatchPerEntry
<1>1. IInv => OneMatchPerEntry
  BY DEF IInv
<1> QED
  BY <1>1, Invariance, PTL

\* The two outcomes of a match are the ones its two races deserve, in every order
\* of starts, completions and forfeits (match_entry.go).
THEOREM OutcomesHold == Spec => []OutcomesConsistent
<1>1. IInv => OutcomesConsistent
  BY DEF IInv
<1> QED
  BY <1>1, Invariance, PTL

\* Opponents start together and at the date, a session is open while somebody of
\* it races, and a match marked ended is over (match_session.go, match.go).
THEOREM RacesAreAlwaysFair == Spec => []RacesAreFair
<1>1. IInv => RacesAreFair
  BY DEF IInv, RacesAreFair
<1> QED
  BY <1>1, Invariance, PTL

-------------------------------------------------------------------------------

\* What ResultsAreFinal asks of a step.
FinalStep ==
    \A s \in Sessions : \A pr \in matches[s] :
        (\A p \in pr : HasEnded(entry[s][p])) =>
            pr \in matches'[s] /\ \A p \in pr : entry'[s][p] = entry[s][p]

\* Matchmaking adds matches and rewrites none.
LEMMA MatchMakingIsFinal == IInv /\ DoMatchMaking => FinalStep
<1> SUFFICES ASSUME IInv, DoMatchMaking, NEW s \in Sessions, NEW pr \in matches[s]
             PROVE  pr \in matches'[s] /\ \A p \in pr : entry'[s][p] = entry[s][p]
  BY DEF FinalStep
<1>1. PICK pairing \in PairingChoices :
      /\ matches' = [t \in Sessions |-> matches[t] \cup pairing[t]]
      /\ entry' = [t \in Sessions |-> [p \in Players |->
                      IF \E o \in pairing[t] : p \in o THEN NewMatchEntry ELSE entry[t][p]]]
  BY DEF DoMatchMaking
<1>2. s \notin prepared
  BY DEF IInv, PreparedSessions
<1>3. pairing[s] = {}
  BY <1>2 DEF PairingChoices
<1>4. pr \subseteq Players
  BY DEF IInv, TypeOK, Pairs
<1> QED
  BY <1>1, <1>3, <1>4

\* Starting a session rewrites no entry that has ended.
LEMMA StartIsFinal ==
    ASSUME IInv, NEW s \in Sessions, StartSession(s)
    PROVE  FinalStep
<1> SUFFICES ASSUME NEW t \in Sessions, NEW pr \in matches[t],
                    \A p \in pr : HasEnded(entry[t][p])
             PROVE  pr \in matches'[t] /\ \A p \in pr : entry'[t][p] = entry[t][p]
  BY DEF FinalStep
<1>1. /\ entry' = [entry EXCEPT ![s] = StartedEntries(s, matches[s] \ started[s])]
      /\ matches' = matches
  BY DEF StartSession
<1>2. \A p \in pr : p \in Players /\ entry[t][p] \in Entries
  BY DEF IInv, TypeOK, Pairs
<1>3. \A p \in pr : StartedEntry(entry[t][p]) = entry[t][p]
  BY <1>2, StartedEntryLemma
<1> QED
  BY <1>1, <1>2, <1>3 DEF StartedEntries, IInv, TypeOK

\* A player cannot end a race that both players have ended.
LEMMA EndRaceIsFinal ==
    ASSUME IInv, NEW s \in Sessions, NEW p \in Players, NEW q \in Players,
           IsActiveMatch(s, p, q), NEW mine, NEW theirs,
           entry' = [entry EXCEPT ![s][p] = mine, ![s][q] = theirs],
           matches' = matches
    PROVE  FinalStep
<1> SUFFICES ASSUME NEW t \in Sessions, NEW pr \in matches[t],
                    \A r \in pr : HasEnded(entry[t][r])
             PROVE  \A r \in pr : entry'[t][r] = entry[t][r]
  BY DEF FinalStep
<1>1. /\ p # q /\ {p, q} \in matches[s]
      /\ Unfinished(entry[s][p])
  BY ActiveMatchIsRunning
<1>2. ~HasEnded(entry[s][p])
  BY <1>1 DEF Unfinished, HasEnded
<1>3. t = s => p \notin pr /\ q \notin pr
  BY <1>1, <1>2 DEF IInv, OneMatchPerEntry
<1>4. pr \subseteq Players
  BY DEF IInv, TypeOK, Pairs
<1> QED
  BY <1>3, <1>4 DEF IInv, TypeOK

\* No step of the daemon, of a goroutine, of a player or of time rewrites the
\* entries of a match that both players have ended.
LEMMA EveryStepIsFinal == IInv /\ [Next]_vars => [FinalStep]_vars
<1> SUFFICES ASSUME IInv, Next PROVE FinalStep
  OBVIOUS
<1>1. ASSUME UNCHANGED <<matches, entry>> PROVE FinalStep
  BY <1>1 DEF FinalStep
<1>2. CASE DaemonStep
  <2>1. CASE DoMatchMaking
    BY <2>1, MatchMakingIsFinal
  <2>2. CASE ~DoMatchMaking
    BY <1>2, <2>2, <1>1 DEF DaemonStep, CreateNextScheduledMatchSessions,
       MakeMatchSessionsJoinable, MakeMatchSessionsPreparing, StartMatchSessions,
       CloseMatchSessions, AnnounceClosedSessions, matchVars
  <2> QED
    BY <2>1, <2>2
<1>3. CASE GoroutineStep
  <2>1. PICK s \in Sessions : \/ StartSession(s)
                              \/ StartSessionFails(s)
                              \/ \E pr \in Pairs : \/ GenerateMatchSeed(s, pr)
                                                   \/ GenerateMatchSeedFails(s, pr)
    BY <1>3 DEF GoroutineStep
  <2>2. CASE StartSession(s)
    BY <2>2, StartIsFinal
  <2>3. CASE ~StartSession(s)
    BY <2>1, <2>3, <1>1 DEF StartSessionFails, GenerateMatchSeed, GenerateMatchSeedFails,
       matchVars
  <2> QED
    BY <2>2, <2>3
<1>4. CASE PlayerStep
  <2>1. ASSUME NEW s \in Sessions, NEW p \in Players, NEW q \in Players,
               ForfeitActiveMatch(s, p, q) \/ CompleteActiveMatch(s, p, q)
        PROVE  FinalStep
    BY <2>1, EndRaceIsFinal DEF ForfeitActiveMatch, CompleteActiveMatch
  <2>2. ASSUME NEW s \in Sessions, NEW p \in Players,
               \/ JoinCurrentMatchSessionByShortcode(p, s)
               \/ JoinMatchSessionByID(p, s)
               \/ CancelActiveMatchSession(p, s)
        PROVE  FinalStep
    BY <2>2, <1>1 DEF JoinCurrentMatchSessionByShortcode, JoinMatchSessionByID,
       JoinMatchSession, CancelActiveMatchSession, matchVars
  <2> QED
    BY <1>4, <2>1, <2>2 DEF PlayerStep
<1>5. CASE DaemonFails \/ Tick \/ Stop \/ Boot
  BY <1>5, <1>1 DEF DaemonFails, Tick, Stop, Boot, matchVars
<1> QED
  BY <1>2, <1>3, <1>4, <1>5 DEF Next

\* Once both players of a match have ended their race no step rewrites their
\* entries (match_entry.go, start, forfeit and complete).
THEOREM ResultsAreFinalHolds == Spec => ResultsAreFinal
  BY EveryStepIsFinal, Invariance, PTL DEF Spec, ResultsAreFinal, FinalStep
===============================================================================
