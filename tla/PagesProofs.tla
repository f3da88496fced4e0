------------------------------ MODULE PagesProofs ------------------------------
(***************************************************************************)
(* No page shows what somebody may not see yet, for any people, sessions   *)
(* and admins.                                                             *)
(*                                                                         *)
(* A request is answered on what it read in an earlier transaction.  What  *)
(* makes this right is that a race which has ended stays so: whatever was  *)
(* open when it was read is open when it is shown.                         *)
(***************************************************************************)
EXTENDS Pages, MatchSessionsProofs

(***************************************************************************)
(* The inductive invariant.                                                *)
(***************************************************************************)

\* A spoiler log is that of a match with a row.
LogsOfMatches == \A s \in Sessions, pr \in Pairs : <<s, pr>> \in spoilers => pr \in matches[s]

BothHaveEnded(s, pr) == \A p \in pr : HasEnded(entry[s][p])

\* What was read of a match is still true of it.
LogRequest ==
    request.page = "spoilers" =>
        LET s == request.session
            pr == request.match
        IN  /\ s \in Sessions /\ pr \in matches[s]
            /\ request.as \in {request.by, Nobody}
            /\ request.open => \/ BothHaveEnded(s, pr)
                               \/ request.as \in pr /\ HasEnded(entry[s][request.as])
            /\ answer = "unchecked" => request.as \in Admins
            /\ answer = "shown" /\ ~request.open =>
                  /\ request.as \in Admins
                  /\ request.as \in pr => HasEnded(entry[s][request.as])

\* The results that were read of a session, all of whose matches had ended, are
\* still those of all its matches.
SessionRequest ==
    request.page = "session" =>
        LET s == request.session
        IN  /\ s \in Sessions
            /\ request.open /\ DOMAIN request.results # {} =>
                  /\ DOMAIN request.results = UNION matches[s]
                  /\ \A pr \in matches[s] : BothHaveEnded(s, pr)
                  /\ \A p \in DOMAIN request.results : entry[s][p] = request.results[p]
            /\ IsShown /\ ~request.open => request.as \in Admins

PagesInv ==
    /\ IInv
    /\ PagesTypeOK
    /\ LogsOfMatches
    /\ LogRequest
    /\ SessionRequest

-------------------------------------------------------------------------------
(***************************************************************************)
(* What the races do meanwhile.                                            *)
(***************************************************************************)

\* The steps of the site are steps of the races, or none.
LEMMA SiteStepsAreRaceSteps == [PagesNext]_siteVars => [Next]_vars
<1> SUFFICES ASSUME [PagesNext]_siteVars PROVE [Next]_vars
  OBVIOUS
<1>1. RaceStep => Next
  BY DEF RaceStep, Registrations, Races, Next, GoroutineStep, PlayerStep
<1>2. SeedIsStored => Next
  BY DEF SeedIsStored, Next, GoroutineStep
<1>3. CASE UNCHANGED siteVars
  BY <1>3 DEF siteVars
<1>4. ASSUME NEW p \in Players, RegisterDiscordPlayer(p) \/ authDiscord(p) \/ CookieEnds(p)
      PROVE  UNCHANGED vars
  BY <1>4 DEF RegisterDiscordPlayer, authDiscord, CookieEnds
<1>5. ASSUME NEW p \in People, NEW s \in Sessions,
             OpenSession(p, s) \/ \E pr \in Pairs : OpenSpoilerLog(p, s, pr)
      PROVE  UNCHANGED vars
  BY <1>5 DEF OpenSession, OpenSpoilerLog
<1>6. AnswerRequest \/ AnswerUnchecked => UNCHANGED vars
  BY DEF AnswerRequest, AnswerUnchecked
<1> QED
  BY <1>1, <1>2, <1>3, <1>4, <1>5, <1>6 DEF PagesNext

\* What a step of the races leaves true: the matches of a session are created
\* all at once, and whoever has ended his race has ended it for good.
GoesOn ==
    \A s \in Sessions :
        /\ matches[s] \subseteq matches'[s]
        /\ matches[s] # {} => matches'[s] = matches[s]
        /\ \A p \in Players : HasEnded(entry[s][p]) => HasEnded(entry'[s][p])

\* Matchmaking pairs nobody who already has an entry in the session.
LEMMA MatchMakingGoesOn == IInv /\ DoMatchMaking => GoesOn
<1> SUFFICES ASSUME IInv, DoMatchMaking, NEW s \in Sessions
             PROVE  /\ matches[s] \subseteq matches'[s]
                    /\ matches[s] # {} => matches'[s] = matches[s]
                    /\ \A p \in Players : HasEnded(entry[s][p]) => HasEnded(entry'[s][p])
  BY DEF GoesOn
<1>1. PICK pairing \in PairingChoices :
      /\ matches' = [t \in Sessions |-> matches[t] \cup pairing[t]]
      /\ entry' = [t \in Sessions |-> [p \in Players |->
                      IF \E o \in pairing[t] : p \in o THEN NewMatchEntry ELSE entry[t][p]]]
  BY DEF DoMatchMaking
<1>2. s \notin prepared => pairing[s] = {}
  BY DEF PairingChoices
<1>3. s \in prepared => matches[s] = {}
  BY DEF IInv, PreparedSessions
<1>4. ASSUME s \in prepared, NEW p \in Players PROVE ~HasEnded(entry[s][p])
  BY <1>3, <1>4 DEF IInv, OneMatchPerEntry, HasEnded
<1> QED
  BY <1>1, <1>2, <1>3, <1>4

\* A start only lets go those who wait.
LEMMA StartGoesOn ==
    ASSUME IInv, NEW s \in Sessions, StartSession(s)
    PROVE  GoesOn
<1>1. /\ entry' = [entry EXCEPT ![s] = StartedEntries(s, matches[s] \ started[s])]
      /\ matches' = matches
  BY DEF StartSession
<1>2. \A p \in Players : entry[s][p] \in Entries
  BY DEF IInv, TypeOK
<1>3. \A p \in Players : HasEnded(entry[s][p]) => StartedEntry(entry[s][p]) = entry[s][p]
  BY <1>2, StartedEntryLemma
<1> QED
  BY <1>1, <1>2, <1>3 DEF GoesOn, StartedEntries, IInv, TypeOK

\* Who ends his race has ended it, and has not changed the status of the other.
LEMMA EndRaceGoesOn ==
    ASSUME IInv, NEW s \in Sessions, NEW p \in Players, NEW q \in Players, p # q,
           NEW mine, HasEnded(mine),
           NEW theirs, theirs.status = entry[s][q].status,
           entry' = [entry EXCEPT ![s][p] = mine, ![s][q] = theirs],
           matches' = matches
    PROVE  GoesOn
  BY DEF GoesOn, HasEnded, IInv, TypeOK

\* Whatever step is taken, by whom.
LEMMA EveryStepGoesOn == IInv /\ [Next]_vars => GoesOn
<1> SUFFICES ASSUME IInv, [Next]_vars PROVE GoesOn
  OBVIOUS
<1>1. ASSUME UNCHANGED <<matches, entry>> PROVE GoesOn
  BY <1>1 DEF GoesOn
<1>2. CASE DaemonStep
  <2>1. CASE DoMatchMaking
    BY <2>1, MatchMakingGoesOn
  <2>2. CASE ~DoMatchMaking
    BY <1>2, <2>2, <1>1 DEF DaemonStep, CreateNextScheduledMatchSessions,
       MakeMatchSessionsJoinable, MakeMatchSessionsPreparing, StartMatchSessions,
       CloseMatchSessions, AnnounceClosedSessions, matchVars
  <2> QED
    BY <2>1, <2>2
<1>3. CASE GoroutineStep
  <2>1. PICK s \in Sessions : \/ StartSession(s)
                              \/ StartSessionFails(s)
                              \/ \E pr \in Pairs : \/ GenerateMatchSeed(s, pr)
                                                   \/ GenerateMatchSeedFails(s, pr)
    BY <1>3 DEF GoroutineStep
  <2>2. CASE StartSession(s)
    BY <2>2, StartGoesOn
  <2>3. CASE ~StartSession(s)
    BY <2>1, <2>3, <1>1 DEF StartSessionFails, GenerateMatchSeed, GenerateMatchSeedFails,
       matchVars
  <2> QED
    BY <2>2, <2>3
<1>4. CASE PlayerStep
  <2>1. ASSUME NEW s \in Sessions, NEW p \in Players, NEW q \in Players,
               ForfeitActiveMatch(s, p, q)
        PROVE  GoesOn
    <3>1. /\ HasEnded(Forfeited(entry[s][q]))
          /\ AgainstForfeit(entry[s][q]).status = entry[s][q].status
      BY DEF HasEnded, Forfeited, AgainstForfeit, IInv, TypeOK, Entries
    <3>2. p # q
      BY <2>1 DEF ForfeitActiveMatch, IsActiveMatch
    <3> QED
      BY <2>1, <3>1, <3>2, EndRaceGoesOn DEF ForfeitActiveMatch
  <2>2. ASSUME NEW s \in Sessions, NEW p \in Players, NEW q \in Players,
               CompleteActiveMatch(s, p, q)
        PROVE  GoesOn
    <3>1. /\ HasEnded(Completed(entry[s][q]))
          /\ AgainstCompletion(entry[s][q]).status = entry[s][q].status
      BY DEF HasEnded, Completed, AgainstCompletion, IInv, TypeOK, Entries
    <3>2. p # q
      BY <2>2 DEF CompleteActiveMatch, IsActiveMatch
    <3> QED
      BY <2>2, <3>1, <3>2, EndRaceGoesOn DEF CompleteActiveMatch
  <2>3. ASSUME NEW s \in Sessions, NEW p \in Players,
               \/ JoinCurrentMatchSessionByShortcode(p, s)
               \/ JoinMatchSessionByID(p, s)
               \/ CancelActiveMatchSession(p, s)
        PROVE  GoesOn
    BY <2>3, <1>1 DEF JoinCurrentMatchSessionByShortcode, JoinMatchSessionByID,
       JoinMatchSession, CancelActiveMatchSession, matchVars
  <2> QED
    BY <1>4, <2>1, <2>2, <2>3 DEF PlayerStep
<1>5. CASE DaemonFails \/ Tick \/ Stop \/ Boot
  BY <1>5, <1>1 DEF DaemonFails, Tick, Stop, Boot, matchVars
<1>6. CASE UNCHANGED vars
  BY <1>6, <1>1 DEF vars, matchVars
<1> QED
  BY <1>2, <1>3, <1>4, <1>5, <1>6 DEF Next

-------------------------------------------------------------------------------
(***************************************************************************)
(* Steps of the races keep what was read true.                             *)
(***************************************************************************)

\* A player in a pair is a player.
LEMMA PairsAreOfPlayers == \A pr \in Pairs : pr \subseteq Players
  BY DEF Pairs

\* What was read of a match stays true of it, whatever the races do.
LEMMA LogRequestKept ==
    ASSUME PagesInv, GoesOn, UNCHANGED <<request, answer>>
    PROVE  LogRequest'
<1> SUFFICES ASSUME request.page = "spoilers" PROVE LogRequest'
  BY DEF LogRequest
<1> DEFINE s == request.session
           pr == request.match
<1>1. /\ s \in Sessions /\ pr \in matches[s]
      /\ request.as \in {request.by, Nobody}
      /\ request.open => \/ BothHaveEnded(s, pr)
                         \/ request.as \in pr /\ HasEnded(entry[s][request.as])
      /\ answer = "unchecked" => request.as \in Admins
      /\ answer = "shown" /\ ~request.open =>
            /\ request.as \in Admins
            /\ request.as \in pr => HasEnded(entry[s][request.as])
  BY DEF PagesInv, LogRequest
<1>2. pr \subseteq Players
  BY <1>1, PairsAreOfPlayers DEF PagesInv, IInv, TypeOK
<1>3. pr \in matches'[s] /\ \A p \in pr : HasEnded(entry[s][p]) => HasEnded(entry'[s][p])
  BY <1>1, <1>2 DEF GoesOn
<1> QED
  BY <1>1, <1>3 DEF LogRequest, BothHaveEnded, HasEnded

\* The results of a session that was over when it was read do not change.
LEMMA SessionRequestKept ==
    ASSUME PagesInv, GoesOn, FinalStep, UNCHANGED <<request, answer>>
    PROVE  SessionRequest'
<1> SUFFICES ASSUME request.page = "session" PROVE SessionRequest'
  BY DEF SessionRequest
<1> DEFINE s == request.session
<1>1. s \in Sessions /\ (IsShown /\ ~request.open => request.as \in Admins)
  BY DEF PagesInv, SessionRequest
<1>2. ASSUME request.open, DOMAIN request.results # {}
      PROVE  /\ DOMAIN request.results = UNION matches'[s]
             /\ \A pr \in matches'[s] : BothHaveEnded(s, pr)'
             /\ \A p \in DOMAIN request.results : entry'[s][p] = request.results[p]
  <2>1. /\ DOMAIN request.results = UNION matches[s]
        /\ \A pr \in matches[s] : \A p \in pr : HasEnded(entry[s][p])
        /\ \A p \in DOMAIN request.results : entry[s][p] = request.results[p]
    BY <1>2 DEF PagesInv, SessionRequest, BothHaveEnded
  <2>2. matches[s] # {}
    BY <1>2, <2>1
  <2>3. matches'[s] = matches[s]
    BY <1>1, <2>2 DEF GoesOn
  <2>4. \A pr \in matches[s] : \A p \in pr : entry'[s][p] = entry[s][p]
    BY <1>1, <2>1 DEF FinalStep
  <2> QED
    BY <2>1, <2>3, <2>4 DEF BothHaveEnded, HasEnded
<1> QED
  BY <1>1, <1>2 DEF SessionRequest, BothHaveEnded, IsShown

\* A step of the races preserves the invariant if the site only learns of logs of
\* matches.
LEMMA RacesKeepInvariant ==
    ASSUME PagesInv, [Next]_vars, UNCHANGED <<account, cookie, request, answer>>,
           spoilers' \in SUBSET (Sessions \X Pairs), LogsOfMatches'
    PROVE  PagesInv'
<1>1. IInv'
  BY InductiveStep DEF PagesInv
<1>2. GoesOn
  BY EveryStepGoesOn DEF PagesInv
<1>3. FinalStep
  <2>1. UNCHANGED vars => FinalStep
    BY DEF vars, matchVars, FinalStep
  <2> QED
    BY <2>1, EveryStepIsFinal DEF PagesInv
<1>4. PagesTypeOK'
  BY DEF PagesInv, PagesTypeOK
<1> QED
  BY <1>1, <1>2, <1>3, <1>4, LogRequestKept, SessionRequestKept DEF PagesInv

\* The logs that are stored remain those of matches.
LEMMA LogsKept ==
    ASSUME PagesInv, [Next]_vars, UNCHANGED spoilers
    PROVE  spoilers' \in SUBSET (Sessions \X Pairs) /\ LogsOfMatches'
<1>1. GoesOn
  BY EveryStepGoesOn DEF PagesInv
<1> QED
  BY <1>1 DEF PagesInv, PagesTypeOK, LogsOfMatches, GoesOn

\* A seed is stored with its log.
LEMMA SeedIsStoredInvariant ==
    ASSUME PagesInv, SeedIsStored, UNCHANGED <<account, cookie, request, answer>>
    PROVE  PagesInv'
<1>1. [Next]_vars
  BY DEF SeedIsStored, Next, GoroutineStep
<1>2. PICK s \in Sessions, pr \in Pairs :
        /\ GenerateMatchSeed(s, pr)
        /\ spoilers' = IF pr \in matches[s] THEN spoilers \cup {<<s, pr>>} ELSE spoilers
  BY DEF SeedIsStored
<1>3. matches' = matches
  BY <1>2 DEF GenerateMatchSeed
<1>4. spoilers' \in SUBSET (Sessions \X Pairs)
  BY <1>2 DEF PagesInv, PagesTypeOK
<1>5. LogsOfMatches'
  BY <1>2, <1>3 DEF PagesInv, LogsOfMatches
<1> QED
  BY <1>1, <1>4, <1>5, RacesKeepInvariant

\* Accounts and cookies are no part of what was read.
LEMMA AccountInvariant ==
    ASSUME PagesInv, NEW p \in Players,
           RegisterDiscordPlayer(p) \/ authDiscord(p) \/ CookieEnds(p)
    PROVE  PagesInv'
<1>1. UNCHANGED <<vars, spoilers, request, answer>>
  BY DEF RegisterDiscordPlayer, authDiscord, CookieEnds
<1>2. account' \in SUBSET Players /\ cookie' \in SUBSET account'
  BY DEF RegisterDiscordPlayer, authDiscord, CookieEnds, PagesInv, PagesTypeOK
<1>3. IInv' /\ GoesOn /\ FinalStep
  BY <1>1, InductiveStep, EveryStepGoesOn, EveryStepIsFinal
  DEF PagesInv, vars, matchVars, FinalStep
<1>4. PagesTypeOK'
  BY <1>1, <1>2 DEF PagesInv, PagesTypeOK
<1>5. LogsOfMatches'
  BY <1>1, LogsKept DEF PagesInv
<1> QED
  BY <1>1, <1>3, <1>4, <1>5, LogRequestKept, SessionRequestKept DEF PagesInv

\* The request for a log reads a match, and whether it is over for somebody.
LEMMA OpenSpoilerLogInvariant ==
    ASSUME PagesInv, NEW p \in People, NEW s \in Sessions, NEW pr \in Pairs,
           OpenSpoilerLog(p, s, pr)
    PROVE  PagesInv'
<1> DEFINE open == pr \in ended[s] \/ OwnRaceHasEnded(s, pr, Authenticated(p))
           r == [page |-> "spoilers", by |-> p, as |-> Authenticated(p),
                 open |-> open, session |-> s, match |-> pr]
<1>1. /\ request' = r /\ answer' = "none" /\ <<s, pr>> \in spoilers
      /\ UNCHANGED <<vars, account, cookie, spoilers>>
  BY DEF OpenSpoilerLog
<1>2. IInv'
  BY <1>1, InductiveStep DEF PagesInv
<1>3. LogsOfMatches'
  BY <1>1, LogsKept DEF PagesInv
<1>4. Authenticated(p) \in {p, Nobody}
  BY DEF Authenticated
<1>5. open \in BOOLEAN
  BY DEF OwnRaceHasEnded
<1>6. PagesTypeOK'
  <2> HIDE DEF open
  <2>1. r \in Requests
    BY <1>4, <1>5 DEF Requests
  <2> QED
    BY <1>1, <2>1 DEF PagesInv, PagesTypeOK
<1>7. pr \in matches[s]
  BY <1>1 DEF PagesInv, LogsOfMatches
<1>8. open => \/ BothHaveEnded(s, pr)
              \/ Authenticated(p) \in pr /\ HasEnded(entry[s][Authenticated(p)])
  BY DEF PagesInv, IInv, EndedMatchIsOver, OwnRaceHasEnded, BothHaveEnded
<1>9. LogRequest'
  <2> HIDE DEF open
  <2> QED
    BY <1>1, <1>4, <1>7, <1>8 DEF LogRequest, BothHaveEnded, vars, matchVars
<1>10. SessionRequest'
  BY <1>1 DEF SessionRequest
<1> QED
  BY <1>2, <1>3, <1>6, <1>9, <1>10 DEF PagesInv

\* The request for a session reads its matches and their entries.
LEMMA OpenSessionInvariant ==
    ASSUME PagesInv, NEW p \in People, NEW s \in Sessions, OpenSession(p, s)
    PROVE  PagesInv'
<1> DEFINE open == AllMatchesHaveEnded(s)
           results == [q \in UNION matches[s] |-> entry[s][q]]
           r == [page |-> "session", by |-> p, as |-> Authenticated(p),
                 open |-> open, session |-> s, results |-> results]
<1>1. /\ request' = r /\ answer' = "none"
      /\ UNCHANGED <<vars, account, cookie, spoilers>>
  BY DEF OpenSession
<1>2. IInv'
  BY <1>1, InductiveStep DEF PagesInv
<1>3. LogsOfMatches'
  BY <1>1, LogsKept DEF PagesInv
<1>4. Authenticated(p) \in {p, Nobody}
  BY DEF Authenticated
<1>5. open \in BOOLEAN
  BY DEF AllMatchesHaveEnded
<1>6. UNION matches[s] \subseteq Players /\ \A q \in Players : entry[s][q] \in Entries
  BY PairsAreOfPlayers DEF PagesInv, IInv, TypeOK
<1>7. PagesTypeOK'
  <2> HIDE DEF open
  <2>1. results \in [UNION matches[s] -> Entries]
    BY <1>6
  <2>2. results \in UNION {[S -> Entries] : S \in SUBSET Players}
    BY <1>6, <2>1
  <2> HIDE DEF results
  <2>3. r \in Requests
    BY <1>4, <1>5, <2>2 DEF Requests
  <2> QED
    BY <1>1, <2>3 DEF PagesInv, PagesTypeOK
<1>8. open => \A pr \in matches[s] : BothHaveEnded(s, pr)
  BY DEF PagesInv, IInv, EndedMatchIsOver, AllMatchesHaveEnded, BothHaveEnded
<1>9. SessionRequest'
  <2> HIDE DEF open
  <2> QED
    BY <1>1, <1>8 DEF SessionRequest, BothHaveEnded, IsShown, vars, matchVars
<1>10. LogRequest'
  BY <1>1 DEF LogRequest
<1> QED
  BY <1>2, <1>3, <1>7, <1>9, <1>10 DEF PagesInv

\* A racer who has not ended his race is no admin (auth.go, isPlayerAdmin).
LEMMA AdminsHaveEnded ==
    ASSUME IInv, NEW s \in Sessions, NEW pr \in matches[s], NEW p \in pr, IsAdmin(p)
    PROVE  HasEnded(entry[s][p])
<1>1. p \in Players
  BY PairsAreOfPlayers DEF IInv, TypeOK
<1>2. ~Unfinished(entry[s][p])
  BY <1>1 DEF IsAdmin, IsInSession, HasActiveSession, StartedActive
<1>3. entry[s][p].status # "None"
  BY <1>1 DEF IInv, OneMatchPerEntry
<1> QED
  BY <1>1, <1>2, <1>3 DEF IInv, TypeOK, Entries, EntryStatus, Unfinished, HasEnded

\* The answer is given on what was read, or because an admin asks, checked or not.
LEMMA AnswerInvariant == PagesInv /\ (AnswerRequest \/ AnswerUnchecked) => PagesInv'
<1> SUFFICES ASSUME PagesInv, AnswerRequest \/ AnswerUnchecked PROVE PagesInv'
  OBVIOUS
<1>1. /\ answer' = "shown" => request.open \/ IsAdmin(request.as)
      /\ answer' = "unchecked" => request.as \in Admins
      /\ answer' \in {"shown", "unchecked", "refused"}
      /\ UNCHANGED <<vars, account, cookie, spoilers, request>>
  BY DEF AnswerRequest, AnswerUnchecked
<1>2. IInv'
  BY <1>1, InductiveStep DEF PagesInv
<1>3. LogsOfMatches'
  BY <1>1, LogsKept DEF PagesInv
<1>4. PagesTypeOK'
  BY <1>1 DEF PagesInv, PagesTypeOK
<1>5. matches' = matches /\ entry' = entry
  BY <1>1 DEF vars, matchVars
<1>6. LogRequest'
  <2> SUFFICES ASSUME request.page = "spoilers" PROVE LogRequest'
    BY <1>1 DEF LogRequest
  <2> DEFINE s == request.session
             pr == request.match
  <2>1. /\ s \in Sessions /\ pr \in matches[s]
        /\ request.as \in {request.by, Nobody}
        /\ request.open => \/ BothHaveEnded(s, pr)
                           \/ request.as \in pr /\ HasEnded(entry[s][request.as])
    BY DEF PagesInv, LogRequest
  <2>2. IsAdmin(request.as) =>
          request.as \in Admins /\ (request.as \in pr => HasEnded(entry[s][request.as]))
    BY <2>1, AdminsHaveEnded DEF PagesInv, IsAdmin
  <2> QED
    BY <1>1, <1>5, <2>1, <2>2 DEF LogRequest, BothHaveEnded
<1>7. SessionRequest'
  BY <1>1, <1>5 DEF PagesInv, SessionRequest, BothHaveEnded, IsAdmin, IsShown
<1> QED
  BY <1>2, <1>3, <1>4, <1>6, <1>7 DEF PagesInv

-------------------------------------------------------------------------------

\* Before anybody asks for a page.
LEMMA PagesInitInvariant == PagesInit => PagesInv
<1> SUFFICES ASSUME PagesInit PROVE PagesInv
  OBVIOUS
<1>1. IInv
  BY InitInvariant DEF PagesInit
<1>2. /\ account = {} /\ cookie = {} /\ spoilers = {}
      /\ request = NoRequest /\ answer = "none"
  BY DEF PagesInit
<1>3. PagesTypeOK
  BY <1>2 DEF PagesTypeOK
<1> QED
  BY <1>1, <1>2, <1>3
  DEF PagesInv, LogsOfMatches, LogRequest, SessionRequest, NoRequest, IsShown

\* PagesInv holds in every reachable state, for any players, visitors, admins and
\* sessions.
THEOREM PagesInvariant == PagesSpec => []PagesInv
<1>1. PagesInv /\ [PagesNext]_siteVars => PagesInv'
  <2> SUFFICES ASSUME PagesInv, [PagesNext]_siteVars PROVE PagesInv'
    OBVIOUS
  <2>1. [Next]_vars
    BY SiteStepsAreRaceSteps
  <2>2. CASE RaceStep /\ UNCHANGED <<account, cookie, request, answer>>
    <3>1. UNCHANGED spoilers
      BY <2>2 DEF RaceStep
    <3> QED
      BY <2>1, <2>2, <3>1, LogsKept, RacesKeepInvariant
  <2>3. CASE SeedIsStored /\ UNCHANGED <<account, cookie, request, answer>>
    BY <2>3, SeedIsStoredInvariant
  <2>4. CASE \E p \in Players : RegisterDiscordPlayer(p) \/ authDiscord(p) \/ CookieEnds(p)
    BY <2>4, AccountInvariant
  <2>5. CASE \E p \in People, s \in Sessions : OpenSession(p, s)
    BY <2>5, OpenSessionInvariant
  <2>6. CASE \E p \in People, s \in Sessions, pr \in Pairs : OpenSpoilerLog(p, s, pr)
    BY <2>6, OpenSpoilerLogInvariant
  <2>7. CASE AnswerRequest \/ AnswerUnchecked
    BY <2>7, AnswerInvariant
  <2>8. CASE UNCHANGED siteVars
    <3>1. UNCHANGED <<account, cookie, spoilers, request, answer>>
      BY <2>8 DEF siteVars, pageVars
    <3> QED
      BY <2>1, <3>1, LogsKept, RacesKeepInvariant
  <2> QED
    BY <2>2, <2>3, <2>4, <2>5, <2>6, <2>7, <2>8 DEF PagesNext
<1> QED
  BY <1>1, PagesInitInvariant, PTL DEF PagesSpec

\* The accounts, the cookies and the requests keep their types.
THEOREM PagesTypeCorrect == PagesSpec => []PagesTypeOK
<1>1. PagesInv => PagesTypeOK
  BY DEF PagesInv
<1> QED
  BY <1>1, PagesInvariant, PTL

\* No spoiler log is shown to somebody who still has to run its race, but to an
\* admin whose check failed, nor, but to an admin, while others do (races.go,
\* getSpoilerLog; auth.go, isPlayerAdmin).
THEOREM SpoilersAreAlwaysHidden == PagesSpec => []SpoilersAreHidden
<1>1. PagesInv => SpoilersAreHidden
  <2> SUFFICES ASSUME PagesInv, request.page = "spoilers", IsShown,
                      NEW p \in request.match,
                      ~(request.by # p /\ request.by \in Admins \cup request.match),
                      ~(request.by \in Admins /\ answer = "unchecked")
               PROVE  HasEnded(entry[request.session][p])
    BY DEF SpoilersAreHidden
  <2>1. Nobody \notin Admins /\ Nobody \notin Players
    BY PeopleAssumption DEF People
  <2>2. request.match \subseteq Players
    BY PairsAreOfPlayers DEF PagesInv, LogRequest, IInv, TypeOK
  <2>3. answer = "shown"
    BY <2>1 DEF PagesInv, LogRequest, IsShown
  <2> QED
    BY <2>1, <2>2, <2>3 DEF PagesInv, LogRequest, BothHaveEnded
<1> QED
  BY <1>1, PagesInvariant, PTL

\* The results that anybody but an admin sees of a session are complete and stay
\* as they are (races.go, getOneMatchSession).
THEOREM ShownResultsAlwaysStay == PagesSpec => []ShownResultsStay
<1>1. PagesInv => ShownResultsStay
  BY DEF PagesInv, SessionRequest, ShownResultsStay
<1> QED
  BY <1>1, PagesInvariant, PTL
===============================================================================
