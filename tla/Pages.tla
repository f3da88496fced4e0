--------------------------------- MODULE Pages ---------------------------------
(***************************************************************************)
(* What the website shows of the races that MatchSessions runs             *)
(* (internal/web/races.go, auth.go): the page of a session with its        *)
(* results, and the spoiler log of a match.                                *)
(*                                                                         *)
(* A request reads the tables in several transactions: the account in the  *)
(* cookie and the row that is asked for first, whether an admin is in a    *)
(* race last; the races go on in between, and while somebody looks at the page. *)
(* Requests write nothing, so one of them at a time is enough.             *)
(***************************************************************************)
EXTENDS MatchSessions

CONSTANTS
    Visitors,  \* people who have no account
    Admins     \* people whose Discord account is in AdminUserIDs

People == Players \cup Visitors

Nobody == "nobody"

ASSUME PeopleAssumption == Admins \subseteq People /\ Nobody \notin People

VARIABLES
    account,   \* people who have a row of the Player table
    cookie,    \* those whose browser holds the auth cookie
    spoilers,  \* matches whose row has a spoiler log, as <<session, match>>
    request,   \* the last request and what it read first, or NoRequest
    answer     \* "none" as yet, "refused", "shown" on the screen of who sent it, or
               \* "unchecked", shown to an admin who may be in a race

pageVars == <<account, cookie, spoilers, request, answer>>
siteVars == <<vars, pageVars>>

NoRequest == [page |-> "none"]

Requests ==
    [page : {"spoilers"}, by : People, as : People \cup {Nobody}, open : BOOLEAN,
     session : Sessions, match : Pairs]
        \cup [page : {"session"}, by : People, as : People \cup {Nobody}, open : BOOLEAN,
              session : Sessions,
              results : UNION {[S -> Entries] : S \in SUBSET Players}]

PagesTypeOK ==
    /\ account \in SUBSET Players
    /\ cookie \in SUBSET account
    /\ spoilers \in SUBSET (Sessions \X Pairs)
    /\ request \in Requests \cup {NoRequest}
    /\ answer \in {"none", "refused", "shown", "unchecked"}

-------------------------------------------------------------------------------
(***************************************************************************)
(* Accounts.                                                               *)
(***************************************************************************)

\* !register: a Discord account has one player at most.
RegisterDiscordPlayer(p) ==
    /\ p \notin account
    /\ account' = account \cup {p}
    /\ UNCHANGED <<vars, cookie, spoilers, request, answer>>

authDiscord_Unregistered(p) ==
    /\ cookie' = cookie \cup {p}
    /\ UNCHANGED <<vars, account, spoilers, request, answer>>

\* authDiscord: whoever has no account gets an error: the branch that would create
\* one compares with an error that getPlayerByDiscordID never returns.
authDiscord(p) ==
    /\ p \in account
    /\ cookie' = cookie \cup {p}
    /\ UNCHANGED <<vars, account, spoilers, request, answer>>

\* The logout, or the end of the cookie after a week.
CookieEnds(p) ==
    /\ p \in cookie
    /\ cookie' = cookie \ {p}
    /\ UNCHANGED <<vars, account, spoilers, request, answer>>

-------------------------------------------------------------------------------
(***************************************************************************)
(* Requests.                                                               *)
(***************************************************************************)

\* playerFromCookie
Authenticated(p) == IF p \in cookie THEN p ELSE Nobody

\* GetPlayerAndOpponentEntries, taken the wrong way around.
OwnRaceHasEnded_Opponent(s, pr, p) == p \in pr /\ \E q \in pr \ {p} : HasEnded(entry[s][q])

OwnRaceHasEnded(s, pr, p) == p \in pr /\ HasEnded(entry[s][p])

\* getSpoilerLog, the read of the match: anybody may see its log once it has ended,
\* and each of its players once he has.
OpenSpoilerLog(p, s, pr) ==
    /\ <<s, pr>> \in spoilers
    /\ request' = [page |-> "spoilers", by |-> p, as |-> Authenticated(p),
                   open |-> pr \in ended[s] \/ OwnRaceHasEnded(s, pr, Authenticated(p)),
                   session |-> s, match |-> pr]
    /\ answer' = "none"
    /\ UNCHANGED <<vars, account, cookie, spoilers>>

AllMatchesHaveEnded_Either(s) ==
    \A pr \in matches[s] : \E p \in pr : HasEnded(entry[s][p])

AllMatchesHaveEnded(s) == \A pr \in matches[s] : pr \in ended[s]

\* getOneMatchSession, the read of the session and of its matches.
OpenSession(p, s) ==
    /\ status[s] # "None"
    /\ request' = [page |-> "session", by |-> p, as |-> Authenticated(p),
                   open |-> AllMatchesHaveEnded(s), session |-> s,
                   results |-> [q \in UNION matches[s] |-> entry[s][q]]]
    /\ answer' = "none"
    /\ UNCHANGED <<vars, account, cookie, spoilers>>

\* PlayerIsInSession, when its transaction succeeds.
IsInSession(p) == p \in Players /\ HasActiveSession(p)

\* isPlayerAdmin: not while he is in a race.
IsAdmin(p) == p \in Admins /\ ~IsInSession(p)

\* What is left of the request, which looks whether he is an admin only now.
AnswerRequest ==
    /\ request # NoRequest
    /\ answer = "none"
    /\ answer' = IF request.open \/ IsAdmin(request.as) THEN "shown" ELSE "refused"
    /\ UNCHANGED <<vars, account, cookie, spoilers, request>>

\* The same when the transaction of PlayerIsInSession fails, which returns that
\* its player is in no session: an admin then is one whether he races or not.
AnswerUnchecked ==
    /\ request # NoRequest
    /\ answer = "none"
    /\ ~request.open /\ request.as \in Admins
    /\ answer' = "unchecked"
    /\ UNCHANGED <<vars, account, cookie, spoilers, request>>

-------------------------------------------------------------------------------
(***************************************************************************)
(* The races, which only people with an account may join.                  *)
(***************************************************************************)

Registrations ==
    \E p \in Players, s \in Sessions :
        \/ p \in account /\ JoinCurrentMatchSessionByShortcode(p, s)
        \/ p \in cookie /\ JoinMatchSessionByID(p, s)
        \/ CancelActiveMatchSession(p, s)

Races ==
    \E s \in Sessions, p, q \in Players :
        ForfeitActiveMatch(s, p, q) \/ CompleteActiveMatch(s, p, q)

\* A seed is stored with its log.
SeedIsStored ==
    \E s \in Sessions, pr \in Pairs :
        /\ GenerateMatchSeed(s, pr)
        /\ spoilers' = IF pr \in matches[s] THEN spoilers \cup {<<s, pr>>} ELSE spoilers

PagesInit ==
    /\ Init
    /\ account = {} /\ cookie = {}
    /\ spoilers = {}
    /\ request = NoRequest
    /\ answer = "none"

RaceStep ==
    /\ \/ DaemonStep
       \/ \E s \in Sessions : StartSession(s)
       \/ pc # "down" /\ (Registrations \/ Races)
       \/ Tick
    /\ UNCHANGED spoilers

PagesNext ==
    \/ (RaceStep \/ SeedIsStored) /\ UNCHANGED <<account, cookie, request, answer>>
    \/ \E p \in Players : RegisterDiscordPlayer(p) \/ authDiscord(p) \/ CookieEnds(p)
    \/ \E p \in People, s \in Sessions :
          OpenSession(p, s) \/ \E pr \in Pairs : OpenSpoilerLog(p, s, pr)
    \/ AnswerRequest
    \/ AnswerUnchecked

PagesSpec == PagesInit /\ [][PagesNext]_siteVars

-------------------------------------------------------------------------------
(***************************************************************************)
(* Properties.                                                             *)
(***************************************************************************)

IsShown == answer \in {"shown", "unchecked"}

\* Nobody looks at the spoiler log of a race that he still has to end, logged in
\* or not, but an admin of whom the site could not tell whether he races; and
\* nobody but an admin looks at that of a race that others still run, whatever
\* happened between the transactions of his request (races.go, getSpoilerLog;
\* auth.go, isPlayerAdmin).
SpoilersAreHidden ==
    request.page = "spoilers" /\ IsShown =>
        \A p \in request.match :
            \/ HasEnded(entry[request.session][p])
            \/ request.by # p /\ request.by \in Admins \cup request.match
            \/ request.by \in Admins /\ answer = "unchecked"

\* The results on the page of a session, but for an admin's, are those that stay,
\* and they are those of all its matches (races.go, getOneMatchSession).
ShownResultsStay ==
    request.page = "session" /\ IsShown =>
        LET results == request.results
            s == request.session
        IN  request.as \notin Admins /\ DOMAIN results # {} =>
               /\ DOMAIN results = UNION matches[s]
               /\ \A p \in DOMAIN results : entry[s][p] = results[p]

\* "Don't allow access to spoiler logs and stuff if the user is in a race":
\* whoever is shown the log of his match has ended his race, as who he is logged
\* in (auth.go, isPlayerAdmin).
RacersSeeNoSpoilers ==
    request.page = "spoilers" /\ IsShown =>
        (request.as \in request.match => HasEnded(entry[request.session][request.as]))
===============================================================================
