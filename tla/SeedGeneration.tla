---------------------------- MODULE SeedGeneration ----------------------------
(***************************************************************************)
(* The seeds of a race: the pool of workers that generate one for each     *)
(* match (internal/back/back_matchmaking.go), the generators they call     *)
(* (internal/generator), the site that makes the seeds of two of these     *)
(* (pkg/ootrapi is its client), and what becomes of the spoiler log of a   *)
(* seed, which the site keeps locked until it is told otherwise.           *)
(*                                                                         *)
(* The matches of a session have the generator of their league.  A worker  *)
(* is at the call it is about to make; any call may fail, and its match is *)
(* then left without a seed.  Meanwhile the players may end their races.   *)
(***************************************************************************)
EXTENDS Integers, FiniteSets

CONSTANTS
    Matches,
    LocalWorkers,     \* one per CPU
    ExternalWorkers,  \* the arbitrary number of them for an external generator (10)
    Generators,       \* those a league may have
    Patience,         \* of waitForSeedgen, in periods of polling (24 of 5 s)
    MaxErrors         \* bound: calls that fail

ASSUME SeedAssumption ==
    /\ IsFiniteSet(LocalWorkers) /\ LocalWorkers # {}
    /\ IsFiniteSet(ExternalWorkers) /\ ExternalWorkers # {}
    /\ Patience \in Nat \ {0}
    /\ MaxErrors \in Nat

VARIABLES
    generator,  \* of the league
    unfed,      \* matches that the loop has not put in the pool yet
    pool,       \* those in the buffered channel
    worker,     \* [workers -> the call it is at and the match it is for]
    remote,     \* [Matches -> the seed of the match on the site]
    stored,     \* matches whose row has the spoiler log and the state of the seed
    sent,       \* [Matches -> players of the match (1, 2) the seed was sent to]
    races,      \* [Matches -> how many of its two races have ended]
    unlocking,  \* matches that are over and whose seed is about to be unlocked
    known,      \* those of them whose row had the state when they ended
    unlocked,   \* matches whose spoiler log may be read on the site
    limited,    \* external: the rate limiter of the site refuses every request
    errors

poolVars   == <<generator, unfed, pool>>
unlockVars == <<races, unlocking, known, unlocked>>
faultVars  == <<limited, errors>>
vars == <<poolVars, worker, remote, stored, sent, unlockVars, faultVars>>

Names == {"oot-randomizer", "oot-randomizer-api", "oot-settings-randomizer",
          "oot-settings-randomizer-api", "test", "unknown"}

ASSUME NamesAssumption == Generators \subseteq Names

\* Factory.NewGenerator
IsKnown(name) == name # "unknown"

IsExternal(name) == name \in {"oot-randomizer-api", "oot-settings-randomizer-api"}

\* These take two settings files, "<basefile.json>:<shuffled.json>".
IsShuffled(name) == name \in {"oot-settings-randomizer", "oot-settings-randomizer-api"}

Workers == IF IsExternal(generator) THEN ExternalWorkers ELSE LocalWorkers

AllWorkers == LocalWorkers \cup ExternalWorkers

Nothing == "no match"

ASSUME MatchesAssumption == Nothing \notin Matches

Idle == [at |-> "idle", match |-> Nothing, waited |-> 0]

Left == [at |-> "left", match |-> Nothing, waited |-> 0]

-------------------------------------------------------------------------------
(***************************************************************************)
(* The pool.                                                               *)
(***************************************************************************)

\* doParallelSeedGeneration puts the matches in a channel with room for one per
\* worker, then closes it.
Feed(m) ==
    /\ m \in unfed
    /\ Cardinality(pool) < Cardinality(Workers)
    /\ unfed' = unfed \ {m}
    /\ pool' = pool \cup {m}
    /\ UNCHANGED <<generator, worker, remote, stored, sent, unlockVars, faultVars>>

Take_Keeps(w, m) ==
    /\ worker[w] = Idle
    /\ m \in pool
    /\ worker' = [worker EXCEPT ![w] = [at |-> "generator", match |-> m, waited |-> 0]]
    /\ UNCHANGED <<poolVars, remote, stored, sent, unlockVars, faultVars>>

Take(w, m) ==
    /\ worker[w] = Idle
    /\ m \in pool
    /\ pool' = pool \ {m}
    /\ worker' = [worker EXCEPT ![w] = [at |-> "generator", match |-> m, waited |-> 0]]
    /\ UNCHANGED <<generator, unfed, remote, stored, sent, unlockVars, faultVars>>

\* The channel is closed and empty.
Leave(w) ==
    /\ worker[w] = Idle
    /\ unfed = {} /\ pool = {}
    /\ worker' = [worker EXCEPT ![w] = Left]
    /\ UNCHANGED <<poolVars, remote, stored, sent, unlockVars, faultVars>>

\* The worker is at a call, for a match.
At(w, call) == w \in Workers /\ worker[w].at = call

Goes(w, call) == worker' = [worker EXCEPT ![w].at = call]

\* The error is logged, and the worker takes another match.
GivesUp(w) == worker' = [worker EXCEPT ![w] = Idle]

-------------------------------------------------------------------------------
(***************************************************************************)
(* The generators.  API.do makes a request of the site that is refused     *)
(* again, at once and without limit: it goes on when the site is no more   *)
(* "limited", and neither a call nor a timeout of its caller comes before. *)
(***************************************************************************)

\* NewGenerator: an unknown generator is an error.
MakeGenerator(w) ==
    /\ At(w, "generator")
    /\ IF IsKnown(generator)
       THEN Goes(w, IF IsShuffled(generator) THEN "shuffle" ELSE "settings")
       ELSE GivesUp(w)
    /\ UNCHANGED <<poolVars, remote, stored, sent, unlockVars, faultVars>>

\* The settings are drawn from the seed of the match (Shuffle), then merged into
\* those of the base file.
ShuffleSettings(w) ==
    /\ At(w, "shuffle")
    /\ Goes(w, "settings")
    /\ UNCHANGED <<poolVars, remote, stored, sent, unlockVars, faultVars>>

\* A file for the program that runs here, or the body of a request.
WriteSettings(w) ==
    /\ At(w, "settings")
    /\ Goes(w, IF IsExternal(generator) THEN "create" ELSE "run")
    /\ UNCHANGED <<poolVars, remote, stored, sent, unlockVars, faultVars>>

\* Randomizer.run runs the program to its end, and reads the patch and the log.
RunLocally(w) ==
    /\ At(w, "run")
    /\ Goes(w, "store")
    /\ UNCHANGED <<poolVars, remote, stored, sent, unlockVars, faultVars>>

\* API.CreateSeed: the site starts to make a seed whose log is locked.
CreateSeed(w) ==
    /\ At(w, "create")
    /\ ~limited
    /\ remote' = [remote EXCEPT ![worker[w].match] = "generating"]
    /\ Goes(w, "poll")
    /\ UNCHANGED <<poolVars, stored, sent, unlockVars, faultVars>>

Verdict_FailedIsDone(seed) ==
    CASE seed = "failed" -> "done"
      [] OTHER -> seed

\* What waitForSeedgen makes of the status it reads; one that is unknown to it is
\* logged, and it goes on waiting as it does while the seed is made.
Verdict(seed) == seed

Poll_LateTimeout(w) ==
    /\ At(w, "poll")
    /\ ~limited
    /\ LET seed == Verdict(remote[worker[w].match])
       IN  \/ seed = "done" /\ Goes(w, "log")
           \/ seed = "failed" /\ GivesUp(w)
           \/ /\ seed = "generating"
              /\ \E t \in (worker[w].waited + 1)..Patience :
                    worker' = [worker EXCEPT ![w].waited = t]
    /\ UNCHANGED <<poolVars, remote, stored, sent, unlockVars, faultVars>>

\* A period of polling: the answer comes after it, and after the time the request
\* took, which has no bound below the patience of the loop; the loop looks at the
\* time only once it has an answer.
Poll(w) ==
    /\ At(w, "poll")
    /\ ~limited
    /\ LET seed == Verdict(remote[worker[w].match])
       IN  \/ seed = "done" /\ Goes(w, "log")
           \/ seed = "failed" /\ GivesUp(w)
           \/ /\ seed = "generating"
              /\ \E t \in (worker[w].waited + 1)..Patience :
                    IF t < Patience
                    THEN worker' = [worker EXCEPT ![w].waited = t]
                    ELSE GivesUp(w)
    /\ UNCHANGED <<poolVars, remote, stored, sent, unlockVars, faultVars>>

GetSpoilerLog(w) ==
    /\ At(w, "log")
    /\ ~limited
    /\ Goes(w, "patch")
    /\ UNCHANGED <<poolVars, remote, stored, sent, unlockVars, faultVars>>

GetPatch(w) ==
    /\ At(w, "patch")
    /\ ~limited
    /\ Goes(w, "store")
    /\ UNCHANGED <<poolVars, remote, stored, sent, unlockVars, faultVars>>

\* The row of the match gets the log and the state, in a transaction.
Store(w) ==
    /\ At(w, "store")
    /\ stored' = stored \cup {worker[w].match}
    /\ Goes(w, "send")
    /\ UNCHANGED <<poolVars, remote, sent, unlockVars, faultVars>>

\* sendMatchSeedNotification: the first player, then the second.
Send(w) ==
    /\ At(w, "send")
    /\ LET m == worker[w].match
       IN  IF 1 \notin sent[m]
           THEN sent' = [sent EXCEPT ![m] = {1}] /\ UNCHANGED worker
           ELSE sent' = [sent EXCEPT ![m] = {1, 2}] /\ GivesUp(w)
    /\ UNCHANGED <<poolVars, remote, stored, unlockVars, faultVars>>

Calls == {"generator", "shuffle", "settings", "run", "create", "poll", "log", "patch", "store"}

\* A file that cannot be read, a request or a transaction that fails.
CallFails(w) ==
    /\ \E call \in Calls : At(w, call)
    /\ errors < MaxErrors
    /\ errors' = errors + 1
    /\ GivesUp(w)
    /\ UNCHANGED <<poolVars, remote, stored, sent, unlockVars, limited>>

\* The request that creates a seed has no body left to send when it is made again,
\* and fails; those that have none go on being refused, which changes nothing.
Refuse(w) ==
    /\ At(w, "create")
    /\ limited
    /\ GivesUp(w)
    /\ UNCHANGED <<poolVars, remote, stored, sent, unlockVars, faultVars>>

WorkerStep(w) ==
    \/ \E m \in Matches : Take(w, m)
    \/ Leave(w)
    \/ MakeGenerator(w) \/ ShuffleSettings(w) \/ WriteSettings(w) \/ RunLocally(w)
    \/ CreateSeed(w) \/ Refuse(w) \/ Poll(w) \/ GetSpoilerLog(w) \/ GetPatch(w)
    \/ Store(w) \/ Send(w)

-------------------------------------------------------------------------------
(***************************************************************************)
(* The site, and the players.                                              *)
(***************************************************************************)

\* External: the site ends the generation of a seed, one way or the other, and it
\* may never do.
RemoteEnds(m) ==
    /\ remote[m] = "generating"
    /\ \E end \in {"done", "failed"} : remote' = [remote EXCEPT ![m] = end]
    /\ UNCHANGED <<poolVars, worker, stored, sent, unlockVars, faultVars>>

\* External: the rate limiter of the site begins, or stops, to refuse.
Limit ==
    /\ limited' = ~limited
    /\ UNCHANGED <<poolVars, worker, remote, stored, sent, unlockVars, errors>>

EndRace_UnlocksAtOnce(m) ==
    /\ races[m] < 2
    /\ races' = [races EXCEPT ![m] = @ + 1]
    /\ unlocking' = unlocking \cup {m}
    /\ known' = known \cup ({m} \cap stored)
    /\ UNCHANGED <<poolVars, worker, remote, stored, sent, unlocked, faultVars>>

\* endActiveMatch: a player ends his race, at the earliest by a forfeit before the
\* seed is there.  Once the match is over a goroutine unlocks the spoiler log,
\* from the state that the row has by then.
EndRace(m) ==
    /\ races[m] < 2
    /\ races' = [races EXCEPT ![m] = @ + 1]
    /\ unlocking' = IF races[m] = 1 THEN unlocking \cup {m} ELSE unlocking
    /\ known' = IF races[m] = 1 THEN known \cup ({m} \cap stored) ELSE known
    /\ UNCHANGED <<poolVars, worker, remote, stored, sent, unlocked, faultVars>>

\* maybeUnlockSpoilerLogs tries once: without the state there is nothing to ask
\* for, and an error is logged.  The site locks nothing of a local generator.
Unlock(m) ==
    /\ m \in unlocking
    /\ unlocking' = unlocking \ {m}
    /\ \/ /\ m \in known /\ IsExternal(generator)
          /\ ~limited
          /\ unlocked' = unlocked \cup {m}
          /\ UNCHANGED errors
       \/ /\ ~(m \in known /\ IsExternal(generator))
          /\ UNCHANGED <<unlocked, errors>>
       \/ /\ errors < MaxErrors
          /\ errors' = errors + 1
          /\ UNCHANGED unlocked
    /\ UNCHANGED <<poolVars, worker, remote, stored, sent, races, known, limited>>

-------------------------------------------------------------------------------

Init ==
    /\ generator \in Generators
    /\ unfed = Matches
    /\ pool = {}
    /\ worker = [w \in AllWorkers |-> Idle]
    /\ remote = [m \in Matches |-> "none"]
    /\ stored = {}
    /\ sent = [m \in Matches |-> {}]
    /\ races = [m \in Matches |-> 0]
    /\ unlocking = {} /\ known = {} /\ unlocked = {}
    /\ limited = FALSE /\ errors = 0

Next ==
    \/ \E m \in Matches : Feed(m) \/ RemoteEnds(m) \/ EndRace(m) \/ Unlock(m)
    \/ \E w \in Workers : WorkerStep(w) \/ CallFails(w)
    \/ Limit

Spec == Init /\ [][Next]_vars

\* The goroutines run; nobody owes the end of a race, nor the site that of a seed
\* or of its refusals.
Fairness ==
    /\ WF_vars(\E m \in Matches : Feed(m))
    /\ \A w \in AllWorkers : WF_vars(w \in Workers /\ WorkerStep(w))
    /\ \A m \in Matches : WF_vars(Unlock(m))

FairSpec == Spec /\ Fairness

-------------------------------------------------------------------------------
(***************************************************************************)
(* Properties.                                                             *)
(***************************************************************************)

WorkerStates ==
    [at : Calls \cup {"idle", "send", "left"}, match : Matches \cup {Nothing},
     waited : 0..(Patience - 1)]

TypeOK ==
    /\ generator \in Names
    /\ unfed \subseteq Matches /\ pool \subseteq Matches
    /\ worker \in [AllWorkers -> WorkerStates]
    /\ remote \in [Matches -> {"none", "generating", "done", "failed"}]
    /\ stored \subseteq Matches
    /\ sent \in [Matches -> SUBSET {1, 2}]
    /\ races \in [Matches -> 0..2]
    /\ unlocking \subseteq Matches /\ known \subseteq Matches /\ unlocked \subseteq Matches
    /\ limited \in BOOLEAN
    /\ errors \in 0..MaxErrors

\* The spoiler log of a seed is not opened to anybody while one of the two players
\* races it (back_racing.go, endActiveMatch).
SpoilerLogStaysLocked == \A m \in unlocked : races[m] = 2

\* A player who has a seed has the one of the row of his match, and one that the
\* site has done making (back_matchmaking.go, generateAndSendMatchSeed).
SentIsPlayable ==
    \A m \in Matches : sent[m] # {} =>
        m \in stored /\ (IsExternal(generator) => remote[m] = "done")

\* A match is in the hands of one worker at most, which nobody else has handled
\* before: no match gets two seeds (doParallelSeedGeneration).
HandledOnce ==
    \A w \in Workers : LET m == worker[w].match IN m # Nothing =>
        /\ m \notin unfed \cup pool
        /\ \A v \in Workers \ {w} : worker[v].match # m
        /\ worker[w].at \in {"generator", "shuffle", "settings", "create"} => remote[m] = "none"

\* The generation of the seeds of a race ends once the site has stopped refusing
\* requests, although it may never end a seed it has begun: but for a request that
\* is refused for ever, no worker waits for ever (randomizer_api.go,
\* waitForSeedgen; api.go, do).
SeedgenEnds == <>[]~limited => <>(\A w \in Workers : worker[w] = Left)

\* documentation.md: "your spoiler log (which you can also access by using the
\* original link to your seed)": the log of a match that is over opens, when no
\* call failed.
OverIsUnlocked ==
    \A m \in Matches :
        (races[m] = 2 /\ m \in stored /\ IsExternal(generator))
            ~> (m \in unlocked \/ errors > 0)
===============================================================================
