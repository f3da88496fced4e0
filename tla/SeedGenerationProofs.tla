-------------------------- MODULE SeedGenerationProofs --------------------------
(***************************************************************************)
(* Proofs about SeedGeneration, for any number of matches, workers and     *)
(* errors: its types, that no spoiler log opens before its match is over,  *)
(* that no match gets two seeds, and that a seed that was sent is stored   *)
(* and made.                                                               *)
(***************************************************************************)
EXTENDS SeedGeneration, TLAPS

\* A worker has a match in hand exactly when it is at a call.
HandsOf(w) ==
    /\ worker[w].match = Nothing <=> worker[w].at \in {"idle", "left"}
    /\ worker[w].match # Nothing => w \in Workers

\* What the calls it has made have left behind.
ProgressOf(w) ==
    LET m == worker[w].match IN
    /\ worker[w].at \in {"create", "poll", "log", "patch"} => IsExternal(generator)
    /\ worker[w].at = "run" => ~IsExternal(generator)
    /\ worker[w].at \in {"log", "patch"} => remote[m] = "done"
    /\ worker[w].at \in {"store", "send"} /\ IsExternal(generator) => remote[m] = "done"
    /\ worker[w].at = "send" => m \in stored
    /\ worker[w].at \in {"generator", "shuffle", "settings", "create"} => remote[m] = "none"

Hands == \A w \in AllWorkers : HandsOf(w)

Progress == \A w \in AllWorkers : ProgressOf(w)

\* The matches that nobody has taken yet.
Untouched ==
    /\ unfed \cap pool = {}
    /\ \A m \in unfed \cup pool : remote[m] = "none"
    /\ \A m \in unfed \cup pool : \A w \in AllWorkers : worker[w].match # m

OneHand ==
    \A v, w \in AllWorkers :
        v # w /\ worker[w].match # Nothing => worker[v].match # worker[w].match

Locks == \A m \in unlocking \cup unlocked : races[m] = 2

SeedInv ==
    /\ TypeOK
    /\ Hands
    /\ Progress
    /\ Untouched
    /\ OneHand
    /\ Locks
    /\ SentIsPlayable

\* Nothing is generated when the pool is made (doParallelSeedGeneration).
LEMMA SeedInitInv == Init => SeedInv
<1> SUFFICES ASSUME Init PROVE SeedInv
  OBVIOUS
<1>1. Idle \in WorkerStates /\ Idle.match = Nothing /\ Idle.at = "idle"
  BY SeedAssumption DEF Idle, WorkerStates
<1>2. TypeOK
  <2>1. limited \in BOOLEAN
    BY DEF Init
  <2>2. errors \in 0..MaxErrors
    BY SeedAssumption DEF Init
  <2>3. worker \in [AllWorkers -> WorkerStates]
    BY <1>1 DEF Init
  <2>4. QED
    BY <2>1, <2>2, <2>3, NamesAssumption DEF Init, TypeOK
<1>3. \A w \in AllWorkers : worker[w].match = Nothing /\ worker[w].at = "idle"
  BY <1>1 DEF Init
<1>4. Hands /\ Progress /\ OneHand
  BY <1>3 DEF Hands, HandsOf, Progress, ProgressOf, OneHand
<1>5. Untouched /\ Locks /\ SentIsPlayable
  BY <1>3, MatchesAssumption DEF Init, Untouched, Locks, SentIsPlayable
<1>6. QED
  BY <1>2, <1>4, <1>5 DEF SeedInv

\* The state of a worker that goes on, gives up or leaves.
LEMMA WorkerMoves ==
    ASSUME TypeOK, NEW w \in AllWorkers
    PROVE  /\ worker[w] \in WorkerStates
           /\ \A call : Goes(w, call) =>
                 /\ \A v \in AllWorkers \ {w} : worker'[v] = worker[v]
                 /\ worker'[w] = [worker[w] EXCEPT !.at = call]
                 /\ worker'[w].at = call /\ worker'[w].match = worker[w].match
                 /\ call \in Calls \cup {"send"} => worker' \in [AllWorkers -> WorkerStates]
           /\ GivesUp(w) =>
                 /\ \A v \in AllWorkers \ {w} : worker'[v] = worker[v]
                 /\ worker'[w].at = "idle" /\ worker'[w].match = Nothing
                 /\ worker' \in [AllWorkers -> WorkerStates]
<1>1. worker[w] \in WorkerStates
  BY DEF TypeOK
<1>2. Idle \in WorkerStates /\ Idle.match = Nothing /\ Idle.at = "idle"
  BY SeedAssumption DEF Idle, WorkerStates
<1>3. ASSUME NEW call, Goes(w, call)
      PROVE  /\ \A v \in AllWorkers \ {w} : worker'[v] = worker[v]
             /\ worker'[w] = [worker[w] EXCEPT !.at = call]
             /\ worker'[w].at = call /\ worker'[w].match = worker[w].match
             /\ call \in Calls \cup {"send"} => worker' \in [AllWorkers -> WorkerStates]
  <2>1. worker' = [worker EXCEPT ![w] = [worker[w] EXCEPT !.at = call]]
    BY <1>3 DEF Goes
  <2>2. call \in Calls \cup {"send"} => [worker[w] EXCEPT !.at = call] \in WorkerStates
    BY <1>1 DEF WorkerStates
  <2>3. [worker[w] EXCEPT !.at = call].at = call
        /\ [worker[w] EXCEPT !.at = call].match = worker[w].match
    BY <1>1 DEF WorkerStates
  <2>4. QED
    BY <2>1, <2>2, <2>3 DEF TypeOK
<1>4. GivesUp(w) => /\ \A v \in AllWorkers \ {w} : worker'[v] = worker[v]
                    /\ worker'[w].at = "idle" /\ worker'[w].match = Nothing
                    /\ worker' \in [AllWorkers -> WorkerStates]
  BY <1>2 DEF GivesUp, TypeOK
<1>5. QED
  BY <1>1, <1>3, <1>4

\* A worker that gives up, while nothing else changes but the counters and what
\* was sent, keeps the invariant.
LEMMA GivesUpInv ==
    ASSUME SeedInv, NEW w \in Workers, GivesUp(w),
           UNCHANGED <<poolVars, remote, stored, unlockVars>>,
           TypeOK', SentIsPlayable'
    PROVE  SeedInv'
<1>1. w \in AllWorkers
  BY DEF Workers, AllWorkers
<1>2. /\ \A v \in AllWorkers \ {w} : worker'[v] = worker[v]
      /\ worker'[w].at = "idle" /\ worker'[w].match = Nothing
  BY <1>1, WorkerMoves DEF SeedInv
<1>3. UNCHANGED <<generator, Workers>>
  BY DEF poolVars, Workers
<1>4. Hands'
  BY <1>2, <1>3 DEF SeedInv, Hands, HandsOf
<1>5. Progress'
  BY <1>2, <1>3 DEF SeedInv, Progress, ProgressOf
<1>6. Untouched'
  BY <1>2, MatchesAssumption DEF SeedInv, Untouched, poolVars, TypeOK
<1>7. OneHand'
  BY <1>2 DEF SeedInv, OneHand
<1>8. Locks'
  BY DEF SeedInv, Locks, unlockVars
<1>9. QED
  BY <1>4, <1>5, <1>6, <1>7, <1>8 DEF SeedInv

\* A worker that goes on to a call, while nothing else changes but what is stored,
\* the seed of its match and the counters, keeps it if it may be at that call.
LEMMA GoesInv ==
    ASSUME SeedInv, NEW w \in Workers, NEW call \in Calls \cup {"send"}, Goes(w, call),
           worker[w].match # Nothing,
           UNCHANGED <<poolVars, sent, unlockVars, faultVars>>,
           stored \subseteq stored', stored' \subseteq Matches,
           remote' \in [Matches -> {"none", "generating", "done", "failed"}],
           \A m \in Matches \ {worker[w].match} : remote'[m] = remote[m],
           ProgressOf(w)', SentIsPlayable'
    PROVE  SeedInv'
<1>1. w \in AllWorkers
  BY DEF Workers, AllWorkers
<1>2. /\ \A v \in AllWorkers \ {w} : worker'[v] = worker[v]
      /\ worker'[w].at = call /\ worker'[w].match = worker[w].match
      /\ worker' \in [AllWorkers -> WorkerStates]
  BY <1>1, WorkerMoves DEF SeedInv
<1>3. UNCHANGED <<generator, Workers>>
  BY DEF poolVars, Workers
<1>4. TypeOK'
  BY <1>2 DEF SeedInv, TypeOK, poolVars, unlockVars, faultVars
<1>5. Hands'
  <2>1. call \notin {"idle", "left"}
    BY DEF Calls
  <2>2. QED
    BY <1>2, <1>3, <2>1 DEF SeedInv, Hands, HandsOf
<1>6. Progress'
  <2>1. ASSUME NEW v \in AllWorkers \ {w} PROVE ProgressOf(v)'
    <3>1. CASE worker[v].match = Nothing
      BY <1>2, <2>1, <3>1 DEF SeedInv, Hands, HandsOf, ProgressOf
    <3>2. CASE worker[v].match # Nothing
      <4>1. worker[v].match \in Matches /\ worker[v].match # worker[w].match
        BY <1>1, <3>2 DEF SeedInv, TypeOK, WorkerStates, OneHand
      <4>2. remote'[worker[v].match] = remote[worker[v].match]
        BY <4>1
      <4>3. QED
        BY <1>2, <1>3, <4>2 DEF SeedInv, Progress, ProgressOf
    <3>3. QED
      BY <3>1, <3>2
  <2>2. QED
    BY <2>1 DEF Progress
<1>7. Untouched'
  BY <1>1, <1>2 DEF SeedInv, Untouched, poolVars, TypeOK
<1>8. OneHand'
  BY <1>2 DEF SeedInv, OneHand
<1>9. Locks'
  BY DEF SeedInv, Locks, unlockVars
<1>10. QED
  BY <1>4, <1>5, <1>6, <1>7, <1>8, <1>9 DEF SeedInv

\* The types of what a step that gives up leaves.
LEMMA GivesUpTypeOK ==
    ASSUME TypeOK, NEW w \in AllWorkers, GivesUp(w),
           UNCHANGED <<poolVars, remote, stored, unlockVars>>,
           sent' \in [Matches -> SUBSET {1, 2}],
           errors' \in 0..MaxErrors, limited' \in BOOLEAN
    PROVE  TypeOK'
BY WorkerMoves DEF TypeOK, poolVars, unlockVars

\* A call that gives up and changes at most the counters.
LEMMA CallGivesUpInv ==
    ASSUME SeedInv, NEW w \in Workers, GivesUp(w),
           UNCHANGED <<poolVars, remote, stored, sent, unlockVars>>,
           errors' \in 0..MaxErrors, limited' \in BOOLEAN
    PROVE  SeedInv'
<1>1. w \in AllWorkers
  BY DEF Workers, AllWorkers
<1>2. TypeOK'
  BY <1>1, GivesUpTypeOK DEF SeedInv, TypeOK
<1>3. SentIsPlayable'
  BY DEF SeedInv, SentIsPlayable, poolVars
<1>4. QED
  BY <1>2, <1>3, GivesUpInv

\* A call that goes on to another one and changes nothing else.
LEMMA CallGoesInv ==
    ASSUME SeedInv, NEW w \in Workers, NEW call \in Calls \cup {"send"}, Goes(w, call),
           worker[w].match # Nothing,
           UNCHANGED <<poolVars, remote, stored, sent, unlockVars, faultVars>>,
           ProgressOf(w)'
    PROVE  SeedInv'
<1>1. SentIsPlayable'
  BY DEF SeedInv, SentIsPlayable, poolVars
<1>2. remote' \in [Matches -> {"none", "generating", "done", "failed"}] /\ stored' \subseteq Matches
  BY DEF SeedInv, TypeOK
<1>3. QED
  BY <1>1, <1>2, GoesInv

\* What is known of a worker that is at a call.
LEMMA AtCall ==
    ASSUME SeedInv, NEW w, NEW call \in Calls \cup {"send"}, At(w, call)
    PROVE  /\ w \in Workers /\ w \in AllWorkers
           /\ worker[w].at = call
           /\ worker[w].match # Nothing /\ worker[w].match \in Matches
           /\ HandsOf(w) /\ ProgressOf(w)
<1>1. w \in Workers /\ w \in AllWorkers /\ worker[w].at = call
  BY DEF At, Workers, AllWorkers
<1>2. HandsOf(w) /\ ProgressOf(w)
  BY <1>1 DEF SeedInv, Hands, Progress
<1>3. worker[w].match # Nothing
  BY <1>1, <1>2 DEF HandsOf, Calls
<1>4. worker[w].match \in Matches
  BY <1>1, <1>3 DEF SeedInv, TypeOK, WorkerStates
<1>5. QED
  BY <1>1, <1>2, <1>3, <1>4

\* A worker after a call, in the words of the progress it has made.
LEMMA AfterGoes ==
    ASSUME SeedInv, NEW w \in AllWorkers, NEW call, Goes(w, call)
    PROVE  worker'[w].at = call /\ worker'[w].match = worker[w].match
BY WorkerMoves DEF SeedInv

\* The generator of the league is made, or the match is given up (factory.go).
LEMMA MakeGeneratorInv ==
    ASSUME SeedInv, NEW w \in Workers, MakeGenerator(w)
    PROVE  SeedInv'
<1>1. At(w, "generator") /\ "generator" \in Calls
  BY DEF MakeGenerator, Calls
<1>2. CASE IsKnown(generator)
  <2>1. PICK call \in {"shuffle", "settings"} : Goes(w, call)
    BY <1>2 DEF MakeGenerator
  <2>2. ProgressOf(w)'
    BY <1>1, <2>1, AtCall, AfterGoes DEF MakeGenerator, ProgressOf, poolVars
  <2>3. QED
    BY <1>1, <2>1, <2>2, AtCall, CallGoesInv DEF MakeGenerator, Calls
<1>3. CASE ~IsKnown(generator)
  BY <1>3, CallGivesUpInv DEF MakeGenerator, SeedInv, TypeOK, faultVars
<1>4. QED
  BY <1>2, <1>3

\* Drawing the settings changes nothing else (settings_randomizer.go).
LEMMA ShuffleSettingsInv ==
    ASSUME SeedInv, NEW w \in Workers, ShuffleSettings(w)
    PROVE  SeedInv'
<1>1. At(w, "shuffle") /\ "shuffle" \in Calls /\ "settings" \in Calls /\ Goes(w, "settings")
  BY DEF ShuffleSettings, Calls
<1>2. ProgressOf(w)'
  BY <1>1, AtCall, AfterGoes DEF ShuffleSettings, ProgressOf, poolVars
<1>3. QED
  BY <1>1, <1>2, AtCall, CallGoesInv DEF ShuffleSettings

\* A request is made for an external generator, a program is run for the others
\* (randomizer_api.go, generateFromSettings; randomizer.go, run).
LEMMA WriteSettingsInv ==
    ASSUME SeedInv, NEW w \in Workers, WriteSettings(w)
    PROVE  SeedInv'
<1>1. At(w, "settings") /\ "settings" \in Calls
  BY DEF WriteSettings, Calls
<1>2. PICK call \in {"create", "run"} :
         /\ Goes(w, call)
         /\ call = "create" <=> IsExternal(generator)
  BY DEF WriteSettings
<1>3. ProgressOf(w)'
  BY <1>1, <1>2, AtCall, AfterGoes DEF WriteSettings, ProgressOf, poolVars
<1>4. QED
  BY <1>1, <1>2, <1>3, AtCall, CallGoesInv DEF WriteSettings, Calls

\* A seed that is made here needs nothing of the site (randomizer.go, Generate).
LEMMA RunLocallyInv ==
    ASSUME SeedInv, NEW w \in Workers, RunLocally(w)
    PROVE  SeedInv'
<1>1. At(w, "run") /\ "run" \in Calls /\ "store" \in Calls /\ Goes(w, "store")
  BY DEF RunLocally, Calls
<1>2. ProgressOf(w)'
  BY <1>1, AtCall, AfterGoes DEF RunLocally, ProgressOf, poolVars
<1>3. QED
  BY <1>1, <1>2, AtCall, CallGoesInv DEF RunLocally

\* The site begins to make a seed that no other worker has asked for
\* (api.go, CreateSeed).
LEMMA CreateSeedInv ==
    ASSUME SeedInv, NEW w \in Workers, CreateSeed(w)
    PROVE  SeedInv'
<1> DEFINE m == worker[w].match
<1>1. At(w, "create") /\ "create" \in Calls /\ "poll" \in Calls /\ Goes(w, "poll")
  BY DEF CreateSeed, Calls
<1>2. m \in Matches /\ remote[m] = "none" /\ IsExternal(generator) /\ w \in AllWorkers
  BY <1>1, AtCall DEF ProgressOf
<1>3. remote' = [remote EXCEPT ![m] = "generating"]
  BY DEF CreateSeed
<1>4. /\ remote' \in [Matches -> {"none", "generating", "done", "failed"}]
      /\ \A o \in Matches \ {m} : remote'[o] = remote[o]
  BY <1>2, <1>3 DEF SeedInv, TypeOK
<1>5. ProgressOf(w)'
  BY <1>1, <1>2, AfterGoes DEF CreateSeed, ProgressOf, poolVars
<1>6. SentIsPlayable'
  BY <1>2, <1>4 DEF SeedInv, SentIsPlayable, CreateSeed, poolVars
<1>7. QED
  BY <1>1, <1>4, <1>5, <1>6, AtCall, GoesInv DEF CreateSeed, SeedInv, TypeOK

\* The wait goes on to the log only when the seed is made (waitForSeedgen).
LEMMA PollInv ==
    ASSUME SeedInv, NEW w \in Workers, Poll(w)
    PROVE  SeedInv'
<1> DEFINE seed == remote[worker[w].match]
<1>1. At(w, "poll") /\ "poll" \in Calls /\ "log" \in Calls
  BY DEF Poll, Calls
<1>2. CASE seed = "done" /\ Goes(w, "log")
  <2>1. ProgressOf(w)'
    BY <1>1, <1>2, AtCall, AfterGoes DEF Poll, ProgressOf, poolVars
  <2>2. QED
    BY <1>1, <1>2, <2>1, AtCall, CallGoesInv DEF Poll
<1>3. CASE GivesUp(w)
  BY <1>3, CallGivesUpInv DEF Poll, SeedInv, TypeOK, faultVars
<1>4. ASSUME NEW t \in (worker[w].waited + 1)..Patience, t < Patience,
             worker' = [worker EXCEPT ![w].waited = t]
      PROVE  SeedInv'
  <2>1. w \in AllWorkers
    BY <1>1, AtCall
  <2>2. worker[w] \in WorkerStates
    BY <2>1 DEF SeedInv, TypeOK
  <2>3. t \in 0..(Patience - 1)
    BY <1>4, <2>2, SeedAssumption DEF WorkerStates
  <2>4. [worker[w] EXCEPT !.waited = t] \in WorkerStates
    BY <2>2, <2>3 DEF WorkerStates
  <2>5. worker' \in [AllWorkers -> WorkerStates]
    BY <1>4, <2>1, <2>4 DEF SeedInv, TypeOK
  <2>6. \A v \in AllWorkers : worker'[v].at = worker[v].at /\ worker'[v].match = worker[v].match
    BY <1>4, <2>1, <2>2 DEF SeedInv, TypeOK, WorkerStates
  <2>7. UNCHANGED <<generator, unfed, pool, remote, stored, sent, races, unlocking, known,
                    unlocked, errors, limited, Workers>>
    BY DEF Poll, poolVars, unlockVars, faultVars, Workers
  <2>8. TypeOK'
    BY <2>5, <2>7 DEF SeedInv, TypeOK
  <2>9. Hands' /\ Progress'
    BY <2>6, <2>7 DEF SeedInv, Hands, HandsOf, Progress, ProgressOf
  <2>10. Untouched' /\ OneHand' /\ Locks' /\ SentIsPlayable'
    BY <2>6, <2>7 DEF SeedInv, Untouched, OneHand, Locks, SentIsPlayable
  <2>11. QED
    BY <2>8, <2>9, <2>10 DEF SeedInv
<1>5. QED
  <2>1. \/ seed = "done" /\ Goes(w, "log")
        \/ GivesUp(w)
        \/ \E t \in (worker[w].waited + 1)..Patience :
              t < Patience /\ worker' = [worker EXCEPT ![w].waited = t]
    BY DEF Poll, Verdict
  <2>2. QED
    BY <1>2, <1>3, <1>4, <2>1

\* Reading the log changes nothing else (api.go, GetSeedSpoilerLog).
LEMMA GetSpoilerLogInv ==
    ASSUME SeedInv, NEW w \in Workers, GetSpoilerLog(w)
    PROVE  SeedInv'
<1>1. At(w, "log") /\ "log" \in Calls /\ "patch" \in Calls /\ Goes(w, "patch")
  BY DEF GetSpoilerLog, Calls
<1>2. ProgressOf(w)'
  BY <1>1, AtCall, AfterGoes DEF GetSpoilerLog, ProgressOf, poolVars
<1>3. QED
  BY <1>1, <1>2, AtCall, CallGoesInv DEF GetSpoilerLog

\* Reading the patch changes nothing else (api.go, GetSeedPatch).
LEMMA GetPatchInv ==
    ASSUME SeedInv, NEW w \in Workers, GetPatch(w)
    PROVE  SeedInv'
<1>1. At(w, "patch") /\ "patch" \in Calls /\ "store" \in Calls /\ Goes(w, "store")
  BY DEF GetPatch, Calls
<1>2. ProgressOf(w)'
  BY <1>1, AtCall, AfterGoes DEF GetPatch, ProgressOf, poolVars
<1>3. QED
  BY <1>1, <1>2, AtCall, CallGoesInv DEF GetPatch

\* A row is written for a seed that is made (generateAndSendMatchSeed).
LEMMA StoreInv ==
    ASSUME SeedInv, NEW w \in Workers, Store(w)
    PROVE  SeedInv'
<1>1. At(w, "store") /\ "store" \in Calls /\ Goes(w, "send")
  BY DEF Store, Calls
<1>2. stored' = stored \cup {worker[w].match} /\ worker[w].match \in Matches
  BY <1>1, AtCall DEF Store
<1>3. ProgressOf(w)'
  BY <1>1, <1>2, AtCall, AfterGoes DEF Store, ProgressOf, poolVars
<1>4. SentIsPlayable'
  BY <1>2 DEF SeedInv, SentIsPlayable, Store, poolVars
<1>5. remote' = remote /\ stored' \subseteq Matches
  BY <1>2 DEF Store, SeedInv, TypeOK
<1>6. QED
  BY <1>1, <1>2, <1>3, <1>4, <1>5, AtCall, GoesInv DEF Store, SeedInv, TypeOK

\* A seed is sent once its row is written (sendMatchSeedNotification).
LEMMA SendInv ==
    ASSUME SeedInv, NEW w \in Workers, Send(w)
    PROVE  SeedInv'
<1> DEFINE m == worker[w].match
<1>1. At(w, "send")
  BY DEF Send
<1>2. w \in AllWorkers /\ m \in Matches /\ m \in stored /\ (IsExternal(generator) => remote[m] = "done")
  BY <1>1, AtCall DEF ProgressOf
<1>3. UNCHANGED <<poolVars, remote, stored, unlockVars, faultVars>>
  BY DEF Send
<1>4. PICK S \in SUBSET {1, 2} : sent' = [sent EXCEPT ![m] = S]
  BY DEF Send
<1>5. sent' \in [Matches -> SUBSET {1, 2}] /\ \A o \in Matches \ {m} : sent'[o] = sent[o]
  BY <1>2, <1>4 DEF SeedInv, TypeOK
<1>6. SentIsPlayable'
  BY <1>2, <1>3, <1>5 DEF SeedInv, SentIsPlayable, poolVars
<1>7. CASE UNCHANGED worker
  <2>1. UNCHANGED <<generator, unfed, pool, races, unlocking, known, unlocked, errors,
                    limited, Workers>>
    BY <1>3 DEF poolVars, unlockVars, faultVars, Workers
  <2>2. TypeOK'
    BY <1>3, <1>5, <1>7, <2>1 DEF SeedInv, TypeOK
  <2>3. Hands' /\ Progress' /\ Untouched' /\ OneHand' /\ Locks'
    BY <1>3, <1>7, <2>1
    DEF SeedInv, Hands, HandsOf, Progress, ProgressOf, Untouched, OneHand, Locks
  <2>4. QED
    BY <1>6, <2>2, <2>3 DEF SeedInv
<1>8. CASE GivesUp(w)
  <2>1. TypeOK'
    BY <1>2, <1>3, <1>5, <1>8, GivesUpTypeOK DEF SeedInv, TypeOK, faultVars
  <2>2. QED
    BY <1>3, <1>6, <1>8, <2>1, GivesUpInv
<1>9. QED
  BY <1>7, <1>8 DEF Send

\* What of the invariant a step keeps that moves no worker and changes no seed.
LEMMA WorkersStayInv ==
    ASSUME SeedInv, UNCHANGED <<generator, worker, remote, stored, sent>>
    PROVE  /\ Hands' /\ Progress' /\ OneHand' /\ SentIsPlayable'
           /\ Workers' = Workers
<1>1. Workers' = Workers
  BY DEF Workers
<1>2. QED
  BY <1>1 DEF SeedInv, Hands, HandsOf, Progress, ProgressOf, OneHand, SentIsPlayable

\* A match that is put in the pool is still in nobody's hands.
LEMMA FeedInv ==
    ASSUME SeedInv, NEW m \in Matches, Feed(m)
    PROVE  SeedInv'
<1>1. TypeOK'
  BY DEF Feed, SeedInv, TypeOK, unlockVars, faultVars
<1>2. Untouched'
  BY DEF Feed, SeedInv, Untouched
<1>3. Locks'
  BY DEF Feed, SeedInv, Locks, unlockVars
<1>4. QED
  BY <1>1, <1>2, <1>3, WorkersStayInv DEF Feed, SeedInv

\* A match that is taken out of the pool is in one worker's hands.
LEMMA TakeInv ==
    ASSUME SeedInv, NEW w \in Workers, NEW m \in Matches, Take(w, m)
    PROVE  SeedInv'
<1> DEFINE taken == [at |-> "generator", match |-> m, waited |-> 0]
<1>1. w \in AllWorkers
  BY DEF Workers, AllWorkers
<1>2. taken \in WorkerStates /\ taken.at = "generator" /\ taken.match = m
  BY SeedAssumption DEF WorkerStates, Calls
<1>3. m \in pool /\ m # Nothing /\ remote[m] = "none"
  BY MatchesAssumption DEF Take, SeedInv, Untouched
<1>4. worker' = [worker EXCEPT ![w] = taken]
  BY DEF Take
<1>5. /\ worker' \in [AllWorkers -> WorkerStates]
      /\ worker'[w] = taken
      /\ \A v \in AllWorkers \ {w} : worker'[v] = worker[v]
  BY <1>1, <1>2, <1>4 DEF SeedInv, TypeOK
<1>6. UNCHANGED <<generator, unfed, remote, stored, sent, races, unlocking, known, unlocked,
                  errors, limited, Workers>> /\ pool' = pool \ {m}
  BY DEF Take, unlockVars, faultVars, Workers
<1>7. TypeOK'
  BY <1>5, <1>6 DEF SeedInv, TypeOK
<1>8. Hands' /\ Progress'
  BY <1>2, <1>3, <1>5, <1>6 DEF SeedInv, Hands, HandsOf, Progress, ProgressOf
<1>9. Untouched'
  BY <1>2, <1>3, <1>5, <1>6 DEF SeedInv, Untouched
<1>10. OneHand'
  BY <1>2, <1>3, <1>5 DEF SeedInv, OneHand, Untouched
<1>11. Locks' /\ SentIsPlayable'
  BY <1>6 DEF SeedInv, Locks, SentIsPlayable
<1>12. QED
  BY <1>7, <1>8, <1>9, <1>10, <1>11 DEF SeedInv

\* A worker that leaves has nothing in its hands.
LEMMA LeaveInv ==
    ASSUME SeedInv, NEW w \in Workers, Leave(w)
    PROVE  SeedInv'
<1>1. w \in AllWorkers
  BY DEF Workers, AllWorkers
<1>2. Left \in WorkerStates /\ Left.at = "left" /\ Left.match = Nothing
  BY SeedAssumption DEF Left, WorkerStates
<1>3. worker' = [worker EXCEPT ![w] = Left]
  BY DEF Leave
<1>4. /\ worker' \in [AllWorkers -> WorkerStates]
      /\ worker'[w] = Left
      /\ \A v \in AllWorkers \ {w} : worker'[v] = worker[v]
  BY <1>1, <1>2, <1>3 DEF SeedInv, TypeOK
<1>5. UNCHANGED <<generator, unfed, pool, remote, stored, sent, races, unlocking, known,
                  unlocked, errors, limited, Workers>>
  BY DEF Leave, poolVars, unlockVars, faultVars, Workers
<1>6. TypeOK'
  BY <1>4, <1>5 DEF SeedInv, TypeOK
<1>7. Hands' /\ Progress'
  BY <1>2, <1>4, <1>5 DEF SeedInv, Hands, HandsOf, Progress, ProgressOf
<1>8. Untouched'
  BY <1>2, <1>4, <1>5, MatchesAssumption DEF SeedInv, TypeOK, Untouched
<1>9. OneHand' /\ Locks' /\ SentIsPlayable'
  BY <1>2, <1>4, <1>5 DEF SeedInv, OneHand, Locks, SentIsPlayable
<1>10. QED
  BY <1>6, <1>7, <1>8, <1>9 DEF SeedInv

\* A worker whose call fails has nothing in its hands any more.
LEMMA CallFailsInv ==
    ASSUME SeedInv, NEW w \in Workers, CallFails(w)
    PROVE  SeedInv'
<1>1. errors' \in 0..MaxErrors /\ limited' \in BOOLEAN
  BY SeedAssumption DEF CallFails, SeedInv, TypeOK
<1>2. QED
  BY <1>1, CallGivesUpInv DEF CallFails

\* Nor has one whose request for a seed is refused (api.go, do).
LEMMA RefuseInv ==
    ASSUME SeedInv, NEW w \in Workers, Refuse(w)
    PROVE  SeedInv'
<1>1. errors' \in 0..MaxErrors /\ limited' \in BOOLEAN
  BY DEF Refuse, faultVars, SeedInv, TypeOK
<1>2. QED
  BY <1>1, CallGivesUpInv DEF Refuse

\* The site may begin and stop to refuse at any time.
LEMMA LimitInv ==
    ASSUME SeedInv, Limit
    PROVE  SeedInv'
<1>1. UNCHANGED <<generator, unfed, pool, worker, remote, stored, sent, races, unlocking,
                  known, unlocked, errors>>
  BY DEF Limit, poolVars, unlockVars
<1>2. limited' \in BOOLEAN
  BY DEF Limit
<1>3. TypeOK'
  BY <1>1, <1>2 DEF SeedInv, TypeOK
<1>4. Untouched' /\ Locks'
  BY <1>1 DEF SeedInv, Untouched, Locks
<1>5. QED
  BY <1>1, <1>3, <1>4, WorkersStayInv DEF SeedInv

\* The site ends a seed that nobody has believed to be made.
LEMMA RemoteEndsInv ==
    ASSUME SeedInv, NEW m \in Matches, RemoteEnds(m)
    PROVE  SeedInv'
<1>1. PICK end \in {"done", "failed"} : remote' = [remote EXCEPT ![m] = end]
  BY DEF RemoteEnds
<1>2. remote[m] = "generating"
  BY DEF RemoteEnds
<1>3. /\ remote' \in [Matches -> {"none", "generating", "done", "failed"}]
      /\ \A o \in Matches \ {m} : remote'[o] = remote[o]
  BY <1>1 DEF SeedInv, TypeOK
<1>4. UNCHANGED <<generator, unfed, pool, worker, stored, sent, races, unlocking, known,
                  unlocked, errors, limited, Workers>>
  BY DEF RemoteEnds, poolVars, unlockVars, faultVars, Workers
<1>5. TypeOK'
  BY <1>3, <1>4 DEF SeedInv, TypeOK
<1>6. Hands' /\ OneHand' /\ Locks'
  BY <1>4 DEF SeedInv, Hands, HandsOf, OneHand, Locks
<1>7. Progress'
  <2>1. ASSUME NEW w \in AllWorkers PROVE ProgressOf(w)'
    <3>1. ProgressOf(w) /\ HandsOf(w) /\ worker[w] \in WorkerStates
      BY DEF SeedInv, Progress, Hands, TypeOK
    <3>2. CASE worker[w].match = m
      BY <1>2, <1>4, <3>1, <3>2 DEF ProgressOf
    <3>3. CASE worker[w].match = Nothing
      BY <1>4, <3>1, <3>3 DEF ProgressOf, HandsOf
    <3>4. CASE worker[w].match \in Matches \ {m}
      BY <1>3, <1>4, <3>1, <3>4 DEF ProgressOf
    <3>5. QED
      BY <3>1, <3>2, <3>3, <3>4 DEF WorkerStates
  <2>2. QED
    BY <2>1 DEF Progress
<1>8. Untouched'
  BY <1>2, <1>3, <1>4 DEF SeedInv, TypeOK, Untouched
<1>9. SentIsPlayable'
  BY <1>2, <1>3, <1>4 DEF SeedInv, SentIsPlayable
<1>10. QED
  BY <1>5, <1>6, <1>7, <1>8, <1>9 DEF SeedInv

\* The log of a match is about to be unlocked only when its two races have ended
\* (back_racing.go, endActiveMatch).
LEMMA EndRaceInv ==
    ASSUME SeedInv, NEW m \in Matches, EndRace(m)
    PROVE  SeedInv'
<1>1. races[m] \in 0..2 /\ races[m] < 2 /\ races' = [races EXCEPT ![m] = races[m] + 1]
  BY DEF EndRace, SeedInv, TypeOK
<1>2. races' \in [Matches -> 0..2]
  BY <1>1 DEF SeedInv, TypeOK
<1>3. /\ unlocking' = IF races[m] = 1 THEN unlocking \cup {m} ELSE unlocking
      /\ known' = IF races[m] = 1 THEN known \cup ({m} \cap stored) ELSE known
  BY DEF EndRace
<1>4. UNCHANGED <<generator, unfed, pool, worker, remote, stored, sent, unlocked, errors, limited>>
  BY DEF EndRace, poolVars, faultVars
<1>5. TypeOK'
  BY <1>2, <1>3, <1>4 DEF SeedInv, TypeOK
<1>6. Locks'
  BY <1>1, <1>3, <1>4 DEF SeedInv, TypeOK, Locks
<1>7. Untouched'
  BY <1>4 DEF SeedInv, Untouched
<1>8. QED
  BY <1>4, <1>5, <1>6, <1>7, WorkersStayInv DEF SeedInv

\* What is unlocked was about to be (back_periodic.go, maybeUnlockSpoilerLogs).
LEMMA UnlockInv ==
    ASSUME SeedInv, NEW m \in Matches, Unlock(m)
    PROVE  SeedInv'
<1>1. m \in unlocking /\ unlocking' = unlocking \ {m}
  BY DEF Unlock
<1>2. unlocked' = unlocked \cup {m} \/ unlocked' = unlocked
  BY DEF Unlock
<1>3. errors' \in 0..MaxErrors
  BY SeedAssumption DEF Unlock, SeedInv, TypeOK
<1>4. UNCHANGED <<generator, unfed, pool, worker, remote, stored, sent, races, known, limited>>
  BY DEF Unlock, poolVars
<1>5. TypeOK'
  BY <1>1, <1>2, <1>3, <1>4 DEF SeedInv, TypeOK
<1>6. Locks'
  BY <1>1, <1>2, <1>4 DEF SeedInv, Locks
<1>7. Untouched'
  BY <1>4 DEF SeedInv, Untouched
<1>8. QED
  BY <1>4, <1>5, <1>6, <1>7, WorkersStayInv DEF SeedInv

\* Every step keeps the invariant.
LEMMA SeedInductive == SeedInv /\ [Next]_vars => SeedInv'
<1> SUFFICES ASSUME SeedInv, [Next]_vars PROVE SeedInv'
  OBVIOUS
<1>1. ASSUME NEW m \in Matches, Feed(m) \/ RemoteEnds(m) \/ EndRace(m) \/ Unlock(m)
      PROVE  SeedInv'
  BY <1>1, FeedInv, RemoteEndsInv, EndRaceInv, UnlockInv
<1>2. ASSUME NEW w \in Workers, WorkerStep(w)
      PROVE  SeedInv'
  BY <1>2, TakeInv, LeaveInv, MakeGeneratorInv, ShuffleSettingsInv, WriteSettingsInv,
     RunLocallyInv, CreateSeedInv, RefuseInv, PollInv, GetSpoilerLogInv, GetPatchInv, StoreInv, SendInv
  DEF WorkerStep
<1>3. ASSUME NEW w \in Workers, CallFails(w)
      PROVE  SeedInv'
  BY <1>3, CallFailsInv
<1>4. CASE UNCHANGED vars
  <2>1. UNCHANGED <<generator, unfed, pool, worker, remote, stored, sent, races, unlocking,
                    known, unlocked, errors, limited>>
    BY <1>4 DEF vars, poolVars, unlockVars, faultVars
  <2>2. TypeOK' /\ Untouched' /\ Locks'
    BY <2>1 DEF SeedInv, TypeOK, Untouched, Locks
  <2>3. QED
    BY <2>1, <2>2, WorkersStayInv DEF SeedInv
<1>5. QED
  BY <1>1, <1>2, <1>3, <1>4, LimitInv DEF Next

\* A match that a worker has in hand is neither waiting nor in the hands of another
\* one, and has no seed on the site before it is asked for.
LEMMA SeedInvImpliesHandledOnce == SeedInv => HandledOnce
<1> SUFFICES ASSUME SeedInv, NEW w \in Workers, worker[w].match # Nothing
             PROVE  /\ worker[w].match \notin unfed \cup pool
                    /\ \A v \in Workers \ {w} : worker[v].match # worker[w].match
                    /\ worker[w].at \in {"generator", "shuffle", "settings", "create"}
                          => remote[worker[w].match] = "none"
  BY DEF HandledOnce
<1>1. w \in AllWorkers /\ Workers \subseteq AllWorkers
  BY DEF Workers, AllWorkers
<1>2. QED
  BY <1>1 DEF SeedInv, Untouched, OneHand, Progress, ProgressOf

\* The invariant holds in every state of the generation of the seeds of a race.
THEOREM SeedInvariant == Spec => []SeedInv
<1>1. Init => SeedInv
  BY SeedInitInv
<1>2. SeedInv /\ [Next]_vars => SeedInv'
  BY SeedInductive
<1>3. QED
  BY <1>1, <1>2, PTL DEF Spec

\* The variables keep their types, for any number of workers and matches: a worker
\* that waits for a seed has waited for less than its patience.
THEOREM SeedTypeCorrect == Spec => []TypeOK
<1>1. SeedInv => TypeOK
  BY DEF SeedInv
<1>2. QED
  BY <1>1, SeedInvariant, PTL

\* No spoiler log is unlocked before both players of its match have ended their
\* races, whatever the order of the calls and of the answers of the site.
THEOREM LogsAlwaysStayLocked == Spec => []SpoilerLogStaysLocked
<1>1. SeedInv => SpoilerLogStaysLocked
  BY DEF SeedInv, Locks, SpoilerLogStaysLocked
<1>2. QED
  BY <1>1, SeedInvariant, PTL

\* A seed that was sent to a player is in the row of his match, and made.
THEOREM SentSeedsArePlayable == Spec => []SentIsPlayable
<1>1. SeedInv => SentIsPlayable
  BY DEF SeedInv
<1>2. QED
  BY <1>1, SeedInvariant, PTL

\* No match is handled by two workers, and none gets two seeds.
THEOREM MatchesAreHandledOnce == Spec => []HandledOnce
<1>1. SeedInv => HandledOnce
  BY SeedInvImpliesHandledOnce
<1>2. QED
  BY <1>1, SeedInvariant, PTL
===============================================================================
