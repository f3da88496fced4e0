# A verification project for kaepora

kaepora runs a ladder of 1v1 randomizer races: a daemon opens a race session
at each slot of a league's schedule, players register from Discord or from the
web, the daemon pairs them, has a seed generated for each pair, starts the race
on time, and closes the session and publishes the results once everybody has
finished or forfeited. This directory holds TLA+ models of it, the TLC
configurations that check them, and proofs for TLAPS.

All line numbers are of `src/`; `back/` stands for `src/internal/back/`, `bot/`,
`web/` and `generator/` for their directories next to it.

## Inventory

### Components, their state and their operations

| Component | Code | State it keeps | Operations | Modules |
|---|---|---|---|---|
| Race sessions | `back/back_periodic.go`, `back_racing.go`, `back_matchmaking.go`, `match_session.go`, `match.go` | tables `MatchSession` (status, start date, `PlayerIDs`), `Match` (`StartedAt`, `EndedAt`, seed), `MatchEntry`; in memory `countingDown` and the copies held by goroutines | the transactions of a pass of the daemon; countdown and start; storing a seed; join, cancel, complete, forfeit | `MatchSessions` |
| Match entries | `back/match_entry.go` | the status and outcome of one player in one match | `start`, `forfeit`, `complete` | `MatchEntry`, `Duel` |
| Pairing by skill | `back/back_pair_players.go` | none (pure, random) | rating ranges, overlaps, random pairs | `Pairing` |
| Rankings | `back/back_ranking.go`, `player_rating.go` | tables `PlayerRating`, `PlayerRatingHistory` | weekly Glicko periods, `Rerank` | `Rankings` |
| Scheduling | `back/schedule/`, `league.go` | none (pure) | `NextBetween` of the three schedulers | `Schedules` |
| Notifications | `back/notification.go`, `bot/bot.go`, `bot/bot_notifications.go`, `bot/channel_writer.go` | a channel of 32 notifications | send (from transactions and goroutines), consume, retry | `Notifications` |
| Process | `src/main.go` | the `done` channel, a `WaitGroup` | boot, signal, shutdown | `Notifications` |
| Seed generation | `src/internal/generator/`, `src/pkg/ootrapi/` | external jobs, a pool of workers | generate, poll with a time-out, unlock a spoiler log | `SeedGeneration` |
| Settings shuffle | `generator/oot/settings/` | none (pure, random) | draw settings within a budget | `Shuffle` |
| Discord bot | `bot/bot_*.go` | admin list, channels | commands, most of them calls of the components above | in those of the components |
| Web server | `src/internal/web/` | session cookie | pages; log in and out; the join and cancel forms | `Pages` |
| Statistics, documentation pages, configuration, fixtures | `back/back_stats.go`, `back_web_stats.go`, `config/`, `util/`, `back_dev.go` | none of their own | queries and formatting | none |

### How they interact

* The daemon is one goroutine (`Back.Run`, back.go:69-85) that runs a *pass* at
  boot and then every minute. A pass is a sequence of SQL transactions; the
  first error ends it (back_periodic.go:13-50). SQLite serializes transactions,
  and `Back.transaction` (back.go:92-107) commits or rolls back each as a whole.
* A pass spawns goroutines that outlive it: the countdown of each session about
  to start (back_periodic.go:184-186), which sleeps, then starts the session in
  a transaction of its own; and the pool of workers that generate the seeds
  (back_matchmaking.go:70-163), each of which ends with an update of a match.
  They work on *copies* of rows read by the transaction that spawned them.
* Bot and web server run in goroutines of their own and call the player
  operations, each one transaction or several.
* Everything that must be said to players is a notification put on a bounded
  channel, often in the middle of a transaction, which the bot consumes.

### What is hard in it

* **Stale copies.** Whole rows are written back from copies read in an earlier
  transaction: by matchmaking (a minute's pass), by the countdown (up to 90 s),
  by the seed generation (minutes). A web request reads in several transactions.
* **Non-atomic protocols.** Preparing and matchmaking, or closing, ranking and
  announcing, are separate transactions with steps of players between them.
* **Failure.** Any transaction may fail; the daemon retries on its next pass,
  if what it selects still shows that work is left to do; goroutines do not.
  What a transaction has said is not taken back when it is rolled back.
* **Restart and shutdown.** `countingDown`, the countdowns and the seeds in
  generation are lost when the process stops; the tables are not. Senders and
  the consumer of the channel leave in some order.
* **Ordering.** Two opponents may complete and forfeit in any order, before or
  after the start; a player may be in several sessions over time.
* **Time.** Sessions go through windows of the clock; a pass may run late; weeks
  are those of UTC, and the hours of a schedule those of other zones.

`PROJECT.json` lists the hazards, each at its line with the properties that cover it.

### What makes each component correct

* *Sessions*: a player never has two races to run; opponents start together
  and not early; no session is closed, or recapped in public, under a runner;
  everybody registered is served; whatever is over is closed, but for an erased
  end; matchmaking kicks the last of an odd number only.
* *Match entries*: the outcomes are what the two races deserve in any order of
  events, are final, and implement the promise of a 1v1 race (`Duel`).
* *Rankings*: a match counts in the rating of the week it started and in no
  other, before its result is announced; `Rerank` restores every match that has
  a date.
* *Pairing*: every player in one pair; nobody close in skill is left over.
* *Scheduling*: a date that is shown gets its session, and only dates of the
  calendar do.
* *Notifications and process*: the last a player hears is his outcome; what is
  committed was announced; no sender holds the database for ever; shutdown ends.
* *Seed generation*: one seed at most for a match, sent when it can be played,
  its log locked until both have ended; the pool ends, unless the site refuses
  its requests for ever.
* *Settings*: compatible with one another.
* *Pages*: no log and no result to somebody who should not see it yet.

## Modules

| Module | Models | Role |
|---|---|---|
| `MatchEntry` | `back/match_entry.go` | operators from entries read to entries written, and the reference verdict |
| `MatchSessions` | `back/back_periodic.go`, `back_racing.go`, `back_matchmaking.go`, `match_session.go`, `match.go`, `back.go` | the state machine, its properties and its `IInv` |
| `Duel` | what a 1v1 race promises | the abstract specification |
| `MatchSessionsDuel` | the refinement mapping | `ImplementsDuel` |
| `Rankings` | `back/back_ranking.go`, `player_rating.go`, closing in `back_periodic.go`, the queries of `match.go` | one league's ratings |
| `Notifications` | `back/notification.go`, `bot/bot.go`, `bot_notifications.go`, `channel_writer.go`, `main.go`, and who sends what in `back/` | the channel, its two ends and the shutdown; extends `MatchEntry` |
| `SeedGeneration` | the pool in `back_matchmaking.go`, `generator/`, `pkg/ootrapi/api.go` | workers, generators, the site |
| `Pairing` | `back/back_pair_players.go` | the two loops of a pairing |
| `Schedules` | `back/schedule/`, `web/races.go` | the schedulers, the daemon and the page that use them |
| `Shuffle` | `generator/oot/settings/settings.go` | the loop that draws settings |
| `Pages` | `web/races.go`, `auth.go`, `action.go`, `back/back_web.go` | requests over the races of `MatchSessions`, which it extends |
| `MCMatchSessions`, `MCRankings`, `MCNotifications`, `MCSeedGeneration`, `MCPages` | constants of the runs | model checking |
| `MCAlgorithms` | constants and the behaviours of `Pairing`, `Schedules` and `Shuffle`, one at a time | model checking |
| `MatchSessionsProofs`, `LadderProofs`, `RankingsProofs`, `NotificationsProofs`, `AlgorithmProofs`, `SeedGenerationProofs`, `PagesProofs` | theorems | TLAPS |
| `Induction` | lemmas: induction, least elements, sets as sequences | TLAPS |

The exact lines of every definition are in `PROJECT.json`, "map". A definition
whose name ends in `_Something`, just before one without that suffix, is a
plausible bug of the code: the runs are known to catch it.

### MatchSessions, against the code

*State.* `status`, `playerIDs` are columns of `MatchSession`; a match is the
pair of its players, with a row (`matches`), a `StartedAt` (`started`) and an
`EndedAt` (`ended`); `entry` is `MatchEntry`. A session is a slot of a league's
schedule; `StartDate` and `LeagueOf` are constants and no two slots of a league
coincide. `pc` is the transaction the daemon runs next; `prepared` and
`preparedIDs` are the copies `makeMatchSessionsPreparing` returns to
`doMatchMaking`; `closing` is the list that closing hands to the announcements;
`counting`, `countingIDs`, `countingDown` and `generating` are the goroutines
and what they hold.

| Action | Code |
|---|---|
| `CreateNextScheduledMatchSessions` | back_periodic.go:54-87 |
| `MakeMatchSessionsJoinable` | back_periodic.go:91-123 |
| `MakeMatchSessionsPreparing` | back_periodic.go:127-173 and 413-433 |
| `DoMatchMaking` | back_matchmaking.go:23-65 and 187-297 |
| `StartMatchSessions` | back_periodic.go:175-190 and 280-294 |
| `CloseMatchSessions`, `AnnounceClosedSessions` | back_periodic.go:298-397 |
| `DaemonFails` | the error paths of the pass, back_periodic.go:13-50 |
| `StartSession`, `StartSessionFails` | back_periodic.go:217-278, match_session.go:336-381 |
| `GenerateMatchSeed`, `GenerateMatchSeedFails` | back_matchmaking.go:70-163 |
| `JoinCurrentMatchSessionByShortcode`, `JoinMatchSessionByID`, `CancelActiveMatchSession`, `ForfeitActiveMatch`, `CompleteActiveMatch` | back_racing.go |
| `Tick`, `Stop`, `Boot` | the clock and the process |

*Abstractions.* Commands that the code refuses change nothing and are not
actions: their guards are. Players who never registered on the site do not
appear. A pairing is any perfect matching of the kept players: `Pairing` is
where it comes from, and `PairingIsPerfect` is the defining condition of
`Pairings`. Notifications, ratings and the content of seeds are state of other
modules. One tick of the clock stands for several minutes, so offsets are small
numbers that keep the order of the real ones (90 s < 15 min < 1 h).

*An assumption about the page.* `JoinMatchSessionByID` of the model refuses a
session that is still `Waiting`. The handler (back_racing.go:38-52) does not look
at the status: only the form does (`IsJoinable` in
`resources/web/templates/includes/current_races.html`). `OneActiveRace` rests on
requests that come from that form, old ones included: one sent by hand for a
session that has not opened would not keep its player out of another.

*Time.* With `Prompt = FALSE` the clock may advance at any moment: the daemon
may be late by any amount. With `Prompt = TRUE` a tick waits for a whole pass
and for the countdowns that have elapsed, which is what a healthy process does.

### Rankings, against the code

*State.* The tables: `startedAt` and `ended` of each match, `over` for those whose
two entries have ended, `closed` sessions, `rating` (`PlayerRating`) and `history`
(`PlayerRatingHistory`, a row for a week and a player). `pc` and `closing` are the
three transactions of `closeMatchSessionsAndUpdateRanks` and the list they share;
`seeding` are the matches whose seed is not stored yet; `reranking`, `rerankWeek`
and `rerankEnd` are the loop of `Rerank`; `announced` are the sessions whose recap
was sent. Two variables are history, read by no action: `begun`, when a session
was started, which its matches may forget, and `outdated`, which says that the
ratings are those of a week that was over when a `Rerank` wrote them.

| Action | Code |
|---|---|
| `CloseMatchSessions` | back_periodic.go:298-361 |
| `RankClosedSessions` | back_periodic.go:363-374, back_ranking.go:18-106 and 150-175 |
| `AnnounceClosedSessions` | back_periodic.go:376-397 |
| `DaemonFails` | their error paths |
| `Rerank` | its first transaction, back_ranking.go:178-214, whose last query may fail after the deletion |
| `RerankPeriod`, `RerankFails` | one turn of its loop, back_ranking.go:216-228 |
| `StartSession`, `EndRace`, `StoreSeed` | `StartSession`, the second `ForfeitActiveMatch` or `CompleteActiveMatch`, and `GenerateMatchSeed` of `MatchSessions` |
| `Tick`, `Stop`, `Boot` | the clock and the process |

*Abstractions.* A rating is what it was computed from: the sequence of the
player's results, week by week, each with whether the outcome was final. Two
ratings computed from the same rows by `computePeriod` are then equal, and the
numbers of Glicko-2, including the rating of the opponents, do not appear. An
empty sequence is an absent row. A league is alone, and the transactions of the
daemon before closing do not touch this state. A session may have several races,
which end in different weeks; a seed that is stored after the start of its race
erases both its dates, as in `MatchSessions`. The clock starts at a Monday 00:00
UTC. With `Prompt` it waits for the daemon's pass, never for `Rerank`.

### Notifications, against the code

A transaction holds the database from its first statement to its end, and some
send in the middle of it. Here a transaction is a record, `tx`: who runs it,
the notifications it still has to send, in order, and the tables it will have
written. One that sends nothing is a single step. The others are committed
(`TxCommits`) after their last send, and may fail before it (`TxFails`).

| Action | Code |
|---|---|
| `TxSend`, `TxCommits`, `TxFails` | back.go:92-107, the sends of notification.go |
| `Create` to `AnnounceClosed`, `DaemonWakes` | the pass, back_periodic.go, back_matchmaking.go:23-65, and its loop, back.go:69-85 |
| `SayCountdown`, `Elapse`, `SayStartsNow`, `StartSession` | the countdown and the goroutine it starts, back_periodic.go:217-278 |
| `GenerateSeed`, `SendSeed` | back_matchmaking.go:129-163, notification.go:291-346 |
| `Forfeit`, `Complete`, `SendPrivateRecap`, `SendSpoilerLog` | back_racing.go:121-187 |
| `AskRecap`, `AskSeed` | `!recap` (bot.go:236-283) and `!seed` (back_dev.go:19-60) |
| `Take`, `Retry`, `BotLeaves` | `Bot.Serve` (bot/bot.go:85-131), the handlers of bot_notifications.go and the retries of channel_writer.go |
| `Signal`, `Exit` | main.go:94-123 |

*Abstractions.* A notification is its type, its recipient and what its body
tells of the results. Who registers for a session is chosen in `Init`: joining
sends nothing on the channel. The pairs are those of neighbours in the order of
registration. Seeds are made by the pool of `SeedGeneration`; here a generation
ends in one of two ways. A player gives one command at a time. The web server's
goroutine shares nothing with the channel, and leaves when `done` is closed. A
message that the bot gives up is not heard: `told` is what was posted last to a
player, and `lost` are those whose last one was given up. With `Signals` the
signal may come at any moment, before the goroutines have called `wg.Add` too.

### SeedGeneration, against the code

`generator` is that of the league; `unfed`, `pool` and `worker` are the loop
that fills the channel, the channel and the goroutines that read it; a worker is
*at* the call it is about to make. `remote` is the seed on the site (external).
`stored`, `sent` are the row of the match and what was sent; `races`,
`unlocking`, `known` and `unlocked` are what the end of a match does to the log.

| Action | Code |
|---|---|
| `Feed`, `Take`, `Leave` | back_matchmaking.go:70-127 |
| `MakeGenerator` | factory.go:14-56 |
| `ShuffleSettings`, `WriteSettings`, `RunLocally` | settings_randomizer.go, randomizer_api.go:58-75, randomizer.go:31-142 |
| `CreateSeed`, `Poll`, `GetSpoilerLog`, `GetPatch` | api.go:67-178, randomizer_api.go:93-118 |
| `Store`, `Send` | back_matchmaking.go:129-163, notification.go:291-346 |
| `CallFails`, `Refuse` | any error; the rate limit, api.go:196-254 |
| `EndRace`, `Unlock` | back_racing.go:121-168, back_periodic.go:400-411 |

A request that is rate-limited is sent again without limit inside of the call
(`API.do`). As long as the site refuses (`limited`, external), the calls that have
no body to send do not return, which is the absence of a step: no poll is counted
and the time-out is not reached. The one that creates a seed has no body left the
second time and fails (`Refuse`).

### Pairing, Schedules and Shuffle, against the code

*Pairing.* `Visit` is an iteration of `rangedPairPlayers` and `Draw` one of
`orderedRandomPairPlayers`, with every outcome of the random draws and every
order that an unstable sort may give. The weights that make close ratings more
likely are left out.

*Schedules.* Time is in hours from a Sunday at midnight, UTC. `flattenHours`,
`DayOfWeekNext` and `RollingNext` are the two schedulers that have dates, the
third never has any. `LeaguesAssumption` asks that hours be in zones that exist,
that hours, periods and offsets be whole, and that no offset be negative: the code
accepts one, and the loop of the schedule page (races.go:307) would not end.
`CreateNext` is what the daemon does with them and `OpenPage` what the schedule
page shows. `Calendar` is the reference: the dates
in a span of time, whatever week they are in.

*Shuffle.* `NextPass` enters the outer loop and `DrawSetting` is a turn of the
inner, over keys in a random order; the last one ends the pass. A draw may take any value with a
positive weight, or none. `Settles` is what drawing one setting does to another.
The files of settings are constants, about which two assumptions say what the
files in `src/resources/oot-randomizer` (`*-shuffled.json`) are written so as to
ensure, and the code takes for granted: values that would give a third setting
different values decide each other (`ImpliesAssumption`), and the values of the
bridges are those `handleBridgeSettings` knows (`BridgeAssumption`). Without
them drawing one value may undo what another implied: the code tries no
order.

### Pages, against the code

A request reads the cookie and the row it asks for (`OpenSpoilerLog`,
`OpenSession`) and looks whether the person is an admin later (`AnswerRequest`);
races go on in between, and while somebody looks at the page. That last look asks
whether an admin races, in a transaction whose failure reads as no
(match_session.go:175): `AnswerUnchecked` shows him what he asked for, and the
properties tell that answer from the others. What is shown is
kept in `request` until the next one. `authDiscord`, `CookieEnds` and
`RegisterDiscordPlayer` are the accounts. The races are the actions of
`MatchSessions`, and only people with an account may join them.

## Checks

### Runs that pass

| Run | Instance | Properties | What it shows |
|---|---|---|---|
| `one` | 1 session, 4 players, 1 failure, any lateness | `OutcomesConsistent`, `OneMatchPerEntry`, `RacesAreFair`, `RecapOnlyWhenAllEnded`, `ResultsAreFinal`, `OnlyTheLastIsKicked` | one race, in every interleaving of the daemon, the goroutines and the players, with one failed transaction |
| `two` | 2 players, 2 sessions of 2 leagues, 6 ticks, 1 restart | `OneActiveRace`, `ImplementsDuel` | a player is never in two races, although sessions overlap; the sessions implement `Duel` |
| `live` | 1 session, 3 players, 1 failure, 1 restart, `FairSpec` | `EndedSessionIsClosed`, `RegisteredPlayerIsServed`, `MatchIsStarted` | what is over is closed, unless an end was erased; who is registered is served; matches are started, late if need be, unless their start failed |
| `rank` | 1 session of 2 races, weeks of 2 ticks, 1 failure, 1 restart, 1 `Rerank`, `FairSpec` | `CountedInItsWeek`, `RerankIsComplete`, `EndedIsRanked`, `AnnouncedIsRanked` | races that end on either side of a Monday: each counts in the week it began, though daemon and `Rerank` upsert a week in any order and seeds erase dates; a `Rerank` that ends has counted every race that has a date; what ends in its week is ranked in the end, and a recap is sent after the ratings hold its races, or in a case the properties name |
| `notify` | 1 session of one or three players, a channel of 1, 1 incident of any kind | `LastWordIsOutcome`, `EndedIsTold`, `RecapsAreDue`, `CommittedIsAnnounced` | who has ended hears of it, and the last he hears is his outcome, unless the bot gave it up; recaps show what may be known; what is committed was announced, though what is said is not taken back by a rollback |
| `shutdown` | 1 session of two players with its countdown, a signal at any time, `FairSpec` | `DatabaseIsReleased`, `ShutdownEnds` | no sender holds the database for ever while the bot serves; the process exits, or is stuck in the one way the property names |
| `seeds` | 2 matches, 1 or 2 workers, three generators, 1 error, a site that refuses when it likes, `FairSpec` | `SpoilerLogStaysLocked`, `SentIsPlayable`, `HandledOnce`, `SeedgenEnds` | one seed at most for a match, sent once made, its log locked until both have ended; the pool ends though the site may never make a seed, if it stops refusing |
| `algorithms` | 4 players of 3 ratings and 2 deviations; 6 schedules; 9 settings and a budget of 12 | `PairingIsPerfect`, `RangesAreExhausted`, `ScheduleIsHeld`, `SettingsAreCompatible` | every skill and every draw; every hour of two weeks; every order and every draw |
| `pages` | 1 session, 2 players of whom one is an admin, 1 visitor, a check that may fail, a healthy daemon | `SpoilersAreHidden`, `ShownResultsStay`, `StartsOnTime`, `CountedDownIsStarted` | what a page shows is due to who sees it, whatever happens while the request is answered, but to an admin whose check failed; each session leaves its waiting phases by its start, and no countdown is lost |

Each of `one`, `rank`, `notify`, `seeds` and `pages` also checks the type
invariant of its module.

*Bounds.* Every bound is a constant of its module, and named there.

* `MatchSessions`: `MaxTime` lets the clock pass the last start by at least one
  tick after every window (joinable, preparing, countdown, past) has been
  visited; four players make two matches and three an odd one out. `MaxFailures`
  and `MaxStops` are 0 or 1 because every property is about what one lost
  transaction or one lost memory leaves behind, and retries are already loops of
  the model. Players are symmetric, and the safety runs use that; liveness runs
  do not. `Pages` adds two people and lets the daemon be prompt and fail never:
  lateness and failures are the subject of `one`, and of the proofs.
* `Rankings`: a week is two ticks, the least that tells a race that starts and
  ends in a week from one that straddles two. The session begins at the last tick of
  the first week or later, and its races end on either side of the Monday. The clock
  stops at the end of the second week. One `Rerank` is called, and takes as long as it
  likes. The daemon is prompt, which still lets a week end between a start and a
  ranking. The proofs have no such hypothesis, nor any bound on the sessions.
* `Notifications`: with `Capacity` 1 every second send waits. `MaxAttempts` is 2
  for the 4 of the code: one that is followed by another and one that is the last.
  `MaxIncidents` is 1, of any of `Incidents`, at any step: a transaction that
  fails, an attempt at posting that fails, a command that reads. `Commanders`,
  `MaxSeeds` and `Entrants` say who does something: both players and a seed in
  `notify`, the first player in `shutdown`, whose subject is who waits for whom.
* `SeedGeneration`: `Patience` is 2 polls for 24; two matches for one or two
  workers make the pool wait and make workers share. `MaxErrors` is 1; refusals
  have no bound.
* `MCAlgorithms`: days of four hours and weeks of three days, so that the last
  hour of a week in the west is in the next one in UTC; `MaxHour` covers two
  weeks. `SmallSize` and `MediumSize` are 2 and 4 for 8 and 16, so that both
  distances are used by four players. `maxIterations` is 3 for 1000 with a
  `TolerancePeriod` of 1 for 100, so that the last pass has a tolerance.

Deadlock is checked wherever the daemon always has a next transaction or can
boot. It is not in `Notifications` (a process that exits stops), in
`SeedGeneration` (the workers leave) and in `MCAlgorithms` (a pairing is done).

*Fairness.* Nothing is asked of players, so no property says that a race ends.
Failures are bounded: a transaction that fails for ever would defeat any service.

* `MatchSessions` and `Rankings`: weak fairness of the clock, of booting (a
  service manager restarts the process), of the daemon's steps (a ticker drives
  it) and of the goroutines: the start of each session once its countdown has
  elapsed, the seed of each match (a generator has a time-out), the turns of a
  `Rerank` that was called.
* `Notifications`: weak fairness of what only needs to be scheduled: a send for
  which there is room, a commit, the bot, the exit, the clock. Strong fairness of
  what waits for the database or for room and competes for it: the daemon, the
  countdowns, the seeds, what a command does after its first transaction. A
  lock and a channel that are free again and again are given in the end. Strong
  fairness too of `BotLeaves`: between a notification and `done`, both ready,
  `select` picks at random, so the bot does not take notifications for ever.
* `SeedGeneration`: weak fairness of the loop that feeds the pool, of each worker
  and of each unlocking. The site owes no seed: `SeedgenEnds` holds because
  polling gives up. It only asks, of a site that has refused, that it stops.

### Runs that show a disagreement

| Run | Claim | What the code does |
|---|---|---|
| `stuck` | "getMatchSessionsToEnd returns all non-closed sessions that are both stale [...] and have no matches in progress" (back_periodic.go:296) | after such an erasure nobody can end the match again, nothing selects its session, and it stays in progress for ever |
| `schedule` | "NextBetween returns the first event occurring between two point in time" (schedule.go:14) | on a Sunday in UTC, an event of the Saturday evening of a western zone belongs to the week before, and is skipped |
| `racing_admin` | "Don't allow access to spoiler logs and stuff if the user is in a race" (auth.go:88) | whether he is in one reads as no when the transaction that asks fails |

documentation.md is `src/resources/web/content/en/documentation.md`.

What remains true next to them is in the properties of the passing runs:
`EndedMatchIsOver`, `UnfinishedRaceIsOpen` and `EndedSessionIsClosed` (a session
that is over is closed, or has an erased end) for the first; `EndedIsRanked`,
`RerankIsComplete` and `AnnouncedIsRanked`, each of which names its exceptions, for
the claims about ratings below; `ScheduleIsHeld` for the schedule (the page and the daemon skip the
same dates); `SpoilersAreHidden` for the pages. `NextIsFirstInside` proves the
claim of `schedule` for all leagues whose hours are inside of the week of UTC,
neither before nor after it nor at its very beginning, and whose periods have no
offset.

The modules state other claims which TLC refutes, and which no run repeats.

| Definition | Claim | What the code does | To see it |
|---|---|---|---|
| `HasEndedWhenBothEnded` | "HasEnded returns true if both players ended their race" (match.go:84) | the goroutine of the seed writes the match back as it was before, and erases an `EndedAt` | `stuck` |
| `LeaderboardIsUpdated` | "When all races of a session are completed the leaderboard is updated" (documentation.md:5) | the week of the closing is ranked: a race of that session that ended before, on Sunday, is in no rating, and neither is one that straddles Monday | `rank` |
| `RerankRegenerates` | "Rerank removes and regenerates all rankings for a given league" (back_ranking.go:177) | a race whose `StartedAt` a late seed erased is not found again | `rank` |
| `AnnouncedIsCurrent` | the announcements are separate "to avoid delaying ranking updates and working with stale data" (back_periodic.go:376) | a `Rerank` called the week before ends after the ranking, and puts back the ratings of that week | `rank` |
| `ToleranceGoesBothWays` | "a tolerance for going under or over the cost budget" (settings.go:72) | the tolerance is taken from the budget: the sum never goes over it, and once the tolerance is positive never reaches it | `algorithms` |
| `NoJoinAfterPreparation` | no join after the preparation began (bot.go:285) | a web form that is sent late is accepted | `stuck` with three players |
| `StartsOnlyPreparing` | only a preparing session can be started (match_session.go:337) | the check looks at the copy: a session closed meanwhile is reopened, and closed again by the next pass | `stuck` with `Prompt = FALSE` |
| `CountedDownIsStarted` | the race starts when planned | a failed start transaction is never tried again while the process lives | `stuck` with `MaxFailures = 1` |
| `RatingsAreKept` | a week without racing slightly increases the deviation (documentation.md:80), and takes nothing from the rating | a week without a closed session has no history, and the next one starts from default ratings; a race whose date was erased is gone when its week is ranked again | `rank`; with a second session in the third week for the first case |
| `RunsUntilDone` | "Run performs all the matchmaking business until the done channel is closed" (back.go) | the bot leaves first; a daemon that waits for room in the channel stays | `shutdown` |
| `OverIsUnlocked` | the spoiler log is available from the link of the seed once the race is over (documentation.md:51) | two forfeits before the seed is stored leave it locked: unlocking is tried once | `seeds` |

Also met while modelling, and part of the models: matchmaking removes the odd
player from a session that is already preparing, although the schema calls
`PlayerIDs` read-only from then on (line 87); a failed matchmaking leaves a
session without a match, which is closed after its date; a ranking that fails
after the closing is not tried again before another session of the league closes
in the same week, or a `Rerank` (the exception of `EndedIsRanked`); a forfeit that
is rolled back may already have told the opponent that he won, and nothing takes
it back before the race really ends (`EndedIsTold` does not say what he heard); a request
for a seed that is refused by the rate limiter is sent again without its body
(`Refuse`); one failed request for the status of a seed abandons it (`CallFails`
at `poll`); the branch of auth.go:121 that would register a newcomer is never
taken (`authDiscord`); and `wg.Add` is called by the goroutines themselves, so
that a signal that comes before waits for nobody.

## Proofs

| Module | Theorem | States |
|---|---|---|
| `MatchSessionsProofs` | `Invariance` | `Spec => []IInv` |
| | `TypeCorrect` | the type invariant |
| | `OneActiveRaceHolds` | `OneActiveRace` |
| | `RecapHolds` | `RecapOnlyWhenAllEnded` |
| | `OneMatchHolds` | `OneMatchPerEntry` |
| | `OutcomesHold` | `OutcomesConsistent` |
| | `RacesAreAlwaysFair` | `RacesAreFair`: `EndedMatchIsOver`, `UnfinishedRaceIsOpen`, `OpponentsStartTogether`, `NoRaceBeforeStart` |
| | `ResultsAreFinalHolds` | `ResultsAreFinal` |
| `LadderProofs` | `NobodyIsRegisteredTwice` | no list of players, in a table or a copy, holds one twice |
| | `OnlyTheLastIsKickedHolds` | `OnlyTheLastIsKicked` |
| | `CountedDownIsAlwaysStarted` | `CountedDownIsStarted`, until a transaction fails |
| | `SessionsAlwaysStartOnTime` | `StartsOnTime`, with `Prompt` and races that are apart, until a failure or stop |
| | `Refinement` | `ImplementsDuel` |
| `RankingsProofs` | `RankingsInvariance` | `Spec => []IInv` for the `IInv` of `Rankings` |
| | `RankingsTypeCorrect` | the type invariant |
| | `CountedInItsWeekHolds` | `CountedInItsWeek` |
| | `OneWeek` | a time is in one week at most |
| | `RerankIsAlwaysComplete` | `RerankIsComplete` |
| | `AnnouncedIsAlwaysRanked` | `AnnouncedIsRanked` |
| `NotificationsProofs` | `Invariance` | `Spec => [](IInv /\ Types)`, defined there |
| | `TypeCorrect` | the type invariant |
| | `CommittedIsAlwaysAnnounced` | `CommittedIsAnnounced` |
| | `RecapsAreAlwaysDue` | `RecapsAreDue` |
| | `LastWordIsAlwaysOutcome` | `LastWordIsOutcome` |
| `AlgorithmProofs` | `PairingInvariant` | `PairingInv` |
| | `PairingIsAlwaysPerfect` | `PairingIsPerfect` |
| | `RangesAreAlwaysExhausted` | `RangesAreExhausted` |
| | `ScheduleInvariant` | `ScheduleInv` |
| | `ScheduleIsAlwaysHeld` | `ScheduleIsHeld` |
| | `NextIsFirstInside` | `NextIsFirst`, for leagues whose hours are inside of the week of UTC |
| | `SettingsAreAlwaysCompatible` | `SettingsAreCompatible` |
| `SeedGenerationProofs` | `SeedInvariant` | `SeedInv` |
| | `SeedTypeCorrect` | the type invariant |
| | `LogsAlwaysStayLocked` | `SpoilerLogStaysLocked` |
| | `SentSeedsArePlayable` | `SentIsPlayable` |
| | `MatchesAreHandledOnce` | `HandledOnce` |
| `PagesProofs` | `PagesInvariant` | `PagesInv` |
| | `PagesTypeCorrect` | the type invariant |
| | `SpoilersAreAlwaysHidden` | `SpoilersAreHidden` |
| | `ShownResultsAlwaysStay` | `ShownResultsStay` |

They hold for every value of the constants that the named assumptions of the
modules allow, and rest on nothing else but the hypotheses that the table names.
Players, leagues, sessions, dates, offsets, workers, settings and bounds are
arbitrary; the players of a pairing and the workers are finite sets.

*MatchSessions.* `IInv` (end of the module) is inductive, one lemma per action.
The safety properties alone are not, for reasons that are those of the code:

* `OneActiveRace` needs `OneEngagement`: what keeps a player out of a second
  race is, in turn, a registration in a joinable session, his place in the
  daemon's copy of it between two transactions, and his unfinished entry.
* The steps that write back a copy need to know that the copy still describes
  the races: `PreparedSessions` (no match yet, still preparing, no countdown)
  and `FreshSessions` (nothing in memory about a session not yet prepared).
* `RecapOnlyWhenAllEnded` is about a set chosen one transaction earlier, hence
  `ClosedSessions`, which survives the reopening by a late start because a
  start only touches entries that wait.

*Registrations.* The odd player is taken out by his name, so `OnlyTheLastIsKicked`
needs `NoDuplicates` of the lists and of the copies that are written back, which
is inductive next to `IInv`. `KeptAreAllButTheLast` says what removal returns.

*Punctuality.* What must have been done by now is said of the last time the
daemon looked (`LastRun`): this tick's, or the tick's before as long as this
pass has not come so far. By then the next race of a league has been created,
those within the hour have been opened, those within the offset prepared, those
within the lead counted down (`InTime`), each following from the one before,
and `StartsOnTime` from the last. `StatusIsKept` is why nobody undoes it: not
even the copy that matchmaking writes back reopens a session. The hypotheses are
needed: a late daemon starts late, and a race that follows another of its league
within the preparation is created too late (`RacesAreApart`). The race of a
countdown and the pass of the daemon over who starts a session is
`CountedDownIsStarted`; it survives stops and late daemons.

*Refinement.* Matchmaking is `Pair`, a completion `Finish` and a forfeit
`GiveUp`; everything else, restarts and stale writes included, is invisible to
the two players of a match. It uses `IInv` to know that the opponent read off the
tables is unique and that outcomes agree before the step.

*Rankings.* `CountedInItsWeek` is inductive together with `CountedIsBegun` and
`DatesAreBeginnings`: a row is computed from the row of the week before, so what it
says must be said of all weeks at once; a date is erased after it was counted, so
it is said of `begun` and not of the date; and the only date a race ever has is the
one it began at. `InItsWeek` is the arithmetic: the half-open interval that the SQL
query selects is the week of the date.

`RerankInv` says that while `Rerank` is at work the weeks before the next one have
counted every race that has a date (`RerankIsUnderWay`): the daemon only ranks the
week it is, a race that starts meanwhile is in the last one, which is ranked last,
or in a later one, and one that loses its date asks for nothing more. `AnnouncedIsRanked` needs what
the ranking before the announcement has done (`RankedBeforeAnnounced`), and that it
was not undone since: a `Rerank` that ends in the week after its call leaves
`outdated` behind until somebody ranks again, which is one of the exceptions the
property names, and what refutes `AnnouncedIsCurrent`.

*Notifications.* What has been sent is not taken back, so what an open
transaction holds must be as right as what is committed: `IInv` says of both, in
the same words (`Sound`), that each table is announced, and each outcome heard
last, once what is still to be sent is sent; and of the open one, that it may
still be rolled back (`Follows`): it changes no match that is over and ends no
player's race twice. Two more facts are of the code in between: the sessions
prepared by a pass have no match before it makes them (`PreparedHaveNoMatch`),
and a command that goes on after its first transaction is of a player who has
ended (`CommandsHaveEnded`). What the bot does with a message, retries included,
only moves the head of what is in flight, and what it gives up is in `lost`.

*Pairing.* `PairingInv` says that the pairs are disjoint and made of players, and
what each loop has left to do. The second loop takes out two players at a time,
so it needs that their number is even, which comes from the parity of the players
and of the pairs of the first. Visiting a player leaves none of his candidates
both unmatched and visited: this is how `RangesAreExhausted` survives the draws.

*Schedules.* The daemon does not look for the date that the page has listed; it
creates whatever comes next. `ScheduleInv` says why they agree: a date that is
listed and has no session is what `NextBetween` answers from an hour whose pass
is still to come (`IsToCome`): from there the daemon looks farther than the page
did, and a date found within a span is the one found within a longer one. What
`SchedulesBetween` returns, a recursive function, is by `AllOf` below.
`NextIsFirstInside` finds the first date of a union of slots that each come once
a week, in each of the weeks that `flattenHours` lists.

*SeedGeneration.* `SeedInv` says, of the call each worker is at, what the site
and the row of its match are (`Hands`, `Progress`), that a match nobody has taken
is untouched (`Untouched`) and taken by one worker only (`OneHand`), and that an
unlocking is of a match that is over (`Locks`).

*Shuffle.* The settings are compatible because a setting that another value implies is decided, so nothing is
drawn for it any more, and what a draw overwrites it overwrites together with
the values that needed it (`SettingsInv`, from the two assumptions above).

*Pages.* `PagesInv` says that what a request has read is still true of the
tables. Two facts of the races make it inductive: whoever has ended his race has
ended it for good, and the matches of a session are created all at once
(`GoesOn`); the results that are shown stay by `EveryStepIsFinal`. An admin who is
found to be in a race is no admin (`AdminsHaveEnded`); the answer of a check that
failed is told apart, and is an admin's.

*Induction.* The provers cannot instantiate a theorem that takes a predicate.
`Induction` starts from one that takes a set: strict inclusion is well-founded on
finite sets. A set of numbers then has a least element (`LeastOf`), a set of
numbers that has every number whose predecessors it has is all of them (`AllOf`),
and a proof by induction defines the set of numbers for which the claim holds.

Every invariant and every action property of the runs that pass is proved, except
`EndedIsTold`. Only model-checked too are the liveness properties, which are out of
the prover's reach: `EndedSessionIsClosed`, `RegisteredPlayerIsServed`,
`MatchIsStarted`, `EndedIsRanked`, `DatabaseIsReleased`, `ShutdownEnds` and
`SeedgenEnds`; and that the claims above fail, which are counterexamples.

## Not modelled

* `StartDevRace` and the fixtures: for development, on a database of their own.
* Statistics, the documentation pages and templates: queries and formatting over
  data that they never change.
* Configuration, conversions of SQL values, files: no protocol of their own. The
  list of channels the bot listens to is changed by one handler while others read
  it, and the file is cut before it is written (config.go:178).
* The administration of leagues, renames, stream URLs and announce channels:
  writes of one row that no other component writes back, except the form of a
  league, which writes the whole row it has read before (admin.go:35). Leagues are constants everywhere, and
  none is deleted.
* The cache of pages: its lifetimes are those of a library, which renews a page
  each time it is read (server.go:459). The cut of a leaderboard at 20 (bot.go:151).
* The files of a message: an attempt that fails after Discord has the message posts
  it twice, with files that the first one has read to their end (channel_writer.go:98).
* Two calls of `Rerank` that overlap; each is a loop, and only a command line and
  an administrator may start them together.
* The concurrent writes of the map `countingDown`: the Go runtime aborts or does
  not, and no state of the tables depends on it.
* The weights of random draws, the numbers of Glicko-2, and the changes of the
  offset of a time zone in the course of a year.
