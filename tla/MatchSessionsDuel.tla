--------------------------- MODULE MatchSessionsDuel ---------------------------
(***************************************************************************)
(* The sessions of the ladder implement Duel: each pair of players that    *)
(* matchmaking creates in a session is a duel, read off the two MatchEntry *)
(* rows.  Waiting and racing entries are both "racing": either may still   *)
(* forfeit.                                                                *)
(***************************************************************************)
EXTENDS MatchSessions

Runner(e) ==
    CASE e.status = "None"     -> "out"
      [] e.status = "Finished" -> "finished"
      [] e.status = "Forfeit"  -> "forfeit"
      [] OTHER                 -> "racing"

\* The statuses say whether the duel is decided; what was decided is what the
\* code wrote as the outcome of the player.
EntryVerdict(e, f) ==
    CASE e.status = "Finished" \/ f.status = "Finished" ->
            (IF e.outcome = Win THEN "won" ELSE IF e.outcome = Loss THEN "lost" ELSE "tied")
      [] e.status = "Forfeit" /\ f.status = "Forfeit" ->
            (IF e.outcome = Draw THEN "tied" ELSE IF e.outcome = Win THEN "won" ELSE "lost")
      [] OTHER -> "undecided"

PlayerVerdict(s, p) ==
    IF \E q \in Players : p # q /\ {p, q} \in matches[s]
    THEN LET q == CHOOSE o \in Players : p # o /\ {p, o} \in matches[s]
         IN  EntryVerdict(entry[s][p], entry[s][q])
    ELSE "undecided"

Runners == [s \in Sessions |-> [p \in Players |-> Runner(entry[s][p])]]

Verdicts == [s \in Sessions |-> [p \in Players |-> PlayerVerdict(s, p)]]

Duels == INSTANCE Duel WITH
    Races <- Sessions, duels <- matches, runner <- Runners, verdict <- Verdicts

\* Every behaviour of the sessions is one of Duel: a player ends his race once,
\* the verdict is the one Duel gives and is never given twice (match_entry.go,
\* back_racing.go, and every write of MatchEntry by the daemon).
ImplementsDuel == Duels!Spec
===============================================================================
