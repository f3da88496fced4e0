--------------------------------- MODULE Duel ---------------------------------
(***************************************************************************)
(* What a ladder promises of a 1v1 race, whatever daemon, tables and       *)
(* messages it is made of: two players are paired, each of them finishes   *)
(* or forfeits once, the first to finish wins, nobody wins if both         *)
(* forfeit, and a verdict is given once.                                   *)
(***************************************************************************)
EXTENDS Naturals

CONSTANTS Players, Races

VARIABLES
    duels,    \* [Races -> set of pairs of players]
    runner,   \* [Races -> [Players -> what the player has done]]
    verdict   \* [Races -> [Players -> what came out of it for him]]

duelVars == <<duels, runner, verdict>>

Pairs == {pr \in SUBSET Players : \E p, q \in Players : p # q /\ pr = {p, q}}

TypeOK ==
    /\ duels \in [Races -> SUBSET Pairs]
    /\ runner \in [Races -> [Players -> {"out", "racing", "finished", "forfeit"}]]
    /\ verdict \in [Races -> [Players -> {"undecided", "won", "lost", "tied"}]]

Init ==
    /\ duels = [r \in Races |-> {}]
    /\ runner = [r \in Races |-> [p \in Players |-> "out"]]
    /\ verdict = [r \in Races |-> [p \in Players |-> "undecided"]]

\* Players who are out of the race are paired, each with one other.
Pair(new) ==
    /\ \A r \in Races : \A pr \in new[r] :
          /\ \A p \in pr : runner[r][p] = "out"
          /\ \A o \in new[r] : pr \cap o # {} => pr = o
    /\ duels' = [r \in Races |-> duels[r] \cup new[r]]
    /\ runner' = [r \in Races |-> [p \in Players |->
                     IF \E pr \in new[r] : p \in pr THEN "racing" ELSE runner[r][p]]]
    /\ UNCHANGED verdict

\* The first of the two to finish decides of both.
Finish(r, p, q) ==
    /\ p # q
    /\ {p, q} \in duels[r]
    /\ runner[r][p] = "racing"
    /\ runner' = [runner EXCEPT ![r][p] = "finished"]
    /\ verdict' = IF runner[r][q] = "finished" THEN verdict
                  ELSE [verdict EXCEPT ![r][p] = "won", ![r][q] = "lost"]
    /\ UNCHANGED duels

\* A forfeit decides of nothing, unless the opponent forfeited before.
GiveUp(r, p, q) ==
    /\ p # q
    /\ {p, q} \in duels[r]
    /\ runner[r][p] = "racing"
    /\ runner' = [runner EXCEPT ![r][p] = "forfeit"]
    /\ verdict' = IF runner[r][q] = "forfeit"
                  THEN [verdict EXCEPT ![r][p] = "tied", ![r][q] = "tied"]
                  ELSE verdict
    /\ UNCHANGED duels

Next ==
    \/ \E new \in [Races -> SUBSET Pairs] : Pair(new)
    \/ \E r \in Races, p, q \in Players : Finish(r, p, q) \/ GiveUp(r, p, q)

Spec == Init /\ [][Next]_duelVars
===============================================================================
