---------------------------- MODULE MCNotifications ----------------------------
(***************************************************************************)
(* An instance of Notifications for TLC: one race, joined by one player,   *)
(* by two, or by three, the third of whom is kicked.                       *)
(***************************************************************************)
EXTENDS Notifications

CONSTANTS s1, p1, p2, p3, chan

OneSession == {s1}
ThreePlayers == {p1, p2, p3}
OneOrThree == {<<p3>>, <<p1, p2, p3>>}
FirstPlayer == {p1}
BothPlayers == {p1, p2}
JustTwo == {<<p1, p2>>}

AnnounceChannel == [s \in Sessions |-> chan]
SameDate == [s \in Sessions |-> 2]
SomeCountdowns == {1}
===============================================================================
