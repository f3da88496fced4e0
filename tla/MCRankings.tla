------------------------------ MODULE MCRankings ------------------------------
(***************************************************************************)
(* An instance of Rankings for TLC: weeks of two ticks, and one session of *)
(* two races, which begins at the end of a week or in the next one, and    *)
(* whose races may end on either side of a Monday.                         *)
(***************************************************************************)
EXTENDS Rankings

CONSTANTS p1, p2, p3, p4, r1, r2, s1

FourPlayers == {p1, p2, p3, p4}
TwoRaces == {r1, r2}
OneSession == {s1}

OfOneSession == [r \in TwoRaces |-> s1]
ApartPairs == [r \in TwoRaces |-> IF r = r1 THEN {p1, p2} ELSE {p3, p4}]
OneDate == [s \in OneSession |-> 1]
===============================================================================
