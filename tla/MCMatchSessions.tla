---------------------------- MODULE MCMatchSessions ----------------------------
(***************************************************************************)
(* Instances of MatchSessions for TLC.                                     *)
(***************************************************************************)
EXTENDS MatchSessionsDuel, TLC

CONSTANTS p1, p2, p3, p4, s1, s2

Players2 == {p1, p2}
Players3 == {p1, p2, p3}
Players4 == {p1, p2, p3, p4}

\* One session.
OneSession == {s1}
OneLeague == [s \in OneSession |-> "std"]
OneStartDate == [s \in OneSession |-> 4]

\* Two sessions of two leagues, whose joinable phases overlap.
TwoSessions == {s1, s2}
TwoLeagues == [s \in TwoSessions |-> IF s = s1 THEN "std" ELSE "random"]
TwoStartDates == [s \in TwoSessions |-> IF s = s1 THEN 4 ELSE 5]

Symmetry2 == Permutations(Players2)
Symmetry4 == Permutations(Players4)
===============================================================================
