-------------------------------- MODULE MCPages --------------------------------
(***************************************************************************)
(* An instance of Pages for TLC: two racers, one of whom is an admin, and  *)
(* somebody who only looks.                                                *)
(***************************************************************************)
EXTENDS Pages

CONSTANTS p1, p2, visitor, s1

TwoPlayers == {p1, p2}
OneVisitor == {visitor}
OneAdmin == {p1}
OneSession == {s1}
OneLeague == [s \in OneSession |-> "std"]
OneStartDate == [s \in OneSession |-> 3]
===============================================================================
