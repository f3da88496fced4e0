--------------------------- MODULE MCSeedGeneration ---------------------------
(***************************************************************************)
(* An instance of SeedGeneration for TLC: more matches than workers.       *)
(***************************************************************************)
EXTENDS SeedGeneration, TLC

CONSTANTS m1, m2, m3, w1, w2

TwoMatches == {m1, m2}
ThreeMatches == {m1, m2, m3}
OneWorker == {w1}
TwoWorkers == {w1, w2}
===============================================================================
