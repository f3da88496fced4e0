-------------------------------- MODULE Pairing --------------------------------
(***************************************************************************)
(* How the players of a session are paired (internal/back/                 *)
(* back_pair_players.go): first those whose skill ranges overlap, from the *)
(* players with the fewest candidates on; then whoever is left, with a     *)
(* neighbour in the list of those who are left, sorted by rating.          *)
(*                                                                         *)
(* Each step is an iteration of one of the two loops, with any outcome of  *)
(* its random draws and any order its unstable sorts may give.             *)
(***************************************************************************)
EXTENDS Integers, FiniteSets

CONSTANTS
    Players,     \* those of the session, an even number
    Ratings,
    Deviations,
    SmallSize,   \* most players at a distance of one (8)
    MediumSize   \* most players at a distance of two (16)

ASSUME PairingAssumption ==
    /\ IsFiniteSet(Players)
    /\ Cardinality(Players) % 2 = 0
    /\ Ratings \subseteq Int
    /\ Deviations \subseteq Nat

VARIABLES
    rating, deviation,  \* of each player
    visited,            \* players the first loop has been through
    pairs,              \* the pairs, as sets of two
    stage,              \* "ranged", "ordered" or "paired"
    rank,               \* place of each player who was left, in the sorted list
    pool                \* players of that list who are still in it

skills == <<rating, deviation>>
pairingVars == <<skills, visited, pairs, stage, rank, pool>>

\* PlayerRating.Range, with 95 % accuracy
Low(p) == rating[p] - 2 * deviation[p]

High(p) == rating[p] + 2 * deviation[p]

RangesOverlap(p, q) == ~(High(p) < Low(q) \/ Low(p) > High(q))

\* The entries of getOverlappingRanges for a player.
Candidates(p) == {q \in Players \ {p} : RangesOverlap(p, q)}

Matched == UNION pairs

Unmatched == Players \ Matched

Available(p) == Candidates(p) \ Matched

\* byLen: the next player is one of those with the fewest candidates.
IsNext(p) ==
    /\ p \notin visited
    /\ \A q \in Players \ visited : Cardinality(Candidates(p)) <= Cardinality(Candidates(q))

Visit_TakesAnybody(p) ==
    /\ stage = "ranged"
    /\ IsNext(p)
    /\ visited' = visited \cup {p}
    /\ IF p \in Matched \/ Candidates(p) = {}
       THEN UNCHANGED pairs
       ELSE \E q \in Candidates(p) : pairs' = pairs \cup {{p, q}}
    /\ UNCHANGED <<skills, stage, rank, pool>>

Visit_ByRating(p) ==
    /\ stage = "ranged"
    /\ IsNext(p)
    /\ visited' = visited \cup {p}
    /\ LET equals == {q \in Available(p) : rating[q] = rating[p]}
       IN  IF p \in Matched \/ equals = {}
           THEN UNCHANGED pairs
           ELSE \E q \in equals : pairs' = pairs \cup {{p, q}}
    /\ UNCHANGED <<skills, stage, rank, pool>>

\* rangedPairPlayers, one iteration: a player who is not matched yet gets one of
\* the candidates who are not either, if there is one.  The draw favours close
\* ratings; it may pick any.
Visit(p) ==
    /\ stage = "ranged"
    /\ IsNext(p)
    /\ visited' = visited \cup {p}
    /\ IF p \in Matched \/ Available(p) = {}
       THEN UNCHANGED pairs
       ELSE \E q \in Available(p) : pairs' = pairs \cup {{p, q}}
    /\ UNCHANGED <<skills, stage, rank, pool>>

\* A place of each player of S in the list of them sorted by rating.
Rankings(S) ==
    {r \in [S -> 1..Cardinality(S)] :
        \A p, q \in S : /\ p # q => r[p] # r[q]
                        /\ r[p] < r[q] => rating[p] <= rating[q]}

\* The first loop is over: the players who are left are sorted.
Sort ==
    /\ stage = "ranged"
    /\ visited = Players
    /\ rank' \in Rankings(Unmatched)
    /\ pool' = Unmatched
    /\ stage' = "ordered"
    /\ UNCHANGED <<skills, visited, pairs>>

getMaxDelta(sessionSize) ==
    CASE sessionSize <= SmallSize  -> 1
      [] sessionSize <= MediumSize -> 2
      [] OTHER                     -> 3

\* The distance was computed once, from the length of the whole list.
maxDelta == getMaxDelta(Cardinality(DOMAIN rank))

\* The index of a player in what is left of the list.
Index(p, S) == Cardinality({q \in S : rank[q] < rank[p]})

clamp(v, min, max) == IF v > max THEN max ELSE IF v < min THEN min ELSE v

\* orderedRandomPairPlayers, one iteration: a player is drawn and taken out of the
\* list, then one who is close to where he was.
Draw(p, q) ==
    /\ stage = "ordered"
    /\ p \in pool
    /\ q \in pool \ {p}
    /\ LET rest == pool \ {p}
           last == Cardinality(rest) - 1
       IN  Index(q, rest) \in clamp(Index(p, pool) - maxDelta, 0, last)
                               .. clamp(Index(p, pool) + maxDelta, 0, last)
    /\ pairs' = pairs \cup {{p, q}}
    /\ pool' = pool \ {p, q}
    /\ UNCHANGED <<skills, visited, stage, rank>>

Paired ==
    /\ stage = "ordered"
    /\ pool = {}
    /\ stage' = "paired"
    /\ UNCHANGED <<skills, visited, pairs, rank, pool>>

PairingInit ==
    /\ rating \in [Players -> Ratings]
    /\ deviation \in [Players -> Deviations]
    /\ visited = {}
    /\ pairs = {}
    /\ stage = "ranged"
    /\ rank = [p \in {} |-> 0]
    /\ pool = {}

PairingNext ==
    \/ \E p \in Players : Visit(p)
    \/ Sort
    \/ \E p, q \in Players : Draw(p, q)
    \/ Paired

PairingSpec == PairingInit /\ [][PairingNext]_pairingVars

-------------------------------------------------------------------------------
(***************************************************************************)
(* Properties.                                                             *)
(***************************************************************************)

\* Nobody is in two pairs, and once the loops have ended everybody is in one: the
\* panics on an odd or an empty list are unreachable (back_pair_players.go).
PairingIsPerfect ==
    /\ \A a, b \in pairs : a # b => a \cap b = {}
    /\ \A a \in pairs : \E p, q \in Players : p # q /\ a = {p, q}
    /\ stage = "paired" => UNION pairs = Players

\* No two players whose ranges overlap are both left to the second loop, although
\* the first goes through each player once and draws at random
\* (back_pair_players.go, rangedPairPlayers).
RangesAreExhausted ==
    stage = "ordered" => \A p, q \in pool : p # q => ~RangesOverlap(p, q)
===============================================================================
