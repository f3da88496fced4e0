---------------------------- MODULE AlgorithmProofs ----------------------------
(***************************************************************************)
(* Proofs about Pairing, Schedules and Shuffle: for any players, ratings   *)
(* and draws; any schedule, time zones and lengths of days and weeks; and  *)
(* any settings file that is written as those of the league are.           *)
(***************************************************************************)
EXTENDS Pairing, Schedules, Shuffle, Induction, TLAPS

-------------------------------------------------------------------------------
(***************************************************************************)
(* The pairs are disjoint and in the end they cover everybody, and the     *)
(* first loop leaves no two players whose ranges overlap.                  *)
(***************************************************************************)

(***************************************************************************)
(* The invariant: the list of the second loop holds whoever has no pair,   *)
(* and a player the first loop went through and left alone had nobody left *)
(* to be paired with; he never will, as pairs are not undone.              *)
(***************************************************************************)

ListIsUnmatched ==
    /\ stage \in {"ranged", "ordered", "paired"}
    /\ stage # "ranged" => visited = Players /\ pool = Unmatched
    /\ stage = "paired" => pool = {}

VisitedIsExhausted ==
    \A p \in visited \cap Unmatched : \A q \in Unmatched \ {p} : ~RangesOverlap(p, q)

PairsAreDisjoint == \A a, b \in pairs : a # b => a \cap b = {}

PairsAreOfTwo == \A a \in pairs : \E p, q \in Players : p # q /\ a = {p, q}

PairingInv ==
    /\ visited \subseteq Players
    /\ ListIsUnmatched
    /\ VisitedIsExhausted
    /\ PairsAreDisjoint
    /\ PairsAreOfTwo

\* A pair of two players who had none leaves the pairs disjoint and of two, and
\* takes these two from those who are left (the append of both loops).
LEMMA NewPair ==
    ASSUME PairsAreDisjoint, PairsAreOfTwo,
           NEW p \in Unmatched, NEW q \in Unmatched, p # q,
           pairs' = pairs \cup {{p, q}}
    PROVE  PairsAreDisjoint' /\ PairsAreOfTwo' /\ Unmatched' = Unmatched \ {p, q}
<1>1. Unmatched' = Unmatched \ {p, q}
  BY DEF Unmatched, Matched
<1>2. PairsAreDisjoint'
  <2>1. \A a \in pairs : a \cap {p, q} = {}
    BY DEF Unmatched, Matched
  <2>2. QED
    BY <2>1 DEF PairsAreDisjoint
<1>3. PairsAreOfTwo'
  <2>1. p \in Players /\ q \in Players
    BY DEF Unmatched
  <2>2. QED
    BY <2>1 DEF PairsAreOfTwo
<1>4. QED
  BY <1>1, <1>2, <1>3

\* Ranges depend on the skills only, which nothing changes.
LEMMA RangesStay ==
    ASSUME UNCHANGED skills, NEW p, NEW q
    PROVE  RangesOverlap(p, q)' <=> RangesOverlap(p, q)
BY DEF skills, RangesOverlap, Low, High

\* Whoever was visited and is left has still nobody when there are fewer players
\* to choose from.
LEMMA ExhaustedStays ==
    ASSUME VisitedIsExhausted, UNCHANGED <<skills, visited>>, Unmatched' \subseteq Unmatched
    PROVE  VisitedIsExhausted'
BY RangesStay DEF VisitedIsExhausted

\* Nobody is paired when the pairing begins (back_matchmaking.go, matchMakeSession).
LEMMA PairingInitInv == PairingInit => PairingInv
BY DEF PairingInit, PairingInv, ListIsUnmatched, VisitedIsExhausted, PairsAreDisjoint, PairsAreOfTwo

\* An iteration of the first loop.
LEMMA VisitInv ==
    ASSUME PairingInv, NEW p \in Players, Visit(p)
    PROVE  PairingInv'
<1>1. visited' \subseteq Players
  BY DEF PairingInv, Visit
<1>2. ListIsUnmatched'
  BY DEF PairingInv, ListIsUnmatched, Visit
<1>3. CASE p \in Matched \/ Available(p) = {}
  <2>1. UNCHANGED <<skills, pairs>>
    BY <1>3 DEF Visit
  <2>2. Unmatched' = Unmatched
    BY <2>1 DEF Unmatched, Matched
  <2>3. PairsAreDisjoint' /\ PairsAreOfTwo'
    BY <2>1 DEF PairingInv, PairsAreDisjoint, PairsAreOfTwo
  <2>4. VisitedIsExhausted'
    <3>1. SUFFICES ASSUME NEW r \in visited' \cap Unmatched, NEW q \in Unmatched \ {r}
                   PROVE  ~RangesOverlap(r, q)
      BY <2>1, <2>2, RangesStay DEF VisitedIsExhausted
    <3>2. CASE r \in visited
      BY <3>2 DEF PairingInv, VisitedIsExhausted
    <3>3. CASE r \notin visited
      <4>1. r = p
        BY <3>3 DEF Visit
      <4>2. Available(p) = {}
        BY <1>3, <4>1 DEF Unmatched
      <4>3. QED
        BY <4>1, <4>2 DEF Available, Candidates, Unmatched
    <3>4. QED
      BY <3>2, <3>3
  <2>5. QED
    BY <1>1, <1>2, <2>3, <2>4 DEF PairingInv
<1>4. CASE ~(p \in Matched \/ Available(p) = {})
  <2>1. PICK q \in Available(p) : pairs' = pairs \cup {{p, q}}
    BY <1>4 DEF Visit
  <2>2. p \in Unmatched /\ q \in Unmatched /\ p # q
    BY <1>4 DEF Unmatched, Available, Candidates
  <2>3. PairsAreDisjoint' /\ PairsAreOfTwo' /\ Unmatched' = Unmatched \ {p, q}
    BY <2>1, <2>2, NewPair DEF PairingInv
  <2>4. VisitedIsExhausted'
    <3>1. UNCHANGED skills /\ visited' = visited \cup {p}
      BY DEF Visit
    <3>2. visited' \cap Unmatched' \subseteq visited \cap Unmatched
      BY <2>3, <3>1
    <3>3. QED
      BY <2>3, <3>1, <3>2, RangesStay DEF PairingInv, VisitedIsExhausted
  <2>5. QED
    BY <1>1, <1>2, <2>3, <2>4 DEF PairingInv
<1>5. QED
  BY <1>3, <1>4

\* The sort.
LEMMA SortInv ==
    ASSUME PairingInv, Sort
    PROVE  PairingInv'
<1>1. UNCHANGED <<skills, visited, pairs>>
  BY DEF Sort
<1>2. Unmatched' = Unmatched
  BY <1>1 DEF Unmatched, Matched
<1>3. ListIsUnmatched'
  BY <1>2 DEF Sort, ListIsUnmatched
<1>4. VisitedIsExhausted'
  BY <1>1, <1>2, ExhaustedStays DEF PairingInv
<1>5. QED
  BY <1>1, <1>3, <1>4 DEF PairingInv, PairsAreDisjoint, PairsAreOfTwo

\* An iteration of the second loop.
LEMMA DrawInv ==
    ASSUME PairingInv, NEW p \in Players, NEW q \in Players, Draw(p, q)
    PROVE  PairingInv'
<1>1. /\ stage = "ordered"
      /\ p \in pool
      /\ q \in pool \ {p}
      /\ pairs' = pairs \cup {{p, q}}
      /\ pool' = pool \ {p, q}
      /\ UNCHANGED <<skills, visited, stage>>
  BY DEF Draw
<1>2. visited = Players /\ pool = Unmatched
  BY <1>1 DEF PairingInv, ListIsUnmatched
<1>3. PairsAreDisjoint' /\ PairsAreOfTwo' /\ Unmatched' = Unmatched \ {p, q}
  BY <1>1, <1>2, NewPair DEF PairingInv
<1>4. ListIsUnmatched'
  BY <1>1, <1>2, <1>3 DEF ListIsUnmatched
<1>5. VisitedIsExhausted'
  BY <1>1, <1>3, ExhaustedStays DEF PairingInv
<1>6. QED
  BY <1>1, <1>3, <1>4, <1>5 DEF PairingInv

\* The end.
LEMMA PairedInv ==
    ASSUME PairingInv, Paired
    PROVE  PairingInv'
<1>1. UNCHANGED <<skills, visited, pairs, pool>> /\ stage = "ordered" /\ pool = {} /\ stage' = "paired"
  BY DEF Paired
<1>2. Unmatched' = Unmatched
  BY <1>1 DEF Unmatched, Matched
<1>3. ListIsUnmatched'
  BY <1>1, <1>2 DEF PairingInv, ListIsUnmatched
<1>4. VisitedIsExhausted'
  BY <1>1, <1>2, ExhaustedStays DEF PairingInv
<1>5. QED
  BY <1>1, <1>3, <1>4 DEF PairingInv, PairsAreDisjoint, PairsAreOfTwo

\* No iteration of either loop breaks the invariant (back_pair_players.go).
LEMMA PairingInductive == PairingInv /\ [PairingNext]_pairingVars => PairingInv'
<1> SUFFICES ASSUME PairingInv, [PairingNext]_pairingVars
             PROVE  PairingInv'
  OBVIOUS
<1>1. CASE \E p \in Players : Visit(p)
  BY <1>1, VisitInv
<1>2. CASE Sort
  BY <1>2, SortInv
<1>3. CASE \E p, q \in Players : Draw(p, q)
  BY <1>3, DrawInv
<1>4. CASE Paired
  BY <1>4, PairedInv
<1>5. CASE UNCHANGED pairingVars
  <2>1. UNCHANGED <<skills, visited, pairs, stage, pool>>
    BY <1>5 DEF pairingVars
  <2>2. Unmatched' = Unmatched
    BY <2>1 DEF Unmatched, Matched
  <2>3. VisitedIsExhausted'
    BY <2>1, <2>2, ExhaustedStays DEF PairingInv
  <2>4. QED
    BY <2>1, <2>2, <2>3 DEF PairingInv, ListIsUnmatched, PairsAreDisjoint, PairsAreOfTwo
<1>6. QED
  BY <1>1, <1>2, <1>3, <1>4, <1>5 DEF PairingNext

\* PairingInv, which says what the two loops have left to do, holds in every
\* reachable state, for any even number of players, ratings and random draws
\* (back_pair_players.go, rangedPairPlayers and orderedRandomPairPlayers).
THEOREM PairingInvariant == PairingSpec => []PairingInv
<1>1. PairingInit => PairingInv
  BY PairingInitInv
<1>2. PairingInv /\ [PairingNext]_pairingVars => PairingInv'
  BY PairingInductive
<1>3. QED
  BY <1>1, <1>2, PTL DEF PairingSpec

\* Nobody is in two pairs, and once the loops have ended everybody is in one, for
\* any number of players and any draws (back_pair_players.go).
THEOREM PairingIsAlwaysPerfect == PairingSpec => []PairingIsPerfect
<1>1. PairingInv => PairingIsPerfect
  <2>1. SUFFICES ASSUME PairingInv PROVE PairingIsPerfect
    OBVIOUS
  <2>2. ASSUME stage = "paired" PROVE UNION pairs = Players
    <3>1. Unmatched = {}
      BY <2>1, <2>2 DEF PairingInv, ListIsUnmatched
    <3>2. UNION pairs \subseteq Players
      BY <2>1 DEF PairingInv, PairsAreOfTwo
    <3>3. QED
      BY <3>1, <3>2 DEF Unmatched, Matched
  <2>3. QED
    BY <2>1, <2>2 DEF PairingInv, PairsAreDisjoint, PairsAreOfTwo, PairingIsPerfect
<1>2. QED
  BY <1>1, PairingInvariant, PTL

\* No two players whose ranges overlap are left to the second loop
\* (back_pair_players.go, rangedPairPlayers).
THEOREM RangesAreAlwaysExhausted == PairingSpec => []RangesAreExhausted
<1>1. PairingInv => RangesAreExhausted
  BY DEF PairingInv, ListIsUnmatched, VisitedIsExhausted, RangesAreExhausted, Unmatched
<1>2. QED
  BY <1>1, PairingInvariant, PTL

-------------------------------------------------------------------------------
(***************************************************************************)
(* A race that the page has shown is held: the page looks it up from a     *)
(* time to come, from which the daemon looks it up in its turn; it looks   *)
(* farther than the page, and so finds the same race first.                *)
(***************************************************************************)

\* Of the multiples of a number (time.Duration, and days of a week).
LEMMA Multiples ==
    ASSUME NEW a \in Nat \ {0}, NEW q \in Int
    PROVE  (a * q) % a = 0 /\ (a * q) \div a = q
BY SMTT(30)

\* A time is so many whole days and a rest.
LEMMA Division ==
    ASSUME NEW a \in Nat \ {0}, NEW t \in Int
    PROVE  /\ t \div a \in Int /\ t % a \in 0..(a - 1)
           /\ t = a * (t \div a) + (t % a)
<1>1. t \div a \in Int
  BY SMTT(30)
<1>2. t % a \in 0..(a - 1)
  BY SMTT(30)
<1>3. t = a * (t \div a) + (t % a)
  BY SMTT(30)
<1> QED
  BY <1>1, <1>2, <1>3

\* Products are distributive.
LEMMA Distribution ==
    ASSUME NEW a \in Int, NEW x \in Int, NEW y \in Int
    PROVE  a * (x + y) = a * x + a * y /\ (x + y) * a = x * a + y * a
BY SMTT(30)

\* Products are in the order of their factors.
LEMMA ProductOrder ==
    ASSUME NEW a \in Nat \ {0}, NEW x \in Int, NEW y \in Int
    PROVE  /\ a * x \in Int /\ a * y \in Int
           /\ x <= y => a * x <= a * y
           /\ x < y => a * x + a <= a * y
<1>1. ASSUME NEW z \in Int, x <= z PROVE a * x \in Int /\ a * z \in Int /\ a * x <= a * z
  <2>1. PICK d \in Nat : z = x + d
    <3>1. z - x \in Nat /\ z = x + (z - x)
      BY <1>1
    <3> QED
      BY <3>1
  <2>2. a * (x + d) = a * x + a * d
    BY Distribution
  <2>3. a * d \in Nat /\ a * x \in Int
    BY SMTT(10)
  <2> QED
    BY <2>1, <2>2, <2>3
<1>2. a * x \in Int /\ a * y \in Int
  BY SMTT(10)
<1>3. x <= y => a * x <= a * y
  BY <1>1
<1>4. ASSUME x < y PROVE a * x + a <= a * y
  <2>1. y - 1 \in Int /\ x <= y - 1
    BY <1>4
  <2>2. a * x <= a * (y - 1)
    BY <1>1, <2>1
  <2>3. a * (y - 1) = a * y - a
    BY SMTT(10)
  <2> QED
    BY <1>2, <2>2, <2>3
<1> QED
  BY <1>2, <1>3, <1>4

\* The earliest of some times is the first of them.
LEMMA EarliestOf ==
    ASSUME NEW S, S \subseteq Nat, S # {}
    PROVE  Earliest(S) \in S /\ \A u \in S : Earliest(S) <= u
BY LeastOf DEF Earliest

\* It stays so when later ones are added.
LEMMA EarliestStays ==
    ASSUME NEW S, NEW T, S \subseteq T, T \subseteq Nat, S # {},
           \A u \in T \ S : Earliest(S) <= u
    PROVE  Earliest(T) = Earliest(S)
<1>1. Earliest(S) \in S /\ \A u \in S : Earliest(S) <= u
  BY EarliestOf
<1>2. Earliest(T) \in T /\ \A u \in T : Earliest(T) <= u
  BY EarliestOf
<1>3. Earliest(S) \in Nat /\ Earliest(T) \in Nat
  BY <1>1, <1>2
<1>4. Earliest(T) <= Earliest(S)
  BY <1>1, <1>2
<1>5. Earliest(S) <= Earliest(T)
  BY <1>1, <1>2
<1> QED
  BY <1>3, <1>4, <1>5

-------------------------------------------------------------------------------
(***************************************************************************)
(* The scheduler of days of the week.                                      *)
(***************************************************************************)

\* The hour a day begins at.
LEMMA Days ==
    ASSUME NEW t \in Int, NEW d \in Int
    PROVE  /\ Day(t) \in Int
           /\ d * HoursPerDay \in Int
           /\ d <= Day(t) => d * HoursPerDay <= t
           /\ d > Day(t) => d * HoursPerDay > t
<1> DEFINE n == HoursPerDay
           q == t \div n
           r == t % n
           ofToday == n * q
           ofDay == n * d
<1>1. n \in Nat \ {0}
  BY ScheduleAssumption
<1>2. q \in Int /\ r \in 0..(n - 1) /\ t = ofToday + r
  <2> HIDE DEF n
  <2> QED
    BY <1>1, Division
<1>3. /\ ofToday \in Int /\ ofDay \in Int
      /\ d <= q => ofDay <= ofToday
      /\ q < d => ofToday + n <= ofDay
  <2> HIDE DEF n, q
  <2> QED
    BY <1>1, <1>2, ProductOrder
<1>4. d * HoursPerDay = ofDay /\ Day(t) = q
  <2>1. d * n = n * d
    BY <1>1
  <2> QED
    BY <2>1 DEF Day
<1>5. (d <= q => ofDay <= t) /\ (d > q => ofDay > t)
  <2> HIDE DEF n, q, r, ofDay, ofToday
  <2> QED
    BY <1>1, <1>2, <1>3
<1> QED
  <2> HIDE DEF q, ofDay
  <2> QED
    BY <1>2, <1>3, <1>4, <1>5

\* Days go in the order of times.
LEMMA DaysOrder ==
    ASSUME NEW t \in Int, NEW u \in Int, t <= u
    PROVE  Day(t) <= Day(u)
<1>1. Day(t) \in Int /\ Day(u) \in Int
  BY Days
<1>2. Day(t) * HoursPerDay <= t
  BY <1>1, Days
<1>3. Day(t) > Day(u) => Day(t) * HoursPerDay > u
  BY <1>1, Days
<1>4. Day(t) * HoursPerDay \in Int
  BY <1>1, Days
<1> QED
  BY <1>1, <1>2, <1>3, <1>4

AreSlots(slots) ==
    \A slot \in slots :
        slot[1] \in Int /\ slot[2] \in Int /\ slot[3] \in DOMAIN ZoneOffset

IsSlotted(slots, d) ==
    \E slot \in slots : (d + ZoneOffset[slot[3]] - slot[2] - slot[1] * HoursPerDay) % Week = 0

\* The dates of a week are at the hours that are listed, each in its zone: a Sunday
\* at midnight is a whole number of weeks.
LEMMA FlattenedDates ==
    ASSUME NEW slots, AreSlots(slots), NEW u \in Int, NEW d \in flattenHours(slots, u)
    PROVE  d \in Int /\ IsSlotted(slots, d)
<1> DEFINE n == HoursPerDay
           m == DaysPerWeek
           q == Day(u) \div m
<1>1. n \in Nat \ {0} /\ m \in Nat \ {0}
  BY ScheduleAssumption
<1>2. Day(u) \in Int
  BY Days
<1>3. q \in Int /\ Sunday(u) = m * q
  <2> DEFINE x == Day(u)
             r == x % m
             whole == m * q
  <2>1. q \in Int /\ r \in 0..(m - 1) /\ x = whole + r
    <3> HIDE DEF x, m
    <3> QED
      BY <1>1, <1>2, Division DEF x
  <2>2. whole \in Int
    <3> HIDE DEF m, q
    <3> QED
      BY <1>1, <2>1
  <2>3. Sunday(u) = x - r
    BY DEF Sunday
  <2> HIDE DEF x, m, r, whole
  <2>4. Sunday(u) = whole
    BY <1>1, <2>1, <2>2, <2>3
  <2> QED
    BY <2>1, <2>4 DEF whole
<1>4. PICK slot \in slots : d = (Sunday(u) + slot[1]) * n + slot[2] - ZoneOffset[slot[3]]
  BY DEF flattenHours
<1>5. slot[1] \in Int /\ slot[2] \in Int /\ ZoneOffset[slot[3]] \in Int
  BY LeaguesAssumption DEF AreSlots
<1> HIDE DEF n, m, q
<1>6. (m * q + slot[1]) * n = (n * m) * q + slot[1] * n
  <2>1. m * q \in Int /\ n \in Int
    BY <1>1, <1>3
  <2>2. (m * q + slot[1]) * n = (m * q) * n + slot[1] * n
    BY <1>5, <2>1, Distribution
  <2>3. (m * q) * n = (n * m) * q
    BY <1>1, <1>3, SMTT(30)
  <2> QED
    BY <2>2, <2>3
<1>7. slot[1] * n \in Int /\ n * m \in Nat \ {0} /\ (n * m) * q \in Int
  BY <1>1, <1>3, <1>5
<1>8. d = (n * m) * q + slot[1] * n + slot[2] - ZoneOffset[slot[3]]
  BY <1>3, <1>4, <1>6
<1>9. d \in Int /\ d + ZoneOffset[slot[3]] - slot[2] - slot[1] * n = (n * m) * q
  BY <1>5, <1>7, <1>8
<1>10. ((n * m) * q) % (n * m) = 0
  BY <1>3, <1>7, Multiples
<1> QED
  BY <1>9, <1>10 DEF IsSlotted, Week, n, m

\* The dates after a time in its week, and the times DayOfWeekNext looks from.
After(slots, u) == {h \in flattenHours(slots, u) : h > u}

LooksFrom(slots, t, max) ==
    {u \in {t} \cup {d * HoursPerDay : d \in (Day(t) + 1)..Day(max)} :
        u <= max /\ After(slots, u) # {}}

\* It looks from t on, and farther if it may.
LEMMA LooksFarther ==
    ASSUME NEW slots, NEW t \in Nat, NEW max \in Int, NEW longer \in Int, max <= longer
    PROVE  /\ LooksFrom(slots, t, longer) \subseteq {u \in Nat : t <= u}
           /\ LooksFrom(slots, t, max) \subseteq LooksFrom(slots, t, longer)
           /\ \A u \in LooksFrom(slots, t, longer) \ LooksFrom(slots, t, max) : max < u
<1>1. Day(t) \in Int /\ Day(max) \in Int /\ Day(longer) \in Int /\ Day(max) <= Day(longer)
  BY Days, DaysOrder
<1>2. \A d \in Int : d * HoursPerDay \in Int /\ (d > Day(t) => d * HoursPerDay > t)
  BY Days
<1>3. \A d \in Int : d > Day(max) => d * HoursPerDay > max
  BY Days
<1>4. ASSUME NEW u \in LooksFrom(slots, t, longer) PROVE u \in Nat /\ t <= u
  <2>1. CASE u = t
    BY <2>1
  <2>2. CASE \E d \in (Day(t) + 1)..Day(longer) : u = d * HoursPerDay
    <3>1. PICK d \in (Day(t) + 1)..Day(longer) : u = d * HoursPerDay
      BY <2>2
    <3>2. d \in Int /\ d > Day(t)
      BY <1>1
    <3>3. u \in Int /\ u > t
      BY <1>2, <3>1, <3>2
    <3> QED
      BY <3>3
  <2> QED
    BY <2>1, <2>2 DEF LooksFrom
<1>5. ASSUME NEW u \in LooksFrom(slots, t, max) PROVE u \in LooksFrom(slots, t, longer)
  <2>1. (Day(t) + 1)..Day(max) \subseteq (Day(t) + 1)..Day(longer)
    BY <1>1
  <2>2. u \in {t} \cup {d * HoursPerDay : d \in (Day(t) + 1)..Day(longer)}
    BY <2>1 DEF LooksFrom
  <2>3. u \in Int
    <3>1. ASSUME NEW d \in (Day(t) + 1)..Day(longer) PROVE d * HoursPerDay \in Int
      BY <1>1, <1>2
    <3> QED
      BY <2>2, <3>1
  <2>4. u <= longer
    BY <2>3 DEF LooksFrom
  <2> QED
    BY <2>2, <2>4 DEF LooksFrom
<1>6. ASSUME NEW u \in LooksFrom(slots, t, longer), u \notin LooksFrom(slots, t, max), u <= max
      PROVE  FALSE
  <2>1. u # t /\ u \notin {d * HoursPerDay : d \in (Day(t) + 1)..Day(max)}
    BY <1>6 DEF LooksFrom
  <2>2. PICK d \in (Day(t) + 1)..Day(longer) : u = d * HoursPerDay
    BY <2>1 DEF LooksFrom
  <2>3. d \in Int /\ d > Day(max)
    BY <1>1, <2>1, <2>2
  <2> QED
    BY <1>2, <1>3, <1>6, <2>2, <2>3
<1>7. ASSUME NEW u \in LooksFrom(slots, t, longer), u \notin LooksFrom(slots, t, max)
      PROVE  max < u
  BY <1>4, <1>6, <1>7
<1> QED
  BY <1>4, <1>5, <1>7

\* What DayOfWeekNext finds is after t, at an hour that is listed, and is found as
\* well when it may look farther (day_of_week.go, NextBetween).
LEMMA DayOfWeekDate ==
    ASSUME NEW slots, AreSlots(slots), NEW t \in Nat, NEW max \in Int,
           DayOfWeekNext(slots, t, max) # Never
    PROVE  /\ DayOfWeekNext(slots, t, max) \in Nat
           /\ t < DayOfWeekNext(slots, t, max) /\ DayOfWeekNext(slots, t, max) <= max
           /\ IsSlotted(slots, DayOfWeekNext(slots, t, max))
           /\ \A longer \in Int : max <= longer =>
                 DayOfWeekNext(slots, t, longer) = DayOfWeekNext(slots, t, max)
<1> DEFINE from(m) == LooksFrom(slots, t, m)
           next(m) == Earliest(After(slots, Earliest(from(m))))
<1>1. \A m : DayOfWeekNext(slots, t, m) =
                IF from(m) = {} \/ next(m) > m THEN Never ELSE next(m)
  BY DEF DayOfWeekNext, LooksFrom, After
<1>2. from(max) # {} /\ ~ (next(max) > max) /\ DayOfWeekNext(slots, t, max) = next(max)
  BY <1>1
<1>3. from(max) \subseteq {u \in Nat : t <= u}
  <2>1. max <= max
    OBVIOUS
  <2> QED
    BY <2>1, LooksFarther
<1>4. Earliest(from(max)) \in from(max)
  <2>1. from(max) \subseteq Nat
    BY <1>3
  <2> QED
    BY <1>2, <2>1, EarliestOf
<1> DEFINE u == Earliest(from(max))
           S == After(slots, u)
<1>5. u \in Nat /\ t <= u /\ u <= max /\ S # {}
  BY <1>3, <1>4 DEF LooksFrom
<1>6. S \subseteq {h \in Nat : u < h /\ IsSlotted(slots, h)}
  <2>1. SUFFICES ASSUME NEW h \in S PROVE h \in Nat /\ u < h /\ IsSlotted(slots, h)
    OBVIOUS
  <2>2. h \in flattenHours(slots, u) /\ h > u
    BY DEF After
  <2>3. u \in Int
    BY <1>5
  <2> HIDE DEF u, S
  <2>4. h \in Int /\ IsSlotted(slots, h)
    BY <2>2, <2>3, FlattenedDates
  <2> QED
    BY <1>5, <2>2, <2>4
<1>7. next(max) \in S
  <2>1. S \subseteq Nat
    BY <1>6
  <2>2. Earliest(S) \in S
    <3> HIDE DEF S
    <3> QED
      BY <1>5, <2>1, EarliestOf
  <2> QED
    BY <2>2
<1>8. next(max) \in Nat /\ u < next(max) /\ IsSlotted(slots, next(max))
  <2> HIDE DEF S, next, u
  <2> QED
    BY <1>6, <1>7
<1>9. next(max) <= max /\ t < next(max)
  <2> HIDE DEF next, u, S
  <2> QED
    BY <1>2, <1>5, <1>8
<1>10. ASSUME NEW longer \in Int, max <= longer
       PROVE  DayOfWeekNext(slots, t, longer) = next(max)
  <2>1. /\ from(longer) \subseteq {w \in Nat : t <= w}
        /\ from(max) \subseteq from(longer)
        /\ \A w \in from(longer) \ from(max) : max < w
    BY <1>10, LooksFarther
  <2>2. from(longer) \subseteq Nat
    BY <2>1
  <2>3. \A w \in from(longer) \ from(max) : Earliest(from(max)) <= w
    <3> SUFFICES ASSUME NEW w \in from(longer), w \notin from(max) PROVE u <= w
      OBVIOUS
    <3>1. max < w /\ w \in Nat
      BY <2>1, <2>2
    <3> HIDE DEF from, u
    <3> QED
      BY <1>5, <3>1
  <2>4. Earliest(from(longer)) = Earliest(from(max))
    <3> HIDE DEF from
    <3> QED
      BY <1>2, <2>1, <2>2, <2>3, EarliestStays
  <2>5. next(longer) = next(max)
    BY <2>4
  <2>6. from(longer) # {}
    BY <1>2, <2>1
  <2>7. ~ (next(longer) > longer)
    <3> HIDE DEF next, from
    <3> QED
      BY <1>8, <1>9, <1>10, <2>5
  <2> QED
    BY <1>1, <2>5, <2>6, <2>7
<1> QED
  <2> HIDE DEF next, from, u, S
  <2> QED
    BY <1>2, <1>8, <1>9, <1>10

-------------------------------------------------------------------------------
(***************************************************************************)
(* The rolling scheduler.                                                  *)
(***************************************************************************)

IsRolling(rolling) == rolling.period \in Int /\ rolling.offset \in Int

IsRollingDate(rolling, d) ==
    /\ (d - rolling.offset) % rolling.period = 0
    /\ ((d - rolling.offset) \div rolling.period) % rolling.modulus \in rolling.remainders

\* The dates of some periods that are due, which RollingNext takes the first of.
Due(rolling, t, max) ==
    {d \in {rolling.period * id + rolling.offset :
                id \in {i \in (t \div rolling.period + 1)..(max - rolling.offset) :
                            i % rolling.modulus \in rolling.remainders}} :
        t <= d /\ d <= max}

\* The date of a period is one of the calendar, and its period is not after it.
LEMMA PeriodDate ==
    ASSUME NEW rolling, IsRolling(rolling), rolling.period > 0, NEW id \in Int,
           id % rolling.modulus \in rolling.remainders
    PROVE  /\ rolling.period * id + rolling.offset \in Int
           /\ IsRollingDate(rolling, rolling.period * id + rolling.offset)
           /\ id >= 0 => id <= rolling.period * id
<1> DEFINE p == rolling.period
           o == rolling.offset
           x == p * id
<1>1. p \in Nat \ {0} /\ o \in Int
  BY DEF IsRolling
<1>2. x \in Int /\ x % p = 0 /\ x \div p = id
  <2> HIDE DEF p
  <2> QED
    BY <1>1, Multiples, ProductOrder
<1>3. x + o \in Int /\ (x + o) - o = x
  <2> HIDE DEF x, o
  <2> QED
    BY <1>1, <1>2
<1>4. id >= 0 => id <= x
  <2> HIDE DEF p
  <2>1. id >= 0 => id * 1 <= id * p
    <3>1. CASE id = 0
      BY <1>1, <3>1
    <3>2. CASE id > 0
      <4>1. id \in Nat \ {0} /\ 1 <= p
        BY <1>1, <3>2
      <4> QED
        BY <1>1, <4>1, ProductOrder
    <3> QED
      BY <3>1, <3>2
  <2>2. id * p = p * id /\ id * 1 = id
    BY <1>1
  <2> QED
    BY <2>1, <2>2
<1> QED
  <2>1. IsRollingDate(rolling, x + o)
    <3> HIDE DEF x
    <3> QED
      BY <1>2, <1>3 DEF IsRollingDate
  <2> QED
    BY <1>3, <1>4, <2>1

\* More dates are due when it may look farther, all of them later.
LEMMA DueFarther ==
    ASSUME NEW rolling, IsRolling(rolling), rolling.period > 0, NEW t \in Nat,
           NEW max \in Int, NEW longer \in Int, max <= longer
    PROVE  /\ Due(rolling, t, longer) \subseteq {d \in Nat : t <= d /\ IsRollingDate(rolling, d)}
           /\ Due(rolling, t, max) \subseteq Due(rolling, t, longer)
           /\ \A d \in Due(rolling, t, longer) \ Due(rolling, t, max) : max < d
<1> DEFINE first == t \div rolling.period + 1
           Chosen(i) == i % rolling.modulus \in rolling.remainders
           Date(i) == rolling.period * i + rolling.offset
<1>1. first \in Nat
  <2> DEFINE p == rolling.period
             q == t \div p
             r == t % p
             whole == p * q
  <2>1. p \in Nat \ {0}
    BY DEF IsRolling
  <2>2. q \in Int /\ r \in 0..(p - 1) /\ t = whole + r
    <3> HIDE DEF p
    <3> QED
      BY <2>1, Division
  <2>3. whole \in Int /\ (q < 0 => whole + p <= 0)
    <3> HIDE DEF q, p
    <3>1. p * 0 = 0
      BY <2>1
    <3> QED
      BY <2>1, <2>2, <3>1, ProductOrder
  <2>4. q >= 0
    <3> HIDE DEF p, q, r, whole
    <3> QED
      BY <2>1, <2>2, <2>3
  <2> HIDE DEF q
  <2> QED
    BY <2>2, <2>4 DEF q
<1>2. rolling.offset \in Int
  BY DEF IsRolling
<1>3. \A m : Due(rolling, t, m) =
                {d \in {Date(i) : i \in {j \in first..(m - rolling.offset) : Chosen(j)}} :
                    t <= d /\ d <= m}
  BY DEF Due
<1>4. \A i \in Int : Chosen(i) =>
          /\ Date(i) \in Int /\ IsRollingDate(rolling, Date(i))
          /\ i >= 0 => i <= rolling.period * i
  BY PeriodDate
<1>5. ASSUME NEW d \in Due(rolling, t, longer)
      PROVE  d \in Nat /\ t <= d /\ IsRollingDate(rolling, d)
  <2>1. PICK i \in first..(longer - rolling.offset) : Chosen(i) /\ d = Date(i)
    BY <1>3
  <2>2. i \in Int /\ t <= d
    BY <1>1, <1>3
  <2> HIDE DEF Date, Chosen
  <2>3. d \in Int /\ IsRollingDate(rolling, d)
    BY <1>4, <2>1, <2>2
  <2> QED
    BY <2>2, <2>3
<1>6. ASSUME NEW d \in Due(rolling, t, max)
      PROVE  d \in Due(rolling, t, longer)
  <2>1. PICK i \in first..(max - rolling.offset) : Chosen(i) /\ d = Date(i)
    BY <1>3
  <2>2. i \in first..(longer - rolling.offset)
    BY <1>1, <1>2
  <2>3. t <= d /\ d <= max
    BY <1>3
  <2> HIDE DEF Date, Chosen
  <2>4. d \in Int
    <3>1. i \in Int
      BY <1>1, <1>2
    <3> QED
      BY <1>4, <2>1, <3>1
  <2>5. d <= longer
    BY <2>3, <2>4
  <2> QED
    BY <1>3, <2>1, <2>2, <2>3, <2>5
<1>7. ASSUME NEW d \in Due(rolling, t, longer), d \notin Due(rolling, t, max), d <= max
      PROVE  FALSE
  <2>1. PICK i \in first..(longer - rolling.offset) : Chosen(i) /\ d = Date(i)
    BY <1>3
  <2>2. i \in Int /\ i >= 0 /\ first <= i
    BY <1>1, <1>2
  <2>3. i <= rolling.period * i /\ rolling.period * i \in Int
    <3>1. i <= rolling.period * i
      BY <1>4, <2>1, <2>2
    <3> QED
      BY <2>2, <3>1, ProductOrder DEF IsRolling
  <2>4. d = rolling.period * i + rolling.offset
    BY <2>1
  <2>5. i <= max - rolling.offset
    <3> DEFINE x == rolling.period * i
    <3>1. d = x + rolling.offset /\ i <= x /\ x \in Int
      BY <2>3, <2>4
    <3> HIDE DEF x
    <3> QED
      BY <1>2, <1>7, <2>2, <3>1
  <2>6. i \in first..(max - rolling.offset)
    BY <1>1, <1>2, <2>2, <2>5
  <2>7. t <= d
    BY <1>5
  <2> HIDE DEF Date, Chosen
  <2> QED
    BY <1>3, <1>7, <2>1, <2>6, <2>7
<1>8. ASSUME NEW d \in Due(rolling, t, longer), d \notin Due(rolling, t, max)
      PROVE  max < d
  BY <1>5, <1>7, <1>8
<1> QED
  BY <1>5, <1>6, <1>8

\* What RollingNext finds is from t on, in a period that is chosen, and is found as
\* well when it may look farther (rolling.go, NextBetween).
LEMMA RollingDate ==
    ASSUME NEW rolling, IsRolling(rolling), NEW t \in Nat, NEW max \in Int,
           RollingNext(rolling, t, max) # Never
    PROVE  /\ RollingNext(rolling, t, max) \in Nat
           /\ t <= RollingNext(rolling, t, max) /\ RollingNext(rolling, t, max) <= max
           /\ IsRollingDate(rolling, RollingNext(rolling, t, max))
           /\ \A longer \in Int : max <= longer =>
                 RollingNext(rolling, t, longer) = RollingNext(rolling, t, max)
<1> DEFINE due(m) == Due(rolling, t, m)
<1>1. \A m : RollingNext(rolling, t, m) =
                IF rolling.period <= 0 \/ due(m) = {} THEN Never ELSE Earliest(due(m))
  BY DEF RollingNext, Due
<1>2. ~ (rolling.period <= 0) /\ due(max) # {} /\ RollingNext(rolling, t, max) = Earliest(due(max))
  BY <1>1
<1>3. rolling.period > 0
  BY <1>2 DEF IsRolling
<1>4. due(max) \subseteq {d \in Nat : t <= d /\ IsRollingDate(rolling, d)}
  <2>1. max <= max
    OBVIOUS
  <2> QED
    BY <1>3, <2>1, DueFarther
<1>5. Earliest(due(max)) \in due(max)
  <2>1. due(max) \subseteq Nat
    BY <1>4
  <2> HIDE DEF due
  <2> QED
    BY <1>2, <2>1, EarliestOf
<1>6. due(max) \subseteq {d : d \in due(max)} /\ \A d \in due(max) : d <= max
  BY DEF Due
<1>7. ASSUME NEW longer \in Int, max <= longer
      PROVE  RollingNext(rolling, t, longer) = Earliest(due(max))
  <2>1. /\ due(longer) \subseteq {d \in Nat : t <= d /\ IsRollingDate(rolling, d)}
        /\ due(max) \subseteq due(longer)
        /\ \A d \in due(longer) \ due(max) : max < d
    BY <1>3, <1>7, DueFarther
  <2> HIDE DEF due
  <2>2. due(longer) \subseteq Nat
    BY <2>1
  <2>3. \A d \in due(longer) \ due(max) : Earliest(due(max)) <= d
    <3>1. Earliest(due(max)) \in Nat /\ Earliest(due(max)) <= max
      BY <1>4, <1>5, <1>6
    <3> QED
      BY <2>1, <2>2, <3>1
  <2>4. Earliest(due(longer)) = Earliest(due(max))
    BY <1>2, <2>1, <2>2, <2>3, EarliestStays
  <2>5. due(longer) # {}
    BY <1>2, <2>1
  <2> QED
    BY <1>1, <1>2, <2>4, <2>5
<1> HIDE DEF due
<1> QED
  BY <1>2, <1>4, <1>5, <1>6, <1>7

-------------------------------------------------------------------------------
(***************************************************************************)
(* The scheduler of a league, the page and the daemon.                     *)
(***************************************************************************)

\* The next race of a league is on its calendar, and does not depend on how far one
\* looks as long as that is far enough (schedule.go, NextBetween).
LEMMA NextBetweenDate ==
    ASSUME schedule \in Leagues, NEW t \in Nat, NEW max \in Int, NextBetween(t, max) # Never
    PROVE  /\ NextBetween(t, max) \in Nat
           /\ t <= NextBetween(t, max) /\ NextBetween(t, max) <= max
           /\ \A low, high \in Int :
                 low <= NextBetween(t, max) /\ NextBetween(t, max) <= high =>
                    NextBetween(t, max) \in Calendar(low, high)
           /\ \A longer \in Int : max <= longer => NextBetween(t, longer) = NextBetween(t, max)
<1>1. CASE schedule.type = "day-of-week"
  <2>1. AreSlots(schedule.slots)
    BY <1>1, LeaguesAssumption DEF AreSlots
  <2>2. \A m : NextBetween(t, m) = DayOfWeekNext(schedule.slots, t, m)
    BY <1>1 DEF NextBetween
  <2> DEFINE d == NextBetween(t, max)
  <2>3. /\ d \in Nat /\ t < d /\ d <= max
        /\ IsSlotted(schedule.slots, d)
        /\ \A longer \in Int : max <= longer => NextBetween(t, longer) = d
    BY <2>1, <2>2, DayOfWeekDate
  <2> HIDE DEF d
  <2>4. ASSUME NEW low \in Int, NEW high \in Int, low <= d, d <= high PROVE d \in Calendar(low, high)
    BY <1>1, <2>3, <2>4 DEF Calendar, IsSlotted
  <2>5. t <= d
    BY <2>3
  <2> QED
    BY <2>3, <2>4, <2>5 DEF d
<1>2. CASE schedule.type = "rolling"
  <2>1. IsRolling(schedule)
    BY <1>2, LeaguesAssumption DEF IsRolling
  <2>2. \A m : NextBetween(t, m) = RollingNext(schedule, t, m)
    BY <1>2 DEF NextBetween
  <2> DEFINE d == NextBetween(t, max)
  <2>3. /\ d \in Nat /\ t <= d /\ d <= max
        /\ IsRollingDate(schedule, d)
        /\ \A longer \in Int : max <= longer => NextBetween(t, longer) = d
    BY <2>1, <2>2, RollingDate
  <2> HIDE DEF d
  <2>4. ASSUME NEW low \in Int, NEW high \in Int, low <= d, d <= high PROVE d \in Calendar(low, high)
    BY <1>2, <2>3, <2>4 DEF Calendar, IsRollingDate
  <2> QED
    BY <2>3, <2>4 DEF d
<1>3. CASE schedule.type # "day-of-week" /\ schedule.type # "rolling"
  BY <1>3 DEF NextBetween
<1> QED
  BY <1>1, <1>2, <1>3

\* getSchedulesBetween stops at a date, or lists the next one and goes on from it.
Stops(t, end) ==
    NextBetween(t, end) = Never \/ NextBetween(t, end) >= end \/ NextBetween(t, end) = t

Lists(from, start, end) ==
    from = [t \in start..end |->
                IF Stops(t, end) THEN {} ELSE {NextBetween(t, end)} \cup from[NextBetween(t, end)]]

\* It comes to an end, since it goes on to a later time.
LEMMA ListingExists ==
    ASSUME schedule \in Leagues, NEW start \in Nat, NEW end \in Nat, start <= end
    PROVE  \E from : Lists(from, start, end)
<1> DEFINE S == {n \in Nat : n <= end => \E from : Lists(from, end - n, end)}
<1>1. ASSUME NEW n \in Nat, \A m \in Nat : m < n => m \in S, n <= end
      PROVE  \E from : Lists(from, end - n, end)
  <2> DEFINE s == end - n
  <2>0. s \in Nat /\ s <= end
    BY <1>1
  <2>1. \E f : n # 0 => Lists(f, s + 1, end)
    <3>1. CASE n = 0
      BY <3>1
    <3>2. CASE n # 0
      <4>1. n - 1 \in Nat /\ n - 1 < n /\ n - 1 <= end /\ end - (n - 1) = s + 1
        BY <1>1, <3>2
      <4>2. \E f : Lists(f, end - (n - 1), end)
        BY <1>1, <4>1
      <4> QED
        BY <4>1, <4>2
    <3> QED
      BY <3>1, <3>2
  <2>2. PICK f : n # 0 => Lists(f, s + 1, end)
    BY <2>1
  <2> DEFINE next(t) == NextBetween(t, end)
             g == [t \in s..end |->
                     IF t = s THEN (IF Stops(s, end) THEN {} ELSE {next(s)} \cup f[next(s)])
                              ELSE f[t]]
             h == [t \in s..end |-> IF Stops(t, end) THEN {} ELSE {next(t)} \cup g[next(t)]]
  <2>3. ASSUME NEW t \in s..end, ~ Stops(t, end)
        PROVE  next(t) \in (s + 1)..end /\ next(t) # s /\ n # 0 /\ g[next(t)] = f[next(t)]
    <3>1. t \in Nat /\ next(t) # Never /\ ~ (next(t) >= end) /\ next(t) # t
      BY <2>0, <2>3 DEF Stops
    <3>2. next(t) \in Nat /\ t <= next(t)
      BY <3>1, NextBetweenDate
    <3> HIDE DEF next, s
    <3>3. next(t) \in (s + 1)..end /\ next(t) # s /\ next(t) \in s..end
      BY <2>0, <3>1, <3>2
    <3>4. g[next(t)] = f[next(t)]
      BY <3>3
    <3>5. n # 0
      BY <2>0, <3>3 DEF s
    <3> QED
      BY <3>3, <3>4, <3>5
  <2>4. ASSUME NEW t \in s..end PROVE g[t] = h[t]
    <3>1. CASE t = s
      BY <2>3, <3>1
    <3>2. CASE t # s
      <4>1. t \in (s + 1)..end /\ n # 0
        BY <2>0, <3>2
      <4>2. f = [u \in (s + 1)..end |-> IF Stops(u, end) THEN {} ELSE {next(u)} \cup f[next(u)]]
        BY <2>2, <4>1 DEF Lists
      <4> HIDE DEF next, s
      <4>3. f[t] = IF Stops(t, end) THEN {} ELSE {next(t)} \cup f[next(t)]
        BY <4>1, <4>2
      <4>4. g[t] = f[t] /\ h[t] = IF Stops(t, end) THEN {} ELSE {next(t)} \cup g[next(t)]
        BY <3>2
      <4> HIDE DEF g, h
      <4> QED
        BY <2>3, <4>3, <4>4
    <3> QED
      BY <3>1, <3>2
  <2>5. g = h
    <3>1. g = [t \in s..end |-> g[t]] /\ h = [t \in s..end |-> h[t]]
      OBVIOUS
    <3> HIDE DEF g, h
    <3> QED
      BY <2>4, <3>1
  <2>6. g = [t \in s..end |-> IF Stops(t, end) THEN {} ELSE {next(t)} \cup g[next(t)]]
    <3> HIDE DEF g
    <3> QED
      BY <2>5
  <2>7. Lists(g, s, end)
    <3> HIDE DEF g
    <3> QED
      BY <2>6 DEF Lists
  <2> QED
    BY <2>7
<1>2. Nat \subseteq S
  <2>1. \A n \in Nat : (\A m \in Nat : m < n => m \in S) => n \in S
    BY <1>1
  <2> HIDE DEF S
  <2> QED
    BY <2>1, AllOf
<1>3. end - start \in Nat /\ end - start <= end /\ end - (end - start) = start
  OBVIOUS
<1>4. end - start \in S
  <2> HIDE DEF S
  <2> QED
    BY <1>2, <1>3
<1> QED
  BY <1>3, <1>4

\* Each date that is listed is the next one from a time between (races.go,
\* getSchedulesBetween).
LEMMA ListedIsFound ==
    ASSUME schedule \in Leagues, NEW start \in Nat, NEW end \in Nat, start <= end,
           NEW d \in SchedulesBetween(start, end)
    PROVE  \E t \in start..end : NextBetween(t, end) = d /\ d # Never /\ t < d /\ d < end
<1> DEFINE from == CHOOSE from : Lists(from, start, end)
           Found(e) == \E t \in start..end : NextBetween(t, end) = e /\ e # Never /\ t < e /\ e < end
<1>1. Lists(from, start, end)
  BY ListingExists
<1>2. SchedulesBetween(start, end) = from[start]
  BY DEF SchedulesBetween, Lists, Stops
<1> HIDE DEF from
<1>3. \A t \in start..end :
          from[t] = IF Stops(t, end) THEN {} ELSE {NextBetween(t, end)} \cup from[NextBetween(t, end)]
  BY <1>1 DEF Lists
<1> DEFINE S == {n \in Nat : end - n >= start => \A e \in from[end - n] : Found(e)}
<1>4. ASSUME NEW n \in Nat, \A m \in Nat : m < n => m \in S, end - n >= start,
             NEW e \in from[end - n]
      PROVE  Found(e)
  <2> DEFINE t == end - n
             next == NextBetween(t, end)
  <2>1. t \in Nat /\ t \in start..end
    BY <1>4
  <2>2. ~ Stops(t, end) /\ e \in {next} \cup from[next]
    BY <1>3, <1>4, <2>1
  <2>3. next # Never /\ ~ (next >= end) /\ next # t
    BY <2>2 DEF Stops
  <2>4. next \in Nat /\ t <= next
    BY <2>1, <2>3, NextBetweenDate
  <2>5. CASE e = next
    <3>1. t < next /\ next < end
      <4> HIDE DEF next, t
      <4> QED
        BY <2>1, <2>3, <2>4
    <3> QED
      BY <2>1, <2>3, <2>5, <3>1
  <2>6. CASE e \in from[next]
    <3> DEFINE m == end - next
    <3>1. m \in Nat /\ m < n /\ end - m >= start /\ end - m = next
      <4> HIDE DEF next
      <4> QED
        BY <2>1, <2>3, <2>4
    <3>2. m \in S
      <4> HIDE DEF m, S
      <4> QED
        BY <1>4, <3>1
    <3> QED
      BY <2>6, <3>1, <3>2
  <2> QED
    BY <2>2, <2>5, <2>6
<1>5. Nat \subseteq S
  <2>1. \A n \in Nat : (\A m \in Nat : m < n => m \in S) => n \in S
    BY <1>4
  <2> HIDE DEF S
  <2> QED
    BY <2>1, AllOf
<1>6. end - start \in Nat /\ end - (end - start) = start
  OBVIOUS
<1>7. end - start \in S
  <2> HIDE DEF S
  <2> QED
    BY <1>5, <1>6
<1> QED
  BY <1>2, <1>6, <1>7

(***************************************************************************)
(* The invariant: a race that was shown and has no session yet is the next *)
(* one from an hour the daemon has still to make its pass in.              *)
(***************************************************************************)

NextIsCreated == passed => NextRace = Never \/ NextRace \in created

IsToCome(d) ==
    \E h \in Nat : /\ hour <= h /\ (passed => hour < h)
                   /\ h < d
                   /\ NextBetween(h, h + Week) = d

ListedIsToCome == \A d \in listed : d \in created \/ IsToCome(d)

ScheduleInv ==
    /\ hour \in Nat /\ hour <= MaxHour
    /\ schedule \in Leagues
    /\ created \subseteq Calendar(0, MaxHour + Week)
    /\ NextIsCreated
    /\ ListedIsToCome

\* A week is a natural number of hours.
LEMMA WeekType == Week \in Nat
BY ScheduleAssumption, ProductOrder DEF Week

\* The calendar and the next race are those of the league, which does not change.
LEMMA ScheduleStays ==
    ASSUME UNCHANGED schedule
    PROVE  /\ \A t, max : NextBetween(t, max)' = NextBetween(t, max)
           /\ \A t, max : Calendar(t, max)' = Calendar(t, max)
BY DEF NextBetween, Calendar

\* A pass of the daemon creates the race it was to create in this hour.
LEMMA CreateNextInv ==
    ASSUME ScheduleInv, CreateNext
    PROVE  ScheduleInv'
<1>1. UNCHANGED <<hour, schedule, listed>> /\ passed' = TRUE
  BY DEF CreateNext
<1>2. created' = IF NextRace = Never THEN created ELSE created \cup {NextRace}
  BY DEF CreateNext
<1>3. NextRace' = NextRace
  BY <1>1, ScheduleStays DEF NextRace
<1>4. NextIsCreated'
  BY <1>2, <1>3 DEF NextIsCreated
<1>5. created' \subseteq Calendar(0, MaxHour + Week)'
  <2>1. ASSUME NextRace # Never PROVE NextRace \in Calendar(0, MaxHour + Week)
    <3>1. hour \in Nat /\ hour + Week \in Int /\ MaxHour + Week \in Int /\ hour + Week <= MaxHour + Week
      BY WeekType, ScheduleAssumption DEF ScheduleInv
    <3>2. /\ NextRace \in Nat /\ NextRace <= hour + Week
          /\ \A low, high \in Int : low <= NextRace /\ NextRace <= high =>
                NextRace \in Calendar(low, high)
      BY <2>1, <3>1, NextBetweenDate DEF ScheduleInv, NextRace
    <3>3. 0 <= NextRace /\ NextRace <= MaxHour + Week
      BY <3>1, <3>2
    <3> QED
      BY <3>1, <3>2, <3>3
  <2>2. Calendar(0, MaxHour + Week)' = Calendar(0, MaxHour + Week)
    BY <1>1, ScheduleStays
  <2> QED
    BY <1>2, <2>1, <2>2 DEF ScheduleInv
<1>6. ListedIsToCome'
  <2>1. SUFFICES ASSUME NEW d \in listed, d \notin created' PROVE IsToCome(d)'
    BY <1>1 DEF ListedIsToCome
  <2>2. IsToCome(d)
    BY <1>2, <2>1 DEF ScheduleInv, ListedIsToCome
  <2>3. PICK h \in Nat : hour <= h /\ h < d /\ NextBetween(h, h + Week) = d
    BY <2>2 DEF IsToCome
  <2>4. h # hour
    <3>1. SUFFICES ASSUME h = hour PROVE FALSE
      OBVIOUS
    <3>2. d = NextRace
      BY <2>3, <3>1 DEF NextRace
    <3>3. d # Never
      <4>1. h < d
        BY <2>3
      <4> QED
        BY <4>1 DEF Never
    <3> QED
      BY <1>2, <2>1, <3>2, <3>3
  <2>5. hour < h
    BY <2>3, <2>4 DEF ScheduleInv
  <2>6. NextBetween(h, h + Week)' = d
    BY <1>1, <2>3, ScheduleStays
  <2>7. hour' <= h /\ hour' < h
    BY <1>1, <2>3, <2>5
  <2> QED
    BY <2>3, <2>6, <2>7 DEF IsToCome
<1> QED
  BY <1>1, <1>4, <1>5, <1>6 DEF ScheduleInv

\* The page shows races that are the next ones from now on.
LEMMA OpenPageInv ==
    ASSUME ScheduleInv, OpenPage
    PROVE  ScheduleInv'
<1>1. UNCHANGED <<hour, schedule, passed, created>>
  BY DEF OpenPage
<1>2. PICK last \in hour..(hour + HoursOpen) : listed' = listed \cup SchedulesBetween(last, last + Week)
  BY DEF OpenPage
<1>3. last \in Nat /\ last + Week \in Nat /\ last <= last + Week /\ hour <= last
  BY WeekType, ScheduleAssumption DEF ScheduleInv
<1>4. NextIsCreated'
  BY <1>1, ScheduleStays DEF ScheduleInv, NextIsCreated, NextRace
<1>5. (created \subseteq Calendar(0, MaxHour + Week))'
  BY <1>1, ScheduleStays DEF ScheduleInv
<1>6. \A d : IsToCome(d) => IsToCome(d)'
  BY <1>1, ScheduleStays DEF IsToCome
<1>7. ASSUME NEW d \in SchedulesBetween(last, last + Week), d \notin created PROVE IsToCome(d)
  <2>1. PICK t \in last..(last + Week) :
            NextBetween(t, last + Week) = d /\ d # Never /\ t < d /\ d < last + Week
    BY <1>3, ListedIsFound DEF ScheduleInv
  <2>2. t \in Nat /\ hour <= t /\ t + Week \in Int /\ last + Week \in Int /\ last + Week <= t + Week
    BY <1>3, WeekType DEF ScheduleInv
  <2>3. NextBetween(t, t + Week) = d
    BY <2>1, <2>2, NextBetweenDate DEF ScheduleInv
  <2>4. passed => t # hour
    BY <1>7, <2>1, <2>3 DEF ScheduleInv, NextIsCreated, NextRace
  <2>5. passed => hour < t
    BY <2>2, <2>4 DEF ScheduleInv
  <2> QED
    BY <2>1, <2>2, <2>3, <2>5 DEF IsToCome
<1>8. ListedIsToCome'
  <2>1. \A d \in listed' : d \in created \/ IsToCome(d)
    BY <1>2, <1>7 DEF ScheduleInv, ListedIsToCome
  <2> QED
    BY <1>1, <1>6, <2>1 DEF ListedIsToCome
<1> QED
  BY <1>1, <1>4, <1>5, <1>8 DEF ScheduleInv

\* An hour does not pass before the daemon has made its pass.
LEMMA HourPassesInv ==
    ASSUME ScheduleInv, HourPasses
    PROVE  ScheduleInv'
<1>1. /\ passed /\ hour < MaxHour
      /\ hour' = hour + 1 /\ passed' = FALSE
      /\ UNCHANGED <<schedule, created, listed>>
  BY DEF HourPasses
<1>2. hour' \in Nat /\ hour' <= MaxHour
  BY <1>1, ScheduleAssumption DEF ScheduleInv
<1>3. NextIsCreated'
  BY <1>1 DEF NextIsCreated
<1>4. (created \subseteq Calendar(0, MaxHour + Week))'
  BY <1>1, ScheduleStays DEF ScheduleInv
<1>5. ASSUME NEW d, IsToCome(d) PROVE IsToCome(d)'
  <2>1. PICK h \in Nat : hour < h /\ h < d /\ NextBetween(h, h + Week) = d
    BY <1>1, <1>5 DEF IsToCome
  <2>2. hour' <= h
    BY <1>1, <2>1 DEF ScheduleInv
  <2>3. NextBetween(h, h + Week)' = d
    BY <1>1, <2>1, ScheduleStays
  <2> QED
    BY <1>1, <2>1, <2>2, <2>3 DEF IsToCome
<1>6. ListedIsToCome'
  BY <1>1, <1>5 DEF ScheduleInv, ListedIsToCome
<1> QED
  BY <1>1, <1>2, <1>3, <1>4, <1>6 DEF ScheduleInv

\* The invariant holds in every reachable state: what is shown and not yet created is
\* found by a pass that has still to be made (back_periodic.go, races.go).
THEOREM ScheduleInvariant == SchedulesSpec => []ScheduleInv
<1>1. SchedulesInit => ScheduleInv
  BY ScheduleAssumption DEF SchedulesInit, ScheduleInv, NextIsCreated, ListedIsToCome
<1>2. ScheduleInv /\ [SchedulesNext]_scheduleVars => ScheduleInv'
  <2> SUFFICES ASSUME ScheduleInv, [SchedulesNext]_scheduleVars PROVE ScheduleInv'
    OBVIOUS
  <2>1. CASE CreateNext
    BY <2>1, CreateNextInv
  <2>2. CASE OpenPage
    BY <2>2, OpenPageInv
  <2>3. CASE HourPasses
    BY <2>3, HourPassesInv
  <2>4. CASE UNCHANGED scheduleVars
    <3>1. UNCHANGED <<hour, schedule, passed, created, listed>>
      BY <2>4 DEF scheduleVars
    <3>2. \A d : IsToCome(d) => IsToCome(d)'
      BY <3>1, ScheduleStays DEF IsToCome
    <3>3. ListedIsToCome' /\ NextIsCreated' /\ (created \subseteq Calendar(0, MaxHour + Week))'
      BY <3>1, <3>2, ScheduleStays DEF ScheduleInv, ListedIsToCome, NextIsCreated, NextRace
    <3> QED
      BY <3>1, <3>3 DEF ScheduleInv
  <2> QED
    BY <2>1, <2>2, <2>3, <2>4 DEF SchedulesNext
<1> QED
  BY <1>1, <1>2, PTL DEF SchedulesSpec

\* The sessions that the daemon creates are on the calendar of the league, and a race
\* that the page has shown has its session by its date, for any schedule, time zones
\* and lengths of days and weeks: although the next race is not always the first of
\* the calendar, the page shows only such as the daemon will find (races.go,
\* getSchedulesBetween; back_periodic.go, createNextScheduledMatchSessions).
THEOREM ScheduleIsAlwaysHeld == SchedulesSpec => []ScheduleIsHeld
<1>1. ScheduleInv => ScheduleIsHeld
  <2> SUFFICES ASSUME ScheduleInv PROVE ScheduleIsHeld
    OBVIOUS
  <2>1. ASSUME passed, NEW d \in listed, d <= hour, d \notin created PROVE FALSE
    <3>1. IsToCome(d)
      BY <2>1 DEF ScheduleInv, ListedIsToCome
    <3>2. PICK h \in Nat : hour <= h /\ h < d /\ NextBetween(h, h + Week) = d
      BY <3>1 DEF IsToCome
    <3>3. d \in Nat
      <4>1. h + Week \in Int
        BY WeekType
      <4>2. d # Never
        BY <3>2 DEF Never
      <4> QED
        BY <3>2, <4>1, <4>2, NextBetweenDate DEF ScheduleInv
    <3> QED
      BY <2>1, <3>2, <3>3 DEF ScheduleInv
  <2> QED
    BY <2>1 DEF ScheduleInv, ScheduleIsHeld
<1> QED
  BY <1>1, ScheduleInvariant, PTL

-------------------------------------------------------------------------------
(***************************************************************************)
(* What schedule.go says of NextBetween, that it returns the first event,  *)
(* is true of the leagues whose hours, once in UTC, are within the week    *)
(* and not at its very beginning, and whose periods have no offset.        *)
(***************************************************************************)

Base(slot) == slot[1] * HoursPerDay + slot[2] - ZoneOffset[slot[3]]

HoursAreInside ==
    \A l \in Leagues :
        /\ l.type = "day-of-week" => \A slot \in l.slots : 0 < Base(slot) /\ Base(slot) < Week
        /\ l.type = "rolling" => l.period > 0 /\ l.offset = 0

\* A quotient and a remainder are those of the division.
LEMMA DivisionIs ==
    ASSUME NEW a \in Nat \ {0}, NEW q \in Int, NEW r \in 0..(a - 1)
    PROVE  (a * q + r) \div a = q /\ (a * q + r) % a = r
<1> DEFINE x == a * q + r
           s == x \div a
           z == x % a
<1>1. a * q \in Int /\ x \in Int
  BY ProductOrder
<1>2. s \in Int /\ z \in 0..(a - 1) /\ x = a * s + z
  <2> HIDE DEF x
  <2> QED
    BY <1>1, Division
<1>3. /\ a * s \in Int
      /\ s < q => a * s + a <= a * q
      /\ q < s => a * q + a <= a * s
  <2> HIDE DEF s
  <2> QED
    BY <1>2, ProductOrder
<1>4. ~ (s < q) /\ ~ (q < s)
  <2> DEFINE v == a * s
             w == a * q
  <2>1. /\ v \in Int /\ w \in Int /\ w + r = v + z
        /\ s < q => v + a <= w
        /\ q < s => w + a <= v
    BY <1>1, <1>2, <1>3
  <2> HIDE DEF v, w, s, z
  <2> QED
    BY <1>2, <2>1
<1>5. s = q
  <2> HIDE DEF s
  <2> QED
    BY <1>2, <1>4
<1>6. z = r
  <2> DEFINE w == a * q
  <2>1. w + r = w + z
    BY <1>2, <1>5
  <2> HIDE DEF w, z
  <2> QED
    BY <1>1, <1>2, <2>1 DEF w
<1> QED
  BY <1>5, <1>6

\* The Sunday of a time, at midnight: a whole number of weeks, and the last one not
\* after the time.
LEMMA Sundays ==
    ASSUME NEW t \in Int
    PROVE  /\ Sunday(t) \in Int /\ Sunday(t) <= Day(t) /\ Day(t) < Sunday(t) + DaysPerWeek
           /\ \E q \in Int : Sunday(t) = DaysPerWeek * q
<1> DEFINE m == DaysPerWeek
           x == Day(t)
           q == x \div m
           r == x % m
           whole == m * q
<1>1. m \in Nat \ {0} /\ x \in Int
  BY ScheduleAssumption, Days
<1>2. q \in Int /\ r \in 0..(m - 1) /\ x = whole + r
  <2> HIDE DEF m, x
  <2> QED
    BY <1>1, Division
<1>3. whole \in Int
  <2> HIDE DEF m, q
  <2> QED
    BY <1>1, <1>2
<1>4. Sunday(t) = x - r
  BY DEF Sunday
<1> HIDE DEF m, x, r, whole
<1>5. Sunday(t) = whole /\ whole <= x /\ x < whole + m
  BY <1>1, <1>2, <1>3, <1>4
<1> QED
  <2> HIDE DEF q
  <2> QED
    BY <1>2, <1>3, <1>5 DEF x, m, whole

\* A later time is in the same week, or in one that begins after it.
LEMMA SundaysOrder ==
    ASSUME NEW t \in Int, NEW u \in Int, t <= u, Sunday(t) # Sunday(u)
    PROVE  Sunday(t) + DaysPerWeek <= Sunday(u)
<1> DEFINE m == DaysPerWeek
<1>1. m \in Nat \ {0}
  BY ScheduleAssumption
<1>2. PICK p \in Int : Sunday(t) = m * p
  BY Sundays
<1>3. PICK q \in Int : Sunday(u) = m * q
  BY Sundays
<1>4. Day(t) \in Int /\ Day(u) \in Int /\ Day(t) <= Day(u)
  BY Days, DaysOrder
<1>5. /\ Sunday(t) \in Int /\ Sunday(u) \in Int
      /\ Sunday(t) <= Day(t) /\ Day(u) < Sunday(u) + m
  BY Sundays
<1>6. /\ q < p => Sunday(u) + m <= Sunday(t)
      /\ p < q => Sunday(t) + m <= Sunday(u)
  <2> HIDE DEF m
  <2> QED
    BY <1>1, <1>2, <1>3, ProductOrder
<1>7. p # q
  BY <1>2, <1>3
<1>8. ~ (q < p)
  <2> HIDE DEF m
  <2> QED
    BY <1>1, <1>4, <1>5, <1>6
<1> QED
  BY <1>6, <1>7, <1>8

\* An hour that is inside of the week, in UTC, has its dates in the weeks that list
\* it, after their beginnings.
LEMMA InsideDate ==
    ASSUME NEW slots, AreSlots(slots), \A slot \in slots : 0 < Base(slot) /\ Base(slot) < Week,
           NEW e \in Int, IsSlotted(slots, e)
    PROVE  /\ e \in flattenHours(slots, e)
           /\ Sunday(e) * HoursPerDay < e
<1> DEFINE n == HoursPerDay
           m == DaysPerWeek
<1>1. n \in Nat \ {0} /\ m \in Nat \ {0} /\ Week = n * m /\ n * m \in Nat \ {0}
  <2>1. n \in Nat \ {0} /\ m \in Nat \ {0}
    BY ScheduleAssumption
  <2>2. n * m \in Nat \ {0}
    <3> HIDE DEF n, m
    <3> QED
      BY <2>1
  <2> QED
    BY <2>1, <2>2 DEF Week
<1>2. PICK slot \in slots : (e + ZoneOffset[slot[3]] - slot[2] - slot[1] * HoursPerDay) % Week = 0
  BY DEF IsSlotted
<1>3. slot[1] \in Int /\ slot[2] \in Int /\ ZoneOffset[slot[3]] \in Int
  BY LeaguesAssumption DEF AreSlots
<1> DEFINE s == slot[1] * n
           base == Base(slot)
           x == e + ZoneOffset[slot[3]] - slot[2] - s
           q == x \div Week
           d == m * q
           b == base \div n
           r == base % n
<1>4. s \in Int
  <2> HIDE DEF n
  <2> QED
    BY <1>1, <1>3
<1>5. base = s + slot[2] - ZoneOffset[slot[3]] /\ base \in Int /\ 0 < base /\ base < Week
  <2>1. base = s + slot[2] - ZoneOffset[slot[3]]
    BY DEF Base
  <2>2. 0 < base /\ base < Week
    OBVIOUS
  <2> HIDE DEF s, base
  <2> QED
    BY <1>3, <1>4, <2>1, <2>2
<1>6. x \in Int /\ x = e - base
  <2> HIDE DEF s, base
  <2> QED
    BY <1>3, <1>4, <1>5
<1>7. q \in Int /\ x = Week * q
  <2>1. q \in Int /\ x = Week * q + (x % Week)
    <3> HIDE DEF x
    <3> QED
      BY <1>1, <1>6, Division
  <2>2. x % Week = 0
    BY <1>2
  <2>3. Week * q \in Int
    <3> HIDE DEF q
    <3> QED
      BY <1>1, <2>1
  <2> HIDE DEF q, x
  <2> QED
    BY <2>1, <2>2, <2>3
<1>8. d \in Int /\ Week * q = n * d
  <2> HIDE DEF q, n, m
  <2>1. d \in Int
    BY <1>1, <1>7
  <2>2. (n * m) * q = n * (m * q)
    BY <1>1, <1>7, SMTT(30)
  <2> QED
    BY <1>1, <2>1, <2>2
<1>9. b \in Int /\ r \in 0..(n - 1) /\ base = n * b + r
  <2> HIDE DEF n, base
  <2> QED
    BY <1>1, <1>5, Division
<1>10. b \in 0..(m - 1)
  <2> HIDE DEF n, m, base, b, r
  <2>1. b < 0 => n * b + n <= n * 0
    BY <1>1, <1>9, ProductOrder
  <2>2. m <= b => n * m <= n * b
    BY <1>1, <1>9, ProductOrder
  <2>3. n * 0 = 0
    BY <1>1
  <2> DEFINE v == n * b
             w == n * m
  <2>4. v \in Int /\ w \in Int
    BY <1>1, <1>9
  <2>5. (b < 0 => v + n <= 0) /\ (m <= b => w <= v) /\ base = v + r /\ base < w /\ 0 < base
    BY <1>1, <1>5, <1>9, <2>1, <2>2, <2>3
  <2> HIDE DEF v, w
  <2>6. ~ (b < 0) /\ ~ (m <= b)
    BY <1>1, <1>9, <2>4, <2>5
  <2> QED
    BY <1>1, <1>9, <2>6
<1>11. e = n * (d + b) + r
  <2> HIDE DEF n, d, b, r, base, x, q
  <2>1. n * (d + b) = n * d + n * b
    BY <1>1, <1>8, <1>9, Distribution
  <2> DEFINE v == n * d
             w == n * b
  <2>2. v \in Int /\ w \in Int
    BY <1>1, <1>8, <1>9
  <2>3. x = v /\ base = w + r /\ n * (d + b) = v + w
    BY <1>7, <1>8, <1>9, <2>1
  <2> HIDE DEF v, w
  <2> QED
    BY <1>1, <1>5, <1>6, <1>9, <2>2, <2>3
<1>12. Day(e) = d + b
  <2> HIDE DEF n, d, b, r
  <2>1. d + b \in Int
    BY <1>8, <1>9
  <2>2. (n * (d + b) + r) \div n = d + b
    BY <1>1, <1>9, <2>1, DivisionIs
  <2> QED
    BY <1>11, <2>2 DEF Day, n
<1>13. Sunday(e) = d
  <2>1. (d + b) % m = b
    <3> HIDE DEF m, b, q
    <3> QED
      BY <1>1, <1>7, <1>10, DivisionIs
  <2>2. Sunday(e) = (d + b) - b
    BY <1>12, <2>1 DEF Sunday
  <2> HIDE DEF d, b
  <2> QED
    BY <1>8, <1>9, <2>2
<1>14. d * n = n * d /\ n * d \in Int
  <2> HIDE DEF d, n
  <2> QED
    BY <1>1, <1>8
<1>15. (d + slot[1]) * n = d * n + s
  <2> HIDE DEF d, n
  <2> QED
    BY <1>1, <1>3, <1>8, Distribution DEF s
<1>16. e = n * d + base
  <2> DEFINE v == n * d
  <2> HIDE DEF x, q, d, n, base
  <2>1. v \in Int /\ x = v
    BY <1>1, <1>7, <1>8
  <2> HIDE DEF v
  <2> QED
    BY <1>5, <1>6, <2>1 DEF v
<1>17. e = (Sunday(e) + slot[1]) * HoursPerDay + slot[2] - ZoneOffset[slot[3]]
  <2> DEFINE v == n * d
             w == (d + slot[1]) * n
  <2>1. e = v + base /\ w = v + s /\ v \in Int
    BY <1>14, <1>15, <1>16
  <2>2. w + slot[2] - ZoneOffset[slot[3]] = e
    <3> HIDE DEF v, w, s, base
    <3> QED
      BY <1>3, <1>4, <1>5, <2>1
  <2> QED
    BY <1>13, <2>2
<1>18. Sunday(e) * HoursPerDay < e
  <2> DEFINE v == n * d
  <2>1. e = v + base /\ Sunday(e) * HoursPerDay = v /\ v \in Int
    BY <1>13, <1>14, <1>16
  <2> HIDE DEF v, base
  <2> QED
    BY <1>5, <2>1
<1> QED
  BY <1>17, <1>18 DEF flattenHours

\* The dates of a week that are inside of it come before the next one begins.
LEMMA InsideEnd ==
    ASSUME NEW slots, AreSlots(slots), \A slot \in slots : 0 < Base(slot) /\ Base(slot) < Week,
           NEW u \in Int, NEW d \in flattenHours(slots, u)
    PROVE  d < (Sunday(u) + DaysPerWeek) * HoursPerDay
<1> DEFINE n == HoursPerDay
           m == DaysPerWeek
<1>1. n \in Nat \ {0} /\ m \in Nat \ {0} /\ Week = n * m
  BY ScheduleAssumption DEF Week
<1>2. PICK slot \in slots : d = (Sunday(u) + slot[1]) * n + slot[2] - ZoneOffset[slot[3]]
  BY DEF flattenHours
<1>3. slot[1] \in Int /\ slot[2] \in Int /\ ZoneOffset[slot[3]] \in Int /\ Sunday(u) \in Int
  BY LeaguesAssumption, Sundays DEF AreSlots
<1> DEFINE s == slot[1] * n
           v == Sunday(u) * n
           w == m * n
<1>4. Base(slot) = s + slot[2] - ZoneOffset[slot[3]] /\ Base(slot) < Week
  BY DEF Base
<1>5. /\ s \in Int /\ v \in Int /\ w \in Int /\ Week = w
      /\ (Sunday(u) + slot[1]) * n = v + s
      /\ (Sunday(u) + m) * n = v + w
  <2> HIDE DEF n, m
  <2>1. Week = w
    BY <1>1
  <2> QED
    BY <1>1, <1>3, <2>1, Distribution
<1>6. d = v + s + slot[2] - ZoneOffset[slot[3]] /\ (Sunday(u) + DaysPerWeek) * HoursPerDay = v + w
  BY <1>2, <1>5
<1> HIDE DEF s, v, w
<1> QED
  BY <1>3, <1>4, <1>5, <1>6

\* No date of the calendar is skipped: that of a later week is found from its Sunday,
\* if not before (day_of_week.go, NextBetween).
LEMMA DayOfWeekIsFirst ==
    ASSUME NEW slots, AreSlots(slots), \A slot \in slots : 0 < Base(slot) /\ Base(slot) < Week,
           NEW t \in Nat, NEW max \in Nat, NEW e \in Int, t < e, e <= max, IsSlotted(slots, e)
    PROVE  DayOfWeekNext(slots, t, max) # Never /\ DayOfWeekNext(slots, t, max) <= e
<1> DEFINE from == LooksFrom(slots, t, max)
           u == Earliest(from)
           S == After(slots, u)
           next == Earliest(S)
           midnight == Sunday(e) * HoursPerDay
<1>1. DayOfWeekNext(slots, t, max) = IF from = {} \/ next > max THEN Never ELSE next
  BY DEF DayOfWeekNext, LooksFrom, After
<1>2. e \in flattenHours(slots, e) /\ midnight < e
  BY InsideDate
<1>3. \A w \in Int : Sunday(w) = Sunday(e) => e \in flattenHours(slots, w)
  BY <1>2 DEF flattenHours
<1>4. \E w \in from : w < e
  <2>1. CASE Sunday(t) = Sunday(e)
    <3>1. e \in After(slots, t)
      BY <1>3, <2>1 DEF After
    <3>2. t \in from
      BY <3>1 DEF LooksFrom
    <3> QED
      BY <3>2
  <2>2. CASE Sunday(t) # Sunday(e)
    <3>1. Sunday(t) + DaysPerWeek <= Sunday(e)
      BY <2>2, SundaysOrder
    <3>2. /\ Sunday(t) \in Int /\ Day(t) < Sunday(t) + DaysPerWeek
          /\ Sunday(e) \in Int /\ Sunday(e) <= Day(e)
      BY Sundays
    <3>3. Day(t) \in Int /\ Day(e) \in Int /\ Day(max) \in Int /\ Day(e) <= Day(max)
      BY Days, DaysOrder
    <3>4. Sunday(e) \in (Day(t) + 1)..Day(max)
      BY <3>1, <3>2, <3>3, ScheduleAssumption
    <3>5. midnight \in Int /\ midnight <= max
      <4>1. midnight \in Int
        BY <3>2, Days
      <4> HIDE DEF midnight
      <4> QED
        BY <1>2, <4>1
    <3>6. Sunday(midnight) = Sunday(e)
      <4>1. Day(midnight) = Sunday(e)
        <5> DEFINE n == HoursPerDay
                   y == Sunday(e)
        <5>1. n \in Nat \ {0} /\ y \in Int
          BY <3>2, ScheduleAssumption
        <5>2. (n * y) \div n = y /\ n * y = y * n
          <6> HIDE DEF n, y
          <6> QED
            BY <5>1, Multiples
        <5> QED
          BY <5>2 DEF Day
      <4>2. PICK q \in Int : Sunday(e) = DaysPerWeek * q
        BY Sundays
      <4>3. Sunday(e) % DaysPerWeek = 0
        BY <4>2, Multiples, ScheduleAssumption
      <4> QED
        BY <3>2, <4>1, <4>3 DEF Sunday
    <3>7. e \in After(slots, midnight)
      BY <1>2, <1>3, <3>5, <3>6 DEF After
    <3>8. midnight \in from
      BY <3>4, <3>5, <3>7 DEF LooksFrom
    <3> QED
      BY <1>2, <3>8
  <2> QED
    BY <2>1, <2>2
<1>5. from \subseteq Nat
  <2>1. max \in Int /\ max <= max
    OBVIOUS
  <2> QED
    BY <2>1, LooksFarther
<1>6. u \in from /\ u \in Nat /\ u < e
  <2> HIDE DEF from
  <2>1. u \in from /\ \A w \in from : u <= w
    BY <1>4, <1>5, EarliestOf
  <2> HIDE DEF u
  <2> QED
    BY <1>4, <1>5, <2>1
<1>7. S # {}
  BY <1>6 DEF LooksFrom
<1>8. S \subseteq Nat
  <2> HIDE DEF u
  <2>1. \A h \in S : h \in Int /\ h > u
    BY <1>6, FlattenedDates DEF After
  <2> HIDE DEF S
  <2> QED
    BY <1>6, <2>1
<1>9. next \in S /\ next \in Nat /\ \A h \in S : next <= h
  <2>1. Earliest(S) \in S /\ \A h \in S : Earliest(S) <= h
    <3> HIDE DEF S
    <3> QED
      BY <1>7, <1>8, EarliestOf
  <2> QED
    BY <1>8, <2>1
<1>10. next <= e
  <2>1. CASE Sunday(u) = Sunday(e)
    <3> HIDE DEF u
    <3>1. e \in S
      BY <1>3, <1>6, <2>1 DEF After
    <3> QED
      BY <1>9, <3>1
  <2>2. CASE Sunday(u) # Sunday(e)
    <3> HIDE DEF u
    <3>1. Sunday(u) + DaysPerWeek <= Sunday(e)
      BY <1>6, <2>2, SundaysOrder
    <3>2. next < (Sunday(u) + DaysPerWeek) * HoursPerDay
      <4>1. next \in flattenHours(slots, u)
        BY <1>9 DEF After
      <4> HIDE DEF next, S
      <4> QED
        BY <1>6, <4>1, InsideEnd
    <3>3. (Sunday(u) + DaysPerWeek) * HoursPerDay <= midnight
      <4> DEFINE n == HoursPerDay
                 x == Sunday(u) + DaysPerWeek
                 y == Sunday(e)
      <4>1. n \in Nat \ {0} /\ x \in Int /\ y \in Int /\ x <= y
        BY <1>6, <3>1, Sundays, ScheduleAssumption
      <4>2. n * x <= n * y /\ n * x = x * n /\ n * y = y * n
        <5> HIDE DEF n, x, y
        <5> QED
          BY <4>1, ProductOrder
      <4> QED
        BY <4>2
    <3>4. (Sunday(u) + DaysPerWeek) * HoursPerDay \in Int /\ midnight \in Int
      <4>1. Sunday(u) + DaysPerWeek \in Int /\ Sunday(e) \in Int
        BY <1>6, Sundays, ScheduleAssumption
      <4> QED
        BY <4>1, Days
    <3> DEFINE end == (Sunday(u) + DaysPerWeek) * HoursPerDay
    <3>5. end \in Int /\ next < end /\ end <= midnight
      BY <3>2, <3>3, <3>4
    <3> HIDE DEF end, next, midnight, S
    <3> QED
      BY <1>2, <1>9, <3>4, <3>5
  <2> QED
    BY <2>1, <2>2
<1>11. ~ (next > max) /\ from # {} /\ next # Never
  <2>1. from # {}
    BY <1>4
  <2> HIDE DEF next, S, u, from
  <2> QED
    BY <1>9, <1>10, <2>1 DEF Never
<1> QED
  <2> HIDE DEF next, S, u, from
  <2> QED
    BY <1>1, <1>10, <1>11

\* Without an offset, the period of t is over by t (rolling.go, NextBetween).
LEMMA RollingIsFirst ==
    ASSUME NEW rolling, IsRolling(rolling), rolling.period > 0, rolling.offset = 0,
           NEW t \in Nat, NEW max \in Nat
    PROVE  /\ \A d \in Due(rolling, t, max) : t < d
           /\ \A e \in Int : t < e /\ e <= max /\ IsRollingDate(rolling, e) =>
                 e \in Due(rolling, t, max)
<1> DEFINE p == rolling.period
           q == t \div p
           r == t % p
           whole == p * q
           chosen == {i \in (q + 1)..max : i % rolling.modulus \in rolling.remainders}
<1>1. p \in Nat \ {0}
  BY DEF IsRolling
<1>2. q \in Int /\ r \in 0..(p - 1) /\ t = whole + r
  <2> HIDE DEF p
  <2> QED
    BY <1>1, Division
<1>3. \A i \in Int : /\ p * i \in Int /\ whole \in Int
                     /\ q < i => whole + p <= p * i
                     /\ i <= q => p * i <= whole
  <2> HIDE DEF p, q
  <2> QED
    BY <1>1, <1>2, ProductOrder
<1>4. Due(rolling, t, max) = {d \in {p * i : i \in chosen} : t <= d /\ d <= max}
  <2>1. max - rolling.offset = max
    OBVIOUS
  <2>2. ASSUME NEW i \in chosen PROVE p * i + rolling.offset = p * i
    <3>1. p * i \in Int
      <4>1. i \in Int
        <5> HIDE DEF q
        <5> QED
          BY <1>2
      <4> QED
        BY <1>3, <4>1
    <3> DEFINE y == p * i
    <3>2. y \in Int
      BY <3>1
    <3> HIDE DEF y
    <3>3. y + rolling.offset = y
      BY <3>2
    <3> QED
      BY <3>3 DEF y
  <2>3. {p * i + rolling.offset : i \in chosen} = {p * i : i \in chosen}
    <3> HIDE DEF chosen, p
    <3> QED
      BY <2>2
  <2> QED
    BY <2>1, <2>3 DEF Due
<1>5. ASSUME NEW d \in Due(rolling, t, max) PROVE t < d
  <2>1. PICK i \in chosen : d = p * i
    BY <1>4
  <2>2. i \in Int /\ q < i
    <3> HIDE DEF q
    <3> QED
      BY <1>2
  <2>3. d \in Int /\ whole \in Int /\ whole + p <= d
    <3> HIDE DEF p, q, whole, chosen
    <3> QED
      BY <1>3, <2>1, <2>2
  <2> HIDE DEF p, q, r, whole, chosen
  <2> QED
    BY <1>1, <1>2, <2>3
<1>6. ASSUME NEW e \in Int, t < e, e <= max, IsRollingDate(rolling, e)
      PROVE  e \in Due(rolling, t, max)
  <2> DEFINE i == e \div p
  <2>0. e - rolling.offset = e
    OBVIOUS
  <2>1. e % p = 0 /\ i % rolling.modulus \in rolling.remainders
    BY <1>6, <2>0 DEF IsRollingDate
  <2>2. i \in Int /\ e = p * i
    <3>1. i \in Int /\ e = p * i + (e % p)
      <4> HIDE DEF p
      <4> QED
        BY <1>1, Division
    <3>2. p * i \in Int
      <4> HIDE DEF p, i
      <4> QED
        BY <1>1, <3>1
    <3> HIDE DEF i, p
    <3> QED
      BY <2>1, <3>1, <3>2
  <2>3. q < i
    <3>1. i <= q => e <= whole
      <4> HIDE DEF p, q, i, whole
      <4> QED
        BY <1>3, <2>2
    <3>2. whole \in Int
      <4> HIDE DEF p, q, whole
      <4> QED
        BY <1>3, <2>2
    <3> HIDE DEF p, q, r, i, whole
    <3> QED
      BY <1>1, <1>2, <1>6, <2>2, <3>1, <3>2
  <2>4. i <= max
    <3>1. i >= 0 => i <= p * i
      <4>1. CASE i = 0
        <5> HIDE DEF p, i
        <5> QED
          BY <1>1, <4>1
      <4>2. CASE i > 0
        <5> HIDE DEF p, i
        <5>1. i \in Nat \ {0} /\ 1 <= p /\ p \in Int
          BY <1>1, <2>2, <4>2
        <5>2. i * 1 <= i * p
          BY <5>1, ProductOrder
        <5>3. i * 1 = i /\ i * p = p * i
          BY <1>1, <5>1
        <5> QED
          BY <5>2, <5>3
      <4> HIDE DEF i
      <4> QED
        BY <2>2, <4>1, <4>2
    <3> HIDE DEF p, i
    <3> QED
      BY <1>6, <2>2, <3>1
  <2>5. i \in chosen
    <3> HIDE DEF i, q
    <3> QED
      BY <1>2, <2>1, <2>2, <2>3, <2>4
  <2>6. t <= e
    BY <1>6
  <2> HIDE DEF i, chosen, p
  <2> QED
    BY <1>4, <1>6, <2>2, <2>5, <2>6
<1> QED
  BY <1>5, <1>6

\* What the calendar has, by the type of the schedule.
LEMMA CalendarDates ==
    ASSUME NEW low \in Int, NEW high \in Int, NEW d
    PROVE  /\ schedule.type = "day-of-week" =>
                 (d \in Calendar(low, high) <=> d \in low..high /\ IsSlotted(schedule.slots, d))
           /\ schedule.type = "rolling" =>
                 (d \in Calendar(low, high) <=> d \in low..high /\ IsRollingDate(schedule, d))
           /\ schedule.type \notin {"day-of-week", "rolling"} => Calendar(low, high) = {}
BY DEF Calendar, IsSlotted, IsRollingDate

\* schedule.go: "NextBetween returns the first event occurring between two point in
\* time".  So it does for any league whose hours are inside of the week of UTC and
\* whose periods have no offset; the run "schedule" shows what it does for others.
THEOREM NextIsFirstInside == ASSUME HoursAreInside PROVE SchedulesSpec => []NextIsFirst
<1>1. ScheduleInv => NextIsFirst
  <2> SUFFICES ASSUME ScheduleInv PROVE NextIsFirst
    OBVIOUS
  <2> DEFINE low == hour + 1
             high == hour + Week
             events == Calendar(low, high)
  <2>1. hour \in Nat /\ high \in Nat /\ low \in Int /\ schedule \in Leagues
    BY WeekType DEF ScheduleInv
  <2>2. /\ \A e \in events : e \in Nat /\ NextRace # Never /\ NextRace <= e
        /\ NextRace # Never => NextRace \in events /\ NextRace \in Nat
    <3> HIDE DEF high
    <3>1. CASE schedule.type = "day-of-week"
      <4>1. NextRace = DayOfWeekNext(schedule.slots, hour, high)
        BY <3>1 DEF NextRace, NextBetween, high
      <4>2. /\ AreSlots(schedule.slots)
            /\ \A slot \in schedule.slots : 0 < Base(slot) /\ Base(slot) < Week
        BY <2>1, <3>1, LeaguesAssumption DEF AreSlots, HoursAreInside
      <4>3. ASSUME NEW e \in events PROVE e \in Nat /\ NextRace # Never /\ NextRace <= e
        <5>1. e \in Nat /\ hour < e /\ e <= high /\ IsSlotted(schedule.slots, e)
          BY <2>1, <3>1, CalendarDates
        <5> QED
          BY <2>1, <4>1, <4>2, <5>1, DayOfWeekIsFirst
      <4>4. ASSUME NextRace # Never PROVE NextRace \in events /\ NextRace \in Nat
        <5>1. /\ NextRace \in Nat /\ hour < NextRace /\ NextRace <= high
              /\ IsSlotted(schedule.slots, NextRace)
          BY <2>1, <4>1, <4>2, <4>4, DayOfWeekDate
        <5>2. NextRace \in low..high
          BY <2>1, <5>1
        <5> QED
          BY <2>1, <3>1, <5>1, <5>2, CalendarDates
      <4> QED
        BY <4>3, <4>4
    <3>2. CASE schedule.type = "rolling"
      <4>1. NextRace = RollingNext(schedule, hour, high)
        BY <3>2 DEF NextRace, NextBetween, high
      <4>2. IsRolling(schedule) /\ schedule.period > 0 /\ schedule.offset = 0
        BY <2>1, <3>2, LeaguesAssumption DEF IsRolling, HoursAreInside
      <4> DEFINE due == Due(schedule, hour, high)
      <4>3. /\ \A d \in due : hour < d
            /\ \A e \in Int : hour < e /\ e <= high /\ IsRollingDate(schedule, e) => e \in due
        BY <2>1, <4>2, RollingIsFirst
      <4>4. due \subseteq {d \in Nat : hour <= d /\ IsRollingDate(schedule, d)}
        <5>1. high \in Int /\ high <= high
          BY <2>1
        <5> QED
          BY <2>1, <4>2, <5>1, DueFarther
      <4>5. \A d \in due : d <= high
        BY DEF Due
      <4>6. NextRace = IF due = {} THEN Never ELSE Earliest(due)
        <5>1. ~ (schedule.period <= 0)
          BY <4>2 DEF IsRolling
        <5> QED
          BY <4>1, <5>1 DEF RollingNext, Due
      <4> HIDE DEF due
      <4>7. due # {} => Earliest(due) \in due /\ \A e \in due : Earliest(due) <= e
        BY <4>4, EarliestOf
      <4>8. ASSUME NEW e \in events PROVE e \in Nat /\ NextRace # Never /\ NextRace <= e
        <5>1. e \in Nat /\ hour < e /\ e <= high /\ IsRollingDate(schedule, e)
          BY <2>1, <3>2, CalendarDates
        <5>2. e \in due
          BY <4>3, <5>1
        <5>3. NextRace \in due /\ NextRace <= e
          BY <4>6, <4>7, <5>2
        <5> QED
          BY <4>4, <5>1, <5>3 DEF Never
      <4>9. ASSUME NextRace # Never PROVE NextRace \in events /\ NextRace \in Nat
        <5>1. NextRace \in due
          BY <4>6, <4>7, <4>9
        <5>2. NextRace \in Nat /\ hour < NextRace /\ NextRace <= high /\ IsRollingDate(schedule, NextRace)
          BY <4>3, <4>4, <4>5, <5>1
        <5>3. NextRace \in low..high
          BY <2>1, <5>2
        <5> QED
          BY <2>1, <3>2, <5>2, <5>3, CalendarDates
      <4> QED
        BY <4>8, <4>9
    <3>3. CASE schedule.type \notin {"day-of-week", "rolling"}
      <4>1. NextRace = Never
        BY <3>3 DEF NextRace, NextBetween
      <4>2. events = {}
        BY <2>1, <3>3, CalendarDates
      <4> QED
        BY <4>1, <4>2
    <3> QED
      BY <3>1, <3>2, <3>3
  <2>3. CASE events = {}
    BY <2>2, <2>3 DEF NextIsFirst
  <2>4. CASE events # {}
    <3> HIDE DEF events
    <3>1. NextRace \in events /\ NextRace \in Nat /\ \A e \in events : NextRace <= e
      BY <2>2, <2>4
    <3>2. Earliest(events) \in events /\ \A e \in events : Earliest(events) <= e
      <4>1. events \subseteq Nat
        BY <2>2
      <4> QED
        BY <2>4, <4>1, EarliestOf
    <3> DEFINE first == Earliest(events)
    <3>3. first \in Nat /\ first <= NextRace /\ NextRace <= first
      BY <2>2, <3>1, <3>2
    <3>4. NextRace = first
      <4> HIDE DEF first
      <4> QED
        BY <3>1, <3>3
    <3> QED
      BY <2>4, <3>4 DEF NextIsFirst, events
  <2> QED
    BY <2>3, <2>4
<1>2. SchedulesSpec => []ScheduleInv
  BY ScheduleInvariant
<1> QED
  BY <1>1, <1>2, PTL

-------------------------------------------------------------------------------
(***************************************************************************)
(* The settings that are drawn get along.  What a draw overwrites, it      *)
(* overwrites together with the values that needed it; and a setting that  *)
(* another implies is decided, so that nothing is drawn for it any more.   *)
(***************************************************************************)

DrawnAreDecided ==
    \A d \in drawn :
        d[1] \in Names /\ d[2] \in Possible[d[1]] /\ settings[d[1]] # Undecided

ImpliedAreInEffect ==
    \A d \in drawn : settings[d[1]] = d[2].value =>
        \A j \in DOMAIN d[2].implies : settings[j] = d[2].implies[j]

OneBridgeIsOn ==
    \A j, k \in Names :
        IsKind(j) /\ settings[j] \notin {Undecided, Zero} =>
           /\ IsKind(k) /\ BridgeOf[k] # BridgeOf[j] => settings[k] = Zero
           /\ BridgeOf[k] = "bridge" => settings[k] = BridgeValue[BridgeOf[j]]

SettingsInv == DrawnAreDecided /\ ImpliedAreInEffect /\ OneBridgeIsOn

\* The settings once value v is drawn for k (settings.go, the body of the loop).
Settled(k, v) == settings' = [j \in Names |-> IF j = k THEN v.value ELSE Settles(k, v, j)]

\* A setting that is no bridge is given what the value implies, or left alone.
LEMMA SettlesPlainly ==
    ASSUME NEW k, NEW v, NEW j, BridgeOf[j] = "none"
    PROVE  Settles(k, v, j) = IF j \in DOMAIN v.implies THEN v.implies[j] ELSE settings[j]
BY DEF Settles, IsKind

\* A draw leaves no setting undecided that was decided.
LEMMA DecidedStays ==
    ASSUME NEW k \in Names, NEW v \in Possible[k], Settled(k, v),
           NEW j \in Names, settings[j] # Undecided
    PROVE  settings'[j] # Undecided
<1>1. CASE j = k
  BY <1>1, ImpliesAssumption DEF Settled
<1>2. CASE j # k
  <2>1. settings'[j] = Settles(k, v, j)
    BY <1>2 DEF Settled
  <2>2. j \in DOMAIN v.implies => v.implies[j] # Undecided
    BY ImpliesAssumption
  <2>3. IsKind(k) => BridgeValue[BridgeOf[k]] # Undecided
    BY BridgeAssumption
  <2>4. Zero # Undecided
    BY BridgeAssumption
  <2> QED
    BY <2>1, <2>2, <2>3, <2>4 DEF Settles
<1> QED
  BY <1>1, <1>2

\* Another setting comes by a value that may be drawn for it only if it had that
\* value, or is given it by the one that is drawn: the values of bridges that are
\* set are none of those that are drawn (handleBridgeSettings).
LEMMA ComesBy ==
    ASSUME NEW k \in Names, NEW v \in Possible[k], Settled(k, v),
           NEW l \in Names \ {k}, NEW w \in Possible[l], settings'[l] = w.value
    PROVE  \/ l \in DOMAIN v.implies /\ v.implies[l] = w.value
           \/ l \notin DOMAIN v.implies /\ settings[l] = w.value
<1>1. settings'[l] = Settles(k, v, l)
  BY DEF Settled
<1>2. IsKind(l) => w.value # Zero
  BY BridgeAssumption
<1>3. IsKind(k) /\ BridgeOf[l] = "bridge" => w.value # BridgeValue[BridgeOf[k]]
  BY BridgeAssumption
<1>4. Settles(k, v, l) = IF l \in DOMAIN v.implies THEN v.implies[l] ELSE settings[l]
  BY <1>1, <1>2, <1>3 DEF Settles
<1> QED
  BY <1>1, <1>4

\* What the values in effect imply stays in effect when another is drawn, unless
\* they go out of effect themselves (settings.go, Implies).
LEMMA DrawnStayImplied ==
    ASSUME SettingsInv, NEW k \in Names, settings[k] = Undecided,
           NEW v \in Possible[k], Settled(k, v),
           NEW d \in drawn, settings'[d[1]] = d[2].value,
           NEW j \in DOMAIN d[2].implies
    PROVE  settings'[j] = d[2].implies[j]
<1> DEFINE l == d[1]
           w == d[2]
<1>1. l \in Names \ {k} /\ w \in Possible[l]
  BY DEF SettingsInv, DrawnAreDecided
<1>2. j \in Names /\ BridgeOf[j] = "none" /\ w.implies[j] # Undecided
  BY <1>1, ImpliesAssumption
<1>3. k \notin DOMAIN v.implies
  BY ImpliesAssumption
<1>4. j # k => settings'[j] = IF j \in DOMAIN v.implies THEN v.implies[j] ELSE settings[j]
  BY <1>2, SettlesPlainly DEF Settled
<1>5. CASE l \in DOMAIN v.implies /\ v.implies[l] = w.value
  <2>1. j \in DOMAIN v.implies /\ v.implies[j] = w.implies[j]
    BY <1>1, <1>5, ImpliesAssumption
  <2> QED
    BY <1>3, <1>4, <2>1
<1>6. CASE l \notin DOMAIN v.implies /\ settings[l] = w.value
  <2>1. settings[j] = w.implies[j]
    BY <1>6 DEF SettingsInv, ImpliedAreInEffect
  <2>2. k \notin DOMAIN w.implies
    BY <1>1, <1>6, ImpliesAssumption DEF SettingsInv, ImpliedAreInEffect
  <2>3. j # k
    BY <2>2
  <2>4. j \in DOMAIN v.implies => v.implies[j] = w.implies[j]
    BY <1>1, <1>6, <2>2, ImpliesAssumption
  <2> QED
    BY <1>4, <2>1, <2>3, <2>4
<1>7. settings'[l] = w.value
  OBVIOUS
<1> QED
  <2> HIDE DEF l, w
  <2> QED
    BY <1>1, <1>5, <1>6, <1>7, ComesBy

\* A kind of bridge that is drawn turns the others off, and "bridge" too turns them
\* off when it is drawn (handleBridgeSettings).
LEMMA OneBridgeStaysOn ==
    ASSUME SettingsInv, NEW k \in Names, NEW v \in Possible[k], Settled(k, v)
    PROVE  OneBridgeIsOn'
<1> SUFFICES ASSUME NEW i \in Names, NEW j \in Names,
                    IsKind(i), settings'[i] \notin {Undecided, Zero}
             PROVE  /\ IsKind(j) /\ BridgeOf[j] # BridgeOf[i] => settings'[j] = Zero
                    /\ BridgeOf[j] = "bridge" => settings'[j] = BridgeValue[BridgeOf[i]]
  BY DEF OneBridgeIsOn, IsKind
<1>1. \A n \in Names : settings'[n] = IF n = k THEN v.value ELSE Settles(k, v, n)
  BY DEF Settled
<1>2. CASE BridgeOf[k] = "bridge"
  <2>1. v.value \in Open
    BY <1>2, BridgeAssumption
  <2>2. i # k
    BY <1>2 DEF IsKind
  <2> QED
    BY <1>1, <1>2, <2>1, <2>2 DEF Settles
<1>3. CASE IsKind(k)
  <2>1. BridgeOf[k] # "bridge"
    BY <1>3 DEF IsKind
  <2>2. BridgeOf[i] = BridgeOf[k]
    <3>1. CASE i = k
      BY <3>1
    <3>2. CASE i # k
      BY <1>1, <1>3, <2>1, <3>2 DEF Settles, IsKind
    <3> QED
      BY <3>1, <3>2
  <2>3. ASSUME IsKind(j), BridgeOf[j] # BridgeOf[i] PROVE settings'[j] = Zero
    <3>1. j # k /\ BridgeOf[j] # "bridge"
      BY <2>2, <2>3 DEF IsKind
    <3> QED
      BY <1>1, <1>3, <2>1, <2>2, <2>3, <3>1 DEF Settles
  <2>4. ASSUME BridgeOf[j] = "bridge" PROVE settings'[j] = BridgeValue[BridgeOf[i]]
    <3>1. j # k /\ ~ IsKind(j)
      BY <2>1, <2>4 DEF IsKind
    <3> QED
      BY <1>1, <1>3, <2>1, <2>2, <2>4, <3>1 DEF Settles
  <2> QED
    BY <2>3, <2>4
<1>4. CASE BridgeOf[k] = "none"
  <2>1. ASSUME NEW n \in Names, BridgeOf[n] # "none" PROVE settings'[n] = settings[n]
    <3>1. n # k /\ n \notin DOMAIN v.implies
      BY <1>4, <2>1, ImpliesAssumption
    <3> QED
      BY <1>1, <1>4, <3>1 DEF Settles, IsKind
  <2>2. BridgeOf[i] # "none" /\ (IsKind(j) => BridgeOf[j] # "none")
    BY DEF IsKind
  <2>3. settings'[i] = settings[i]
    BY <2>1, <2>2
  <2>4. IsKind(j) \/ BridgeOf[j] = "bridge" => settings'[j] = settings[j]
    BY <2>1, <2>2
  <2> QED
    BY <2>3, <2>4 DEF SettingsInv, OneBridgeIsOn
<1> QED
  BY <1>2, <1>3, <1>4 DEF IsKind

\* Drawing a value, or not, leaves the settings compatible.
LEMMA DrawSettingCompatible ==
    ASSUME SettingsInv, NEW k \in Names, DrawSetting(k)
    PROVE  SettingsInv'
<1>1. CASE UNCHANGED <<settings, drawn, costSum>>
  BY <1>1 DEF SettingsInv, DrawnAreDecided, ImpliedAreInEffect, OneBridgeIsOn, IsKind
<1>2. CASE /\ settings[k] = Undecided
           /\ \E v \in Possible[k] : drawn' = drawn \cup {<<k, v>>} /\ Settled(k, v)
  <2>1. PICK v \in Possible[k] : drawn' = drawn \cup {<<k, v>>} /\ Settled(k, v)
    BY <1>2
  <2>2. settings'[k] = v.value /\ v.value # Undecided
    BY <2>1, ImpliesAssumption DEF Settled
  <2>3. DrawnAreDecided'
    <3>1. SUFFICES ASSUME NEW d \in drawn'
                   PROVE  d[1] \in Names /\ d[2] \in Possible[d[1]] /\ settings'[d[1]] # Undecided
      BY DEF DrawnAreDecided
    <3>2. CASE d \in drawn
      BY <2>1, <3>2, DecidedStays DEF SettingsInv, DrawnAreDecided
    <3>3. CASE d = <<k, v>>
      BY <2>2, <3>3
    <3> QED
      BY <2>1, <3>2, <3>3
  <2>4. ImpliedAreInEffect'
    <3>1. SUFFICES ASSUME NEW d \in drawn', settings'[d[1]] = d[2].value,
                          NEW j \in DOMAIN d[2].implies
                   PROVE  settings'[j] = d[2].implies[j]
      BY DEF ImpliedAreInEffect
    <3>2. CASE d \in drawn
      BY <1>2, <2>1, <3>1, <3>2, DrawnStayImplied
    <3>3. CASE d = <<k, v>>
      <4>1. j \in DOMAIN v.implies /\ d[2].implies[j] = v.implies[j]
        BY <3>3
      <4>2. j \in Names \ {k} /\ BridgeOf[j] = "none"
        BY <4>1, ImpliesAssumption
      <4>3. settings'[j] = Settles(k, v, j)
        BY <2>1, <4>2 DEF Settled
      <4> QED
        BY <4>1, <4>2, <4>3, SettlesPlainly
    <3> QED
      BY <2>1, <3>2, <3>3
  <2>5. OneBridgeIsOn'
    BY <2>1, OneBridgeStaysOn
  <2> QED
    BY <2>3, <2>4, <2>5 DEF SettingsInv
<1> QED
  BY <1>1, <1>2 DEF DrawSetting, Settled

\* A value that is in effect, and was not overwritten by one drawn after it, has the
\* settings it implies in effect too, and no two kinds of bridge are on, for any
\* settings file that is written with care: what two values disagree on, one of them
\* decides for the other (settings.go, Shuffle and handleBridgeSettings).
THEOREM SettingsAreAlwaysCompatible == ShuffleSpec => []SettingsAreCompatible
<1>1. ShuffleInit => SettingsInv
  BY DEF ShuffleInit, SettingsInv, DrawnAreDecided, ImpliedAreInEffect, OneBridgeIsOn
<1>2. SettingsInv /\ [ShuffleNext]_shuffleVars => SettingsInv'
  <2> SUFFICES ASSUME SettingsInv, [ShuffleNext]_shuffleVars PROVE SettingsInv'
    OBVIOUS
  <2>1. CASE \E k \in Names : DrawSetting(k)
    BY <2>1, DrawSettingCompatible
  <2>2. CASE UNCHANGED <<settings, drawn>>
    BY <2>2 DEF SettingsInv, DrawnAreDecided, ImpliedAreInEffect, OneBridgeIsOn, IsKind
  <2>3. NextPass => UNCHANGED <<settings, drawn>>
    BY DEF NextPass
  <2>4. UNCHANGED shuffleVars => UNCHANGED <<settings, drawn>>
    BY DEF shuffleVars
  <2> QED
    BY <2>1, <2>2, <2>3, <2>4 DEF ShuffleNext
<1>3. SettingsInv => SettingsAreCompatible
  BY DEF SettingsInv, ImpliedAreInEffect, OneBridgeIsOn, SettingsAreCompatible
<1> QED
  BY <1>1, <1>2, <1>3, PTL DEF ShuffleSpec

===============================================================================
