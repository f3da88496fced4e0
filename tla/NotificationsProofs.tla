-------------------------- MODULE NotificationsProofs --------------------------
(***************************************************************************)
(* Proofs about Notifications, for any sessions, players, dates, capacity  *)
(* of the channel and bounds: what is committed has been announced, the    *)
(* last a player hears of a match is its outcome, recaps are due, and the  *)
(* process exits between two passes of the daemon.                         *)
(***************************************************************************)
EXTENDS Notifications, Induction

-------------------------------------------------------------------------------
(***************************************************************************)
(* The matches.                                                            *)
(***************************************************************************)

\* Nobody joins twice, or two sessions.
JoinedOnce ==
    /\ joined \in [Sessions -> Entrants]
    /\ \A s, t \in Sessions : s # t => ToSet(joined[s]) \cap ToSet(joined[t]) = {}

IsMatched(p) == \E q \in Players : AreMatched(p, q) \/ AreMatched(q, p)

\* A player has one place.
LEMMA PlaceIsUnique ==
    ASSUME JoinedOnce, NEW s \in Sessions, NEW t \in Sessions,
           NEW i \in 1..Len(joined[s]), NEW j \in 1..Len(joined[t]),
           joined[s][i] = joined[t][j]
    PROVE  s = t /\ i = j
<1>1. /\ joined[s] \in Seq(Players) /\ IsInjective(joined[s])
      /\ joined[t] \in Seq(Players)
  BY ChannelAssumption DEF JoinedOnce
<1>2. joined[s][i] \in ToSet(joined[s]) /\ joined[t][j] \in ToSet(joined[t])
  BY <1>1 DEF ToSet
<1>3. s = t
  BY <1>2 DEF JoinedOnce
<1> QED
  BY <1>1, <1>3 DEF IsInjective

\* Those who are kept are the first to have joined, and an even number of them
\* (back_matchmaking.go, ensureSessionIsValidForMatchMaking).
LEMMA KeptOnes ==
    ASSUME JoinedOnce, NEW s \in Sessions
    PROVE  /\ joined[s] \in Seq(Players)
           /\ Len(joined[s]) \div 2 \in Nat
           /\ 2 * (Len(joined[s]) \div 2) <= Len(joined[s])
           /\ Len(joined[s]) <= 2 * (Len(joined[s]) \div 2) + 1
           /\ Kept(s) \in Seq(Players)
           /\ Len(Kept(s)) = 2 * (Len(joined[s]) \div 2)
           /\ \A i \in 1..Len(Kept(s)) : Kept(s)[i] = joined[s][i]
<1> DEFINE half == Len(joined[s]) \div 2
<1>1. joined[s] \in Seq(Players) /\ Len(joined[s]) \in Nat
  BY ChannelAssumption DEF JoinedOnce
<1>2. half \in Nat /\ 2 * half <= Len(joined[s]) /\ Len(joined[s]) <= 2 * half + 1
  <2> DEFINE n == Len(joined[s])
  <2> HIDE DEF n
  <2>1. n \in Nat
    BY <1>1 DEF n
  <2>2. n \div 2 \in Nat /\ 2 * (n \div 2) <= n /\ n <= 2 * (n \div 2) + 1
    BY <2>1
  <2> QED
    BY <2>2 DEF n
<1> HIDE DEF half
<1>3. Kept(s) = SubSeq(joined[s], 1, 2 * half)
  BY DEF Kept, half
<1>4. /\ Kept(s) \in Seq(Players)
      /\ Len(Kept(s)) = 2 * half
      /\ \A i \in 1..Len(Kept(s)) : Kept(s)[i] = joined[s][i]
  BY <1>1, <1>2, <1>3
<1> QED
  BY <1>1, <1>2, <1>4 DEF half

\* The places of two players who are matched.
LEMMA PlacesOfMatch ==
    ASSUME JoinedOnce, NEW f, NEW q, AreMatched(f, q)
    PROVE  \E s \in Sessions : \E a, b \in 1..Len(joined[s]) : \E i \in Nat :
              /\ a = 2*i - 1 /\ b = 2*i
              /\ f = joined[s][a] /\ q = joined[s][b]
              /\ f \in Players /\ q \in Players
<1>0. PICK s \in Sessions : \E i \in 1..(Len(joined[s]) \div 2) :
          f = Kept(s)[2*i - 1] /\ q = Kept(s)[2*i]
  BY DEF AreMatched
<1> DEFINE half == Len(joined[s]) \div 2
<1>1. PICK i \in 1..half : f = Kept(s)[2*i - 1] /\ q = Kept(s)[2*i]
  BY <1>0
<1>2. /\ half \in Nat /\ 2 * half <= Len(joined[s]) /\ Len(Kept(s)) = 2 * half
      /\ joined[s] \in Seq(Players)
      /\ \A j \in 1..Len(Kept(s)) : Kept(s)[j] = joined[s][j]
  BY KeptOnes
<1> HIDE DEF half
<1>4. /\ i \in Nat
      /\ 2*i - 1 \in 1..Len(Kept(s)) /\ 2*i \in 1..Len(Kept(s))
      /\ 2*i - 1 \in 1..Len(joined[s]) /\ 2*i \in 1..Len(joined[s])
  BY <1>1, <1>2
<1>5. f = joined[s][2*i - 1] /\ q = joined[s][2*i]
  BY <1>1, <1>2, <1>4
<1>6. f \in Players /\ q \in Players
  BY <1>2, <1>4, <1>5
<1> QED
  BY <1>4, <1>5, <1>6

\* A player is in one match, on one side of it.
LEMMA MatchedOnce ==
    ASSUME JoinedOnce, NEW f, NEW q, AreMatched(f, q)
    PROVE  /\ f # q
           /\ \A r : AreMatched(f, r) => r = q
           /\ \A r : AreMatched(r, q) => r = f
           /\ \A r : ~AreMatched(r, f) /\ ~AreMatched(q, r)
<1>0. PICK s \in Sessions : \E a, b \in 1..Len(joined[s]) : \E i \in Nat :
          /\ a = 2*i - 1 /\ b = 2*i
          /\ f = joined[s][a] /\ q = joined[s][b]
          /\ f \in Players /\ q \in Players
  BY PlacesOfMatch, Zenon
<1>1. PICK a \in 1..Len(joined[s]), b \in 1..Len(joined[s]) : \E i \in Nat :
          /\ a = 2*i - 1 /\ b = 2*i
          /\ f = joined[s][a] /\ q = joined[s][b]
          /\ f \in Players /\ q \in Players
  BY <1>0, Zenon
<1>2. f # q
  <2>1. a # b
    BY <1>1
  <2> QED
    BY <1>1, <2>1, PlaceIsUnique
<1>3. ASSUME NEW g, NEW r, AreMatched(g, r)
      PROVE  /\ g = f <=> r = q
             /\ g # q /\ r # f
  <2>0. PICK t \in Sessions : \E c, d \in 1..Len(joined[t]) : \E j \in Nat :
            /\ c = 2*j - 1 /\ d = 2*j
            /\ g = joined[t][c] /\ r = joined[t][d]
            /\ g \in Players /\ r \in Players
    BY <1>3, PlacesOfMatch, Zenon
  <2>1. PICK c \in 1..Len(joined[t]), d \in 1..Len(joined[t]) : \E j \in Nat :
            /\ c = 2*j - 1 /\ d = 2*j
            /\ g = joined[t][c] /\ r = joined[t][d]
            /\ g \in Players /\ r \in Players
    BY <2>0, Zenon
  <2>2. ASSUME g = f PROVE s = t /\ a = c
    <3>1. joined[s][a] = joined[t][c]
      BY <1>1, <2>1, <2>2
    <3> QED
      BY <3>1, PlaceIsUnique, Zenon
  <2>3. ASSUME r = q PROVE s = t /\ b = d
    <3>1. joined[s][b] = joined[t][d]
      BY <1>1, <2>1, <2>3
    <3> QED
      BY <3>1, PlaceIsUnique, Zenon
  <2>4. ASSUME g = q PROVE b = c
    <3>1. joined[s][b] = joined[t][c]
      BY <1>1, <2>1, <2>4
    <3> QED
      BY <3>1, PlaceIsUnique, Zenon
  <2>5. ASSUME r = f PROVE a = d
    <3>1. joined[s][a] = joined[t][d]
      BY <1>1, <2>1, <2>5
    <3> QED
      BY <3>1, PlaceIsUnique, Zenon
  <2>6. (a = c <=> b = d) /\ b # c /\ a # d
    BY <1>1, <2>1
  <2> QED
    BY <1>1, <2>1, <2>2, <2>3, <2>4, <2>5, <2>6
<1> QED
  BY <1>2, <1>3

\* Opponents are each other's.
LEMMA OpponentsOfMatch ==
    ASSUME JoinedOnce, NEW p, NEW q, AreMatched(p, q)
    PROVE  /\ p \in Players /\ q \in Players /\ p # q
           /\ Opponent(p) = q /\ Opponent(q) = p
           /\ IsMatched(p) /\ IsMatched(q)
<1>1. p \in Players /\ q \in Players
  BY PlacesOfMatch
<1>2. /\ p # q
      /\ \A r \in Players : AreMatched(p, r) \/ AreMatched(r, p) => r = q
      /\ \A r \in Players : AreMatched(q, r) \/ AreMatched(r, q) => r = p
  BY MatchedOnce
<1>3. Opponent(p) = q /\ Opponent(q) = p
  BY <1>1, <1>2 DEF Opponent
<1> QED
  BY <1>1, <1>2, <1>3 DEF IsMatched

\* The same, for a player on either side.
LEMMA OpponentOfMatched ==
    ASSUME JoinedOnce, NEW p, IsMatched(p)
    PROVE  /\ p \in Players
           /\ Opponent(p) \in Players /\ Opponent(p) # p
           /\ IsMatched(Opponent(p))
           /\ Opponent(Opponent(p)) = p
<1>1. PICK q \in Players : AreMatched(p, q) \/ AreMatched(q, p)
  BY DEF IsMatched
<1> QED
  BY <1>1, OpponentsOfMatch

\* Both players of a match are matched, and kept in its session.
LEMMA BothOfMatch ==
    ASSUME JoinedOnce, NEW s \in Sessions, NEW m \in MatchesOf(s), NEW p \in BothOf(m)
    PROVE  /\ IsMatched(p) /\ p \in Players
           /\ BothOf(m) = {p, Opponent(p)}
           /\ p \in ToSet(Kept(s))
<1>1. PICK i \in 1..(Len(joined[s]) \div 2) : m = Kept(s)[2*i - 1]
  BY DEF MatchesOf
<1> DEFINE q == Kept(s)[2*i]
<1>2. AreMatched(m, q)
  BY <1>1 DEF AreMatched
<1>3. Opponent(m) = q /\ Opponent(q) = m /\ IsMatched(m) /\ IsMatched(q)
      /\ m \in Players /\ q \in Players
  BY <1>2, OpponentsOfMatch
<1>4. m \in ToSet(Kept(s)) /\ q \in ToSet(Kept(s))
  <2> DEFINE half == Len(joined[s]) \div 2
  <2>1. half \in Nat /\ Len(Kept(s)) = 2 * half /\ Kept(s) \in Seq(Players)
    BY KeptOnes
  <2>2. i \in 1..half
    OBVIOUS
  <2> HIDE DEF half
  <2>3. 2*i - 1 \in DOMAIN Kept(s) /\ 2*i \in DOMAIN Kept(s)
    BY <2>1, <2>2
  <2> QED
    BY <1>1, <2>3 DEF ToSet
<1> QED
  BY <1>3, <1>4 DEF BothOf

\* Who is kept is matched.
LEMMA KeptIsMatched ==
    ASSUME JoinedOnce, NEW s \in Sessions, NEW p \in ToSet(Kept(s))
    PROVE  \E m \in MatchesOf(s) : p \in BothOf(m)
<1> DEFINE half == Len(joined[s]) \div 2
<1>1. half \in Nat /\ Len(Kept(s)) = 2 * half /\ Kept(s) \in Seq(Players)
  BY KeptOnes
<1>2. PICK j \in 1..(2 * half) : p = Kept(s)[j]
  <2> HIDE DEF half
  <2>1. PICK k \in DOMAIN Kept(s) : p = Kept(s)[k]
    BY DEF ToSet
  <2>2. k \in 1..(2 * half)
    BY <1>1
  <2> QED
    BY <2>1, <2>2
<1>3. \E i \in 1..half : j = 2*i - 1 \/ j = 2*i
  <2> HIDE DEF half
  <2>1. (j + 1) \div 2 \in 1..half
    BY <1>1
  <2>2. j = 2 * ((j + 1) \div 2) - 1 \/ j = 2 * ((j + 1) \div 2)
    BY <1>1
  <2> QED
    BY <2>1, <2>2
<1>4. PICK i \in 1..half : p = Kept(s)[2*i - 1] \/ p = Kept(s)[2*i]
  BY <1>2, <1>3
<1> DEFINE m == Kept(s)[2*i - 1]
<1>5. m \in MatchesOf(s) /\ AreMatched(m, Kept(s)[2*i])
  BY DEF MatchesOf, AreMatched
<1>6. Opponent(m) = Kept(s)[2*i]
  BY <1>5, OpponentsOfMatch
<1>7. p \in BothOf(m)
  BY <1>4, <1>6 DEF BothOf
<1> HIDE DEF m
<1> QED
  BY <1>5, <1>7

\* The session of a player is the one he joined.
LEMMA SessionOfJoined ==
    ASSUME JoinedOnce, NEW s \in Sessions, NEW p \in ToSet(joined[s])
    PROVE  SessionOf(p) = s
<1>1. \A t \in Sessions : p \in ToSet(joined[t]) => t = s
  BY DEF JoinedOnce
<1> QED
  BY <1>1 DEF SessionOf

-------------------------------------------------------------------------------
(***************************************************************************)
(* Notifications.                                                          *)
(***************************************************************************)

Statuses == {"None", "Waiting", "Joinable", "Preparing", "InProgress", "Closed"}

Early == {"None", "Waiting", "Joinable"}

Scopes == {"Public", "Runner", "Admin"}

Abouts == Sessions \cup Players \cup {"none"} \cup (Sessions \X Scopes)

Shows == Statuses \cup EntryOutcome \cup (Players \X EntryOutcome)

\* A notification, with the results of players in the types that tell them.
Notes ==
    {n \in [type : NotificationTypes, to : Recipients, about : Abouts, shows : SUBSET Shows] :
        /\ n.type = "MatchEnd" => n.to \in Players /\ n.shows \subseteq EntryOutcome
        /\ n.type = "Recap" => /\ n.shows \subseteq Players \X EntryOutcome
                               /\ n.about[2] = "Runner" => n.to \in Players}

\* One that ends no match, and may be read by whom it is for.
Plain == {n \in Notes : n.type # "MatchEnd" /\ IsDue(n)}

\* What the sends of a transaction will add to what was announced.
Said(sends) ==
    {Announcement(n) : n \in {m \in ToSet(sends) : m.type \in {"StatusUpdate", "OddKick", "Empty"}}}

NoneTo(p, notes) == \A i \in DOMAIN notes : ~EndsMatchOf(notes[i], p)

\* The last of the notifications that tell p of his match tells him w.
Says(p, notes, w) ==
    \E i \in DOMAIN notes :
        /\ EndsMatchOf(notes[i], p) /\ notes[i].shows = w
        /\ \A j \in DOMAIN notes : j > i => ~EndsMatchOf(notes[j], p)

\* The last the bot did for p was to tell him w, or to give up telling him.
LastTold(p, w) == told[p] = w \/ p \in lost

\* So do those that are in flight, or the last he was told if there is none.
Heard(p, w) == Says(p, InFlight, w) \/ (NoneTo(p, InFlight) /\ LastTold(p, w))

\* And this is what he hears once these are sent.
Hears(p, sends, w) == Says(p, sends, w) \/ (NoneTo(p, sends) /\ Heard(p, w))

\* A notification that goes to the end of a sequence is the last word, or does
\* not change it.
LEMMA AfterAppend ==
    ASSUME NEW notes \in Seq(Notes), NEW n \in Notes, NEW p, NEW w
    PROVE  /\ ~EndsMatchOf(n, p) =>
                 /\ Says(p, notes, w) => Says(p, Append(notes, n), w)
                 /\ NoneTo(p, notes) => NoneTo(p, Append(notes, n))
           /\ EndsMatchOf(n, p) /\ n.shows = w => Says(p, Append(notes, n), w)
<1> DEFINE more == Append(notes, n)
<1>1. /\ Len(notes) \in Nat
      /\ DOMAIN notes = 1..Len(notes)
      /\ DOMAIN more = 1..(Len(notes) + 1)
      /\ more[Len(notes) + 1] = n
      /\ \A i \in 1..Len(notes) : more[i] = notes[i]
  OBVIOUS
<1> HIDE DEF more
<1>2. ASSUME ~EndsMatchOf(n, p), Says(p, notes, w) PROVE Says(p, more, w)
  <2>1. PICK i \in DOMAIN notes : /\ EndsMatchOf(notes[i], p) /\ notes[i].shows = w
                                  /\ \A j \in DOMAIN notes : j > i => ~EndsMatchOf(notes[j], p)
    BY <1>2 DEF Says
  <2>2. i \in DOMAIN more /\ more[i] = notes[i]
    BY <1>1
  <2>3. \A j \in DOMAIN more : j > i => ~EndsMatchOf(more[j], p)
    BY <1>1, <1>2, <2>1
  <2> QED
    BY <2>1, <2>2, <2>3 DEF Says
<1>3. ASSUME ~EndsMatchOf(n, p), NoneTo(p, notes) PROVE NoneTo(p, more)
  BY <1>1, <1>3 DEF NoneTo
<1>4. ASSUME EndsMatchOf(n, p), n.shows = w PROVE Says(p, more, w)
  <2> DEFINE i == Len(notes) + 1
  <2>1. i \in DOMAIN more /\ more[i] = n /\ \A j \in DOMAIN more : ~(j > i)
    BY <1>1
  <2> HIDE DEF i
  <2> QED
    BY <1>4, <2>1 DEF Says
<1> QED
  BY <1>2, <1>3, <1>4 DEF more

\* What the head of a sequence and the rest of it say.
LEMMA BeforeTail ==
    ASSUME NEW notes \in Seq(Notes), notes # <<>>, NEW p, NEW w
    PROVE  /\ Tail(notes) \in Seq(Notes) /\ Head(notes) \in Notes
           /\ Says(p, notes, w) =>
                 \/ Says(p, Tail(notes), w)
                 \/ /\ EndsMatchOf(Head(notes), p) /\ Head(notes).shows = w
                    /\ NoneTo(p, Tail(notes))
           /\ NoneTo(p, notes) => NoneTo(p, Tail(notes)) /\ ~EndsMatchOf(Head(notes), p)
<1> DEFINE rest == Tail(notes)
           n == Head(notes)
<1>1. /\ Len(notes) \in Nat \ {0}
      /\ DOMAIN notes = 1..Len(notes)
      /\ rest \in Seq(Notes) /\ n \in Notes
      /\ DOMAIN rest = 1..(Len(notes) - 1)
      /\ n = notes[1]
      /\ \A i \in 1..(Len(notes) - 1) : rest[i] = notes[i + 1]
  OBVIOUS
<1> HIDE DEF rest, n
<1>2. \A j \in DOMAIN notes : j > 1 => j - 1 \in DOMAIN rest /\ rest[j - 1] = notes[j]
  BY <1>1
<1>3. \A j \in DOMAIN rest : j + 1 \in DOMAIN notes /\ rest[j] = notes[j + 1] /\ j + 1 > 1
  BY <1>1
<1>4. ASSUME Says(p, notes, w)
      PROVE  Says(p, rest, w) \/ (EndsMatchOf(n, p) /\ n.shows = w /\ NoneTo(p, rest))
  <2>1. PICK i \in DOMAIN notes : /\ EndsMatchOf(notes[i], p) /\ notes[i].shows = w
                                  /\ \A j \in DOMAIN notes : j > i => ~EndsMatchOf(notes[j], p)
    BY <1>4 DEF Says
  <2>2. CASE i = 1
    <3>1. NoneTo(p, rest)
      BY <1>3, <2>1, <2>2 DEF NoneTo
    <3> QED
      BY <1>1, <2>1, <2>2, <3>1
  <2>3. CASE i # 1
    <3>1. i - 1 \in DOMAIN rest /\ rest[i - 1] = notes[i]
      BY <1>1, <1>2, <2>3
    <3>2. ASSUME NEW j \in DOMAIN rest, j > i - 1 PROVE ~EndsMatchOf(rest[j], p)
      <4>1. j + 1 > i
        BY <1>1, <3>2
      <4> QED
        BY <1>3, <2>1, <4>1
    <3> QED
      BY <2>1, <3>1, <3>2 DEF Says
  <2> QED
    BY <2>2, <2>3
<1>5. ASSUME NoneTo(p, notes) PROVE NoneTo(p, rest) /\ ~EndsMatchOf(n, p)
  BY <1>1, <1>3, <1>5 DEF NoneTo
<1> QED
  BY <1>1, <1>4, <1>5 DEF rest, n

\* What is heard of what is in flight is the last word.
LEMMA LastWordIsHeard ==
    ASSUME InFlight \in Seq(Notes), NEW p, NEW w, Heard(p, w)
    PROVE  LastWord(p) = w \/ (EndingsTo(p) = {} /\ p \in lost)
<1> DEFINE E == EndingsTo(p)
<1>1. CASE NoneTo(p, InFlight) /\ LastTold(p, w)
  <2>1. E = {}
    BY <1>1 DEF NoneTo, EndingsTo
  <2> QED
    BY <1>1, <2>1 DEF LastWord, LastTold
<1>2. CASE Says(p, InFlight, w)
  <2>1. PICK i \in DOMAIN InFlight :
            /\ EndsMatchOf(InFlight[i], p) /\ InFlight[i].shows = w
            /\ \A j \in DOMAIN InFlight : j > i => ~EndsMatchOf(InFlight[j], p)
    BY <1>2 DEF Says
  <2>2. i \in E /\ E \subseteq Int /\ \A j \in E : i >= j
    BY <2>1 DEF EndingsTo
  <2> HIDE DEF E
  <2>3. \A x \in E : (\A y \in E : x >= y) => x = i
    BY <2>2
  <2>4. Max(E) = i
    BY <2>2, <2>3, Zenon DEF Max
  <2> QED
    BY <2>1, <2>2, <2>4 DEF LastWord, E
<1> QED
  BY <1>1, <1>2 DEF Heard

\* A loop over a finite set of sessions sends what it says of each of them.
LEMMA EachOfCollects ==
    ASSUME NEW T, NEW S, IsFiniteSet(S), NEW says \in [S -> Seq(T)]
    PROVE  /\ EachOf(says) \in Seq(T)
           /\ \A s \in S : ToSet(says[s]) \subseteq ToSet(EachOf(says))
<1> DEFINE order == SetToSeq(S)
           seqs == [i \in 1..Len(order) |-> says[order[i]]]
<1>1. EachOf(says) = FlattenSeq(seqs)
  <2>1. DOMAIN says = S
    OBVIOUS
  <2> QED
    BY <2>1, Zenon DEF EachOf
<1>2. order \in Seq(S) /\ \A s \in S : \E i \in 1..Len(order) : order[i] = s
  BY SetToSeqCovers
<1> HIDE DEF order
<1>3. seqs \in Seq(Seq(T)) /\ Len(seqs) = Len(order)
  <2>1. Len(order) \in Nat /\ \A i \in 1..Len(order) : order[i] \in S
    BY <1>2
  <2>2. \A i \in 1..Len(order) : says[order[i]] \in Seq(T)
    BY <2>1
  <2> DEFINE n == Len(order)
             W == Seq(T)
  <2>3. seqs \in [1..n -> W] /\ n \in Nat
    BY <2>1, <2>2, Zenon
  <2> HIDE DEF seqs, n, W
  <2>4. seqs \in Seq(W) /\ Len(seqs) = n
    BY <2>3
  <2> QED
    BY <2>4 DEF n, W
<1>4. /\ FlattenSeq(seqs) \in Seq(T)
      /\ \A j \in 1..Len(seqs) : ToSet(seqs[j]) \subseteq ToSet(FlattenSeq(seqs))
  <2> HIDE DEF seqs
  <2> QED
    BY <1>3, FlattenSeqCollects
<1>5. ASSUME NEW s \in S PROVE ToSet(says[s]) \subseteq ToSet(FlattenSeq(seqs))
  <2>1. PICK i \in 1..Len(order) : order[i] = s
    BY <1>2
  <2>2. i \in 1..Len(seqs) /\ seqs[i] = says[s]
    BY <1>3, <2>1
  <2> HIDE DEF seqs
  <2> QED
    BY <1>4, <2>2
<1> QED
  BY <1>1, <1>4, <1>5

\* The notifications of a loop that sends plain ones.
LEMMA PlainSends ==
    ASSUME NEW sends \in Seq(Plain)
    PROVE  /\ sends \in Seq(Notes)
           /\ \A p : NoneTo(p, sends)
           /\ \A i \in DOMAIN sends : IsDue(sends[i])
<1>1. \A i \in DOMAIN sends : sends[i] \in Plain
  OBVIOUS
<1>2. sends \in Seq(Notes)
  <2>1. /\ Len(sends) \in Nat /\ DOMAIN sends = 1..Len(sends)
        /\ sends = [i \in 1..Len(sends) |-> sends[i]]
    OBVIOUS
  <2>2. \A i \in 1..Len(sends) : sends[i] \in Notes
    BY <1>1, <2>1 DEF Plain
  <2> QED
    BY <2>1, <2>2
<1> QED
  BY <1>1, <1>2 DEF Plain, NoneTo, EndsMatchOf

-------------------------------------------------------------------------------
(***************************************************************************)
(* The matches do not change, and neither do their players.                *)
(***************************************************************************)

\* As long as who has joined does not change.
LEMMA MatchesStay ==
    ASSUME joined' = joined
    PROVE  /\ \A s : Kept(s)' = Kept(s)
           /\ \A p : IsMatched(p)' <=> IsMatched(p)
           /\ \A p : Opponent(p)' = Opponent(p)
<1>1. \A s : Kept(s)' = Kept(s)
  BY DEF Kept
<1>2. \A f, q : AreMatched(f, q)' <=> AreMatched(f, q)
  BY DEF AreMatched, Kept
<1>3. \A p : IsMatched(p)' <=> IsMatched(p)
  BY <1>2 DEF IsMatched
<1>4. \A p : Opponent(p)' = Opponent(p)
  BY <1>2, Zenon DEF Opponent
<1> QED
  BY <1>1, <1>3, <1>4

-------------------------------------------------------------------------------
(***************************************************************************)
(* The invariant.  A transaction that holds the database must be as right  *)
(* as what is committed: the tables it will write agree with what has been *)
(* announced and heard once the notifications it still has to send are;    *)
(* and since it may fail instead, those it has sent must not belie the     *)
(* tables that stay.  Tables and transactions are given names (st, pd, en, *)
(* t), which a step does not change.                                       *)
(***************************************************************************)

Actors ==
    {Daemon} \cup {Counting(s) : s \in Sessions} \cup {GoingLive(s) : s \in Sessions}
        \cup {Commanding(p) : p \in Players}

Txs ==
    [by : Actors, sends : Seq(Notes), status : [Sessions -> Statuses],
     paired : SUBSET Sessions, entry : [Players -> Entries]]

\* p and his opponent have ended, by these entries.
IsOver(p, en) == IsMatched(p) /\ HasEnded(en[p]) /\ HasEnded(en[Opponent(p)])

\* The tables have rows of entries for the matches of sessions that are past
\* their preparation.
Tables(st, pd, en) ==
    /\ st \in [Sessions -> Statuses]
    /\ pd \in SUBSET Sessions
    /\ en \in [Players -> Entries]
    /\ \A s \in pd : st[s] \notin Early
    /\ \A p \in Players : en[p] # NoEntry => \E s \in pd : p \in ToSet(Kept(s))

\* Players hear the outcome of the matches that are over by these entries.
OutcomesHeard(sends, en) ==
    \A p \in Players : IsOver(p, en) => Hears(p, sends, {en[p].outcome})

\* These tables are as they must be once these notifications are sent.
Sound(sends, st, pd, en) ==
    /\ Tables(st, pd, en)
    /\ AreAnnounced(st, pd, announced \cup Said(sends))
    /\ OutcomesHeard(sends, en)

\* They may be written over those that are committed, and these notifications be
\* sent before they are.
Follows(sends, st, en) ==
    /\ sends \in Seq(Notes)
    /\ \A s \in Sessions : status[s] \notin Early => st[s] \notin Early
    /\ \A p \in Players : HasEnded(entry[p]) => HasEnded(en[p])
    /\ \A p \in Players : IsOver(p, entry) => en[p] = entry[p] /\ NoneTo(p, sends)
    /\ \A i \in DOMAIN sends : IsDue(sends[i])

InFlightAreNotes ==
    /\ queue \in Seq(Notes)
    /\ sending \in Notes \cup {NoNotification}

NowAndToldType ==
    /\ now \in Nat
    /\ told \in [Players -> SUBSET EntryOutcome]
    /\ lost \in SUBSET Players

Committed ==
    \A st, pd, en : st = status /\ pd = paired /\ en = entry => Sound(<<>>, st, pd, en)

Held ==
    \A t : t = tx /\ t.by # Nobody =>
        /\ t \in Txs
        /\ Sound(t.sends, t.status, t.paired, t.entry)
        /\ Follows(t.sends, t.status, t.entry)

\* Sessions that were prepared have no matches yet, and will not have any before
\* the daemon makes them.
PreparedHaveNoMatch ==
    /\ prepared \in SUBSET Sessions
    /\ \A s \in prepared :
          /\ s \notin paired
          /\ tx.by # Nobody => s \notin tx.paired
          /\ status[s] \notin Early \/ (tx.by = Daemon /\ tx.status[s] \notin Early)

\* The player of a command that has ended his race has ended it, or will have.
CommandsHaveEnded ==
    \A p \in Players : command[p] = "ended" =>
        HasEnded(entry[p]) \/ (tx.by = Commanding(p) /\ HasEnded(tx.entry[p]))

IInv ==
    /\ JoinedOnce
    /\ InFlightAreNotes
    /\ NowAndToldType
    /\ IsFree => tx = NoTx
    /\ Committed
    /\ Held
    /\ RecapsAreDue
    /\ PreparedHaveNoMatch
    /\ CommandsHaveEnded

\* What is in flight is a sequence of notifications.
LEMMA InFlightType ==
    ASSUME InFlightAreNotes
    PROVE  InFlight \in Seq(Notes)
  BY DEF InFlightAreNotes, InFlight

\* More may be said: what was announced stays so, as time passes.
LEMMA StaysAnnounced ==
    ASSUME joined' = joined, \A s \in Sessions : Left(s)' >= 0 => Left(s) >= 0,
           NEW st, NEW pd, NEW said, NEW more, said \subseteq more,
           AreAnnounced(st, pd, said)
    PROVE  AreAnnounced(st, pd, more)'
<1> SUFFICES ASSUME NEW s \in Sessions
             PROVE  /\ st[s] \in {"Waiting", "Joinable", "Preparing"} =>
                          <<"StatusUpdate", s, Channel[s], {st[s]}>> \in more
                    /\ s \in pd =>
                          \A p \in (ToSet(joined[s]) \ ToSet(Kept(s)))' :
                              <<"OddKick", s, p, {}>> \in more
                    /\ st[s] = "Closed" /\ Left(s)' >= 0 =>
                          \A r \in ({Channel[s]} \cup ToSet(joined[s]))' :
                              <<"Empty", s, r, {}>> \in more
  BY DEF AreAnnounced
<1>1. /\ (ToSet(joined[s]) \ ToSet(Kept(s)))' = ToSet(joined[s]) \ ToSet(Kept(s))
      /\ ({Channel[s]} \cup ToSet(joined[s]))' = {Channel[s]} \cup ToSet(joined[s])
  BY MatchesStay DEF ToSet
<1> QED
  BY <1>1 DEF AreAnnounced

\* What a step that tells players no less does to tables that are right.
LEMMA StaysSound ==
    ASSUME joined' = joined, \A s \in Sessions : Left(s)' >= 0 => Left(s) >= 0,
           NEW sends, NEW later, NEW st, NEW pd, NEW en, Sound(sends, st, pd, en),
           announced \cup Said(sends) \subseteq announced' \cup Said(later),
           \A p \in Players : \A w :
               IsOver(p, en) /\ Hears(p, sends, w) => Hears(p, later, w)'
    PROVE  Sound(later, st, pd, en)'
<1>1. Tables(st, pd, en)'
  BY MatchesStay DEF Sound, Tables
<1>2. AreAnnounced(st, pd, announced \cup Said(later))'
  <2>1. PICK said : said = announced \cup Said(sends)
    OBVIOUS
  <2>2. PICK more : more = announced' \cup Said(later)
    OBVIOUS
  <2>3. AreAnnounced(st, pd, said)
    BY <2>1 DEF Sound
  <2>4. AreAnnounced(st, pd, more)'
    BY <2>1, <2>2, <2>3, StaysAnnounced
  <2> QED
    BY <2>2, <2>4 DEF AreAnnounced, Said
<1>3. OutcomesHeard(later, en)'
  <2> SUFFICES ASSUME NEW p \in Players, IsOver(p, en)'
               PROVE  Hears(p, later, {en[p].outcome})'
    BY DEF OutcomesHeard
  <2>1. IsOver(p, en)
    BY MatchesStay DEF IsOver
  <2>2. Hears(p, sends, {en[p].outcome})
    BY <2>1 DEF Sound, OutcomesHeard
  <2> QED
    BY <2>1, <2>2
<1> QED
  BY <1>1, <1>2, <1>3 DEF Sound

\* What may be written over the tables depends on nothing else.
LEMMA StaysFollowing ==
    ASSUME joined' = joined, status' = status, entry' = entry,
           NEW sends, NEW st, NEW en, Follows(sends, st, en)
    PROVE  Follows(sends, st, en)'
<1>1. \A p : IsOver(p, entry)' <=> IsOver(p, entry)
  BY MatchesStay DEF IsOver
<1>2. \A n : IsDue(n)' <=> IsDue(n)
  BY MatchesStay DEF IsDue
<1> QED
  BY <1>1, <1>2 DEF Follows

-------------------------------------------------------------------------------
(***************************************************************************)
(* Steps that send, take or fail, and leave the tables as they are.        *)
(***************************************************************************)

\* A notification that is put in the channel goes after those in flight.
LEMMA PutGoesLast ==
    ASSUME InFlightAreNotes, NEW n \in Notes, queue' = Append(queue, n), sending' = sending
    PROVE  InFlightAreNotes' /\ InFlight' = Append(InFlight, n)
<1>1. queue \in Seq(Notes) /\ queue' \in Seq(Notes)
  BY DEF InFlightAreNotes
<1>2. InFlight' = Append(InFlight, n)
  <2>1. CASE sending = NoNotification
    BY <1>1, <2>1 DEF InFlight
  <2>2. CASE sending # NoNotification
    <3>1. sending \in Notes
      BY <2>2 DEF InFlightAreNotes
    <3>2. <<sending>> \o Append(queue, n) = Append(<<sending>> \o queue, n)
      <4> DEFINE a == <<sending>> \o Append(queue, n)
                 b == Append(<<sending>> \o queue, n)
      <4>1. a \in Seq(Notes) /\ b \in Seq(Notes) /\ Len(a) = Len(queue) + 2 /\ Len(b) = Len(a)
        BY <1>1, <3>1
      <4>2. \A i \in 1..Len(a) : a[i] = b[i]
        BY <1>1, <3>1
      <4> HIDE DEF a, b
      <4>3. a = b
        BY <4>1, <4>2
      <4> QED
        BY <4>3 DEF a, b
    <3> QED
      BY <2>2, <3>2 DEF InFlight
  <2> QED
    BY <2>1, <2>2
<1> QED
  BY <1>1, <1>2 DEF InFlightAreNotes

\* What is due remains due as long as the entries remain.
LEMMA StaysDue ==
    ASSUME joined' = joined, entry' = entry
    PROVE  \A n : IsDue(n)' <=> IsDue(n)
  BY MatchesStay DEF IsDue

\* Nobody hears less after a notification that does not tell him of his match.
LEMMA HeardAfterPut ==
    ASSUME InFlightAreNotes, NEW n \in Notes, queue' = Append(queue, n), sending' = sending,
           told' = told, lost' = lost, NEW p, ~EndsMatchOf(n, p), NEW w, Heard(p, w)
    PROVE  Heard(p, w)'
<1>1. InFlight \in Seq(Notes) /\ InFlight' = Append(InFlight, n)
  BY InFlightType, PutGoesLast
<1>2. PICK flight : flight = InFlight
  OBVIOUS
<1>3. /\ Says(p, flight, w) => Says(p, Append(flight, n), w)
      /\ NoneTo(p, flight) => NoneTo(p, Append(flight, n))
  BY <1>1, <1>2, AfterAppend
<1>4. /\ Says(p, flight, w) <=> Says(p, InFlight, w)
      /\ NoneTo(p, flight) <=> NoneTo(p, InFlight)
  BY <1>2
<1>5. InFlight' = Append(flight, n)
  BY <1>1, <1>2
<1>6. /\ Says(p, Append(flight, n), w) => Says(p, InFlight, w)'
      /\ NoneTo(p, Append(flight, n)) => NoneTo(p, InFlight)'
  BY <1>5 DEF Says, NoneTo
<1> QED
  BY <1>3, <1>4, <1>6 DEF Heard, LastTold

\* Due notifications, and one more, are due.
LEMMA DueAfterPut ==
    ASSUME InFlightAreNotes, RecapsAreDue, joined' = joined, entry' = entry,
           NEW n \in Notes, IsDue(n), queue' = Append(queue, n), sending' = sending
    PROVE  RecapsAreDue'
<1>1. InFlight \in Seq(Notes) /\ InFlight' = Append(InFlight, n)
  BY InFlightType, PutGoesLast
<1>2. \A m \in ToSet(Append(InFlight, n)) : m = n \/ m \in ToSet(InFlight)
  <2>1. PICK flight \in Seq(Notes) : flight = InFlight
    BY <1>1
  <2>2. \A m \in ToSet(Append(flight, n)) : m = n \/ m \in ToSet(flight)
    BY DEF ToSet
  <2> QED
    BY <2>1, <2>2
<1>3. ToSet(InFlight)' = ToSet(Append(InFlight, n))
  BY <1>1, Zenon DEF ToSet
<1> QED
  BY <1>2, <1>3, StaysDue DEF RecapsAreDue

\* What the steps that write no table must show.
LEMMA TablesStay ==
    ASSUME Committed, Held, joined' = joined, UNCHANGED <<status, paired, entry, tx>>,
           \A sends, st, pd, en : Sound(sends, st, pd, en) => Sound(sends, st, pd, en)'
    PROVE  Committed' /\ Held'
<1>1. Committed'
  BY DEF Committed
<1>2. ASSUME NEW t, t = tx', t.by # Nobody
      PROVE  /\ t \in Txs
             /\ Sound(t.sends, t.status, t.paired, t.entry)'
             /\ Follows(t.sends, t.status, t.entry)'
  <2>1. /\ t \in Txs
        /\ Sound(t.sends, t.status, t.paired, t.entry)
        /\ Follows(t.sends, t.status, t.entry)
    BY <1>2 DEF Held
  <2> QED
    BY <2>1, StaysFollowing
<1>3. Held'
  BY <1>2 DEF Held, Txs, Notes, Actors
<1> QED
  BY <1>1, <1>3

\* So do the sessions that are prepared and the commands.
LEMMA RestStays ==
    ASSUME PreparedHaveNoMatch, CommandsHaveEnded,
           UNCHANGED <<status, paired, entry, tx, prepared>>,
           \A p \in Players : command'[p] = "ended" => command[p] = "ended"
    PROVE  PreparedHaveNoMatch' /\ CommandsHaveEnded'
  BY DEF PreparedHaveNoMatch, CommandsHaveEnded, Daemon, Commanding

\* A notification that is sent out of a transaction tells of no match that ends.
LEMMA PutKeepsInvariant ==
    ASSUME IInv, NEW n \in Plain, Put(n),
           UNCHANGED <<now, tableVars, tx, prepared, sending, told, lost>>,
           \A p \in Players : command'[p] = "ended" => command[p] = "ended"
    PROVE  IInv'
<1> USE DEF tableVars
<1>1. n \in Notes /\ IsDue(n) /\ \A p : ~EndsMatchOf(n, p)
  BY DEF Plain, EndsMatchOf
<1>2. queue' = Append(queue, n) /\ announced \subseteq announced'
  BY DEF Put
<1>3. InFlightAreNotes' /\ RecapsAreDue'
  BY <1>1, <1>2, PutGoesLast, DueAfterPut DEF IInv
<1>4. ASSUME NEW sends, NEW st, NEW pd, NEW en, Sound(sends, st, pd, en)
      PROVE  Sound(sends, st, pd, en)'
  <2>1. \A p \in Players : \A w : Heard(p, w) => Heard(p, w)'
    BY <1>1, <1>2, HeardAfterPut DEF IInv
  <2>2. \A p \in Players : \A w :
            IsOver(p, en) /\ Hears(p, sends, w) => Hears(p, sends, w)'
    BY <2>1 DEF Hears, Says, NoneTo
  <2>3. \A s \in Sessions : Left(s)' >= 0 => Left(s) >= 0
    BY DEF Left
  <2> QED
    BY <1>2, <1>4, <2>2, <2>3, StaysSound
<1>5. Committed' /\ Held'
  BY <1>4, TablesStay DEF IInv
<1>6. PreparedHaveNoMatch' /\ CommandsHaveEnded'
  BY RestStays DEF IInv
<1> QED
  BY <1>3, <1>5, <1>6 DEF IInv, JoinedOnce, IsFree, NowAndToldType

\* This notification is posted or given up.
Handled(n) ==
    \/ /\ told' = IF n.type = "MatchEnd" THEN [told EXCEPT ![n.to] = n.shows] ELSE told
       /\ lost' = IF n.type = "MatchEnd" THEN lost \ {n.to} ELSE lost
    \/ /\ told' = told
       /\ lost' = IF n.type = "MatchEnd" THEN lost \cup {n.to} ELSE lost

\* What players were told stays typed, and only the recipient of the end of a
\* match is told, or not told, anything.
LEMMA HandledTells ==
    ASSUME NowAndToldType, NEW n \in Notes, Handled(n)
    PROVE  /\ told' \in [Players -> SUBSET EntryOutcome]
           /\ lost' \in SUBSET Players
           /\ \A p \in Players : \A w :
                 IF EndsMatchOf(n, p) THEN n.shows = w => LastTold(p, w)'
                                      ELSE LastTold(p, w) => LastTold(p, w)'
<1>1. n.type = "MatchEnd" => n.to \in Players /\ n.shows \in SUBSET EntryOutcome
  BY DEF Notes
<1>2. CASE n.type # "MatchEnd"
  BY <1>2 DEF Handled, EndsMatchOf, LastTold, NowAndToldType
<1>3. CASE /\ n.type = "MatchEnd"
           /\ told' = [told EXCEPT ![n.to] = n.shows]
           /\ lost' = lost \ {n.to}
  BY <1>1, <1>3 DEF EndsMatchOf, LastTold, NowAndToldType
<1>4. CASE n.type = "MatchEnd" /\ told' = told /\ lost' = lost \cup {n.to}
  BY <1>1, <1>4 DEF EndsMatchOf, LastTold, NowAndToldType
<1> QED
  BY <1>2, <1>3, <1>4 DEF Handled

\* What a step of the bot takes is the first in flight.
LEMMA BotKeepsInvariant ==
    ASSUME IInv, BotStep
    PROVE  IInv'
<1> USE DEF BotStep, tableVars, daemonVars, raceVars
<1>1. InFlight \in Seq(Notes) /\ queue \in Seq(Notes)
  BY InFlightType DEF IInv, InFlightAreNotes
<1>2. \/ /\ InFlight' = InFlight /\ told' = told /\ lost' = lost
         /\ InFlightAreNotes'
      \/ /\ InFlight # <<>> /\ InFlight' = Tail(InFlight)
         /\ Handled(Head(InFlight))
         /\ InFlightAreNotes'
  <2>1. CASE BootBot \/ BotLeaves
    BY <2>1 DEF BootBot, BotLeaves, InFlight, IInv, InFlightAreNotes
  <2>2. CASE Take
    <3>1. /\ queue # <<>> /\ queue' = Tail(queue) /\ InFlight = queue
          /\ Head(queue) \in Notes /\ Tail(queue) \in Seq(Notes)
      BY <1>1, <2>2 DEF Take, InFlight
    <3>2. CASE Posted(Head(queue)) \/ GivenUp(Head(queue))
      <4>1. sending' = NoNotification
        BY <3>2 DEF Posted, GivenUp
      <4>2. InFlight' = Tail(queue) /\ InFlightAreNotes'
        BY <3>1, <4>1 DEF InFlight, InFlightAreNotes
      <4>3. Handled(Head(queue))
        BY <3>2 DEF Posted, GivenUp, Handled
      <4> QED
        BY <3>1, <4>2, <4>3
    <3>3. CASE AttemptFails(Head(queue)) /\ ~GivenUp(Head(queue))
      <4>1. sending' = Head(queue) /\ told' = told /\ lost' = lost
        BY <3>3 DEF AttemptFails
      <4>2. Head(queue) # NoNotification
        BY <3>1 DEF Notes, NoNotification, NotificationTypes
      <4>3. queue = <<Head(queue)>> \o Tail(queue)
        BY <1>1, <3>1
      <4> QED
        BY <3>1, <4>1, <4>2, <4>3 DEF InFlight, InFlightAreNotes
    <3> QED
      BY <2>2, <3>2, <3>3 DEF Take
  <2>3. CASE Retry
    <3>1. /\ sending \in Notes /\ queue' = queue /\ InFlight = <<sending>> \o queue
          /\ sending # NoNotification
      BY <2>3 DEF Retry, InFlight, IInv, InFlightAreNotes
    <3>2. InFlight # <<>> /\ Head(InFlight) = sending /\ Tail(InFlight) = queue
      BY <1>1, <3>1
    <3>3. CASE Posted(sending) \/ GivenUp(sending)
      <4>1. sending' = NoNotification
        BY <3>3 DEF Posted, GivenUp
      <4>2. InFlight' = queue /\ InFlightAreNotes'
        BY <1>1, <3>1, <4>1 DEF InFlight, InFlightAreNotes
      <4>3. Handled(sending)
        BY <3>3 DEF Posted, GivenUp, Handled
      <4> QED
        BY <3>1, <3>2, <4>2, <4>3
    <3>4. CASE AttemptFails(sending) /\ ~GivenUp(sending)
      BY <1>1, <3>1, <3>4 DEF AttemptFails, InFlight, InFlightAreNotes
    <3> QED
      BY <2>3, <3>3, <3>4 DEF Retry
  <2> QED
    BY <2>1, <2>2, <2>3
<1>3. ASSUME NEW p \in Players, NEW w, Heard(p, w) PROVE Heard(p, w)'
  <2>1. CASE InFlight' = InFlight /\ told' = told /\ lost' = lost
    BY <1>3, <2>1 DEF Heard, LastTold, Says, NoneTo
  <2>2. CASE ~(InFlight' = InFlight /\ told' = told /\ lost' = lost)
    <3>1. PICK flight \in Seq(Notes) : flight = InFlight
      BY <1>1
    <3>2. flight # <<>> /\ InFlight' = Tail(flight)
      BY <1>2, <2>2, <3>1
    <3>3. Heard(p, w) <=> Says(p, flight, w) \/ (NoneTo(p, flight) /\ LastTold(p, w))
      BY <3>1 DEF Heard
    <3>4. Heard(p, w)' <=> \/ Says(p, Tail(flight), w)
                           \/ NoneTo(p, Tail(flight)) /\ LastTold(p, w)'
      BY <3>2 DEF Heard, LastTold, Says, NoneTo
    <3>5. IF EndsMatchOf(Head(flight), p) THEN Head(flight).shows = w => LastTold(p, w)'
                                          ELSE LastTold(p, w) => LastTold(p, w)'
      <4>1. Handled(Head(flight))
        BY <1>2, <2>2, <3>1
      <4>2. Head(flight) \in Notes
        BY <3>2
      <4> QED
        BY <4>1, <4>2, HandledTells DEF IInv
    <3> QED
      BY <1>3, <3>2, <3>3, <3>4, <3>5, BeforeTail
  <2> QED
    BY <2>1, <2>2
<1>4. NowAndToldType'
  <2>1. InFlight # <<>> => Head(InFlight) \in Notes
    BY <1>1
  <2>2. \/ told' = told /\ lost' = lost
        \/ InFlight # <<>> /\ Handled(Head(InFlight))
    BY <1>2
  <2>3. now' = now
    OBVIOUS
  <2> QED
    BY <2>1, <2>2, <2>3, HandledTells DEF IInv, NowAndToldType
<1>5. RecapsAreDue'
  <2>1. PICK flight \in Seq(Notes) : flight = InFlight
    BY <1>1
  <2>2. flight # <<>> => ToSet(Tail(flight)) \subseteq ToSet(flight)
    BY DEF ToSet
  <2>3. \/ InFlight' = flight
        \/ flight # <<>> /\ InFlight' = Tail(flight)
    BY <1>2, <2>1
  <2>4. ToSet(InFlight)' \subseteq ToSet(InFlight)
    <3>1. ToSet(InFlight) = ToSet(flight)
      BY <2>1
    <3>2. ToSet(InFlight)' = ToSet(flight) \/ (flight # <<>> /\ ToSet(InFlight)' = ToSet(Tail(flight)))
      BY <2>3, Zenon DEF ToSet
    <3> QED
      BY <2>2, <3>1, <3>2
  <2> QED
    BY <2>4, StaysDue DEF IInv, RecapsAreDue
<1>6. ASSUME NEW sends, NEW st, NEW pd, NEW en, Sound(sends, st, pd, en)
      PROVE  Sound(sends, st, pd, en)'
  <2>1. \A p \in Players : \A w :
            IsOver(p, en) /\ Hears(p, sends, w) => Hears(p, sends, w)'
    BY <1>3 DEF Hears, Says, NoneTo
  <2>2. \A s \in Sessions : Left(s)' >= 0 => Left(s) >= 0
    BY DEF Left
  <2> QED
    BY <1>6, <2>1, <2>2, StaysSound
<1>7. Committed' /\ Held'
  BY <1>6, TablesStay DEF IInv
<1>8. PreparedHaveNoMatch' /\ CommandsHaveEnded'
  BY RestStays DEF IInv
<1>9. InFlightAreNotes'
  BY <1>2
<1> QED
  BY <1>4, <1>5, <1>7, <1>8, <1>9 DEF IInv, JoinedOnce, IsFree

-------------------------------------------------------------------------------
(***************************************************************************)
(* The steps of the transaction that holds the database.                   *)
(***************************************************************************)

\* The next notification leaves the transaction for the channel.
LEMMA SendMovesOn ==
    ASSUME InFlightAreNotes, joined' = joined, now' = now, sending' = sending, told' = told,
           lost' = lost, NEW sends \in Seq(Notes), sends # <<>>, Put(Head(sends)),
           NEW st, NEW pd, NEW en, Sound(sends, st, pd, en)
    PROVE  Sound(Tail(sends), st, pd, en)'
<1> DEFINE n == Head(sends)
           later == Tail(sends)
<1>1. n \in Notes /\ later \in Seq(Notes) /\ InFlight \in Seq(Notes)
  BY InFlightType
<1>2. queue' = Append(queue, n) /\ InFlight' = Append(InFlight, n)
  BY <1>1, PutGoesLast DEF Put
<1>3. announced \cup Said(sends) \subseteq announced' \cup Said(later)
  <2>1. \A m \in ToSet(sends) : m = n \/ m \in ToSet(later)
    <3>1. \A i \in DOMAIN sends : i = 1 \/ (i - 1 \in DOMAIN later /\ later[i - 1] = sends[i])
      OBVIOUS
    <3>2. sends[1] = n
      OBVIOUS
    <3> HIDE DEF n, later
    <3> QED
      BY <3>1, <3>2 DEF ToSet
  <2>2. n.type \in {"StatusUpdate", "OddKick", "Empty"} => Announcement(n) \in announced'
    BY DEF Put
  <2>3. announced \subseteq announced'
    BY DEF Put
  <2> HIDE DEF n, later
  <2> QED
    BY <2>1, <2>2, <2>3 DEF Said
<1> HIDE DEF later
<1>4. ASSUME NEW p \in Players, NEW w, Hears(p, sends, w)
      PROVE  Hears(p, later, w)'
  <2>1. /\ Says(p, later, w)' <=> Says(p, later, w)
        /\ NoneTo(p, later)' <=> NoneTo(p, later)
    BY DEF Says, NoneTo
  <2>2. /\ Says(p, sends, w) =>
              \/ Says(p, later, w)
              \/ EndsMatchOf(n, p) /\ n.shows = w /\ NoneTo(p, later)
        /\ NoneTo(p, sends) => NoneTo(p, later) /\ ~EndsMatchOf(n, p)
    BY BeforeTail DEF later
  <2>3. ASSUME EndsMatchOf(n, p), n.shows = w PROVE Heard(p, w)'
    <3>1. PICK flight \in Seq(Notes) : flight = InFlight
      BY <1>1
    <3>2. Says(p, Append(flight, n), w)
      BY <1>1, <2>3, AfterAppend
    <3>3. InFlight' = Append(flight, n)
      BY <1>2, <3>1
    <3> QED
      BY <3>2, <3>3 DEF Heard, Says
  <2>4. ASSUME ~EndsMatchOf(n, p), Heard(p, w) PROVE Heard(p, w)'
    BY <1>1, <1>2, <2>4, HeardAfterPut
  <2> QED
    BY <1>4, <2>1, <2>2, <2>3, <2>4 DEF Hears
<1>5. \A s \in Sessions : Left(s)' >= 0 => Left(s) >= 0
  BY DEF Left
<1>6. Sound(later, st, pd, en)'
  BY <1>3, <1>4, <1>5, StaysSound
<1> QED
  BY <1>6 DEF later, Sound, AreAnnounced, OutcomesHeard, Hears, Said, Says, NoneTo

\* What is sent is due, and of no match that is over.
LEMMA SendKeepsInvariant ==
    ASSUME IInv, TxSend
    PROVE  IInv'
<1> USE DEF tableVars, daemonVars, botVars
<1>1. PICK t : t = tx
  OBVIOUS
<1>2. t.by # Nobody
  BY <1>1 DEF IInv, TxSend, IsFree, NoTx
<1>3. /\ t \in Txs
      /\ Sound(t.sends, t.status, t.paired, t.entry)
      /\ Follows(t.sends, t.status, t.entry)
  BY <1>1, <1>2 DEF IInv, Held
<1> DEFINE n == Head(t.sends)
           later == Tail(t.sends)
<1>4. /\ t.sends \in Seq(Notes) /\ t.sends # <<>>
      /\ Put(n) /\ tx' = [t EXCEPT !.sends = later]
      /\ UNCHANGED <<now, joined, status, paired, entry, prepared, command, sending, told, lost>>
  BY <1>1, <1>3 DEF TxSend, Txs
<1>5. n \in Notes /\ later \in Seq(Notes) /\ queue' = Append(queue, n)
  BY <1>4 DEF Put
<1>6. IsDue(n)
  BY <1>3, <1>4 DEF Follows
<1>7. InFlightAreNotes' /\ RecapsAreDue'
  BY <1>4, <1>5, <1>6, PutGoesLast, DueAfterPut DEF IInv
<1>8. \A p : NoneTo(p, t.sends) => NoneTo(p, later) /\ ~EndsMatchOf(n, p)
  BY <1>4, BeforeTail
<1>9. Committed'
  <2> SUFFICES ASSUME NEW st, NEW pd, NEW en, st = status, pd = paired, en = entry
               PROVE  Sound(<<>>, st, pd, en)'
    BY <1>4 DEF Committed
  <2>1. Sound(<<>>, st, pd, en)
    BY DEF IInv, Committed
  <2>2. ASSUME NEW p \in Players, NEW w, IsOver(p, en), Hears(p, <<>>, w)
        PROVE  Hears(p, <<>>, w)'
    <3>1. ~EndsMatchOf(n, p)
      BY <1>3, <1>8, <2>2 DEF Follows
    <3>2. Heard(p, w)
      BY <2>2 DEF Hears, Says
    <3>3. Heard(p, w)'
      BY <1>4, <1>5, <3>1, <3>2, HeardAfterPut DEF IInv
    <3> QED
      BY <3>3 DEF Hears, NoneTo
  <2>3. announced \cup Said(<<>>) \subseteq announced' \cup Said(<<>>)
    BY <1>4 DEF Put
  <2>4. \A s \in Sessions : Left(s)' >= 0 => Left(s) >= 0
    BY <1>4 DEF Left
  <2> QED
    BY <1>4, <2>1, <2>2, <2>3, <2>4, StaysSound
<1>10. Held'
  <2> SUFFICES ASSUME NEW u, u = tx'
               PROVE  /\ u \in Txs
                      /\ Sound(u.sends, u.status, u.paired, u.entry)'
                      /\ Follows(u.sends, u.status, u.entry)'
    BY DEF Held, Txs, Notes, Actors
  <2>1. /\ u \in Txs /\ u.sends = later
        /\ u.status = t.status /\ u.paired = t.paired /\ u.entry = t.entry
    BY <1>3, <1>4, <1>5 DEF Txs
  <2>2. Sound(later, t.status, t.paired, t.entry)'
    BY <1>3, <1>4, SendMovesOn DEF IInv
  <2>3. Follows(later, t.status, t.entry)
    <3>1. \A i \in DOMAIN later : IsDue(later[i])
      <4>1. \A i \in DOMAIN later : i + 1 \in DOMAIN t.sends /\ later[i] = t.sends[i + 1]
        BY <1>4
      <4> HIDE DEF later
      <4> QED
        BY <1>3, <4>1 DEF Follows
    <3> HIDE DEF later
    <3> QED
      BY <1>3, <1>5, <1>8, <3>1 DEF Follows
  <2> HIDE DEF later
  <2>4. Follows(later, t.status, t.entry)'
    BY <1>4, <2>3, StaysFollowing
  <2>5. Sound(u.sends, u.status, u.paired, u.entry)'
    BY <2>1, <2>2
  <2>6. Follows(u.sends, u.status, u.entry)'
    BY <2>1, <2>4
  <2> QED
    BY <2>1, <2>5, <2>6
<1>11. PreparedHaveNoMatch' /\ CommandsHaveEnded'
  <2>1. tx'.by = tx.by /\ tx'.status = tx.status /\ tx'.paired = tx.paired /\ tx'.entry = tx.entry
    BY <1>1, <1>3, <1>4 DEF Txs
  <2> QED
    BY <1>4, <2>1 DEF IInv, PreparedHaveNoMatch, CommandsHaveEnded, Daemon, Commanding
<1>12. tx'.by # Nobody
  BY <1>2, <1>3, <1>4 DEF Txs
<1> QED
  BY <1>4, <1>7, <1>9, <1>10, <1>11, <1>12 DEF IInv, JoinedOnce, IsFree, NowAndToldType

\* What a step does that touches neither tables, nor the channel, nor the bot:
\* time passes, and goroutines go on.
LEMMA QuietStepKeepsInvariant ==
    ASSUME IInv, UNCHANGED <<tableVars, tx, prepared, queue, sending, told, lost, announced>>,
           now' \in {now, now + 1},
           \A p \in Players : command'[p] = "ended" => command[p] = "ended"
    PROVE  IInv'
<1> USE DEF tableVars
<1>0. \A s \in Sessions : Left(s)' >= 0 => Left(s) >= 0
  BY SessionsAssumption DEF IInv, NowAndToldType, Left
<1>1. InFlight' = InFlight
  BY DEF InFlight
<1>2. ASSUME NEW sends, NEW st, NEW pd, NEW en, Sound(sends, st, pd, en)
      PROVE  Sound(sends, st, pd, en)'
  <2>1. \A p \in Players : \A w :
            IsOver(p, en) /\ Hears(p, sends, w) => Hears(p, sends, w)'
    BY <1>1 DEF Hears, Heard, LastTold, Says, NoneTo
  <2> QED
    BY <1>0, <1>2, <2>1, StaysSound
<1>3. Committed' /\ Held'
  BY <1>2, TablesStay DEF IInv
<1>4. PreparedHaveNoMatch' /\ CommandsHaveEnded'
  BY RestStays DEF IInv
<1>5. RecapsAreDue'
  BY <1>1, StaysDue DEF IInv, RecapsAreDue, ToSet
<1> QED
  BY <1>3, <1>4, <1>5 DEF IInv, JoinedOnce, IsFree, NowAndToldType, InFlightAreNotes

\* What a step leaves of a transaction that ends: it is written, or it is not.
LEMMA WrittenTables ==
    ASSUME IInv, UNCHANGED <<now, joined, queue, sending, told, lost, announced>>,
           NEW sends, NEW st, NEW pd, NEW en,
           Sound(<<>>, st, pd, en), Follows(sends, st, en),
           status' = st, paired' = pd, entry' = en
    PROVE  Committed' /\ RecapsAreDue'
<1>1. InFlight' = InFlight
  BY DEF InFlight
<1>2. Sound(<<>>, st, pd, en)'
  <2>1. \A p \in Players : \A w : Hears(p, <<>>, w) => Hears(p, <<>>, w)'
    BY <1>1 DEF Hears, Heard, LastTold, Says, NoneTo
  <2>2. \A s \in Sessions : Left(s)' >= 0 => Left(s) >= 0
    BY DEF Left
  <2> QED
    BY <2>1, <2>2, StaysSound
<1>3. Committed'
  BY <1>2 DEF Committed
<1>4. ASSUME NEW n \in Notes, IsDue(n) PROVE IsDue(n)'
  <2> SUFFICES ASSUME n.type = "Recap" PROVE IsDue(n)'
    BY DEF IsDue
  <2>1. n.shows \subseteq Players \X EntryOutcome
    BY DEF Notes
  <2>2. \A p : Opponent(p)' = Opponent(p)
    BY MatchesStay
  <2>3. ASSUME NEW r \in n.shows, n.about[2] = "Public"
        PROVE  /\ entry'[r[1]].outcome = r[2]
               /\ HasEnded(entry'[r[1]]) /\ HasEnded(entry'[Opponent(r[1])])
    <3>1. /\ r[1] \in Players /\ entry[r[1]].outcome = r[2]
          /\ HasEnded(entry[r[1]]) /\ HasEnded(entry[Opponent(r[1])])
      BY <1>4, <2>1, <2>3 DEF IsDue
    <3>2. IsMatched(r[1])
      <4>1. entry[r[1]] # NoEntry
        BY <3>1 DEF HasEnded, NoEntry
      <4>2. \E s \in Sessions : r[1] \in ToSet(Kept(s))
        BY <3>1, <4>1 DEF IInv, Committed, Sound, Tables
      <4>3. PICK s \in Sessions : \E m \in MatchesOf(s) : r[1] \in BothOf(m)
        BY <4>2, KeptIsMatched DEF IInv
      <4> QED
        BY <4>3, BothOfMatch DEF IInv
    <3>3. Opponent(r[1]) \in Players /\ IsMatched(Opponent(r[1]))
          /\ Opponent(Opponent(r[1])) = r[1]
      BY <3>2, OpponentOfMatched DEF IInv
    <3>4. IsOver(r[1], entry)
      BY <3>1, <3>2 DEF IsOver
    <3>5. en[r[1]] = entry[r[1]]
      BY <3>1, <3>4 DEF Follows
    <3>6. HasEnded(en[Opponent(r[1])])
      BY <3>1, <3>3 DEF Follows
    <3> QED
      BY <3>1, <3>5, <3>6
  <2>4. n.about[2] = "Runner" => HasEnded(entry'[n.to])
    BY <1>4 DEF IsDue, Notes, Follows
  <2> QED
    BY <2>2, <2>3, <2>4 DEF IsDue
<1>5. RecapsAreDue'
  <2>1. \A n \in ToSet(InFlight) : n \in Notes /\ IsDue(n)
    BY InFlightType DEF IInv, RecapsAreDue, ToSet
  <2>2. ToSet(InFlight)' = ToSet(InFlight)
    BY <1>1 DEF ToSet
  <2> QED
    BY <1>4, <2>1, <2>2 DEF RecapsAreDue
<1> QED
  BY <1>3, <1>5

\* The transaction is committed once everything is sent.
LEMMA CommitKeepsInvariant ==
    ASSUME IInv, TxCommits
    PROVE  IInv'
<1> USE DEF daemonVars, botVars
<1>1. PICK t : t = tx
  OBVIOUS
<1>2. /\ t \in Txs /\ t.sends = <<>>
      /\ Sound(t.sends, t.status, t.paired, t.entry)
      /\ Follows(t.sends, t.status, t.entry)
  BY <1>1 DEF IInv, Held, TxCommits, IsFree
<1>3. /\ status' = t.status /\ paired' = t.paired /\ entry' = t.entry
      /\ tx' = NoTx
      /\ UNCHANGED <<now, joined, prepared, command, queue, sending, told, lost, announced>>
  BY <1>1 DEF TxCommits
<1>4. Committed' /\ RecapsAreDue'
  <2>1. Sound(<<>>, t.status, t.paired, t.entry)
    BY <1>2
  <2> QED
    BY <1>2, <1>3, <2>1, WrittenTables
<1>5. Held' /\ IsFree'
  BY <1>3 DEF Held, IsFree, NoTx
<1>6. PreparedHaveNoMatch'
  BY <1>1, <1>2, <1>3 DEF IInv, PreparedHaveNoMatch, Follows, NoTx, TxCommits, IsFree
<1>7. CommandsHaveEnded'
  BY <1>1, <1>2, <1>3 DEF IInv, CommandsHaveEnded, Follows
<1> QED
  BY <1>3, <1>4, <1>5, <1>6, <1>7
     DEF IInv, JoinedOnce, NowAndToldType, InFlightAreNotes

\* It fails, and what it has sent is not taken back.
LEMMA FailureKeepsInvariant ==
    ASSUME IInv, TxFails
    PROVE  IInv'
<1> USE DEF tableVars, botVars, daemonVars
<1>1. /\ tx' = NoTx
      /\ UNCHANGED <<now, joined, status, paired, entry, queue, sending, told, lost, announced>>
  BY DEF TxFails
<1>2. InFlight' = InFlight
  BY <1>1 DEF InFlight
<1>3. Committed'
  <2> SUFFICES ASSUME NEW st, NEW pd, NEW en, st = status, pd = paired, en = entry
               PROVE  Sound(<<>>, st, pd, en)'
    BY <1>1 DEF Committed
  <2>1. Sound(<<>>, st, pd, en)
    BY DEF IInv, Committed
  <2>2. \A p \in Players : \A w : Hears(p, <<>>, w) => Hears(p, <<>>, w)'
    BY <1>1, <1>2 DEF Hears, Heard, LastTold, Says, NoneTo
  <2>3. \A s \in Sessions : Left(s)' >= 0 => Left(s) >= 0
    BY <1>1 DEF Left
  <2> QED
    BY <1>1, <2>1, <2>2, <2>3, StaysSound
<1>4. Held' /\ IsFree'
  BY <1>1 DEF Held, IsFree, NoTx
<1>5. PreparedHaveNoMatch'
  <2>1. CASE tx.by = Daemon
    BY <2>1 DEF TxFails, PreparedHaveNoMatch
  <2>2. CASE tx.by # Daemon
    BY <1>1, <2>2 DEF TxFails, IInv, PreparedHaveNoMatch, NoTx
  <2> QED
    BY <2>1, <2>2
<1>6. CommandsHaveEnded'
  BY <1>1 DEF TxFails, IInv, CommandsHaveEnded
<1>7. RecapsAreDue'
  BY <1>1, <1>2, StaysDue DEF IInv, RecapsAreDue, ToSet
<1> QED
  BY <1>1, <1>3, <1>4, <1>5, <1>6, <1>7 DEF IInv, JoinedOnce, NowAndToldType, InFlightAreNotes

-------------------------------------------------------------------------------
(***************************************************************************)
(* Transactions begin.                                                     *)
(***************************************************************************)

\* What must be shown of a transaction that begins.
Fits(by, sends, st, pd, en) ==
    by \in Actors /\ Sound(sends, st, pd, en) /\ Follows(sends, st, en)

\* It is one step, or holds the database with what fits.
LEMMA TransactKeeps ==
    ASSUME IInv, UNCHANGED <<now, queue, sending, told, lost, announced>>,
           NEW by, NEW sends, NEW st, NEW pd, NEW en,
           Fits(by, sends, st, pd, en), Transact(by, sends, st, pd, en)
    PROVE  /\ JoinedOnce' /\ InFlightAreNotes' /\ NowAndToldType'
           /\ (IsFree => tx = NoTx)'
           /\ Committed' /\ Held' /\ RecapsAreDue'
           /\ \/ /\ tx' = tx /\ tx.by = Nobody
                 /\ status' = st /\ paired' = pd /\ entry' = en
              \/ /\ UNCHANGED <<status, paired, entry>>
                 /\ tx'.by = by /\ by # Nobody
                 /\ tx'.status = st /\ tx'.paired = pd /\ tx'.entry = en
<1>1. tx = NoTx /\ joined' = joined /\ tx.by = Nobody
  BY DEF Transact, IInv, IsFree
<1>2. JoinedOnce' /\ InFlightAreNotes' /\ NowAndToldType'
  BY <1>1 DEF IInv, JoinedOnce, InFlightAreNotes, NowAndToldType
<1>3. by # Nobody
  BY DEF Fits, Actors, Nobody, Daemon, Counting, GoingLive, Commanding
<1>4. CASE sends = <<>>
  <2>1. status' = st /\ paired' = pd /\ entry' = en /\ tx' = tx
    BY <1>4 DEF Transact
  <2>2. Committed' /\ RecapsAreDue'
    <3>1. Sound(<<>>, st, pd, en)
      BY <1>4 DEF Fits
    <3> QED
      BY <1>1, <2>1, <3>1, WrittenTables DEF Fits
  <2>3. Held'
    BY <1>1, <2>1 DEF Held
  <2> QED
    BY <1>1, <1>2, <2>1, <2>2, <2>3 DEF IsFree
<1>5. CASE sends # <<>>
  <2> DEFINE u == [by |-> by, sends |-> sends, status |-> st, paired |-> pd, entry |-> en]
  <2>1. tx' = u /\ UNCHANGED <<status, paired, entry>>
    BY <1>5 DEF Transact
  <2>2. ASSUME NEW s1, NEW st1, NEW pd1, NEW en1, Sound(s1, st1, pd1, en1)
        PROVE  Sound(s1, st1, pd1, en1)'
    <3>1. InFlight' = InFlight
      BY DEF InFlight
    <3>2. \A p \in Players : \A w : Hears(p, s1, w) => Hears(p, s1, w)'
      BY <3>1 DEF Hears, Heard, LastTold, Says, NoneTo
    <3>3. \A s \in Sessions : Left(s)' >= 0 => Left(s) >= 0
      BY DEF Left
    <3> QED
      BY <1>1, <2>2, <3>2, <3>3, StaysSound
  <2>3. Committed'
    BY <2>1, <2>2 DEF IInv, Committed
  <2>4. RecapsAreDue'
    <3>1. InFlight' = InFlight
      BY DEF InFlight
    <3> QED
      BY <1>1, <2>1, <3>1, StaysDue DEF IInv, RecapsAreDue, ToSet
  <2>5. Held'
    <3>1. u \in Txs
      BY DEF Fits, Txs, Sound, Tables, Follows
    <3>2. Sound(sends, st, pd, en)' /\ Follows(sends, st, en)'
      BY <1>1, <2>1, <2>2, StaysFollowing DEF Fits
    <3>3. ASSUME NEW v, v = tx'
          PROVE  /\ v \in Txs
                 /\ Sound(v.sends, v.status, v.paired, v.entry)'
                 /\ Follows(v.sends, v.status, v.entry)'
      <4>1. v = u
        BY <2>1, <3>3
      <4>2. v.sends = sends /\ v.status = st /\ v.paired = pd /\ v.entry = en
        BY <4>1
      <4> HIDE DEF u
      <4>3. Sound(v.sends, v.status, v.paired, v.entry)'
        BY <3>2, <4>2
      <4>4. Follows(v.sends, v.status, v.entry)'
        BY <3>2, <4>2
      <4> QED
        BY <3>1, <4>1, <4>3, <4>4
    <3> QED
      BY <3>3 DEF Held, Txs, Notes, Actors
  <2>6. /\ tx'.by = by
        /\ tx'.status = st /\ tx'.paired = pd /\ tx'.entry = en
    BY <2>1
  <2> QED
    BY <1>2, <1>3, <2>1, <2>3, <2>4, <2>5, <2>6 DEF IsFree
<1> QED
  BY <1>4, <1>5

\* A transaction that only reads, and sends what anybody may read.
LEMMA ReadFits ==
    ASSUME IInv, IsFree, NEW by \in Actors, NEW sends \in Seq(Plain)
    PROVE  Fits(by, sends, status, paired, entry)
<1>1. /\ sends \in Seq(Notes) /\ \A p : NoneTo(p, sends)
      /\ \A i \in DOMAIN sends : IsDue(sends[i])
  BY PlainSends
<1>2. Sound(<<>>, status, paired, entry)
  BY DEF IInv, Committed
<1>3. Sound(sends, status, paired, entry)
  <2>1. AreAnnounced(status, paired, announced \cup Said(sends))
    BY <1>2 DEF Sound, AreAnnounced, Said, ToSet
  <2>2. OutcomesHeard(sends, entry)
    BY <1>1, <1>2 DEF Sound, OutcomesHeard, Hears, Says
  <2> QED
    BY <1>2, <2>1, <2>2 DEF Sound
<1>4. Follows(sends, status, entry)
  BY <1>1 DEF Follows
<1> QED
  BY <1>3, <1>4 DEF Fits

-------------------------------------------------------------------------------
(***************************************************************************)
(* What the notifications of each operation are.                           *)
(***************************************************************************)

Announced == {"StatusUpdate", "OddKick", "Empty"}

\* A notification that tells no result is plain.
LEMMA NoteIsPlain ==
    ASSUME NEW type \in NotificationTypes \ {"MatchEnd", "Recap"}, NEW to \in Recipients,
           NEW about \in Abouts, NEW shows \in SUBSET Shows
    PROVE  /\ Note(type, to, about, shows) \in Plain
           /\ Note(type, to, about, shows).type = type
           /\ Announcement(Note(type, to, about, shows)) = <<type, about, to, shows>>
<1> DEFINE n == Note(type, to, about, shows)
<1>1. /\ n \in [type : NotificationTypes, to : Recipients, about : Abouts, shows : SUBSET Shows]
      /\ n.type = type /\ n.to = to /\ n.about = about /\ n.shows = shows
  BY DEF Note
<1> HIDE DEF n
<1>2. n \in Plain /\ Announcement(n) = <<type, about, to, shows>>
  BY <1>1 DEF Plain, Notes, IsDue, Announcement
<1> QED
  BY <1>1, <1>2 DEF n

\* So is a sequence that holds one.
LEMMA SayIsPlain ==
    ASSUME NEW type \in NotificationTypes \ {"MatchEnd", "Recap"}, NEW to \in Recipients,
           NEW about \in Abouts, NEW shows \in SUBSET Shows
    PROVE  /\ Say(type, to, about, shows) \in Seq(Plain)
           /\ type \in Announced =>
                 <<type, about, to, shows>> \in Said(Say(type, to, about, shows))
<1> DEFINE n == Note(type, to, about, shows)
<1>1. n \in Plain /\ n.type = type /\ Announcement(n) = <<type, about, to, shows>>
  BY NoteIsPlain
<1> HIDE DEF n
<1>2. Say(type, to, about, shows) = <<n>>
  BY DEF Say, n
<1>3. <<n>> \in Seq(Plain) /\ n \in ToSet(<<n>>)
  BY <1>1 DEF ToSet
<1> QED
  BY <1>1, <1>2, <1>3 DEF Said, Announced

\* The notifications of a session, of types that tell no result.
LEMMA SessionNotes ==
    ASSUME NEW s \in Sessions
    PROVE  /\ Channel[s] \in Recipients /\ s \in Abouts /\ Players \subseteq Recipients
           /\ \A st \in Statuses :
                 /\ StatusUpdate(s, st) \in Seq(Plain)
                 /\ <<"StatusUpdate", s, Channel[s], {st}>> \in Said(StatusUpdate(s, st))
           /\ Countdown(s) \in Seq(Plain)
           /\ \A p \in Players :
                 /\ OddKick(s, p) \in Seq(Plain)
                 /\ <<"OddKick", s, p, {}>> \in Said(OddKick(s, p))
           /\ \A isEmpty \in BOOLEAN : LeaderboardUpdate(s, isEmpty) \in Seq(Plain)
<1>1. Channel[s] \in Recipients /\ s \in Abouts /\ Players \subseteq Recipients
  BY DEF Recipients, Abouts
<1>2. {} \in SUBSET Shows /\ \A st \in Statuses : {st} \in SUBSET Shows
  BY DEF Shows
<1>3. {"StatusUpdate", "Countdown", "OddKick", "LeaderboardUpdate"} \subseteq
          NotificationTypes \ {"MatchEnd", "Recap"}
  BY DEF NotificationTypes
<1>4. ASSUME NEW st \in Statuses
      PROVE  /\ StatusUpdate(s, st) \in Seq(Plain)
             /\ <<"StatusUpdate", s, Channel[s], {st}>> \in Said(StatusUpdate(s, st))
  BY <1>1, <1>2, <1>3, SayIsPlain DEF StatusUpdate, Announced
<1>5. Countdown(s) \in Seq(Plain)
  BY <1>1, <1>2, <1>3, SayIsPlain DEF Countdown
<1>6. ASSUME NEW p \in Players
      PROVE  OddKick(s, p) \in Seq(Plain) /\ <<"OddKick", s, p, {}>> \in Said(OddKick(s, p))
  BY <1>1, <1>2, <1>3, SayIsPlain DEF OddKick, Announced
<1>7. ASSUME NEW isEmpty \in BOOLEAN PROVE LeaderboardUpdate(s, isEmpty) \in Seq(Plain)
  <2>1. Say("LeaderboardUpdate", Channel[s], s, {}) \in Seq(Plain)
    BY <1>1, <1>2, <1>3, SayIsPlain
  <2>2. <<>> \in Seq(Plain)
    OBVIOUS
  <2> QED
    BY <2>1, <2>2, Zenon DEF LeaderboardUpdate
<1> QED
  BY <1>1, <1>4, <1>5, <1>6, <1>7

\* A session without a race: its channel hears of it, and who joined.
LEMMA EmptyNotes ==
    ASSUME NEW s \in Sessions, NEW ids \in Seq(Players)
    PROVE  /\ Empty(s, ids) \in Seq(Plain)
           /\ \A r \in {Channel[s]} \cup ToSet(ids) : <<"Empty", s, r, {}>> \in Said(Empty(s, ids))
<1>1. /\ Channel[s] \in Recipients /\ s \in Abouts /\ Players \subseteq Recipients
      /\ {} \in SUBSET Shows
      /\ "Empty" \in NotificationTypes \ {"MatchEnd", "Recap"}
  BY SessionNotes DEF NotificationTypes
<1>2. \A to \in Recipients :
          /\ Note("Empty", to, s, {}) \in Plain
          /\ Note("Empty", to, s, {}).type = "Empty"
          /\ Announcement(Note("Empty", to, s, {})) = <<"Empty", s, to, {}>>
  BY <1>1, NoteIsPlain
<1> DEFINE first == Say("Empty", Channel[s], s, {})
           others == [i \in 1..Len(ids) |-> Note("Empty", ids[i], s, {})]
<1>3. first \in Seq(Plain) /\ Note("Empty", Channel[s], s, {}) \in ToSet(first)
  BY <1>1, <1>2 DEF Say, ToSet
<1>4. \A i \in 1..Len(ids) : ids[i] \in Players
  OBVIOUS
<1>5. others \in Seq(Plain)
  BY <1>1, <1>2, <1>4
<1>6. \A r \in ToSet(ids) : Note("Empty", r, s, {}) \in ToSet(others)
  BY DEF ToSet
<1> HIDE DEF first, others
<1>7. /\ first \o others \in Seq(Plain)
      /\ ToSet(first) \subseteq ToSet(first \o others)
      /\ ToSet(others) \subseteq ToSet(first \o others)
  BY <1>3, <1>5, ConcatCollects
<1>8. Empty(s, ids) = first \o others
  BY DEF Empty, first, others
<1>9. \A r \in {Channel[s]} \cup ToSet(ids) :
          r \in Recipients /\ Note("Empty", r, s, {}) \in ToSet(first \o others)
  <2>1. ToSet(ids) \subseteq Players
    BY <1>4 DEF ToSet
  <2> QED
    BY <1>1, <1>3, <1>6, <1>7, <2>1
<1> QED
  BY <1>2, <1>7, <1>8, <1>9 DEF Said

\* A loop over sessions announces all that it announces of each.
LEMMA LoopAnnounces ==
    ASSUME NEW S \in SUBSET Sessions, NEW says \in [S -> Seq(Plain)]
    PROVE  /\ EachOf(says) \in Seq(Plain)
           /\ \A s \in S : Said(says[s]) \subseteq Said(EachOf(says))
<1>1. IsFiniteSet(S)
  BY SessionsAssumption, FS_Subset
<1> QED
  BY <1>1, EachOfCollects DEF Said

\* A recap shows what the reader may see (notification.go, writeResultsTable).
LEMMA RecapIsPlain ==
    ASSUME IInv, NEW s \in Sessions, NEW to \in Recipients, NEW scope \in Scopes,
           scope = "Runner" => to \in Players /\ HasEnded(entry[to])
    PROVE  Recap(s, to, scope) \in Seq(Plain)
<1> DEFINE known == IF s \in paired THEN {m \in MatchesOf(s) : Shown(m, scope)} ELSE {}
           runners == UNION {BothOf(m) : m \in known}
           shows == {<<p, entry[p].outcome>> : p \in runners}
           n == Note("Recap", to, <<s, scope>>, shows)
<1>1. Recap(s, to, scope) = <<n>>
  BY DEF Recap, Say
<1>2. entry \in [Players -> Entries]
  BY DEF IInv, Committed, Sound, Tables
<1>3. ASSUME NEW p \in runners
      PROVE  /\ p \in Players
             /\ scope = "Public" => HasEnded(entry[p]) /\ HasEnded(entry[Opponent(p)])
  <2>1. PICK m \in MatchesOf(s) : p \in BothOf(m) /\ Shown(m, scope)
    BY <1>3
  <2>2. p \in Players /\ BothOf(m) = {p, Opponent(p)}
    BY <2>1, BothOfMatch DEF IInv
  <2> QED
    BY <2>1, <2>2 DEF Shown
<1>4. \A r \in shows : r[1] \in runners /\ r[2] = entry[r[1]].outcome /\ r = <<r[1], r[2]>>
  OBVIOUS
<1> HIDE DEF runners
<1>5. \A r \in shows : r[2] \in EntryOutcome
  BY <1>2, <1>3, <1>4 DEF Entries
<1>6. shows \subseteq Players \X EntryOutcome
  BY <1>3, <1>4, <1>5
<1> HIDE DEF shows
<1>7. /\ n \in [type : NotificationTypes, to : Recipients, about : Abouts, shows : SUBSET Shows]
      /\ n.type = "Recap" /\ n.to = to /\ n.about[2] = scope /\ n.shows = shows
  BY <1>6 DEF Note, NotificationTypes, Abouts, Shows
<1> HIDE DEF n
<1>8. n \in Notes
  BY <1>6, <1>7 DEF Notes
<1>9. IsDue(n)
  BY <1>3, <1>4, <1>7 DEF IsDue
<1>10. n \in Plain
  BY <1>7, <1>8, <1>9 DEF Plain
<1> QED
  BY <1>1, <1>10

-------------------------------------------------------------------------------
(***************************************************************************)
(* The transactions of the daemon.                                         *)
(***************************************************************************)

\* One that moves sessions on, and announces it.
LEMMA StatusFits ==
    ASSUME IInv, IsFree, NEW sends \in Seq(Plain), NEW st \in [Sessions -> Statuses],
           \A s \in Sessions : st[s] # status[s] =>
               /\ status[s] \notin Early => st[s] \notin Early
               /\ st[s] \in {"Waiting", "Joinable", "Preparing"} =>
                     <<"StatusUpdate", s, Channel[s], {st[s]}>> \in Said(sends)
               /\ st[s] = "Closed" /\ Left(s) >= 0 =>
                     \A r \in {Channel[s]} \cup ToSet(joined[s]) : <<"Empty", s, r, {}>> \in Said(sends)
    PROVE  Fits(Daemon, sends, st, paired, entry)
<1>1. Fits(Daemon, sends, status, paired, entry)
  BY ReadFits DEF Actors
<1>2. Tables(st, paired, entry)
  BY <1>1 DEF Fits, Sound, Tables
<1>3. AreAnnounced(st, paired, announced \cup Said(sends))
  BY <1>1 DEF Fits, Sound, AreAnnounced
<1>4. Follows(sends, st, entry)
  BY <1>1 DEF Fits, Follows
<1> QED
  BY <1>1, <1>2, <1>3, <1>4 DEF Fits, Sound

\* The tables are typed.
LEMMA TablesType ==
    ASSUME IInv
    PROVE  /\ Tables(status, paired, entry)
           /\ AreAnnounced(status, paired, announced)
           /\ OutcomesHeard(<<>>, entry)
<1>1. Sound(<<>>, status, paired, entry)
  BY DEF IInv, Committed
<1>2. Said(<<>>) = {}
  BY DEF Said, ToSet
<1> QED
  BY <1>1, <1>2 DEF Sound

\* createNextScheduledMatchSessions and makeMatchSessionsJoinable
LEMMA UpdateFits ==
    ASSUME IInv, IsFree, NEW st \in {"Waiting", "Joinable"}, NEW S \in SUBSET Sessions,
           \A s \in S : status[s] \in Early
    PROVE  Fits(Daemon, EachOf([s \in S |-> StatusUpdate(s, st)]), Updated(S, st), paired, entry)
<1> DEFINE says == [s \in S |-> StatusUpdate(s, st)]
           rows == Updated(S, st)
<1>1. st \in Statuses
  BY DEF Statuses
<1>2. \A s \in S : /\ StatusUpdate(s, st) \in Seq(Plain)
                   /\ <<"StatusUpdate", s, Channel[s], {st}>> \in Said(StatusUpdate(s, st))
  BY <1>1, SessionNotes
<1>3. says \in [S -> Seq(Plain)] /\ \A s \in S : says[s] = StatusUpdate(s, st)
  BY <1>2
<1> HIDE DEF says
<1>4. /\ EachOf(says) \in Seq(Plain)
      /\ \A s \in S : Said(says[s]) \subseteq Said(EachOf(says))
  BY <1>3, LoopAnnounces
<1>5. /\ rows \in [Sessions -> Statuses]
      /\ \A s \in Sessions : rows[s] = IF s \in S THEN st ELSE status[s]
  BY <1>1, TablesType DEF Updated, Tables
<1> HIDE DEF rows
<1>6. ASSUME NEW s \in Sessions, rows[s] # status[s]
      PROVE  /\ status[s] \in Early /\ rows[s] = st
             /\ <<"StatusUpdate", s, Channel[s], {st}>> \in Said(EachOf(says))
  BY <1>2, <1>3, <1>4, <1>5, <1>6
<1>7. Fits(Daemon, EachOf(says), rows, paired, entry)
  <2>1. PICK sends : sends = EachOf(says)
    OBVIOUS
  <2> QED
    BY <1>4, <1>5, <1>6, <2>1, StatusFits
<1> QED
  BY <1>7 DEF says, rows

\* makeMatchSessionsPreparing
LEMMA PreparingFits ==
    ASSUME IInv, IsFree, NEW S \in SUBSET Sessions, \A s \in S : status[s] \in Early,
           NEW Enough \in SUBSET S
    PROVE  Fits(Daemon,
                EachOf([s \in S |-> IF s \in Enough THEN StatusUpdate(s, "Preparing")
                                                    ELSE Empty(s, joined[s])]),
                [s \in Sessions |-> IF s \in Enough THEN "Preparing"
                                    ELSE IF s \in S THEN "Closed" ELSE status[s]],
                paired, entry)
<1> DEFINE says == [s \in S |-> IF s \in Enough THEN StatusUpdate(s, "Preparing")
                                                ELSE Empty(s, joined[s])]
           rows == [s \in Sessions |-> IF s \in Enough THEN "Preparing"
                                       ELSE IF s \in S THEN "Closed" ELSE status[s]]
<1>1. \A s \in S : /\ StatusUpdate(s, "Preparing") \in Seq(Plain)
                   /\ <<"StatusUpdate", s, Channel[s], {"Preparing"}>> \in
                          Said(StatusUpdate(s, "Preparing"))
  BY SessionNotes DEF Statuses
<1>2. \A s \in S : /\ Empty(s, joined[s]) \in Seq(Plain)
                   /\ \A r \in {Channel[s]} \cup ToSet(joined[s]) :
                          <<"Empty", s, r, {}>> \in Said(Empty(s, joined[s]))
  BY EmptyNotes, KeptOnes DEF IInv
<1>3. /\ says \in [S -> Seq(Plain)]
      /\ \A s \in Enough : says[s] = StatusUpdate(s, "Preparing")
      /\ \A s \in S \ Enough : says[s] = Empty(s, joined[s])
  BY <1>1, <1>2
<1> HIDE DEF says
<1>4. /\ EachOf(says) \in Seq(Plain)
      /\ \A s \in S : Said(says[s]) \subseteq Said(EachOf(says))
  BY <1>3, LoopAnnounces
<1>5. /\ rows \in [Sessions -> Statuses]
      /\ \A s \in Enough : rows[s] = "Preparing"
      /\ \A s \in S \ Enough : rows[s] = "Closed"
      /\ \A s \in Sessions \ S : rows[s] = status[s]
  BY TablesType DEF Tables, Statuses
<1> HIDE DEF rows
<1>6. ASSUME NEW s \in Sessions, rows[s] # status[s]
      PROVE  /\ status[s] \in Early
             /\ rows[s] \in {"Waiting", "Joinable", "Preparing"} =>
                   <<"StatusUpdate", s, Channel[s], {rows[s]}>> \in Said(EachOf(says))
             /\ rows[s] = "Closed" =>
                   \A r \in {Channel[s]} \cup ToSet(joined[s]) :
                       <<"Empty", s, r, {}>> \in Said(EachOf(says))
  <2>1. s \in S
    BY <1>5, <1>6
  <2>2. CASE s \in Enough
    BY <1>1, <1>3, <1>4, <1>5, <2>1, <2>2
  <2>3. CASE s \notin Enough
    BY <1>2, <1>3, <1>4, <1>5, <2>1, <2>3
  <2> QED
    BY <2>1, <2>2, <2>3
<1>7. Fits(Daemon, EachOf(says), rows, paired, entry)
  <2>1. PICK sends : sends = EachOf(says)
    OBVIOUS
  <2> QED
    BY <1>4, <1>5, <1>6, <2>1, StatusFits
<1> QED
  BY <1>7 DEF says, rows

\* closeMatchSessionsAndUpdateRanks closes what has started.
LEMMA ClosingFits ==
    ASSUME IInv, IsFree
    PROVE  Fits(Daemon, <<>>, Updated(ToEnd, "Closed"), paired, entry)
<1> DEFINE rows == Updated(ToEnd, "Closed")
<1>1. /\ rows \in [Sessions -> Statuses]
      /\ \A s \in Sessions : rows[s] = IF s \in ToEnd THEN "Closed" ELSE status[s]
  BY TablesType DEF Updated, Tables, Statuses
<1>2. \A s \in ToEnd : ~(Left(s) >= 0)
  <2>1. ASSUME NEW s \in ToEnd PROVE Left(s) < 0 /\ Left(s) \in Int
    BY SessionsAssumption DEF ToEnd, Left, IInv, NowAndToldType
  <2> QED
    BY <2>1
<1> HIDE DEF rows
<1>3. <<>> \in Seq(Plain)
  OBVIOUS
<1>4. Fits(Daemon, <<>>, rows, paired, entry)
  BY <1>1, <1>2, <1>3, StatusFits DEF Early
<1> QED
  BY <1>4 DEF rows

\* The player who is not kept joined last, and has no opponent.
LEMMA OddOne ==
    ASSUME JoinedOnce, NEW s \in Sessions
    PROVE  /\ ToSet(Kept(s)) \subseteq ToSet(joined[s])
           /\ ToSet(joined[s]) \subseteq Players
           /\ \A p \in ToSet(joined[s]) \ ToSet(Kept(s)) :
                 Len(joined[s]) % 2 = 1 /\ p = Last(joined[s])
           /\ Len(joined[s]) % 2 = 1 => Last(joined[s]) \in Players
<1>1. PICK ids \in Seq(Players) : ids = joined[s]
  BY KeptOnes
<1>2. PICK half \in Nat : half = Len(joined[s]) \div 2
  BY KeptOnes
<1>3. PICK kept \in Seq(Players) : kept = Kept(s)
  BY KeptOnes
<1>4. /\ 2 * half <= Len(ids) /\ Len(ids) <= 2 * half + 1
      /\ Len(kept) = 2 * half
      /\ \A i \in 1..Len(kept) : kept[i] = ids[i]
  BY <1>1, <1>2, <1>3, KeptOnes
<1>5. Len(ids) % 2 = 1 <=> Len(ids) = 2 * half + 1
  <2>1. PICK k \in Nat : k = Len(ids)
    OBVIOUS
  <2>2. k % 2 = 1 <=> k = 2 * half + 1
    BY <1>4, <2>1
  <2> QED
    BY <2>1, <2>2
<1>6. ToSet(kept) \subseteq ToSet(ids)
  BY <1>4 DEF ToSet
<1>7. ASSUME NEW p \in ToSet(ids) \ ToSet(kept)
      PROVE  Len(ids) = 2 * half + 1 /\ p = ids[Len(ids)]
  <2>1. PICK i \in 1..Len(ids) : p = ids[i]
    BY DEF ToSet
  <2>2. i \notin 1..Len(kept)
    BY <1>4, <2>1 DEF ToSet
  <2> QED
    BY <1>4, <2>1, <2>2
<1>8. ToSet(ids) \subseteq Players
  BY DEF ToSet
<1>9. Len(ids) = 2 * half + 1 => ids[Len(ids)] \in Players
  OBVIOUS
<1> QED
  BY <1>1, <1>3, <1>5, <1>6, <1>7, <1>8, <1>9 DEF Last

\* doMatchMaking makes the rows of players who have none.
LEMMA MatchMakingFits ==
    ASSUME IInv, IsFree
    PROVE  LET rows == UNION {MatchesOf(s) : s \in prepared}
           IN  Fits(Daemon,
                    EachOf([s \in {x \in prepared : Len(joined[x]) % 2 = 1} |->
                               OddKick(s, Last(joined[s]))]),
                    status, paired \cup prepared,
                    [p \in Players |-> IF \E m \in rows : p \in BothOf(m)
                                       THEN NewMatchEntry ELSE entry[p]])
<1> DEFINE rows == UNION {MatchesOf(s) : s \in prepared}
           S == {x \in prepared : Len(joined[x]) % 2 = 1}
           says == [s \in S |-> OddKick(s, Last(joined[s]))]
           en == [p \in Players |-> IF \E m \in rows : p \in BothOf(m)
                                    THEN NewMatchEntry ELSE entry[p]]
<1>1. /\ prepared \in SUBSET Sessions
      /\ \A s \in prepared : s \notin paired /\ status[s] \notin Early
  BY DEF IInv, PreparedHaveNoMatch, IsFree, Nobody, Daemon
<1>2. Tables(status, paired, entry)
  BY TablesType
<1>3. says \in [S -> Seq(Plain)] /\ \A s \in S : says[s] = OddKick(s, Last(joined[s]))
  <2>1. \A s \in S : OddKick(s, Last(joined[s])) \in Seq(Plain)
    BY <1>1, OddOne, SessionNotes DEF IInv
  <2> QED
    BY <2>1
<1>4. S \in SUBSET Sessions
  BY <1>1
<1>5. ASSUME NEW p \in Players, \E m \in rows : p \in BothOf(m)
      PROVE  entry[p] = NoEntry /\ \E s \in prepared : p \in ToSet(Kept(s))
  <2>1. PICK s \in prepared : \E m \in MatchesOf(s) : p \in BothOf(m)
    BY <1>5
  <2>2. s \in Sessions /\ p \in ToSet(Kept(s))
    BY <1>1, <2>1, BothOfMatch DEF IInv
  <2>3. ASSUME NEW t \in paired, p \in ToSet(Kept(t)) PROVE FALSE
    <3>1. t \in Sessions /\ t # s
      BY <1>1, <1>2 DEF Tables
    <3>2. p \in ToSet(joined[s]) /\ p \in ToSet(joined[t])
      BY <2>2, <2>3, <3>1, OddOne DEF IInv
    <3> QED
      BY <2>2, <3>1, <3>2 DEF IInv, JoinedOnce
  <2> QED
    BY <1>2, <2>2, <2>3 DEF Tables
<1>6. ASSUME NEW p \in Players
      PROVE  \/ en[p] = entry[p]
             \/ /\ en[p] = NewMatchEntry /\ entry[p] = NoEntry
                /\ \E s \in prepared : p \in ToSet(Kept(s))
  BY <1>5
<1>7. en \in [Players -> Entries]
  BY <1>2 DEF Tables, NewMatchEntry, Entries, EntryStatus, EntryOutcome
<1> HIDE DEF S, says, en, rows
<1>8. /\ EachOf(says) \in Seq(Plain)
      /\ \A s \in S : Said(says[s]) \subseteq Said(EachOf(says))
  BY <1>3, <1>4, LoopAnnounces
<1>9. PICK sends \in Seq(Plain) : sends = EachOf(says)
  BY <1>8
<1>10. Fits(Daemon, sends, status, paired, entry)
  BY ReadFits DEF Actors
<1>11. Tables(status, paired \cup prepared, en)
  BY <1>1, <1>2, <1>6, <1>7 DEF Tables
<1>12. AreAnnounced(status, paired \cup prepared, announced \cup Said(sends))
  <2>1. ASSUME NEW s \in prepared, NEW p \in ToSet(joined[s]) \ ToSet(Kept(s))
        PROVE  <<"OddKick", s, p, {}>> \in Said(sends)
    <3>1. s \in Sessions /\ s \in S /\ p = Last(joined[s]) /\ p \in Players
      BY <1>1, OddOne DEF IInv, S
    <3>2. <<"OddKick", s, p, {}>> \in Said(OddKick(s, p))
      BY <3>1, SessionNotes
    <3> QED
      BY <1>3, <1>8, <1>9, <3>1, <3>2
  <2> QED
    BY <1>10, <2>1 DEF Fits, Sound, AreAnnounced
<1>13. \A p \in Players : HasEnded(entry[p]) \/ HasEnded(en[p]) => en[p] = entry[p]
  BY <1>6 DEF HasEnded, NoEntry, NewMatchEntry
<1>14. \A p \in Players : IsOver(p, en) => IsOver(p, entry) /\ en[p] = entry[p]
  BY <1>13, OpponentOfMatched DEF IInv, IsOver
<1>15. OutcomesHeard(sends, en)
  BY <1>10, <1>14 DEF Fits, Sound, OutcomesHeard
<1>16. Follows(sends, status, en)
  BY <1>10, <1>13 DEF Fits, Follows, IsOver
<1>17. Fits(Daemon, EachOf(says), status, paired \cup prepared, en)
  BY <1>9, <1>10, <1>11, <1>12, <1>15, <1>16 DEF Fits, Sound
<1> QED
  BY <1>17 DEF says, en, rows, S

-------------------------------------------------------------------------------
(***************************************************************************)
(* The transactions that write the entries of a race.                      *)
(***************************************************************************)

\* The countdown starts the session and its entries; no race has ended by that.
LEMMA StartFits ==
    ASSUME IInv, IsFree, NEW s \in Sessions
    PROVE  Fits(Counting(s), <<>>, [status EXCEPT ![s] = "InProgress"], paired,
                [p \in Players |-> IF s \in paired /\ p \in ToSet(Kept(s))
                                   THEN StartedEntry(entry[p]) ELSE entry[p]])
<1> DEFINE st == [status EXCEPT ![s] = "InProgress"]
           en == [p \in Players |-> IF s \in paired /\ p \in ToSet(Kept(s))
                                    THEN StartedEntry(entry[p]) ELSE entry[p]]
<1>1. Tables(status, paired, entry)
  BY TablesType
<1>2. Fits(Counting(s), <<>>, status, paired, entry)
  <2>1. <<>> \in Seq(Plain) /\ Counting(s) \in Actors
    BY DEF Actors
  <2> QED
    BY <2>1, ReadFits
<1>3. /\ st \in [Sessions -> Statuses] /\ st[s] = "InProgress"
      /\ \A t \in Sessions : t # s => st[t] = status[t]
  BY <1>1 DEF Tables, Statuses
<1>4. ASSUME NEW p \in Players
      PROVE  /\ en[p] \in Entries
             /\ en[p] # NoEntry => entry[p] # NoEntry
             /\ HasEnded(en[p]) \/ HasEnded(entry[p]) => en[p] = entry[p]
  <2>1. entry[p] \in Entries
    BY <1>1 DEF Tables
  <2>2. /\ StartedEntry(entry[p]) \in Entries
        /\ StartedEntry(entry[p]) # NoEntry => entry[p] # NoEntry
        /\ HasEnded(StartedEntry(entry[p])) \/ HasEnded(entry[p]) => StartedEntry(entry[p]) = entry[p]
    BY <2>1 DEF StartedEntry, Entries, EntryStatus, NoEntry, HasEnded
  <2>3. en[p] = StartedEntry(entry[p]) \/ en[p] = entry[p]
    OBVIOUS
  <2> QED
    BY <2>1, <2>2, <2>3
<1>5. en \in [Players -> Entries]
  <2>1. en = [p \in Players |-> en[p]]
    OBVIOUS
  <2> HIDE DEF en
  <2> QED
    BY <1>4, <2>1
<1> HIDE DEF st, en
<1>6. Tables(st, paired, en)
  BY <1>1, <1>3, <1>4, <1>5 DEF Tables, Early
<1>7. AreAnnounced(st, paired, announced \cup Said(<<>>))
  BY <1>2, <1>3 DEF Fits, Sound, AreAnnounced
<1>8. \A p \in Players : IsOver(p, en) => IsOver(p, entry) /\ en[p] = entry[p]
  BY <1>4, OpponentOfMatched DEF IInv, IsOver
<1>9. OutcomesHeard(<<>>, en)
  BY <1>2, <1>8 DEF Fits, Sound, OutcomesHeard
<1>10. Follows(<<>>, st, en)
  BY <1>2, <1>3, <1>4 DEF Fits, Follows, Early, IsOver
<1>11. Fits(Counting(s), <<>>, st, paired, en)
  BY <1>2, <1>6, <1>7, <1>9, <1>10 DEF Fits, Sound
<1> QED
  BY <1>11 DEF st, en

\* A player who has an entry is matched.
LEMMA RacerIsMatched ==
    ASSUME IInv, NEW p \in Players, entry[p] # NoEntry
    PROVE  /\ IsMatched(p) /\ Opponent(p) \in Players /\ Opponent(p) # p
           /\ Opponent(Opponent(p)) = p
           /\ \E s \in paired : p \in ToSet(Kept(s)) /\ Opponent(p) \in ToSet(Kept(s))
           /\ SessionOf(p) \in Sessions /\ SessionOf(Opponent(p)) \in Sessions
<1>1. PICK s \in paired : p \in ToSet(Kept(s))
  BY TablesType DEF Tables
<1>2. s \in Sessions
  BY TablesType DEF Tables
<1>3. PICK m \in MatchesOf(s) : p \in BothOf(m)
  BY <1>1, <1>2, KeptIsMatched DEF IInv
<1>4. IsMatched(p) /\ BothOf(m) = {p, Opponent(p)}
  BY <1>2, <1>3, BothOfMatch DEF IInv
<1>5. Opponent(p) \in ToSet(Kept(s))
  BY <1>2, <1>4, BothOfMatch DEF IInv
<1>6. SessionOf(p) = s /\ SessionOf(Opponent(p)) = s
  BY <1>1, <1>2, <1>5, OddOne, SessionOfJoined DEF IInv
<1> QED
  BY <1>1, <1>2, <1>4, <1>5, <1>6, OpponentOfMatched DEF IInv

\* Sequences of one notification, put together.
LEMMA JoinedOnes ==
    ASSUME NEW n1 \in Notes, NEW n2 \in Notes
    PROVE  <<n1>> \o <<n2>> = <<n1, n2>> /\ <<n1>> \o <<>> = <<n1>>
<1>1. <<n1>> \in Seq(Notes) /\ <<n2>> \in Seq(Notes) /\ <<n1, n2>> \in Seq(Notes)
  OBVIOUS
<1> DEFINE a == <<n1>> \o <<n2>>
           b == <<n1, n2>>
<1>2. /\ a \in Seq(Notes) /\ b \in Seq(Notes)
      /\ Len(a) = 2 /\ Len(b) = 2
      /\ a[1] = b[1] /\ a[2] = b[2]
  BY <1>1
<1> HIDE DEF a, b
<1>3. a = b
  BY <1>2
<1>4. <<n1>> \o <<>> = <<n1>>
  BY <1>1
<1> QED
  BY <1>3, <1>4 DEF a, b

\* What ends a race is told to whom it ends for.
LEMMA MatchEndNote ==
    ASSUME NEW p \in Players, SessionOf(p) \in Sessions, NEW e \in Entries
    PROVE  \E n \in Notes : /\ MatchEnd(p, e) = <<n>>
                            /\ n.type = "MatchEnd" /\ n.to = p /\ n.shows = {e.outcome}
                            /\ IsDue(n)
<1> DEFINE n == Note("MatchEnd", p, SessionOf(p), {e.outcome})
<1>1. MatchEnd(p, e) = <<n>>
  BY DEF MatchEnd, Say
<1>2. e.outcome \in EntryOutcome
  BY DEF Entries
<1>3. /\ n \in [type : NotificationTypes, to : Recipients, about : Abouts, shows : SUBSET Shows]
      /\ n.type = "MatchEnd" /\ n.to = p /\ n.shows = {e.outcome}
  BY <1>2 DEF Note, NotificationTypes, Recipients, Abouts, Shows
<1> HIDE DEF n
<1>4. n \in Notes /\ IsDue(n)
  BY <1>2, <1>3 DEF Notes, IsDue
<1> QED
  BY <1>1, <1>3, <1>4

\* endActiveMatch: the two are told once both have ended, whoever was first.
LEMMA EndRaceFits ==
    ASSUME IInv, IsFree, NEW p \in Players, Unfinished(entry[p]),
           NEW e \in Entries, HasEnded(e),
           NEW against \in Entries, against.status = entry[Opponent(p)].status
    PROVE  Fits(Commanding(p), MatchEnds(p, e, against), status, paired,
                [entry EXCEPT ![p] = e, ![Opponent(p)] = against])
<1> DEFINE q == Opponent(p)
           sends == MatchEnds(p, e, against)
           en == [entry EXCEPT ![p] = e, ![q] = against]
<1>1. Tables(status, paired, entry) /\ AreAnnounced(status, paired, announced)
      /\ OutcomesHeard(<<>>, entry)
  BY TablesType
<1>2. entry[p] # NoEntry /\ ~HasEnded(entry[p])
  BY DEF Unfinished, HasEnded, NoEntry
<1>3. /\ q \in Players /\ q # p /\ Opponent(q) = p /\ IsMatched(p)
      /\ \E s \in paired : p \in ToSet(Kept(s)) /\ q \in ToSet(Kept(s))
      /\ SessionOf(p) \in Sessions /\ SessionOf(q) \in Sessions
  BY <1>2, RacerIsMatched
<1>4. /\ en \in [Players -> Entries] /\ en[p] = e /\ en[q] = against
      /\ \A r \in Players : r # p /\ r # q => en[r] = entry[r]
  BY <1>1, <1>3 DEF Tables
<1>5. PICK n1 \in Notes : /\ MatchEnd(p, e) = <<n1>>
                          /\ n1.type = "MatchEnd" /\ n1.to = p /\ n1.shows = {e.outcome}
                          /\ IsDue(n1)
  BY <1>3, MatchEndNote
<1>6. PICK n2 \in Notes : /\ MatchEnd(q, against) = <<n2>>
                          /\ n2.type = "MatchEnd" /\ n2.to = q /\ n2.shows = {against.outcome}
                          /\ IsDue(n2)
  BY <1>3, MatchEndNote
<1>7. IF HasEnded(against) THEN sends = <<n1, n2>> ELSE sends = <<n1>>
  <2>1. sends = <<n1>> \o (IF HasEnded(against) THEN <<n2>> ELSE <<>>)
    BY <1>5, <1>6 DEF MatchEnds
  <2>2. <<n1>> \o <<n2>> = <<n1, n2>> /\ <<n1>> \o <<>> = <<n1>>
    BY JoinedOnes
  <2> QED
    BY <2>1, <2>2
<1> HIDE DEF q, sends, en
<1>8. /\ sends \in Seq(Notes)
      /\ \A i \in DOMAIN sends : IsDue(sends[i])
      /\ \A r : r # p /\ r # q => NoneTo(r, sends)
      /\ HasEnded(against) => Says(p, sends, {e.outcome}) /\ Says(q, sends, {against.outcome})
  <2>1. CASE HasEnded(against)
    <3>1. sends = <<n1, n2>>
      BY <1>7, <2>1
    <3>2. DOMAIN sends = {1, 2} /\ sends[1] = n1 /\ sends[2] = n2 /\ sends \in Seq(Notes)
      BY <3>1
    <3> HIDE DEF sends
    <3>3. Says(p, sends, {e.outcome})
      BY <1>3, <1>5, <1>6, <3>2 DEF Says, EndsMatchOf
    <3>4. Says(q, sends, {against.outcome})
      BY <1>6, <3>2 DEF Says, EndsMatchOf
    <3>5. \A r : r # p /\ r # q => NoneTo(r, sends)
      BY <1>5, <1>6, <3>2 DEF NoneTo, EndsMatchOf
    <3> QED
      BY <1>5, <1>6, <3>2, <3>3, <3>4, <3>5
  <2>2. CASE ~HasEnded(against)
    <3>0. sends = <<n1>>
      BY <1>7, <2>2
    <3>1. DOMAIN sends = {1} /\ sends[1] = n1 /\ sends \in Seq(Notes)
      BY <3>0
    <3> QED
      BY <1>5, <2>2, <3>1 DEF NoneTo, EndsMatchOf
  <2> QED
    BY <2>1, <2>2
<1>9. HasEnded(against) <=> HasEnded(entry[q])
  BY DEF HasEnded, q
<1>10. Tables(status, paired, en)
  BY <1>1, <1>3, <1>4 DEF Tables
<1>11. AreAnnounced(status, paired, announced \cup Said(sends))
  BY <1>1 DEF AreAnnounced
<1>12. OutcomesHeard(sends, en)
  <2> SUFFICES ASSUME NEW r \in Players, IsOver(r, en)
               PROVE  Hears(r, sends, {en[r].outcome})
    BY DEF OutcomesHeard
  <2>1. CASE r = p \/ r = q
    <3>1. HasEnded(against)
      BY <1>3, <1>4, <2>1 DEF IsOver, q
    <3> QED
      BY <1>4, <1>8, <2>1, <3>1 DEF Hears
  <2>2. CASE r # p /\ r # q
    <3>1. Opponent(r) \in Players /\ Opponent(Opponent(r)) = r
      BY OpponentOfMatched DEF IInv, IsOver
    <3>2. Opponent(r) # p /\ Opponent(r) # q
      BY <1>3, <2>2, <3>1 DEF q
    <3>3. IsOver(r, entry) /\ en[r] = entry[r]
      BY <1>4, <2>2, <3>1, <3>2 DEF IsOver
    <3>4. Heard(r, {entry[r].outcome})
      BY <1>1, <3>3 DEF OutcomesHeard, Hears, Says
    <3> QED
      BY <1>8, <2>2, <3>3, <3>4 DEF Hears
  <2> QED
    BY <2>1, <2>2
<1>13. Follows(sends, status, en)
  <2>1. \A r \in Players : HasEnded(entry[r]) => HasEnded(en[r])
    BY <1>2, <1>4, <1>9
  <2>2. \A r \in Players : IsOver(r, entry) => r # p /\ r # q
    BY <1>2, <1>3 DEF IsOver
  <2> QED
    BY <1>4, <1>8, <2>1, <2>2 DEF Follows
<1>14. Fits(Commanding(p), sends, status, paired, en)
  BY <1>10, <1>11, <1>12, <1>13 DEF Fits, Sound, Actors
<1> QED
  BY <1>14 DEF sends, en, q

-------------------------------------------------------------------------------
(***************************************************************************)
(* Every step.                                                             *)
(***************************************************************************)

\* A transaction that fits, and what its goroutine keeps of it.
LEMMA BeginKeepsInvariant ==
    ASSUME IInv, UNCHANGED <<now, queue, sending, told, lost, announced>>,
           NEW by, NEW sends, NEW st, NEW pd, NEW en,
           Fits(by, sends, st, pd, en), Transact(by, sends, st, pd, en),
           prepared' \in SUBSET Sessions,
           \A s \in prepared' : /\ s \notin paired /\ s \notin pd /\ st[s] \notin Early
                                /\ status[s] \notin Early \/ by = Daemon,
           \A p \in Players : command'[p] = "ended" =>
               command[p] = "ended" \/ (by = Commanding(p) /\ HasEnded(en[p]))
    PROVE  IInv'
<1>1. /\ JoinedOnce' /\ InFlightAreNotes' /\ NowAndToldType'
      /\ (IsFree => tx = NoTx)'
      /\ Committed' /\ Held' /\ RecapsAreDue'
      /\ \/ /\ tx' = tx /\ tx.by = Nobody
            /\ status' = st /\ paired' = pd /\ entry' = en
         \/ /\ UNCHANGED <<status, paired, entry>>
            /\ tx'.by = by /\ by # Nobody
            /\ tx'.status = st /\ tx'.paired = pd /\ tx'.entry = en
  BY TransactKeeps
<1>2. tx.by = Nobody
  BY DEF Transact, IsFree
<1>3. PreparedHaveNoMatch'
  <2>1. CASE tx' = tx /\ status' = st /\ paired' = pd
    BY <1>2, <2>1 DEF PreparedHaveNoMatch, Daemon
  <2>2. CASE /\ UNCHANGED <<status, paired>>
             /\ tx'.by = by /\ tx'.status = st /\ tx'.paired = pd
    BY <2>2 DEF PreparedHaveNoMatch, Daemon
  <2> QED
    BY <1>1, <2>1, <2>2
<1>4. CommandsHaveEnded'
  <2>1. ASSUME NEW p \in Players, command'[p] = "ended"
        PROVE  /\ HasEnded(en[p])
               /\ HasEnded(entry[p]) \/ by = Commanding(p)
    <3>1. CASE command[p] = "ended"
      <4>1. HasEnded(entry[p])
        BY <1>2, <3>1 DEF IInv, CommandsHaveEnded, Nobody, Commanding
      <4> QED
        BY <4>1 DEF Fits, Follows
    <3>2. CASE by = Commanding(p) /\ HasEnded(en[p])
      BY <3>2
    <3> QED
      BY <2>1, <3>1, <3>2
  <2>2. CASE entry' = en
    BY <2>1, <2>2 DEF CommandsHaveEnded
  <2>3. CASE UNCHANGED entry /\ tx'.by = by /\ tx'.entry = en
    BY <2>1, <2>3 DEF CommandsHaveEnded, Commanding
  <2> QED
    BY <1>1, <2>2, <2>3
<1> QED
  BY <1>1, <1>3, <1>4 DEF IInv, IsFree

\* Sessions that were prepared remain so.
LEMMA PreparedWhenFree ==
    ASSUME IInv, IsFree, NEW by, NEW sends, NEW st, NEW pd, NEW en, Fits(by, sends, st, pd, en)
    PROVE  /\ prepared \in SUBSET Sessions
           /\ \A s \in prepared : s \notin paired /\ st[s] \notin Early /\ status[s] \notin Early
  BY DEF IInv, IsFree, PreparedHaveNoMatch, Fits, Follows, Nobody, Daemon

\* A transaction that leaves the sessions prepared and the commands as they are.
LEMMA PlainBeginKeepsInvariant ==
    ASSUME IInv, UNCHANGED <<now, queue, sending, told, lost, announced, prepared>>,
           NEW by, NEW sends, NEW st, NEW en,
           Fits(by, sends, st, paired, en), Transact(by, sends, st, paired, en),
           \A p \in Players : command'[p] = "ended" =>
               command[p] = "ended" \/ (by = Commanding(p) /\ HasEnded(en[p]))
    PROVE  IInv'
<1>1. IsFree
  BY DEF Transact
<1>2. PICK pd : pd = paired
  OBVIOUS
<1> QED
  BY <1>1, <1>2, PreparedWhenFree, BeginKeepsInvariant

\* So does one that only reads.
LEMMA ReadKeepsInvariant ==
    ASSUME IInv, UNCHANGED <<now, queue, sending, told, lost, announced, prepared>>,
           NEW by \in Actors, NEW sends \in Seq(Plain), Read(by, sends),
           \A p \in Players : command'[p] = "ended" => command[p] = "ended"
    PROVE  IInv'
<1>1. IsFree
  BY DEF Read, Transact
<1>2. PICK st, en : st = status /\ en = entry
  OBVIOUS
<1>3. Fits(by, sends, st, paired, en) /\ Transact(by, sends, st, paired, en)
  BY <1>1, <1>2, ReadFits DEF Read
<1> QED
  BY <1>3, PlainBeginKeepsInvariant

\* The daemon's transactions.
LEMMA DaemonTaskKeepsInvariant ==
    ASSUME IInv, closing \in SUBSET Sessions, DaemonTask
    PROVE  IInv'
<1>1. UNCHANGED <<now, command, queue, sending, told, lost, announced>>
  BY DEF DaemonTask, botVars
<1>2. Daemon \in Actors
  BY DEF Actors
<1>3. CASE Create
  <2> DEFINE S == {s \in Sessions : status[s] = "None" /\ Left(s) > 0}
  <2>1. /\ Transact(Daemon, EachOf([s \in S |-> StatusUpdate(s, "Waiting")]),
                    Updated(S, "Waiting"), paired, entry)
        /\ prepared' = prepared
    BY <1>3 DEF Create
  <2>2. S \in SUBSET Sessions /\ \A s \in S : status[s] \in Early
    BY DEF Early
  <2> HIDE DEF S
  <2>3. IsFree
    BY <2>1 DEF Transact
  <2>4. Fits(Daemon, EachOf([s \in S |-> StatusUpdate(s, "Waiting")]), Updated(S, "Waiting"),
             paired, entry)
    BY <2>2, <2>3, UpdateFits
  <2>5. \E sends, st, en : Fits(Daemon, sends, st, paired, en) /\ Transact(Daemon, sends, st, paired, en)
    BY <2>1, <2>4, Zenon
  <2> QED
    BY <1>1, <2>1, <2>5, PlainBeginKeepsInvariant
<1>4. CASE MakeJoinable
  <2> DEFINE S == {s \in Sessions : /\ status[s] = "Waiting"
                                    /\ PreparationAt < Left(s) /\ Left(s) <= JoinableAt}
  <2>1. /\ Transact(Daemon, EachOf([s \in S |-> StatusUpdate(s, "Joinable")]),
                    Updated(S, "Joinable"), paired, entry)
        /\ prepared' = prepared
    BY <1>4 DEF MakeJoinable
  <2>2. S \in SUBSET Sessions /\ \A s \in S : status[s] \in Early
    BY DEF Early
  <2> HIDE DEF S
  <2>3. IsFree
    BY <2>1 DEF Transact
  <2>4. Fits(Daemon, EachOf([s \in S |-> StatusUpdate(s, "Joinable")]), Updated(S, "Joinable"),
             paired, entry)
    BY <2>2, <2>3, UpdateFits
  <2>5. \E sends, st, en : Fits(Daemon, sends, st, paired, en) /\ Transact(Daemon, sends, st, paired, en)
    BY <2>1, <2>4, Zenon
  <2> QED
    BY <1>1, <2>1, <2>5, PlainBeginKeepsInvariant
<1>5. CASE MakePreparing
  <2> DEFINE S == {s \in Sessions : status[s] = "Joinable" /\ 0 < Left(s) /\ Left(s) <= PreparationAt}
             Enough == {s \in S : Len(joined[s]) >= 2}
             says == EachOf([s \in S |-> IF s \in Enough THEN StatusUpdate(s, "Preparing")
                                                         ELSE Empty(s, joined[s])])
             rows == [s \in Sessions |-> IF s \in Enough THEN "Preparing"
                                         ELSE IF s \in S THEN "Closed" ELSE status[s]]
  <2>1. Transact(Daemon, says, rows, paired, entry) /\ prepared' = Enough
    BY <1>5 DEF MakePreparing
  <2>2. /\ S \in SUBSET Sessions /\ Enough \in SUBSET S
        /\ \A s \in S : status[s] = "Joinable"
    OBVIOUS
  <2> HIDE DEF S, Enough
  <2>3. IsFree
    BY <2>1 DEF Transact
  <2>4. Fits(Daemon, says, rows, paired, entry)
    BY <2>2, <2>3, PreparingFits DEF Early
  <2>5. \A s \in Enough : rows[s] \notin Early
    BY <2>2 DEF Early
  <2>6. \A s \in Enough : s \notin paired
    BY <2>2, TablesType DEF Tables, Early
  <2> HIDE DEF says, rows
  <2>7. PICK sends, st, pd, en : /\ Fits(Daemon, sends, st, pd, en)
                                 /\ Transact(Daemon, sends, st, pd, en)
                                 /\ pd = paired /\ st = rows
    BY <2>1, <2>4, Zenon
  <2>8. /\ prepared' \in SUBSET Sessions
        /\ \A s \in prepared' : s \notin paired /\ s \notin pd /\ st[s] \notin Early
    BY <2>1, <2>2, <2>5, <2>6, <2>7
  <2> QED
    BY <1>1, <2>7, <2>8, BeginKeepsInvariant
<1>6. CASE MatchMake
  <2> DEFINE rows == UNION {MatchesOf(s) : s \in prepared}
             says == EachOf([s \in {x \in prepared : Len(joined[x]) % 2 = 1} |->
                                OddKick(s, Last(joined[s]))])
             rooms == [p \in Players |-> IF \E m \in rows : p \in BothOf(m)
                                         THEN NewMatchEntry ELSE entry[p]]
  <2>1. Transact(Daemon, says, status, paired \cup prepared, rooms) /\ prepared' = {}
    BY <1>6 DEF MatchMake
  <2>2. IsFree
    BY <2>1 DEF Transact
  <2>3. Fits(Daemon, says, status, paired \cup prepared, rooms)
    BY <2>2, MatchMakingFits
  <2> HIDE DEF says, rooms
  <2>4. PICK sends, st, pd, en : /\ Fits(Daemon, sends, st, pd, en)
                                 /\ Transact(Daemon, sends, st, pd, en)
    BY <2>1, <2>3, Zenon
  <2> QED
    BY <1>1, <2>1, <2>4, BeginKeepsInvariant
<1>7. CASE StartCountdowns
  <2>1. Read(Daemon, <<>>) /\ prepared' = prepared /\ <<>> \in Seq(Plain)
    BY <1>7 DEF StartCountdowns
  <2> QED
    BY <1>1, <1>2, <2>1, ReadKeepsInvariant
<1>8. CASE CloseSessions
  <2>1. /\ Transact(Daemon, <<>>, Updated(ToEnd, "Closed"), paired, entry)
        /\ prepared' = prepared
    BY <1>8 DEF CloseSessions
  <2>2. Fits(Daemon, <<>>, Updated(ToEnd, "Closed"), paired, entry)
    BY <2>1, ClosingFits DEF Transact
  <2>3. \E sends, st, en : Fits(Daemon, sends, st, paired, en) /\ Transact(Daemon, sends, st, paired, en)
    BY <2>1, <2>2, Zenon
  <2> QED
    BY <1>1, <2>1, <2>3, PlainBeginKeepsInvariant
<1>9. CASE AnnounceClosed
  <2>1. PICK isEmpty \in BOOLEAN :
            Read(Daemon, EachOf([s \in closing |-> StatusUpdate(s, "Closed")
                                                      \o Recap(s, Channel[s], "Public")
                                                      \o LeaderboardUpdate(s, isEmpty)]))
    BY <1>9 DEF AnnounceClosed
  <2> DEFINE says == [s \in closing |-> StatusUpdate(s, "Closed") \o Recap(s, Channel[s], "Public")
                                            \o LeaderboardUpdate(s, isEmpty)]
  <2>2. ASSUME NEW s \in closing
        PROVE  StatusUpdate(s, "Closed") \o Recap(s, Channel[s], "Public")
                   \o LeaderboardUpdate(s, isEmpty) \in Seq(Plain)
    <3>1. /\ StatusUpdate(s, "Closed") \in Seq(Plain)
          /\ LeaderboardUpdate(s, isEmpty) \in Seq(Plain)
          /\ Channel[s] \in Recipients
      BY SessionNotes DEF Statuses
    <3>2. Recap(s, Channel[s], "Public") \in Seq(Plain)
      BY <3>1, RecapIsPlain DEF Scopes
    <3>3. StatusUpdate(s, "Closed") \o Recap(s, Channel[s], "Public") \in Seq(Plain)
      BY <3>1, <3>2, ConcatCollects
    <3> QED
      BY <3>1, <3>3, ConcatCollects
  <2>3. says \in [closing -> Seq(Plain)]
    BY <2>2
  <2> HIDE DEF says
  <2>4. EachOf(says) \in Seq(Plain)
    BY <2>3, LoopAnnounces
  <2>5. Read(Daemon, EachOf(says)) /\ prepared' = prepared
    BY <1>9, <2>1 DEF says, AnnounceClosed
  <2>6. \E sends \in Seq(Plain) : Read(Daemon, sends)
    BY <2>4, <2>5, Zenon
  <2> QED
    BY <1>1, <1>2, <2>5, <2>6, ReadKeepsInvariant
<1> QED
  BY <1>3, <1>4, <1>5, <1>6, <1>7, <1>8, <1>9 DEF DaemonTask

\* The goroutines of the races.
LEMMA RaceStepKeepsInvariant ==
    ASSUME IInv, RaceStep
    PROVE  IInv'
<1> USE DEF RaceStep, daemonVars, botVars
<1>1. PICK s \in Sessions : SayCountdown(s) \/ Elapse(s) \/ SayStartsNow(s) \/ StartSession(s)
  OBVIOUS
<1>2. UNCHANGED <<now, command, queue, sending, told, lost, announced, prepared>>
  OBVIOUS
<1>3. Counting(s) \in Actors /\ GoingLive(s) \in Actors
  BY DEF Actors
<1>4. CASE SayCountdown(s)
  <2>1. Read(Counting(s), Countdown(s)) /\ Countdown(s) \in Seq(Plain)
    BY <1>4, SessionNotes DEF SayCountdown
  <2>2. \E by \in Actors : \E sends \in Seq(Plain) : Read(by, sends)
    BY <1>3, <2>1, Zenon
  <2> QED
    BY <1>2, <2>2, ReadKeepsInvariant
<1>5. CASE Elapse(s)
  BY <1>2, <1>5, QuietStepKeepsInvariant DEF Elapse
<1>6. CASE SayStartsNow(s)
  <2>1. Read(GoingLive(s), StatusUpdate(s, "InProgress"))
    BY <1>6 DEF SayStartsNow
  <2>2. StatusUpdate(s, "InProgress") \in Seq(Plain)
    BY SessionNotes DEF Statuses
  <2>3. \E by \in Actors : \E sends \in Seq(Plain) : Read(by, sends)
    BY <1>3, <2>1, <2>2, Zenon
  <2> QED
    BY <1>2, <2>3, ReadKeepsInvariant
<1>7. CASE StartSession(s)
  <2>1. Transact(Counting(s), <<>>, [status EXCEPT ![s] = "InProgress"], paired,
                 [p \in Players |-> IF s \in paired /\ p \in ToSet(Kept(s))
                                    THEN StartedEntry(entry[p]) ELSE entry[p]])
    BY <1>7 DEF StartSession
  <2>2. Fits(Counting(s), <<>>, [status EXCEPT ![s] = "InProgress"], paired,
             [p \in Players |-> IF s \in paired /\ p \in ToSet(Kept(s))
                                THEN StartedEntry(entry[p]) ELSE entry[p]])
    BY <2>1, StartFits DEF Transact
  <2>3. \E by, sends, st, en : Fits(by, sends, st, paired, en) /\ Transact(by, sends, st, paired, en)
    BY <2>1, <2>2, Zenon
  <2> QED
    BY <1>2, <2>3, PlainBeginKeepsInvariant
<1> QED
  BY <1>1, <1>4, <1>5, <1>6, <1>7

\* The workers that make seeds.
LEMMA SeedStepKeepsInvariant ==
    ASSUME IInv, SeedStep
    PROVE  IInv'
<1> USE DEF SeedStep, daemonVars, botVars
<1>1. PICK m \in Matches : GenerateSeed(m) \/ SendSeed(m)
  OBVIOUS
<1>2. UNCHANGED <<now, tableVars, tx, command, sending, told, lost, prepared>>
  OBVIOUS
<1>3. CASE GenerateSeed(m)
  BY <1>2, <1>3, QuietStepKeepsInvariant DEF GenerateSeed
<1>4. CASE SendSeed(m)
  <2>1. m \in Players /\ Opponent(m) \in Players
    <3>1. PICK s \in Sessions : m \in MatchesOf(s)
      BY DEF Matches
    <3>2. IsMatched(m)
      BY <3>1, BothOfMatch DEF IInv, BothOf
    <3> QED
      BY <3>2, OpponentOfMatched DEF IInv
  <2>2. MatchSeed(m, m) \in Plain /\ MatchSeed(Opponent(m), m) \in Plain
    BY <2>1, NoteIsPlain DEF MatchSeed, Recipients, Abouts, Shows, NotificationTypes
  <2>3. \E n \in Plain : Put(n)
    BY <1>4, <2>2 DEF SendSeed
  <2> QED
    BY <1>2, <2>3, PutKeepsInvariant
<1> QED
  BY <1>1, <1>3, <1>4

\* The player who ends his race has an entry, and the code gives him another.
LEMMA EndRaceKeepsInvariant ==
    ASSUME IInv, UNCHANGED <<now, queue, sending, told, lost, announced, prepared>>,
           NEW p \in Players, NEW e, HasEnded(e),
           entry[Opponent(p)] \in Entries => e \in Entries,
           NEW against, entry[Opponent(p)] \in Entries => against \in Entries,
           against.status = entry[Opponent(p)].status,
           EndRace(p, e, against)
    PROVE  IInv'
<1>1. /\ Unfinished(entry[p]) /\ IsFree
      /\ Transact(Commanding(p), MatchEnds(p, e, against), status, paired,
                  [entry EXCEPT ![p] = e, ![Opponent(p)] = against])
      /\ command' = [command EXCEPT ![p] = "ended"]
  BY DEF EndRace, Transact
<1>2. entry \in [Players -> Entries] /\ Opponent(p) \in Players /\ Opponent(p) # p
  BY <1>1, TablesType, RacerIsMatched DEF Tables, Unfinished, NoEntry
<1>3. e \in Entries /\ against \in Entries
  BY <1>2
<1>4. Fits(Commanding(p), MatchEnds(p, e, against), status, paired,
           [entry EXCEPT ![p] = e, ![Opponent(p)] = against])
  BY <1>1, <1>3, EndRaceFits
<1>5. HasEnded([entry EXCEPT ![p] = e, ![Opponent(p)] = against][p])
  BY <1>2
<1>6. PICK sends, st, en : /\ Fits(Commanding(p), sends, st, paired, en)
                           /\ Transact(Commanding(p), sends, st, paired, en)
                           /\ HasEnded(en[p])
  BY <1>1, <1>4, <1>5, Zenon
<1>7. \A q \in Players : command'[q] = "ended" => command[q] = "ended" \/ q = p
  BY <1>1
<1>8. PICK by : by = Commanding(p)
  OBVIOUS
<1> QED
  BY <1>6, <1>7, <1>8, PlainBeginKeepsInvariant

\* The commands of the players.
LEMMA CommandStepKeepsInvariant ==
    ASSUME IInv, command \in [Players -> {"idle", "ended", "log"}], CommandStep
    PROVE  IInv'
<1> USE DEF CommandStep, daemonVars, botVars
<1>1. PICK p \in Commanders : \/ Forfeit(p) \/ Complete(p)
                              \/ SendPrivateRecap(p) \/ SendSpoilerLog(p)
                              \/ AskRecap(p) \/ AskSeed(p)
  OBVIOUS
<1>2. UNCHANGED <<now, sending, told, lost, prepared>> /\ p \in Players /\ Commanding(p) \in Actors
  BY ChannelAssumption DEF Actors
<1>3. CASE Forfeit(p) \/ Complete(p)
  <2>1. PICK e, against : /\ EndRace(p, e, against)
                          /\ \/ /\ e = Forfeited(entry[Opponent(p)])
                                /\ against = AgainstForfeit(entry[Opponent(p)])
                             \/ /\ e = Completed(entry[Opponent(p)])
                                /\ against = AgainstCompletion(entry[Opponent(p)])
    BY <1>3 DEF Forfeit, Complete
  <2>2. entry[Opponent(p)] \in Entries
    <3>1. entry[p] # NoEntry
      BY <2>1 DEF EndRace, Unfinished, NoEntry
    <3>2. Opponent(p) \in Players
      BY <1>2, <3>1, RacerIsMatched
    <3> QED
      BY <3>2, TablesType DEF Tables
  <2>3. /\ e \in Entries /\ HasEnded(e)
        /\ against \in Entries /\ against.status = entry[Opponent(p)].status
    BY <2>1, <2>2 DEF Forfeited, AgainstForfeit, Completed, AgainstCompletion, HasEnded,
       Entries, EntryStatus, EntryOutcome, Win, Draw, Loss
  <2>4. queue' = queue /\ announced' = announced
    BY <2>1 DEF EndRace
  <2> QED
    BY <1>2, <2>1, <2>3, <2>4, EndRaceKeepsInvariant
<1>4. CASE SendPrivateRecap(p)
  <2>1. /\ command[p] = "ended" /\ IsFree
        /\ Read(Commanding(p), Recap(SessionOf(p), p, "Runner"))
        /\ command' = [command EXCEPT ![p] = "log"]
        /\ UNCHANGED <<queue, announced>>
    BY <1>4 DEF SendPrivateRecap, Read, Transact
  <2>2. HasEnded(entry[p]) /\ entry[p] # NoEntry
    BY <1>2, <2>1 DEF IInv, CommandsHaveEnded, IsFree, Nobody, Commanding, HasEnded, NoEntry
  <2>3. Recap(SessionOf(p), p, "Runner") \in Seq(Plain)
    BY <1>2, <2>2, RacerIsMatched, RecapIsPlain DEF Scopes, Recipients
  <2>4. \E by \in Actors : \E sends \in Seq(Plain) : Read(by, sends)
    BY <1>2, <2>1, <2>3, Zenon
  <2>5. \A q \in Players : command'[q] = "ended" => command[q] = "ended"
    BY <2>1
  <2> QED
    BY <1>2, <2>1, <2>4, <2>5, ReadKeepsInvariant
<1>5. CASE SendSpoilerLog(p)
  <2>1. /\ Put(SpoilerLog(p)) /\ command' = [command EXCEPT ![p] = "idle"]
        /\ UNCHANGED <<tableVars, tx>>
    BY <1>5 DEF SendSpoilerLog
  <2>2. SpoilerLog(p) \in Plain
    BY <1>2, NoteIsPlain DEF SpoilerLog, Recipients, Abouts, NotificationTypes
  <2>3. \E n \in Plain : Put(n)
    BY <2>1, <2>2
  <2>4. \A q \in Players : command'[q] = "ended" => command[q] = "ended"
    BY <2>1
  <2> QED
    BY <1>2, <2>1, <2>3, <2>4, PutKeepsInvariant
<1>6. ASSUME NEW sends, sends \in Seq(Plain), Ask(p, sends)
      PROVE  IInv'
  <2>1. Read(Commanding(p), sends) /\ UNCHANGED <<command, queue, announced>>
    BY <1>6 DEF Ask
  <2>2. \E by \in Actors : \E notes \in Seq(Plain) : Read(by, notes)
    BY <1>2, <1>6, <2>1, Zenon
  <2> QED
    BY <1>2, <2>1, <2>2, ReadKeepsInvariant
<1>7. CASE AskRecap(p)
  <2> DEFINE S == {x \in Sessions : status[x] \in {"InProgress", "Preparing"}}
  <2>1. PICK scope \in {"Public", "Admin"} : Ask(p, EachOf([s \in S |-> Recap(s, p, scope)]))
    BY <1>7 DEF AskRecap
  <2>2. S \in SUBSET Sessions
    OBVIOUS
  <2> HIDE DEF S
  <2> DEFINE says == [s \in S |-> Recap(s, p, scope)]
  <2>3. \A s \in S : Recap(s, p, scope) \in Seq(Plain)
    BY <1>2, <2>2, RecapIsPlain DEF Scopes, Recipients
  <2>4. says \in [S -> Seq(Plain)]
    BY <2>3
  <2> HIDE DEF says
  <2>5. EachOf(says) \in Seq(Plain)
    BY <2>2, <2>4, LoopAnnounces
  <2>6. \E sends : sends \in Seq(Plain) /\ Ask(p, sends)
    BY <2>1, <2>5, Zenon DEF says
  <2> QED
    BY <1>6, <2>6
<1>8. CASE AskSeed(p)
  <2>1. /\ MatchSeed(p, "none") \in Plain /\ MatchSeed(NoRecipient, "none") \in Plain
        /\ SpoilerLog(p) \in Plain
    BY <1>2, NoteIsPlain DEF MatchSeed, SpoilerLog, Recipients, Abouts, NotificationTypes
  <2>2. \E sends : sends \in Seq(Plain) /\ Ask(p, sends)
    <3> DEFINE n1 == MatchSeed(p, "none")
               n2 == MatchSeed(NoRecipient, "none")
               n3 == SpoilerLog(p)
    <3>1. Ask(p, <<n1, n2, n3>>)
      BY <1>8 DEF AskSeed
    <3> HIDE DEF n1, n2, n3
    <3>2. n1 \in Plain /\ n2 \in Plain /\ n3 \in Plain
      BY <2>1 DEF n1, n2, n3
    <3>3. <<n1, n2, n3>> \in Seq(Plain)
      BY <3>2
    <3> QED
      BY <3>1, <3>3, Zenon
  <2> QED
    BY <1>6, <2>2
<1> QED
  BY <1>1, <1>3, <1>4, <1>5, <1>7, <1>8

-------------------------------------------------------------------------------
(***************************************************************************)
(* The rest of the types.                                                  *)
(***************************************************************************)

DaemonTypes == daemon \in DaemonStates /\ closing \in SUBSET Sessions

RaceTypes ==
    /\ count \in [Sessions -> {"none", "counting", "starting", "started"}]
    /\ least \in [Sessions -> Nat]
    /\ go \in [Sessions -> {"none", "pending", "said"}]
    /\ seeds \in [Players -> {"none", "generating", "first", "second", "sent"}]

CommandTypes == command \in [Players -> {"idle", "ended", "log"}]

BotTypes ==
    /\ Len(queue) <= Capacity
    /\ bot \in {"booting", "serving", "left"}
    /\ attempts \in 0..(MaxAttempts - 1)

ProcessTypes ==
    /\ main \in {"serving", "closing", "exited"}
    /\ added \subseteq {Daemon, Bot}
    /\ incidents \in 0..MaxIncidents

Types == DaemonTypes /\ RaceTypes /\ CommandTypes /\ BotTypes /\ ProcessTypes

\* An incident is one of those that may happen.
LEMMA HappensInBounds ==
    ASSUME ProcessTypes, NEW kind, Happens(kind)
    PROVE  incidents' \in 0..MaxIncidents
  BY SessionsAssumption DEF ProcessTypes, Happens

\* The channel is not filled beyond its capacity.
LEMMA PutHasRoom ==
    ASSUME InFlightAreNotes, NEW n \in Notes, Put(n)
    PROVE  Len(queue') <= Capacity
<1>1. PICK q \in Seq(Notes) : q = queue
  BY DEF InFlightAreNotes
<1>2. Len(Append(q, n)) = Len(q) + 1 /\ Len(q) < Capacity /\ Len(q) \in Nat
  BY <1>1 DEF Put
<1> QED
  BY <1>1, <1>2, ChannelAssumption DEF Put

\* The steps of transactions.
LEMMA TransactionKeepsTypes ==
    ASSUME IInv, Types, TxSend \/ TxCommits \/ TxFails
    PROVE  Types'
<1> USE DEF Types, daemonVars, raceVars, botVars, processVars
<1>1. CASE TxSend
  <2>1. PICK t : t = tx
    OBVIOUS
  <2>2. t.by # Nobody
    BY <1>1, <2>1 DEF IInv, TxSend, IsFree, NoTx
  <2>3. t.sends \in Seq(Notes) /\ t.sends # <<>>
    BY <1>1, <2>1, <2>2 DEF IInv, Held, Follows, TxSend
  <2>4. Head(t.sends) \in Notes
    BY <2>3
  <2>5. Len(queue') <= Capacity
    BY <1>1, <2>1, <2>4, PutHasRoom DEF TxSend, IInv
  <2> QED
    BY <1>1, <2>5 DEF TxSend, DaemonTypes, RaceTypes, CommandTypes, BotTypes, ProcessTypes
<1>2. CASE TxCommits
  BY <1>2 DEF TxCommits, DaemonTypes, RaceTypes, CommandTypes, BotTypes, ProcessTypes
<1>3. CASE TxFails
  <2>1. DaemonTypes'
    BY <1>3 DEF TxFails, DaemonTypes, DaemonStates
  <2>2. CommandTypes'
    BY <1>3 DEF TxFails, CommandTypes
  <2>3. ProcessTypes'
    BY <1>3, HappensInBounds DEF TxFails, ProcessTypes
  <2> QED
    BY <1>3, <2>1, <2>2, <2>3 DEF TxFails, RaceTypes, BotTypes
<1> QED
  BY <1>1, <1>2, <1>3

\* The steps of the daemon.
LEMMA DaemonKeepsTypes ==
    ASSUME IInv, Types, DaemonStep
    PROVE  Types'
<1> USE DEF Types, daemonVars, raceVars, botVars, processVars
<1>1. CASE BootDaemon
  BY <1>1 DEF BootDaemon, DaemonTypes, RaceTypes, CommandTypes, BotTypes, ProcessTypes,
     DaemonStates
<1>2. CASE DaemonTask
  <2>1. UNCHANGED <<least, go, command, queue, bot, attempts, main, added, incidents>>
    BY <1>2 DEF DaemonTask
  <2>2. /\ closing' \in SUBSET Sessions
        /\ count' \in [Sessions -> {"none", "counting", "starting", "started"}]
        /\ seeds' \in [Players -> {"none", "generating", "first", "second", "sent"}]
    <3>1. CASE UNCHANGED <<closing, count, seeds>>
      BY <3>1 DEF DaemonTypes, RaceTypes
    <3>2. CASE MatchMake
      BY <3>2 DEF MatchMake, DaemonTypes, RaceTypes
    <3>3. CASE StartCountdowns
      BY <3>3 DEF StartCountdowns, DaemonTypes, RaceTypes
    <3>4. CASE CloseSessions \/ AnnounceClosed
      BY <3>4 DEF CloseSessions, AnnounceClosed, ToEnd, DaemonTypes, RaceTypes
    <3> QED
      BY <1>2, <3>1, <3>2, <3>3, <3>4 DEF DaemonTask, Create, MakeJoinable, MakePreparing
  <2>3. daemon' \in DaemonStates \ {"left"}
    <3>1. daemon \in {"create", "joinable", "prepare", "matchmake", "start", "close", "announce"}
      BY <1>2 DEF DaemonTask, Create, MakeJoinable, MakePreparing, MatchMake,
         StartCountdowns, CloseSessions, AnnounceClosed
    <3>2. daemon' = NextTransaction[daemon]
      BY <1>2 DEF DaemonTask
    <3> QED
      BY <3>1, <3>2 DEF NextTransaction, DaemonStates
  <2> QED
    BY <2>1, <2>2, <2>3 DEF DaemonTypes, RaceTypes, CommandTypes, BotTypes, ProcessTypes
<1>3. CASE DaemonWakes
  BY <1>3 DEF DaemonWakes, DaemonTypes, RaceTypes, CommandTypes, BotTypes, ProcessTypes,
     DaemonStates
<1> QED
  BY <1>1, <1>2, <1>3 DEF DaemonStep

\* The steps of goroutines.
LEMMA GoroutinesKeepTypes ==
    ASSUME IInv, Types, RaceStep \/ SeedStep
    PROVE  Types'
<1> USE DEF Types, daemonVars, raceVars, botVars, processVars
<1>1. CASE RaceStep
  <2>1. PICK s \in Sessions : SayCountdown(s) \/ Elapse(s) \/ SayStartsNow(s) \/ StartSession(s)
    BY <1>1 DEF RaceStep
  <2>2. UNCHANGED <<daemon, closing, seeds, command, queue, bot, attempts, main, added, incidents>>
    BY <1>1 DEF RaceStep
  <2>3. /\ count' \in [Sessions -> {"none", "counting", "starting", "started"}]
        /\ least' \in [Sessions -> Nat]
        /\ go' \in [Sessions -> {"none", "pending", "said"}]
    <3>1. CASE SayCountdown(s)
      <4>1. Due(s) \subseteq Nat
        BY SessionsAssumption DEF Due
      <4> QED
        BY <3>1, <4>1 DEF SayCountdown, RaceTypes
    <3>2. CASE Elapse(s)
      BY <3>2 DEF Elapse, RaceTypes
    <3>3. CASE SayStartsNow(s)
      BY <3>3 DEF SayStartsNow, RaceTypes
    <3>4. CASE StartSession(s)
      BY <3>4 DEF StartSession, RaceTypes
    <3> QED
      BY <2>1, <3>1, <3>2, <3>3, <3>4
  <2> QED
    BY <2>2, <2>3 DEF DaemonTypes, RaceTypes, CommandTypes, BotTypes, ProcessTypes
<1>2. CASE SeedStep
  <2>1. PICK m \in Matches : GenerateSeed(m) \/ SendSeed(m)
    BY <1>2 DEF SeedStep
  <2>2. UNCHANGED <<daemon, closing, count, least, go, command, bot, attempts, main, added>>
    BY <1>2 DEF SeedStep
  <2>3. seeds' \in [Players -> {"none", "generating", "first", "second", "sent"}]
    BY <2>1 DEF GenerateSeed, SendSeed, RaceTypes
  <2>4. incidents' \in 0..MaxIncidents
    BY <2>1, HappensInBounds DEF GenerateSeed, SendSeed, ProcessTypes
  <2>5. Len(queue') <= Capacity
    <3>1. CASE GenerateSeed(m)
      BY <3>1 DEF GenerateSeed, BotTypes
    <3>2. CASE SendSeed(m)
      <4>1. m \in Players /\ Opponent(m) \in Players
        <5>1. PICK s \in Sessions : m \in MatchesOf(s)
          BY DEF Matches
        <5>2. IsMatched(m)
          BY <5>1, BothOfMatch DEF IInv, BothOf
        <5> QED
          BY <5>2, OpponentOfMatched DEF IInv
      <4>2. MatchSeed(m, m) \in Plain /\ MatchSeed(Opponent(m), m) \in Plain
        BY <4>1, NoteIsPlain DEF MatchSeed, Recipients, Abouts, Shows, NotificationTypes
      <4>3. \E n \in Notes : Put(n)
        BY <3>2, <4>2 DEF SendSeed, Plain
      <4> QED
        BY <4>3, PutHasRoom DEF IInv
    <3> QED
      BY <2>1, <3>1, <3>2
  <2> QED
    BY <2>2, <2>3, <2>4, <2>5 DEF DaemonTypes, RaceTypes, CommandTypes, BotTypes, ProcessTypes
<1> QED
  BY <1>1, <1>2

\* The commands.
LEMMA CommandsKeepTypes ==
    ASSUME IInv, Types, CommandStep
    PROVE  Types'
<1> USE DEF Types, daemonVars, raceVars, botVars, processVars
<1>1. PICK p \in Commanders : \/ Forfeit(p) \/ Complete(p)
                              \/ SendPrivateRecap(p) \/ SendSpoilerLog(p)
                              \/ AskRecap(p) \/ AskSeed(p)
  BY DEF CommandStep
<1>2. /\ UNCHANGED <<daemon, closing, count, least, go, seeds, bot, attempts, main, added>>
      /\ p \in Players
  BY ChannelAssumption DEF CommandStep
<1>3. \A sends : Ask(p, sends) => UNCHANGED <<queue, command>> /\ incidents' \in 0..MaxIncidents
  BY HappensInBounds DEF Ask
<1>4. CASE SendSpoilerLog(p)
  <2>1. SpoilerLog(p) \in Plain
    BY <1>2, NoteIsPlain DEF SpoilerLog, Recipients, Abouts, NotificationTypes
  <2>2. Len(queue') <= Capacity
    BY <1>4, <2>1, PutHasRoom DEF SendSpoilerLog, Plain, IInv
  <2> QED
    BY <1>2, <1>4, <2>2 DEF SendSpoilerLog, DaemonTypes, RaceTypes, CommandTypes, BotTypes,
       ProcessTypes
<1>5. CASE Forfeit(p) \/ Complete(p) \/ SendPrivateRecap(p)
  BY <1>2, <1>5 DEF Forfeit, Complete, EndRace, SendPrivateRecap, DaemonTypes, RaceTypes,
     CommandTypes, BotTypes, ProcessTypes
<1>6. CASE AskRecap(p) \/ AskSeed(p)
  <2>1. UNCHANGED <<queue, command>> /\ incidents' \in 0..MaxIncidents
    BY <1>3, <1>6 DEF AskRecap, AskSeed
  <2> QED
    BY <1>2, <2>1 DEF DaemonTypes, RaceTypes, CommandTypes, BotTypes, ProcessTypes
<1> QED
  BY <1>1, <1>4, <1>5, <1>6

\* The bot, the process and time.
LEMMA OthersKeepTypes ==
    ASSUME IInv, Types, BotStep \/ ProcessStep \/ Tick
    PROVE  Types'
<1> USE DEF Types, daemonVars, raceVars, botVars, processVars
<1>1. CASE BotStep
  <2>1. UNCHANGED <<daemon, closing, count, least, go, seeds, command, main>>
    BY <1>1 DEF BotStep
  <2>2. \A n : Posted(n) \/ GivenUp(n) => attempts' \in 0..(MaxAttempts - 1)
    BY ChannelAssumption DEF Posted, GivenUp
  <2>3. \A n : AttemptFails(n) => /\ attempts' \in 0..(MaxAttempts - 1)
                                  /\ incidents' \in 0..MaxIncidents
    BY <2>2, ChannelAssumption, HappensInBounds DEF AttemptFails, BotTypes
  <2>4. CASE BootBot \/ BotLeaves
    BY <2>1, <2>4 DEF BootBot, BotLeaves, DaemonTypes, RaceTypes, CommandTypes, BotTypes,
       ProcessTypes
  <2>5. CASE Take
    <3>1. Len(queue') <= Capacity
      <4>1. PICK q \in Seq(Notes) : q = queue
        BY DEF IInv, InFlightAreNotes
      <4>2. q # <<>> => Len(Tail(q)) <= Len(q)
        OBVIOUS
      <4>3. q # <<>> /\ queue' = Tail(q) /\ Len(q) <= Capacity
        BY <2>5, <4>1 DEF Take, BotTypes
      <4>4. Len(q) \in Nat /\ (q # <<>> => Len(Tail(q)) \in Nat)
        OBVIOUS
      <4> QED
        BY <4>2, <4>3, <4>4, ChannelAssumption
    <3> QED
      BY <2>1, <2>2, <2>3, <2>5, <3>1
         DEF Take, DaemonTypes, RaceTypes, CommandTypes, BotTypes, ProcessTypes
  <2>6. CASE Retry
    BY <2>1, <2>2, <2>3, <2>6
       DEF Retry, DaemonTypes, RaceTypes, CommandTypes, BotTypes, ProcessTypes
  <2> QED
    BY <1>1, <2>4, <2>5, <2>6 DEF BotStep
<1>2. CASE ProcessStep
  BY <1>2 DEF ProcessStep, Signal, Exit, DaemonTypes, RaceTypes, CommandTypes, BotTypes,
     ProcessTypes
<1>3. CASE Tick
  BY <1>3 DEF Tick, DaemonTypes, RaceTypes, CommandTypes, BotTypes, ProcessTypes
<1> QED
  BY <1>1, <1>2, <1>3

-------------------------------------------------------------------------------
(***************************************************************************)
(* The theorems.                                                           *)
(***************************************************************************)

\* At the beginning nothing was said and there is nothing to say.
LEMMA InitHolds == Init => IInv /\ Types
<1> SUFFICES ASSUME Init PROVE IInv /\ Types
  OBVIOUS
<1>1. JoinedOnce /\ InFlightAreNotes /\ NowAndToldType
  BY DEF Init, JoinedOnce, InFlightAreNotes, NowAndToldType
<1>2. (IsFree => tx = NoTx) /\ Held
  BY DEF Init, Held, IsFree, NoTx
<1>3. InFlight = <<>> /\ RecapsAreDue
  BY DEF Init, InFlight, RecapsAreDue, ToSet
<1>4. PreparedHaveNoMatch /\ CommandsHaveEnded
  BY DEF Init, PreparedHaveNoMatch, CommandsHaveEnded
<1>5. Committed
  <2>1. Tables(status, paired, entry)
    BY DEF Init, Tables, Statuses, NoEntry, Entries, EntryStatus, EntryOutcome, Draw, Win, Loss
  <2>2. AreAnnounced(status, paired, announced \cup Said(<<>>))
    BY DEF Init, AreAnnounced
  <2>3. ASSUME NEW p \in Players PROVE ~IsOver(p, entry)
    BY DEF Init, IsOver, HasEnded, NoEntry
  <2> QED
    BY <2>1, <2>2, <2>3 DEF Committed, Sound, OutcomesHeard
<1>6. Types
  <2>1. 0 \in 0..(MaxAttempts - 1) /\ 0 \in 0..MaxIncidents
    BY ChannelAssumption, SessionsAssumption
  <2>2. Len(<<>>) <= Capacity
    BY ChannelAssumption
  <2>3. [s \in Sessions |-> StartLead + 1] \in [Sessions -> Nat]
    BY SessionsAssumption
  <2> QED
    BY <2>1, <2>2, <2>3 DEF Init, Types, DaemonTypes, RaceTypes, CommandTypes, BotTypes,
       ProcessTypes, DaemonStates
<1> QED
  BY <1>1, <1>2, <1>3, <1>4, <1>5, <1>6 DEF IInv

\* Every step of anybody keeps the invariant.
LEMMA NextHolds == IInv /\ Types /\ [Next]_vars => IInv' /\ Types'
<1> SUFFICES ASSUME IInv, Types, [Next]_vars PROVE IInv' /\ Types'
  OBVIOUS
<1>1. closing \in SUBSET Sessions /\ command \in [Players -> {"idle", "ended", "log"}]
  BY DEF Types, DaemonTypes, CommandTypes
<1>2. CASE TxSend \/ TxCommits \/ TxFails
  BY <1>2, SendKeepsInvariant, CommitKeepsInvariant, FailureKeepsInvariant,
     TransactionKeepsTypes
<1>3. CASE DaemonStep
  <2>1. CASE DaemonTask
    BY <1>1, <1>3, <2>1, DaemonTaskKeepsInvariant, DaemonKeepsTypes
  <2>2. CASE BootDaemon \/ DaemonWakes
    <3>1. IInv'
      BY <2>2, QuietStepKeepsInvariant DEF BootDaemon, DaemonWakes, botVars
    <3> QED
      BY <1>3, <3>1, DaemonKeepsTypes
  <2> QED
    BY <1>3, <2>1, <2>2 DEF DaemonStep
<1>4. CASE RaceStep \/ SeedStep
  BY <1>4, RaceStepKeepsInvariant, SeedStepKeepsInvariant, GoroutinesKeepTypes
<1>5. CASE CommandStep
  BY <1>1, <1>5, CommandStepKeepsInvariant, CommandsKeepTypes
<1>6. CASE BotStep
  BY <1>6, BotKeepsInvariant, OthersKeepTypes
<1>7. CASE ProcessStep \/ Tick
  <2>1. IInv'
    BY <1>7, QuietStepKeepsInvariant DEF ProcessStep, Tick, botVars, daemonVars
  <2> QED
    BY <1>7, <2>1, OthersKeepTypes
<1>8. CASE UNCHANGED vars
  <2> USE DEF vars, tableVars, daemonVars, raceVars, botVars, processVars
  <2>1. IInv'
    BY <1>8, QuietStepKeepsInvariant
  <2>2. Types'
    BY <1>8 DEF Types, DaemonTypes, RaceTypes, CommandTypes, BotTypes, ProcessTypes
  <2> QED
    BY <2>1, <2>2
<1> QED
  BY <1>2, <1>3, <1>4, <1>5, <1>6, <1>7, <1>8 DEF Next

\* The invariant holds in every reachable state, although the transaction that is
\* open may be rolled back, after any of its sends, or committed (back.go,
\* transaction).
THEOREM Invariance == Spec => [](IInv /\ Types)
  BY InitHolds, NextHolds, PTL DEF Spec

\* The tables, the channel, the transaction and the goroutines are typed.
THEOREM TypeCorrect == Spec => []TypeOK
<1>1. IInv /\ Types => TypeOK
  <2> SUFFICES ASSUME IInv, Types PROVE TypeOK
    OBVIOUS
  <2>1. /\ joined \in [Sessions -> Entrants] /\ now \in Nat
        /\ told \in [Players -> SUBSET EntryOutcome] /\ lost \subseteq Players
    BY DEF IInv, JoinedOnce, NowAndToldType
  <2>2. /\ status \in [Sessions -> Statuses] /\ paired \in SUBSET Sessions
        /\ entry \in [Players -> Entries]
    BY TablesType DEF Tables
  <2>3. /\ tx.by \in {Nobody} \cup Actors
        /\ \A n \in ToSet(tx.sends) : n.type \in NotificationTypes /\ n.to \in Recipients
    <3>1. CASE tx = NoTx
      BY <3>1 DEF NoTx, ToSet
    <3>2. CASE tx # NoTx
      <4>1. PICK t : t = tx
        OBVIOUS
      <4>2. t \in Txs
        BY <3>2, <4>1 DEF IInv, IsFree, Held
      <4>3. t.by \in Actors /\ t.sends \in Seq(Notes)
        BY <4>2 DEF Txs
      <4> QED
        BY <4>1, <4>3 DEF ToSet, Notes
    <3> QED
      BY <3>1, <3>2
  <2>4. \A n \in ToSet(queue) : n.type \in NotificationTypes /\ n.to \in Recipients
    BY DEF IInv, InFlightAreNotes, ToSet, Notes
  <2>5. sending.to \in Recipients
    BY DEF IInv, InFlightAreNotes, Notes, NoNotification, Recipients
  <2>6. prepared \in SUBSET Sessions
    BY DEF IInv, PreparedHaveNoMatch
  <2> QED
    BY <2>1, <2>2, <2>3, <2>4, <2>5, <2>6
       DEF TypeOK, Types, DaemonTypes, RaceTypes, CommandTypes, BotTypes, ProcessTypes,
           Statuses, Actors
<1> QED
  BY <1>1, Invariance, PTL

\* What is committed has been announced, whatever fails and whenever: the
\* notifications of a transaction of the daemon precede its commit.
THEOREM CommittedIsAlwaysAnnounced == Spec => []CommittedIsAnnounced
<1>1. IInv => CommittedIsAnnounced
  BY TablesType DEF CommittedIsAnnounced
<1> QED
  BY <1>1, Invariance, PTL

\* Nobody reads of a result he may not know yet, nor of one that changes.
THEOREM RecapsAreAlwaysDue == Spec => []RecapsAreDue
<1>1. IInv => RecapsAreDue
  BY DEF IInv
<1> QED
  BY <1>1, Invariance, PTL

\* Both players of a match that is over hear its outcome last, although a
\* transaction that has told them may be rolled back and tried again.
THEOREM LastWordIsAlwaysOutcome == Spec => []LastWordIsOutcome
<1>1. IInv => LastWordIsOutcome
  <2> SUFFICES ASSUME IInv, NEW m \in Matches, \A p \in BothOf(m) : HasEnded(entry[p]),
                      NEW p \in BothOf(m)
               PROVE  \/ LastWord(p) = {entry[p].outcome}
                      \/ EndingsTo(p) = {} /\ p \in lost
    BY DEF LastWordIsOutcome
  <2>1. PICK s \in Sessions : m \in MatchesOf(s)
    BY DEF Matches
  <2>2. IsMatched(p) /\ p \in Players /\ BothOf(m) = {p, Opponent(p)}
    BY <2>1, BothOfMatch DEF IInv
  <2>3. IsOver(p, entry)
    BY <2>2 DEF IsOver
  <2>4. Heard(p, {entry[p].outcome})
    BY <2>2, <2>3, TablesType DEF OutcomesHeard, Hears, Says
  <2> QED
    BY <2>4, InFlightType, LastWordIsHeard DEF IInv
<1> QED
  BY <1>1, Invariance, PTL

===============================================================================
