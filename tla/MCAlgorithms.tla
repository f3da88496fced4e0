----------------------------- MODULE MCAlgorithms -----------------------------
(***************************************************************************)
(* Instances of Pairing, Schedules and Shuffle for TLC, each in behaviours *)
(* of its own: the two others stay in one of their initial states.         *)
(***************************************************************************)
EXTENDS Pairing, Schedules, Shuffle

CONSTANTS p1, p2, p3, p4

VARIABLE subject  \* the module that runs

FourPlayers == {p1, p2, p3, p4}
SomeRatings == {0, 1, 4}
SomeDeviations == {0, 1}

\* Days of four hours, weeks of three days; an hour late on the last day of the
\* week in the west is on the first one of the next in UTC.
Zones == [UTC |-> 0, West |-> -2, East |-> 1]

SomeLeagues ==
    {[type |-> "day-of-week", slots |-> s] :
        s \in {{<<0, 1, "UTC">>, <<1, 2, "East">>},
               {<<2, 3, "West">>},
               {<<2, 3, "UTC">>, <<2, 3, "West">>, <<0, 2, "East">>}}}
        \cup {[type |-> "rolling", period |-> 3, offset |-> 0, modulus |-> 2, remainders |-> {1}],
              [type |-> "rolling", period |-> 4, offset |-> 1, modulus |-> 1, remainders |-> {0}],
              [type |-> "none"]}

\* A part of resources/oot-randomizer/shu-shuffled.json: settings that imply one
\* another, and bridges.
NoImplication == [j \in {} |-> ""]

Drawn(value, cost, implies) == [value |-> value, cost |-> cost, implies |-> implies]

ShuffledSettings ==
    [bridge                  |-> {Drawn("open", 1, NoImplication)},
     bridge_medallions       |-> {Drawn("6", 4, NoImplication)},
     bridge_rewards          |-> {Drawn("8", 6, [shuffle_mapcompass |-> "remove"])},
     shuffle_mapcompass      |-> {Drawn("vanilla", 2, NoImplication)},
     item_pool_value         |-> {Drawn("scarce", 4, NoImplication),
                                  Drawn("minimal", 10, [triforce_hunt |-> "false",
                                                        damage_multiplier |-> "normal"])},
     damage_multiplier       |-> {Drawn("double", 3, NoImplication)},
     shuffle_ganon_bosskey   |-> {Drawn("dungeon", 2, [triforce_hunt |-> "false"])},
     triforce_goal_per_world |-> {Drawn("30", 6, [triforce_hunt |-> "true",
                                                  shuffle_ganon_bosskey |-> "remove",
                                                  item_pool_value |-> "balanced"])},
     triforce_hunt           |-> {}]

SettingNames == DOMAIN ShuffledSettings

BridgeKinds ==
    [k \in SettingNames |-> CASE k = "bridge"            -> "bridge"
                              [] k = "bridge_medallions" -> "medallions"
                              [] k = "bridge_rewards"    -> "rewards"
                              [] OTHER                   -> "none"]

ValuesOfBridge == [medallions |-> "medallions", rewards |-> "dungeons"]

OpenBridges == {"open", "vanilla"}

PairingIdle ==
    /\ PairingInit
    /\ rating = [p \in Players |-> 0] /\ deviation = [p \in Players |-> 0]

SchedulesIdle == SchedulesInit /\ schedule = [type |-> "none"]

Init ==
    \/ subject = "pairing" /\ PairingInit /\ SchedulesIdle /\ ShuffleInit
    \/ subject = "schedules" /\ PairingIdle /\ SchedulesInit /\ ShuffleInit
    \/ subject = "shuffle" /\ PairingIdle /\ SchedulesIdle /\ ShuffleInit

Next ==
    /\ UNCHANGED subject
    /\ \/ subject = "pairing" /\ PairingNext /\ UNCHANGED <<scheduleVars, shuffleVars>>
       \/ subject = "schedules" /\ SchedulesNext /\ UNCHANGED <<pairingVars, shuffleVars>>
       \/ subject = "shuffle" /\ ShuffleNext /\ UNCHANGED <<pairingVars, scheduleVars>>

Spec == Init /\ [][Next]_<<subject, pairingVars, scheduleVars, shuffleVars>>
===============================================================================
