-------------------------------- MODULE Shuffle --------------------------------
(***************************************************************************)
(* The settings of a seed of the Shuffled Settings league, drawn within a  *)
(* budget (internal/generator/oot/settings/settings.go, Shuffle).          *)
(*                                                                         *)
(* A setting has possible values, each with a cost and a weight, which is  *)
(* zero for those that are never drawn, and settings it implies.  Each     *)
(* pass of the loop goes through the settings in an order of its own; a    *)
(* value that may be drawn is drawn or not.                                *)
(***************************************************************************)
EXTENDS Integers

CONSTANTS
    Names,               \* of settings
    Undecided,           \* the absence of a value
    Possible,            \* [Names -> set of [value, cost, implies]] of positive weight,
                         \* where implies is a function from some names to values
    BridgeOf,            \* [Names -> "bridge", "none", or the kind of "bridge_<kind>"]
    BridgeValue,         \* [kinds -> the value "bridge" has for it]
    Zero,                \* the value that turns a kind of bridge off
    Open,                \* values that "bridge" may be given: "open" and "vanilla"
    costMax,             \* SettingsCostBudget (20)
    maxIterations,       \* 1000
    TolerancePeriod      \* iterations that increase the tolerance (100)

ASSUME ShuffleAssumption ==
    /\ costMax \in Nat
    /\ maxIterations \in Nat
    /\ TolerancePeriod \in Nat \ {0}
    /\ \A k \in Names : \A v \in Possible[k] : v.cost \in Nat

IsKind(k) == BridgeOf[k] \notin {"none", "bridge"}

\* What the settings files are written so as to ensure (resources/oot-randomizer,
\* *-shuffled.json).  A value implies other settings than its own and than bridges,
\* and never what another value of positive weight needs of them, unless that one
\* decides the setting of the former or is replaced with it; it gives a setting one
\* of these values only with all that this value implies.
ASSUME ImpliesAssumption ==
    \A k \in Names : \A v \in Possible[k] :
        /\ v.value # Undecided
        /\ \A j \in DOMAIN v.implies :
              j \in Names \ {k} /\ BridgeOf[j] = "none" /\ v.implies[j] # Undecided
        /\ \A l \in Names \ {k} : \A w \in Possible[l] :
              /\ \A j \in DOMAIN v.implies \cap DOMAIN w.implies :
                    \/ v.implies[j] = w.implies[j]
                    \/ k \in DOMAIN w.implies
                    \/ l \in DOMAIN v.implies /\ v.implies[l] # w.value
              /\ l \in DOMAIN v.implies /\ v.implies[l] = w.value =>
                    \A j \in DOMAIN w.implies :
                        j \in DOMAIN v.implies /\ v.implies[j] = w.implies[j]

\* "bridge" is drawn as one of the values handleBridgeSettings takes, none of which
\* is the name of a kind; a kind that is drawn is never off.
ASSUME BridgeAssumption ==
    /\ Zero # Undecided
    /\ \A k \in Names : IsKind(k) =>
          /\ BridgeValue[BridgeOf[k]] # Undecided
          /\ BridgeValue[BridgeOf[k]] \notin Open
          /\ \A v \in Possible[k] : v.value # Zero
    /\ \A k \in Names : BridgeOf[k] = "bridge" => \A v \in Possible[k] : v.value \in Open

VARIABLES
    settings,    \* [Names -> value, or Undecided]
    drawn,       \* the values drawn, as <<name, possible value>>
    costSum,
    iterations,
    tolerance,
    todo         \* settings that this pass has still to go through

shuffleVars == <<settings, drawn, costSum, iterations, tolerance, todo>>

abs(v) == IF v < 0 THEN -v ELSE v

\* The condition of the loop.
Continues == abs(costMax - costSum) > tolerance /\ iterations < maxIterations

Settles_ZeroesNothing(k, v, j) ==
    IF j \in DOMAIN v.implies
    THEN v.implies[j]
    ELSE IF IsKind(k) /\ BridgeOf[j] = "bridge"
    THEN BridgeValue[BridgeOf[k]]
    ELSE settings[j]

\* What drawing value v for setting k makes of another: handleBridgeSettings comes
\* last, and turns off the other kinds of bridge; else what v implies is set,
\* whether or not it was already decided.
Settles(k, v, j) ==
    IF BridgeOf[k] = "bridge" /\ v.value \in Open /\ IsKind(j)
    THEN Zero
    ELSE IF IsKind(k) /\ BridgeOf[j] = "bridge"
    THEN BridgeValue[BridgeOf[k]]
    ELSE IF IsKind(k) /\ IsKind(j) /\ BridgeOf[j] # BridgeOf[k]
    THEN Zero
    ELSE IF j \in DOMAIN v.implies THEN v.implies[j] ELSE settings[j]

\* The budget shrinks as the tolerance grows.
Affordable(v) == costSum + v.cost <= costMax - tolerance

\* The pass goes on with a setting, the last of which ends it: one that is decided
\* is left alone.
DrawSetting(k) ==
    /\ k \in todo
    /\ todo' = todo \ {k}
    /\ \/ UNCHANGED <<settings, drawn, costSum>>
       \/ /\ settings[k] = Undecided
          /\ \E v \in Possible[k] :
                /\ Affordable(v)
                /\ costSum' = costSum + v.cost
                /\ drawn' = drawn \cup {<<k, v>>}
                /\ settings' = [j \in Names |-> IF j = k THEN v.value ELSE Settles(k, v, j)]
    /\ IF todo = {k}
       THEN tolerance' = iterations \div TolerancePeriod /\ iterations' = iterations + 1
       ELSE UNCHANGED <<tolerance, iterations>>

\* Another pass, if the loop continues.
NextPass ==
    /\ todo = {}
    /\ Continues
    /\ todo' = Names
    /\ UNCHANGED <<settings, drawn, costSum, iterations, tolerance>>

ShuffleInit ==
    /\ settings = [k \in Names |-> Undecided]
    /\ drawn = {}
    /\ costSum = 0 /\ iterations = 0 /\ tolerance = 0
    /\ todo = {}

ShuffleNext == NextPass \/ \E k \in Names : DrawSetting(k)

ShuffleSpec == ShuffleInit /\ [][ShuffleNext]_shuffleVars

-------------------------------------------------------------------------------
(***************************************************************************)
(* Properties.                                                             *)
(***************************************************************************)

\* A value that is in effect, and was not overwritten by one drawn after it, has
\* the settings it implies in effect too; and no two kinds of bridge are on
\* (settings.go, Implies and handleBridgeSettings).
SettingsAreCompatible ==
    /\ \A d \in drawn : settings[d[1]] = d[2].value =>
          \A j \in DOMAIN d[2].implies : settings[j] = d[2].implies[j]
    /\ \A j, k \in Names :
          IsKind(j) /\ settings[j] \notin {Undecided, Zero} =>
             /\ IsKind(k) /\ BridgeOf[k] # BridgeOf[j] => settings[k] = Zero
             /\ BridgeOf[k] = "bridge" => settings[k] = BridgeValue[BridgeOf[j]]

\* "a tolerance for going under or over the cost budget if we reach enough
\* iterations": a value that brings the sum within the tolerance of the budget may
\* be drawn (settings.go, Shuffle).
ToleranceGoesBothWays ==
    \A k \in todo : \A v \in Possible[k] :
        settings[k] = Undecided /\ abs(costMax - (costSum + v.cost)) <= tolerance
            => Affordable(v)
===============================================================================
