------------------------------ MODULE MCStore ------------------------------
(* One project and its requests in any order, for TLC. *)
EXTENDS WorkbenchStore, TLC

CONSTANTS p1, s1, s2, a1, a2, x, y

OneProject == {p1}
NoScenarios == {}
OneScenario == {s1}
TwoScenarios == {s1, s2}
AnyScenario == Permutations(Scenarios)
InOneProject == [s \in Scenarios |-> p1]
OneAsset == {a1}
TwoAssets == {a1, a2}
AssetHome == [a \in Assets |-> p1]
OneParam == {x}
TwoParams == {x, y}
=============================================================================
