---------------------------- MODULE MCCoordinator ----------------------------
(* Two projects, or one, under one scheduler, for TLC. *)
EXTENDS Coordinator

CONSTANTS p1, p2, s1, s2, s3, a1, a2, x

TwoProjects == {p1, p2}
OneProject == {p1}
OneScenario == {s1}
TwoScenarios == {s1, s2}
ThreeScenarios == {s1, s2, s3}
AllOfOne == [s \in Scenarios |-> p1]
\* s1 and s3 share the project p1.
OneEach == [s \in Scenarios |-> IF s = s2 THEN p2 ELSE p1]
AssetHome == [a \in Assets |-> IF a = a2 THEN p2 ELSE p1]
OneAsset == {a1}
TwoAssets == {a1, a2}
OneParam == {x}
SameSignature == [s \in Scenarios |-> "cuda"]
\* s3 waits for its project behind s1, and for its signature behind s2.
ThirdOnCpu == [s \in Scenarios |-> IF s = s3 THEN "cpu" ELSE "cuda"]
EachItsOwn == [s \in Scenarios |-> IF s = s2 THEN "cpu" ELSE "cuda"]
=============================================================================
