--------------------------- MODULE MCManifestRepo ---------------------------
(* Instances of ManifestRepo for TLC. *)
EXTENDS ManifestRepo

Latest(g) == [latest |-> TRUE, upstream |-> NoEnv, group |-> g]
From(e, g) == [latest |-> FALSE, upstream |-> e, group |-> g]

\* The second environment takes its versions from the first, which has no
\* configuration, and no directory until something is deployed to it or it is
\* created, to follow the latest release.
TwoStages == [e \in {1, 2} |-> IF e = 2 THEN From(1, "g") ELSE EmptyConfig]
FirstStage == [e \in {1, 2} |-> IF e = 1 THEN {Latest("g")} ELSE {}]
\* One environment that follows the latest release.
OneStage == [e \in {1} |-> Latest("g")]

\* A group of two, the first of which is fed by an environment that has neither
\* a configuration nor a directory.
LostUpstream == [e \in {1, 2, 3} |->
  CASE e = 1 -> From(3, "g") [] e = 2 -> Latest("g") [] OTHER -> EmptyConfig]

NoneNew == [e \in {1} |-> {}]
NoneNewOfThree == [e \in {1, 2, 3} |-> {}]
JustOne == {{1}}
EverywhereOfTwo == {{1, 2}}
AllApps == {Apps}
AnyApps == SUBSET Apps
=============================================================================
