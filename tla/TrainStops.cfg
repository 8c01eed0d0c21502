\* A train over a group of two environments, the first of which names an
\* upstream environment that does not exist.
SPECIFICATION Spec
CONSTANTS
  Apps = {a1}
  Envs = {1, 2, 3}
  Versions = {1}
  LockIds = {}
  Groups = {"g"}
  NoGroup = "none"
  Kept = 2
  MaxBatch = 1
  ManifestSets <- JustOne
  NewConfigs <- NoneNewOfThree
  InitialConfigs <- LostUpstream
  TrainSelections <- AllApps
PROPERTIES TrainVisitsAll
