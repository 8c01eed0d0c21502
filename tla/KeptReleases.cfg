\* One app and one environment that follows the latest of three releases, with
\* two old ones to be kept.
SPECIFICATION Spec
CONSTANTS
  Apps = {a1}
  Envs = {1}
  Versions = {1, 2, 3}
  LockIds = {}
  Groups = {"g"}
  NoGroup = "none"
  Kept = 2
  MaxBatch = 1
  ManifestSets <- JustOne
  NewConfigs <- NoneNew
  InitialConfigs <- OneStage
  TrainSelections <- AllApps
PROPERTIES KeptReleasesStay
