\* Two deployments of an app to an environment in one request.
SPECIFICATION Spec
CONSTANTS
  Apps = {a1}
  Envs = {1}
  Versions = {1, 2}
  LockIds = {l1}
  Groups = {"g"}
  NoGroup = "none"
  Kept = 1
  MaxBatch = 2
  ManifestSets <- JustOne
  NewConfigs <- NoneNew
  InitialConfigs <- OneStage
  TrainSelections <- AllApps
INVARIANT DeployedManifestIsCopied
