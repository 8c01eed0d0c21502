\* One app, two environments, the second behind the first, one lock id that may
\* lock an environment, the group, or the app: releases made in any order,
\* deployed, promoted, cleaned up, undeployed and created again; queues made,
\* dropped and left without their release; trains over an environment or the
\* group.  A cleanup keeps Kept - 1 = 1 behind the oldest deployed one.
SPECIFICATION Spec
CONSTANTS
  Apps = {a1}
  Envs = {1, 2}
  Versions = {1, 2, 3}
  LockIds = {l1}
  Groups = {"g"}
  NoGroup = "none"
  Kept = 2
  MaxBatch = 1
  ManifestSets <- EverywhereOfTwo
  NewConfigs <- FirstStage
  InitialConfigs <- TwoStages
  TrainSelections <- AnyApps
INVARIANTS TypeOK LinksAreSafe NoStaleQueue DeployedManifestIsCopied GoneAppLeavesNothing
PROPERTIES LatestReleaseSurvives RollbackWindow LatestEnvNeverMovedBack LockedVersionIsStable ChangesReported
