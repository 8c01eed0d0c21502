------------------------- MODULE ManifestRepoProofs -------------------------
(***************************************************************************)
(* Proofs about ManifestRepo for all sets of apps, environments, versions  *)
(* and locks: type correctness, and that no "version" symlink dangles.     *)
(***************************************************************************)
EXTENDS ManifestRepo, TLAPS

\* What type correctness says of each variable of the tree.
LEMMA TreeTypes ==
  Tree \in TreeType <=>
    /\ released \in [Apps -> SUBSET Versions]
    /\ manifests \in [Apps -> [Versions -> SUBSET Envs]]
    /\ undeploys \in [Apps -> SUBSET Versions]
    /\ deployed \in [Envs -> [Apps -> Link]]
    /\ manifestFile \in [Envs -> [Apps -> Seq(Versions)]]
    /\ queued \in [Envs -> [Apps -> Link]]
    /\ envLocks \in [Envs -> [LockIds -> LockState]]
    /\ appLocks \in [Envs -> [Apps -> [LockIds -> LockState]]]
    /\ envDirs \in SUBSET Envs
    /\ configFiles \in SUBSET Envs
    /\ config \in [Envs -> Config]
BY DEF Tree, TreeType

\* The same of the next state.
LEMMA TreeTypesNext ==
  Tree' \in TreeType <=>
    /\ released' \in [Apps -> SUBSET Versions]
    /\ manifests' \in [Apps -> [Versions -> SUBSET Envs]]
    /\ undeploys' \in [Apps -> SUBSET Versions]
    /\ deployed' \in [Envs -> [Apps -> Link]]
    /\ manifestFile' \in [Envs -> [Apps -> Seq(Versions)]]
    /\ queued' \in [Envs -> [Apps -> Link]]
    /\ envLocks' \in [Envs -> [LockIds -> LockState]]
    /\ appLocks' \in [Envs -> [Apps -> [LockIds -> LockState]]]
    /\ envDirs' \in SUBSET Envs
    /\ configFiles' \in SUBSET Envs
    /\ config' \in [Envs -> Config]
BY DEF Tree, TreeType

LEMMA InitTypeOK == Init => TypeOK
<1> SUFFICES ASSUME Init PROVE TypeOK
  OBVIOUS
<1> USE ConstantsAssumption
<1>1. Tree \in TreeType
  <2>1. released \in [Apps -> SUBSET Versions] /\ undeploys \in [Apps -> SUBSET Versions]
    BY DEF Init
  <2>2. manifests \in [Apps -> [Versions -> SUBSET Envs]]
    BY DEF Init
  <2>3. deployed \in [Envs -> [Apps -> Link]] /\ queued \in [Envs -> [Apps -> Link]]
    BY DEF Init, Link, NoVersion
  <2>4. manifestFile \in [Envs -> [Apps -> Seq(Versions)]]
    BY DEF Init
  <2>5. envLocks \in [Envs -> [LockIds -> LockState]]
    BY DEF Init, LockState
  <2>6. appLocks \in [Envs -> [Apps -> [LockIds -> LockState]]]
    BY DEF Init, LockState
  <2>7. envDirs \in SUBSET Envs /\ configFiles \in SUBSET Envs
    BY DEF Init
  <2>8. config \in [Envs -> Config]
    BY DEF Init
  <2> QED BY <2>1, <2>2, <2>3, <2>4, <2>5, <2>6, <2>7, <2>8, TreeTypes
<1>2. head \in TreeType /\ cached = {} /\ count = 0 /\ job = NoJob /\ changes = {} /\ unreported = {}
  BY <1>1 DEF Init
<1>3. NoJob \in JobType
  BY DEF NoJob, JobType, Link
<1> QED BY <1>1, <1>2, <1>3 DEF TypeOK

LEMMA RollbackType == TypeOK /\ Rollback => TypeOK'
<1> SUFFICES ASSUME TypeOK, Rollback PROVE TypeOK'
  OBVIOUS
<1> USE ConstantsAssumption
<1>1. head' = head /\ head \in TreeType
  BY DEF TypeOK, Rollback
<1>2. Tree' = [released |-> head.released, manifests |-> head.manifests,
               undeploys |-> head.undeploys, deployed |-> head.deployed,
               manifestFile |-> head.manifestFile, queued |-> head.queued,
               envLocks |-> head.envLocks, appLocks |-> head.appLocks,
               envDirs |-> head.envDirs, configFiles |-> head.configFiles,
               config |-> head.config]
  BY DEF Rollback, Tree
<1>3. Tree' = head
  BY <1>1, <1>2 DEF TreeType
<1>4. NoJob \in JobType
  BY DEF NoJob, JobType, Link
<1> QED BY <1>1, <1>3, <1>4 DEF TypeOK, Rollback

-----------------------------------------------------------------------------
(* Type correctness of the steps that several actions share *)

\* The files that the helpers name are files.
LEMMA FileTypes ==
  ASSUME TypeOK, NEW e \in Envs, NEW a \in Apps
  PROVE  /\ ConfigFiles \subseteq FileIds
         /\ EnvLockFiles(e) \subseteq FileIds
         /\ LockFiles(e, a) \subseteq FileIds
         /\ <<"manifest", e, a>> \in FileIds
<1>1. configFiles \subseteq Envs
  BY TreeTypes DEF TypeOK
<1>2. ConfigFiles \subseteq FileIds
  BY <1>1 DEF ConfigFiles, FileIds
<1>3. EnvLockFiles(e) \subseteq FileIds
  BY DEF EnvLockFiles, HeldEnvLocks, FileIds
<1>4. LockFiles(e, a) \subseteq FileIds
  BY <1>3 DEF LockFiles, HeldAppLocks, FileIds
<1> QED BY <1>2, <1>3, <1>4 DEF FileIds

\* A cleanup leaves the releases well typed.
LEMMA CleanupType ==
  ASSUME TypeOK, NEW e \in Envs, NEW a \in Apps, NEW v \in Versions,
         Cleanup(a, LinksAfter(e, a, v))
  PROVE  /\ released' \in [Apps -> SUBSET Versions]
         /\ manifests' \in [Apps -> [Versions -> SUBSET Envs]]
         /\ undeploys' \in [Apps -> SUBSET Versions]
<1>1. /\ released \in [Apps -> SUBSET Versions]
      /\ manifests \in [Apps -> [Versions -> SUBSET Envs]]
      /\ undeploys \in [Apps -> SUBSET Versions]
  BY TreeTypes DEF TypeOK
<1> DEFINE old == OldReleases(released[a], LinksAfter(e, a, v))
<1>2. /\ released' = [released EXCEPT ![a] = @ \ old]
      /\ manifests' = [manifests EXCEPT ![a] =
                        [w \in Versions |-> IF w \in old THEN {} ELSE @[w]]]
      /\ undeploys' = [undeploys EXCEPT ![a] = @ \ old]
  BY DEF Cleanup
<1> HIDE DEF old
<1>3. [w \in Versions |-> IF w \in old THEN {} ELSE manifests[a][w]] \in [Versions -> SUBSET Envs]
  BY <1>1
<1> QED BY <1>1, <1>2, <1>3

\* So do the "version" link and the manifest copied beside it.
LEMMA LinkReleaseType ==
  ASSUME TypeOK, NEW e \in Envs, NEW a \in Apps, NEW v \in Versions, LinkRelease(e, a, v)
  PROVE  /\ deployed' \in [Envs -> [Apps -> Link]]
         /\ manifestFile' \in [Envs -> [Apps -> Seq(Versions)]]
         /\ envDirs' \in SUBSET Envs
<1>1. /\ deployed \in [Envs -> [Apps -> Link]]
      /\ manifestFile \in [Envs -> [Apps -> Seq(Versions)]]
      /\ envDirs \in SUBSET Envs
  BY TreeTypes DEF TypeOK
<1>2. deployed' \in [Envs -> [Apps -> Link]] /\ envDirs' \in SUBSET Envs
  BY <1>1 DEF LinkRelease, Link
<1>3. manifestFile[e][a] \in Seq(Versions)
  BY <1>1
<1>4. <<v>> \in Seq(Versions) /\ Append(manifestFile[e][a], v) \in Seq(Versions)
  BY <1>3
<1> DEFINE content == IF <<"manifest", e, a>> \in cached THEN Append(manifestFile[e][a], v) ELSE <<v>>
<1>5. content \in Seq(Versions)
  BY <1>4
<1>6. manifestFile' = [manifestFile EXCEPT ![e][a] = content]
  BY DEF LinkRelease
<1> HIDE DEF content
<1>7. manifestFile' \in [Envs -> [Apps -> Seq(Versions)]]
  BY <1>1, <1>5, <1>6
<1> QED BY <1>2, <1>7

LEMMA InstallType ==
  ASSUME TypeOK, NEW e \in Envs, NEW a \in Apps, NEW v \in Versions, Install(e, a, v)
  PROVE  Tree' \in TreeType /\ cached' \subseteq FileIds
<1> USE TreeTypes, TreeTypesNext
<1>1. queued' \in [Envs -> [Apps -> Link]]
  BY DEF TypeOK, Install, Link
<1>2. /\ envLocks' \in [Envs -> [LockIds -> LockState]]
      /\ appLocks' \in [Envs -> [Apps -> [LockIds -> LockState]]]
      /\ configFiles' \in SUBSET Envs
      /\ config' \in [Envs -> Config]
  BY DEF TypeOK, Install, lockVars
<1>3. LinkRelease(e, a, v) /\ Cleanup(a, LinksAfter(e, a, v))
  BY DEF Install
<1>4. cached' \subseteq FileIds
  <2>1. cached' = cached \cup {<<"manifest", e, a>>} \cup ConfigFiles
    BY DEF Install
  <2>2. ConfigFiles \subseteq FileIds /\ <<"manifest", e, a>> \in FileIds
    BY FileTypes
  <2> QED BY <2>1, <2>2 DEF TypeOK
<1>5. /\ released' \in [Apps -> SUBSET Versions]
      /\ manifests' \in [Apps -> [Versions -> SUBSET Envs]]
      /\ undeploys' \in [Apps -> SUBSET Versions]
  BY ONLY TypeOK, e \in Envs, a \in Apps, v \in Versions, <1>3, CleanupType
<1>6. /\ deployed' \in [Envs -> [Apps -> Link]]
      /\ manifestFile' \in [Envs -> [Apps -> Seq(Versions)]]
      /\ envDirs' \in SUBSET Envs
  BY ONLY TypeOK, e \in Envs, a \in Apps, v \in Versions, <1>3, LinkReleaseType
<1> QED BY <1>1, <1>2, <1>4, <1>5, <1>6

LEMMA InstallPartlyType ==
  ASSUME TypeOK, NEW e \in Envs, NEW a \in Apps, NEW v \in Versions, InstallPartly(e, a, v)
  PROVE  Tree' \in TreeType /\ cached' \subseteq FileIds
<1> USE TreeTypes, TreeTypesNext
<1>1. queued' \in [Envs -> [Apps -> Link]]
  BY DEF TypeOK, InstallPartly, Link
<1>2. /\ released' \in [Apps -> SUBSET Versions]
      /\ manifests' \in [Apps -> [Versions -> SUBSET Envs]]
      /\ undeploys' \in [Apps -> SUBSET Versions]
      /\ envLocks' \in [Envs -> [LockIds -> LockState]]
      /\ appLocks' \in [Envs -> [Apps -> [LockIds -> LockState]]]
      /\ configFiles' \in SUBSET Envs
      /\ config' \in [Envs -> Config]
  BY DEF TypeOK, InstallPartly, lockVars, releaseVars
<1>3. LinkRelease(e, a, v)
  BY DEF InstallPartly
<1>4. cached' \subseteq FileIds
  BY FileTypes DEF TypeOK, InstallPartly
<1> QED BY <1>1, <1>2, <1>3, <1>4, LinkReleaseType

LEMMA QueueType ==
  ASSUME TypeOK, NEW e \in Envs, NEW a \in Apps, NEW v \in Versions, Queue(e, a, v)
  PROVE  Tree' \in TreeType /\ cached' \subseteq FileIds
<1> USE TreeTypes, TreeTypesNext
<1>1. queued' \in [Envs -> [Apps -> Link]] /\ envDirs' \in SUBSET Envs
  BY DEF TypeOK, Queue, Link
<1>2. /\ released' \in [Apps -> SUBSET Versions]
      /\ manifests' \in [Apps -> [Versions -> SUBSET Envs]]
      /\ undeploys' \in [Apps -> SUBSET Versions]
      /\ deployed' \in [Envs -> [Apps -> Link]]
      /\ manifestFile' \in [Envs -> [Apps -> Seq(Versions)]]
      /\ envLocks' \in [Envs -> [LockIds -> LockState]]
      /\ appLocks' \in [Envs -> [Apps -> [LockIds -> LockState]]]
      /\ configFiles' \in SUBSET Envs
      /\ config' \in [Envs -> Config]
  BY DEF TypeOK, Queue, lockVars, releaseVars
<1>3. cached' \subseteq FileIds
  BY FileTypes DEF TypeOK, Queue
<1> QED BY <1>1, <1>2, <1>3

\* The rest of the state after a transformer that returns.
LEMMA FinishType ==
  ASSUME TypeOK, Ready, count' = count + 1, UNCHANGED <<head, job, unreported>>,
         Tree' \in TreeType, cached' \subseteq FileIds, changes' \subseteq AppEnvs
  PROVE  TypeOK'
<1>1. count' \in 0 .. MaxBatch
  BY ConstantsAssumption DEF TypeOK, Ready
<1> QED BY <1>1 DEF TypeOK

\* The rest of the state after a step of a loop.
LEMMA JobStepType ==
  ASSUME TypeOK, UNCHANGED <<head, count, changes, unreported>>, job' \in JobType,
         Tree' \in TreeType, cached' \subseteq FileIds
  PROVE  TypeOK'
BY DEF TypeOK

LEMMA TreeUnchangedType ==
  ASSUME TypeOK, UNCHANGED treeVars
  PROVE  Tree' \in TreeType
BY DEF TypeOK, treeVars, releaseVars, deployVars, lockVars, envVars, Tree

-----------------------------------------------------------------------------
(* Type correctness of each action *)

LEMMA CommitType == ASSUME TypeOK, Commit PROVE TypeOK'
<1>1. Tree' \in TreeType
  BY TreeUnchangedType DEF Commit
<1>2. head' \in TreeType
  BY DEF TypeOK, Commit
<1>3. cached' = {} /\ count' = 0 /\ changes' = {} /\ unreported' = {} /\ job' = job
  BY DEF Commit
<1> QED BY <1>1, <1>2, <1>3, ConstantsAssumption DEF TypeOK

LEMMA DeployType ==
  ASSUME TypeOK, NEW e \in Envs, NEW a \in Apps, NEW v \in Versions, NEW b,
         DeployApplicationVersion(e, a, v, b)
  PROVE  TypeOK'
<1>1. CASE Rollback
  BY <1>1, RollbackType
<1>2. CASE Queue(e, a, v) /\ Finish({})
  BY <1>2, QueueType, FinishType DEF DeployApplicationVersion, Finish, TypeOK
<1>3. CASE Install(e, a, v) /\ Finish({AppEnv(a, e)})
  <2>1. changes' \subseteq AppEnvs
    BY <1>3 DEF Finish, TypeOK, AppEnvs, AppEnv
  <2> QED BY <1>3, <2>1, InstallType, FinishType DEF DeployApplicationVersion, Finish
<1> QED BY <1>1, <1>2, <1>3 DEF DeployApplicationVersion

LEMMA AddReleaseType ==
  ASSUME TypeOK, NEW a \in Apps, NEW v \in Versions,
         NEW STATE M, M \in SUBSET Envs, NEW STATE T, T \in SUBSET Envs,
         AddRelease(a, v, M, T), undeploys' \in [Apps -> SUBSET Versions]
  PROVE  TypeOK'
<1> USE TreeTypes, TreeTypesNext
<1>1. released' \in [Apps -> SUBSET Versions] /\ manifests' \in [Apps -> [Versions -> SUBSET Envs]]
  BY DEF TypeOK, AddRelease
<1>2. Tree' \in TreeType
  BY <1>1 DEF TypeOK, AddRelease, deployVars, lockVars, envVars
<1>3. ConfigFiles \subseteq FileIds
  BY DEF TypeOK, ConfigFiles, FileIds
<1>4. job' \in JobType
  BY DEF AddRelease, NoJob, JobType, Link
<1>5. changes' \subseteq AppEnvs
  BY TreeTypes DEF AddRelease, TypeOK, AppEnvs, AppEnv
<1> QED BY <1>2, <1>3, <1>4, <1>5 DEF AddRelease, TypeOK

LEMMA CreateApplicationVersionType ==
  ASSUME TypeOK, NEW a \in Apps, NEW r, NEW v \in Versions, NEW M \in ManifestSets,
         CreateApplicationVersion(a, r, v, M)
  PROVE  TypeOK'
<1>1. CASE Rollback
  BY <1>1, RollbackType
<1>2. CASE ~Rollback
  <2> DEFINE T == IF IsLatest(a, v) THEN M \cap LatestEnvs ELSE {}
  <2>1. AddRelease(a, v, M, T) /\ UNCHANGED undeploys
    BY <1>2 DEF CreateApplicationVersion
  <2>2. M \in SUBSET Envs /\ T \in SUBSET Envs
    BY ConstantsAssumption
  <2>3. undeploys' \in [Apps -> SUBSET Versions]
    BY <2>1, TreeTypes DEF TypeOK
  <2> HIDE DEF T
  <2> QED BY <2>1, <2>2, <2>3, AddReleaseType
<1> QED BY <1>1, <1>2

LEMMA CreateUndeployType ==
  ASSUME TypeOK, NEW a \in Apps, NEW v \in Versions, CreateUndeployApplicationVersion(a, v)
  PROVE  TypeOK'
<1>1. AddRelease(a, v, envDirs, LatestEnvs)
  BY DEF CreateUndeployApplicationVersion
<1>2. envDirs \in SUBSET Envs /\ LatestEnvs \in SUBSET Envs
  BY TreeTypes DEF TypeOK, LatestEnvs
<1>3. undeploys' \in [Apps -> SUBSET Versions]
  BY TreeTypes DEF TypeOK, CreateUndeployApplicationVersion
<1> QED BY <1>1, <1>2, <1>3, AddReleaseType

LEMMA DeployLatestType ==
  ASSUME TypeOK, NEW e \in Envs, NEW a \in Apps, DeployLatest(e, a), job.version \in Versions
  PROVE  TypeOK'
<1>1. CASE Rollback
  BY <1>1, RollbackType
<1>2. CASE ~Rollback
  <2>1. job' \in JobType /\ UNCHANGED <<head, count, changes, unreported>>
    BY <1>2 DEF DeployLatest, TypeOK, JobType
  <2>2. \/ Queue(e, a, job.version)
        \/ Install(e, a, job.version)
    BY <1>2 DEF DeployLatest
  <2>3. Tree' \in TreeType /\ cached' \subseteq FileIds
    BY <2>2, QueueType, InstallType
  <2> QED BY <2>1, <2>3, JobStepType
<1> QED BY <1>1, <1>2

LEMMA EndJobType ==
  ASSUME TypeOK, EndJob, count < MaxBatch PROVE TypeOK'
<1>1. Tree' \in TreeType
  BY TreeUnchangedType DEF EndJob
<1>2. count' \in 0 .. MaxBatch
  BY ConstantsAssumption DEF EndJob, TypeOK
<1>3. changes' \subseteq AppEnvs /\ job' \in JobType
  BY DEF EndJob, TypeOK, JobType, NoJob, Link
<1> QED BY <1>1, <1>2, <1>3 DEF EndJob, TypeOK

LEMMA UndeployType ==
  ASSUME TypeOK, NEW a \in Apps, UndeployApplication(a) PROVE TypeOK'
<1>1. CASE Rollback
  BY <1>1, RollbackType
<1>2. CASE ~Rollback
  <2> USE TreeTypes, TreeTypesNext
  <2>0. /\ released' = [released EXCEPT ![a] = {}]
        /\ manifests' = [manifests EXCEPT ![a] = [v \in Versions |-> {}]]
        /\ undeploys' = [undeploys EXCEPT ![a] = {}]
        /\ deployed' = [e \in Envs |-> [deployed[e] EXCEPT ![a] = NoVersion]]
        /\ manifestFile' = [e \in Envs |-> [manifestFile[e] EXCEPT ![a] = <<>>]]
        /\ queued' = [e \in Envs |-> [queued[e] EXCEPT ![a] = NoVersion]]
        /\ appLocks' = [e \in Envs |-> [appLocks[e] EXCEPT ![a] = [l \in LockIds |-> "free"]]]
    BY <1>2 DEF UndeployApplication, WithoutApp
  <2>1. released' \in [Apps -> SUBSET Versions] /\ undeploys' \in [Apps -> SUBSET Versions]
    BY ONLY TypeOK, <2>0, TreeTypes DEF TypeOK
  <2>2. manifests' \in [Apps -> [Versions -> SUBSET Envs]]
    <3>1. [v \in Versions |-> {}] \in [Versions -> SUBSET Envs]
      OBVIOUS
    <3> QED BY ONLY TypeOK, <2>0, <3>1, TreeTypes DEF TypeOK
  <2>3. deployed' \in [Envs -> [Apps -> Link]]
    <3>1. deployed \in [Envs -> [Apps -> Link]] /\ NoVersion \in Link
      BY DEF TypeOK, Link
    <3> QED BY ONLY <2>0, <3>1
  <2>4. queued' \in [Envs -> [Apps -> Link]]
    <3>1. queued \in [Envs -> [Apps -> Link]] /\ NoVersion \in Link
      BY DEF TypeOK, Link
    <3> QED BY ONLY <2>0, <3>1
  <2>5. manifestFile' \in [Envs -> [Apps -> Seq(Versions)]]
    <3>1. manifestFile \in [Envs -> [Apps -> Seq(Versions)]]
      BY DEF TypeOK
    <3>2. <<>> \in Seq(Versions)
      OBVIOUS
    <3> QED BY ONLY <2>0, <3>1, <3>2
  <2>6. appLocks' \in [Envs -> [Apps -> [LockIds -> LockState]]]
    <3>1. appLocks \in [Envs -> [Apps -> [LockIds -> LockState]]]
      BY DEF TypeOK
    <3>2. [l \in LockIds |-> "free"] \in [LockIds -> LockState]
      BY DEF LockState
    <3> QED BY ONLY <2>0, <3>1, <3>2
  <2>7. Tree' \in TreeType
    BY <1>2, <2>1, <2>2, <2>3, <2>4, <2>5, <2>6 DEF UndeployApplication, TypeOK, envVars
  <2>8. cached' \subseteq FileIds
    <3>1. cached' \subseteq cached \cup ConfigFiles
      BY <1>2 DEF UndeployApplication
    <3>2. ConfigFiles \subseteq FileIds
      BY DEF TypeOK, ConfigFiles, FileIds
    <3> QED BY ONLY <3>1, <3>2, TypeOK DEF TypeOK
  <2>9. changes' \subseteq AppEnvs
    BY <1>2 DEF UndeployApplication, Finish, TypeOK, AppEnvs, AppEnv
  <2> QED BY ONLY TypeOK, <1>2, UndeployApplication(a), <2>7, <2>8, <2>9, FinishType
          DEF UndeployApplication, Finish
<1> QED BY <1>1, <1>2

LEMMA DeleteEnvFromAppType ==
  ASSUME TypeOK, NEW e \in Envs, NEW a \in Apps, DeleteEnvFromApp(e, a) PROVE TypeOK'
<1> USE TreeTypes, TreeTypesNext
<1>1. deployed' \in [Envs -> [Apps -> Link]] /\ queued' \in [Envs -> [Apps -> Link]]
  BY DEF DeleteEnvFromApp, TypeOK, Link
<1>2. manifestFile' \in [Envs -> [Apps -> Seq(Versions)]]
  BY DEF DeleteEnvFromApp, TypeOK
<1>3. appLocks' \in [Envs -> [Apps -> [LockIds -> LockState]]]
  BY DEF DeleteEnvFromApp, TypeOK, LockState
<1>4. Tree' \in TreeType
  BY <1>1, <1>2, <1>3 DEF DeleteEnvFromApp, TypeOK, releaseVars, envVars
<1>5. cached' \subseteq FileIds /\ changes' \subseteq AppEnvs
  BY DEF DeleteEnvFromApp, Finish, TypeOK, AppEnvs, AppEnv
<1> QED BY ONLY TypeOK, DeleteEnvFromApp(e, a), <1>4, <1>5, FinishType
        DEF DeleteEnvFromApp, Finish

-----------------------------------------------------------------------------
LEMMA CreateEnvLocksType ==
  ASSUME TypeOK, NEW STATE E, E \in SUBSET Envs, NEW l \in LockIds, CreateEnvLocks(E, l)
  PROVE  Tree' \in TreeType /\ changes' \subseteq AppEnvs
<1> USE TreeTypes, TreeTypesNext
<1>1. envLocks' \in [Envs -> [LockIds -> LockState]]
  BY DEF CreateEnvLocks, TypeOK, LockAfterCreate, LockState
<1> QED BY <1>1 DEF CreateEnvLocks, Finish, TypeOK, releaseVars, deployVars, envVars

LEMMA CreateEnvironmentLockType ==
  ASSUME TypeOK, NEW e \in Envs, NEW l \in LockIds, CreateEnvironmentLock(e, l)
  PROVE  TypeOK'
<1>1. CASE Rollback
  BY <1>1, RollbackType
<1>2. CASE ~Rollback
  <2>1. CreateEnvLocks({e}, l) /\ cached' = cached \cup {<<"envLock", e, l>>}
    BY <1>2 DEF CreateEnvironmentLock
  <2>2. cached' \subseteq FileIds
    BY <2>1 DEF TypeOK, FileIds
  <2>3. Tree' \in TreeType /\ changes' \subseteq AppEnvs
    BY <2>1, CreateEnvLocksType
  <2> QED BY ONLY TypeOK, CreateEnvironmentLock(e, l), <2>1, <2>2, <2>3, FinishType
          DEF CreateEnvironmentLock, CreateEnvLocks, Finish
<1> QED BY <1>1, <1>2

LEMMA CreateEnvironmentGroupLockType ==
  ASSUME TypeOK, NEW g, NEW l \in LockIds, CreateEnvironmentGroupLock(g, l)
  PROVE  TypeOK'
<1>1. CASE Rollback
  BY <1>1, RollbackType
<1>2. CASE ~Rollback
  <2>1. EnvGroup(g) \in SUBSET Envs
    BY TreeTypes DEF TypeOK, EnvGroup
  <2>2. /\ CreateEnvLocks(EnvGroup(g), l)
        /\ cached' = cached \cup ConfigFiles \cup {<<"envLock", e, l>> : e \in EnvGroup(g)}
    BY <1>2 DEF CreateEnvironmentGroupLock
  <2>3. cached' \subseteq FileIds
    BY <2>1, <2>2, TreeTypes DEF TypeOK, ConfigFiles, FileIds
  <2>4. Tree' \in TreeType /\ changes' \subseteq AppEnvs
    BY <2>1, <2>2, CreateEnvLocksType
  <2> QED BY ONLY TypeOK, CreateEnvironmentGroupLock(g, l), <2>2, <2>3, <2>4, FinishType
          DEF CreateEnvironmentGroupLock, CreateEnvLocks, Finish
<1> QED BY <1>1, <1>2

LEMMA CreateEnvironmentApplicationLockType ==
  ASSUME TypeOK, NEW e \in Envs, NEW a \in Apps, NEW l \in LockIds,
         CreateEnvironmentApplicationLock(e, a, l)
  PROVE  TypeOK'
<1>1. CASE Rollback
  BY <1>1, RollbackType
<1>2. CASE ~Rollback
  <2> USE TreeTypes, TreeTypesNext
  <2>1. appLocks' \in [Envs -> [Apps -> [LockIds -> LockState]]]
    <3> DEFINE state == LockAfterCreate(appLocks[e][a][l], <<"appLock", e, a, l>>)
    <3>1. appLocks' = [appLocks EXCEPT ![e][a][l] = state]
      BY <1>2 DEF CreateEnvironmentApplicationLock
    <3>2. state \in LockState
      BY DEF LockAfterCreate, LockState
    <3>3. appLocks \in [Envs -> [Apps -> [LockIds -> LockState]]]
      BY DEF TypeOK
    <3> HIDE DEF state
    <3> QED BY ONLY <3>1, <3>2, <3>3
  <2>2. Tree' \in TreeType
    BY <1>2, <2>1 DEF CreateEnvironmentApplicationLock, TypeOK, releaseVars, deployVars, envVars
  <2>3. cached' \subseteq FileIds /\ changes' \subseteq AppEnvs
    BY <1>2 DEF CreateEnvironmentApplicationLock, Finish, TypeOK, FileIds
  <2> QED BY ONLY TypeOK, CreateEnvironmentApplicationLock(e, a, l), <1>2, <2>2, <2>3, FinishType
          DEF CreateEnvironmentApplicationLock, Finish
<1> QED BY <1>1, <1>2

\* What is left of a queue has the type of a link.
LEMMA AfterProcessQueueType ==
  ASSUME TypeOK, NEW e \in Envs, NEW a \in Apps
  PROVE  AfterProcessQueue(e, a) \in Link
BY TreeTypes DEF TypeOK, AfterProcessQueue, Link

LEMMA DeleteEnvLocksType ==
  ASSUME TypeOK, NEW STATE E, E \in SUBSET Envs, NEW l \in LockIds, DeleteEnvLocks(E, l)
  PROVE  Tree' \in TreeType /\ changes' \subseteq AppEnvs
<1> USE TreeTypes, TreeTypesNext
<1>1. envLocks' \in [Envs -> [LockIds -> LockState]]
  BY DEF DeleteEnvLocks, TypeOK, LockState
<1>2. queued' \in [Envs -> [Apps -> Link]]
  BY AfterProcessQueueType DEF DeleteEnvLocks, TypeOK
<1> QED BY <1>1, <1>2 DEF DeleteEnvLocks, Finish, TypeOK, releaseVars, envVars

LEMMA DeleteEnvironmentLockType ==
  ASSUME TypeOK, NEW e \in Envs, NEW l \in LockIds, DeleteEnvironmentLock(e, l)
  PROVE  TypeOK'
<1>1. CASE Rollback
  BY <1>1, RollbackType
<1>2. CASE ~Rollback
  <2>1. DeleteEnvLocks({e}, l) /\ cached' = cached \ {<<"envLock", e, l>>}
    BY <1>2 DEF DeleteEnvironmentLock
  <2>2. cached' \subseteq FileIds
    BY <2>1 DEF TypeOK
  <2>3. Tree' \in TreeType /\ changes' \subseteq AppEnvs
    BY <2>1, DeleteEnvLocksType
  <2> QED BY ONLY TypeOK, DeleteEnvironmentLock(e, l), <2>1, <2>2, <2>3, FinishType
          DEF DeleteEnvironmentLock, DeleteEnvLocks, Finish
<1> QED BY <1>1, <1>2

LEMMA DeleteEnvironmentGroupLockType ==
  ASSUME TypeOK, NEW g, NEW l \in LockIds, DeleteEnvironmentGroupLock(g, l)
  PROVE  TypeOK'
<1>1. CASE Rollback
  BY <1>1, RollbackType
<1>2. CASE ~Rollback
  <2>1. EnvGroup(g) \in SUBSET Envs
    BY TreeTypes DEF TypeOK, EnvGroup
  <2>2. DeleteEnvLocks(EnvGroup(g), l) /\ cached' \subseteq cached \cup ConfigFiles
    BY <1>2 DEF DeleteEnvironmentGroupLock
  <2>3. cached' \subseteq FileIds
    BY <2>2, TreeTypes DEF TypeOK, ConfigFiles, FileIds
  <2>4. Tree' \in TreeType /\ changes' \subseteq AppEnvs
    BY <2>1, <2>2, DeleteEnvLocksType
  <2> QED BY ONLY TypeOK, DeleteEnvironmentGroupLock(g, l), <2>2, <2>3, <2>4, FinishType
          DEF DeleteEnvironmentGroupLock, DeleteEnvLocks, Finish
<1> QED BY <1>1, <1>2

LEMMA DeleteEnvironmentApplicationLockType ==
  ASSUME TypeOK, NEW e \in Envs, NEW a \in Apps, NEW l \in LockIds,
         DeleteEnvironmentApplicationLock(e, a, l)
  PROVE  TypeOK'
<1>1. CASE Rollback
  BY <1>1, RollbackType
<1>2. CASE ~Rollback
  <2> USE TreeTypes, TreeTypesNext
  <2>1. appLocks' \in [Envs -> [Apps -> [LockIds -> LockState]]]
    <3>1. appLocks' = [appLocks EXCEPT ![e][a][l] = "free"]
      BY <1>2 DEF DeleteEnvironmentApplicationLock
    <3>2. "free" \in LockState /\ appLocks \in [Envs -> [Apps -> [LockIds -> LockState]]]
      BY DEF TypeOK, LockState
    <3> QED BY ONLY <3>1, <3>2
  <2>2. queued' \in [Envs -> [Apps -> Link]]
    <3>1. queued' = [queued EXCEPT ![e][a] = AfterProcessQueue(e, a)]
      BY <1>2 DEF DeleteEnvironmentApplicationLock
    <3>2. AfterProcessQueue(e, a) \in Link /\ queued \in [Envs -> [Apps -> Link]]
      BY AfterProcessQueueType DEF TypeOK
    <3> QED BY ONLY <3>1, <3>2
  <2>3. Tree' \in TreeType
    BY <1>2, <2>1, <2>2 DEF DeleteEnvironmentApplicationLock, TypeOK, releaseVars, envVars
  <2>4. cached' \subseteq FileIds /\ changes' \subseteq AppEnvs
    BY <1>2 DEF DeleteEnvironmentApplicationLock, Finish, TypeOK
  <2> QED BY ONLY TypeOK, DeleteEnvironmentApplicationLock(e, a, l), <1>2, <2>3, <2>4, FinishType
          DEF DeleteEnvironmentApplicationLock, Finish
<1> QED BY <1>1, <1>2

LEMMA CreateEnvironmentType ==
  ASSUME TypeOK, NEW e \in Envs, NEW c \in NewConfigs[e], CreateEnvironment(e, c)
  PROVE  TypeOK'
<1> USE TreeTypes, TreeTypesNext
<1>1. config' \in [Envs -> Config]
  BY ConstantsAssumption DEF CreateEnvironment, TypeOK
<1>2. envDirs' \in SUBSET Envs /\ configFiles' \in SUBSET Envs
  BY DEF CreateEnvironment, TypeOK
<1>3. Tree' \in TreeType
  BY <1>1, <1>2 DEF CreateEnvironment, TypeOK, releaseVars, deployVars, lockVars
<1>4. cached' \subseteq FileIds /\ changes' \subseteq AppEnvs
  BY DEF CreateEnvironment, Finish, TypeOK, FileIds
<1> QED BY ONLY TypeOK, CreateEnvironment(e, c), <1>3, <1>4, FinishType
        DEF CreateEnvironment, Finish

LEMMA ReleaseTrainType ==
  ASSUME TypeOK, NEW T \in SUBSET Envs, NEW S \in SUBSET Apps, NEW team \in BOOLEAN,
         ReleaseTrain(T, S, team)
  PROVE  TypeOK'
<1>1. Tree' \in TreeType
  BY TreeUnchangedType DEF ReleaseTrain
<1>2. cached' \subseteq FileIds
  BY TreeTypes DEF ReleaseTrain, TypeOK, ConfigFiles, FileIds
<1>3. job' \in JobType
  BY DEF ReleaseTrain, NoJob, JobType, Link
<1> QED BY <1>1, <1>2, <1>3, JobStepType DEF ReleaseTrain

LEMMA StopTrainType ==
  ASSUME TypeOK, StopTrain, count < MaxBatch PROVE TypeOK'
<1>1. count' \in 0 .. MaxBatch
  BY ConstantsAssumption DEF TypeOK, StopTrain
<1>2. NoJob \in JobType
  BY DEF NoJob, JobType, Link
<1>3. Tree' \in TreeType
  BY TreeUnchangedType DEF StopTrain
<1>4. unreported' \subseteq AppEnvs
  BY DEF StopTrain, TypeOK, JobType
<1> QED BY <1>1, <1>2, <1>3, <1>4 DEF TypeOK, StopTrain

\* What a train does when it reaches an environment, by its effect.
LEMMA TrainEnvironmentCases ==
  ASSUME NEW e \in Envs, TrainEnvironment(e), ~Rollback
  PROVE  \/ StopTrain
         \/ /\ UNCHANGED <<treeVars, head, count, changes, unreported>>
            /\ cached' = cached \/ cached' = cached \cup EnvLockFiles(e)
            /\ \/ job' = SkipEnv(e)
               \/ \E apps \in SUBSET Apps : apps # {} /\ job' = [job EXCEPT !.apps = apps]
<1>1. \A S \in SourceApps(config[e]) : S \subseteq Apps
  BY DEF SourceApps
<1>2. ASSUME NEW apps \in SourceApps(config[e]),
             job' = IF apps = {} THEN SkipEnv(e) ELSE [job EXCEPT !.apps = apps]
      PROVE  \/ job' = SkipEnv(e)
             \/ \E S \in SUBSET Apps : S # {} /\ job' = [job EXCEPT !.apps = S]
  BY <1>1, <1>2
<1> QED BY <1>2 DEF TrainEnvironment

LEMMA TrainEnvironmentType ==
  ASSUME TypeOK, NEW e \in Envs, TrainEnvironment(e), count < MaxBatch
  PROVE  TypeOK'
<1>1. CASE Rollback
  BY <1>1, RollbackType
<1>2. CASE StopTrain
  BY <1>2, StopTrainType
<1>3. CASE ~Rollback /\ ~StopTrain
  <2>1. /\ UNCHANGED <<treeVars, head, count, changes, unreported>>
        /\ cached' = cached \/ cached' = cached \cup EnvLockFiles(e)
        /\ \/ job' = SkipEnv(e)
           \/ \E apps \in SUBSET Apps : apps # {} /\ job' = [job EXCEPT !.apps = apps]
    BY <1>3, TrainEnvironmentCases
  <2>2. job' \in JobType
    BY <2>1 DEF SkipEnv, TypeOK, JobType
  <2>3. cached' \subseteq FileIds
    BY <2>1 DEF TypeOK, EnvLockFiles, HeldEnvLocks, FileIds
  <2> QED BY <2>1, <2>2, <2>3, TreeUnchangedType, JobStepType
<1> QED BY <1>1, <1>2, <1>3

\* What a train does with an app, by its effect.
LEMMA TrainApplicationCases ==
  ASSUME TypeOK, NEW e \in Envs, NEW a \in Apps, TrainApplication(e, a), ~Rollback
  PROVE  \/ StopTrain
         \/ /\ UNCHANGED <<treeVars, head, cached, count, changes, unreported>>
            /\ job' = SkipApp(e, a)
         \/ \E v \in Versions :
              \/ /\ HasManifest(e, a, v) /\ Locked(e, a)
                 /\ Queue(e, a, v) /\ job' = SkipApp(e, a)
                 /\ UNCHANGED <<head, count, changes, unreported>>
              \/ /\ HasManifest(e, a, v) /\ ~Locked(e, a) /\ IsTrainVersion(config[e], a, v)
                 /\ Install(e, a, v)
                 /\ job' = [SkipApp(e, a) EXCEPT !.changes = @ \cup {AppEnv(a, e)}]
                 /\ UNCHANGED <<head, count, changes, unreported>>
              \/ /\ HasManifest(e, a, v) /\ ~Locked(e, a) /\ IsTrainVersion(config[e], a, v)
                 /\ ~CanFinish(e, a) /\ InstallPartly(e, a, v) /\ job' = SkipApp(e, a)
                 /\ unreported' = unreported \cup {<<a, e>>}
                 /\ UNCHANGED <<head, count, changes>>
<1>1. CASE StopTrain \/ a \notin job.select
  BY <1>1 DEF TrainApplication
<1>2. CASE ~StopTrain /\ a \in job.select
  <2>1. PICK v \in Link : IsTrainVersion(config[e], a, v) /\ TrainDeploys(e, a, v)
    BY <1>2 DEF TrainApplication
  <2>2. HasManifest(e, a, v) => v \in Versions
    BY TreeTypes DEF TypeOK, HasManifest
  <2> QED BY <2>1, <2>2 DEF TrainDeploys, TrainSkips
<1> QED BY <1>1, <1>2

LEMMA TrainApplicationType ==
  ASSUME TypeOK, NEW e \in Envs, NEW a \in Apps, TrainApplication(e, a), count < MaxBatch
  PROVE  TypeOK'
<1>1. CASE Rollback \/ StopTrain
  BY <1>1, RollbackType, StopTrainType
<1>2. CASE ~Rollback /\ ~StopTrain
  <2>0. SkipApp(e, a) \in JobType
    BY DEF SkipApp, TypeOK, JobType
  <2>1. /\ SkipApp(e, a) \in JobType
        /\ [SkipApp(e, a) EXCEPT !.changes = @ \cup {AppEnv(a, e)}] \in JobType
    BY <2>0 DEF JobType, AppEnvs, AppEnv
  <2>2. CASE /\ UNCHANGED <<treeVars, head, cached, count, changes, unreported>>
             /\ job' = SkipApp(e, a)
    BY <2>1, <2>2, TreeUnchangedType, JobStepType DEF TypeOK
  <2>3. ASSUME NEW v \in Versions, Queue(e, a, v), job' = SkipApp(e, a),
               UNCHANGED <<head, count, changes, unreported>>
        PROVE  TypeOK'
    BY <2>1, <2>3, QueueType, JobStepType
  <2>4. ASSUME NEW v \in Versions, Install(e, a, v),
               job' = [SkipApp(e, a) EXCEPT !.changes = @ \cup {AppEnv(a, e)}],
               UNCHANGED <<head, count, changes, unreported>>
        PROVE  TypeOK'
    BY <2>1, <2>4, InstallType, JobStepType
  <2>5. ASSUME NEW v \in Versions, InstallPartly(e, a, v), job' = SkipApp(e, a),
               unreported' = unreported \cup {<<a, e>>}, UNCHANGED <<head, count, changes>>
        PROVE  TypeOK'
    <3>1. unreported' \subseteq AppEnvs
      BY <2>5 DEF TypeOK, AppEnvs
    <3>2. Tree' \in TreeType /\ cached' \subseteq FileIds
      BY <2>5, InstallPartlyType
    <3> QED BY <2>1, <2>5, <3>1, <3>2 DEF TypeOK
  <2> QED BY <1>2, <2>2, <2>3, <2>4, <2>5, TrainApplicationCases
<1> QED BY <1>1, <1>2

-----------------------------------------------------------------------------
(* No dangling link.  Cleanup is the only step that drops single releases,  *)
(* and it is given every link of the app, because apps are only deployed in *)
(* environments that have a directory: a linked release precedes itself in  *)
(* no order, so it is not among the old ones.                               *)

\* A linked release, and the one being deployed, is never old.
LEMMA LinkedNotOld ==
  ASSUME NEW rel, NEW links, NEW d \in links \ {NoVersion}, links \subseteq Nat
  PROVE  d \notin OldReleases(rel, links)
<1>1. SUFFICES ASSUME d \in OldReleases(rel, links) PROVE FALSE
  OBVIOUS
<1>2. d < d
  BY <1>1 DEF OldReleases
<1>3. d \in Nat
  OBVIOUS
<1> QED BY <1>2, <1>3

\* The links of the tree, spelled out.
LEMMA SafeLinks ==
  LinksAreSafe <=>
    /\ \A e \in Envs, a \in Apps :
         deployed[e][a] # NoVersion => deployed[e][a] \in released[a] /\ e \in envDirs
    /\ LinksHaveTargets(head) /\ LinksInDirectories(head)
    /\ JobHasRelease
BY DEF LinksAreSafe, DeployedReleaseExists, LinksHaveTargets, LinksInDirectories, Tree

LEMMA SafeLinksNext ==
  LinksAreSafe' <=>
    /\ \A e \in Envs, a \in Apps :
         deployed'[e][a] # NoVersion => deployed'[e][a] \in released'[a] /\ e \in envDirs'
    /\ LinksHaveTargets(head') /\ LinksInDirectories(head')
    /\ JobHasRelease'
BY DEF LinksAreSafe, DeployedReleaseExists, LinksHaveTargets, LinksInDirectories, Tree

\* A rollback brings back the tree of the head commit.
LEMMA RollbackTree ==
  ASSUME TypeOK, Rollback PROVE Tree' = head /\ head' = head /\ job' = NoJob
<1>1. Tree' = [released |-> head.released, manifests |-> head.manifests,
               undeploys |-> head.undeploys, deployed |-> head.deployed,
               manifestFile |-> head.manifestFile, queued |-> head.queued,
               envLocks |-> head.envLocks, appLocks |-> head.appLocks,
               envDirs |-> head.envDirs, configFiles |-> head.configFiles,
               config |-> head.config]
  BY DEF Rollback, Tree
<1>2. Tree' = head
  BY <1>1 DEF TreeType, TypeOK
<1> QED BY <1>2 DEF Rollback

LEMMA RollbackSafe ==
  ASSUME TypeOK, LinksAreSafe, Rollback PROVE LinksAreSafe'
<1>1. Tree' = head /\ head' = head /\ job' = NoJob
  BY RollbackTree
<1>2. LinksHaveTargets(Tree') /\ LinksInDirectories(Tree')
  BY <1>1 DEF LinksAreSafe, DeployedReleaseExists
<1>3. JobHasRelease'
  BY <1>1 DEF JobHasRelease, NoJob
<1> QED BY <1>1, <1>2, <1>3 DEF LinksAreSafe, DeployedReleaseExists

\* A deployment leaves every link of the app with its target, the new one
\* included, and all other releases alone.
LEMMA InstallSafe ==
  ASSUME TypeOK, LinksAreSafe, NEW e \in Envs, NEW a \in Apps, NEW v \in Versions,
         v \in released[a], Install(e, a, v)
  PROVE  /\ \A f \in Envs, b \in Apps :
              deployed'[f][b] # NoVersion => deployed'[f][b] \in released'[b] /\ f \in envDirs'
         /\ v \in released'[a]
<1> DEFINE links == LinksAfter(e, a, v)
           old == OldReleases(released[a], links)
<1>1. /\ deployed \in [Envs -> [Apps -> Link]]
      /\ released \in [Apps -> SUBSET Versions]
      /\ envDirs \in SUBSET Envs
  BY TreeTypes DEF TypeOK
<1>2. /\ deployed' = [deployed EXCEPT ![e][a] = v]
      /\ released' = [released EXCEPT ![a] = @ \ old]
      /\ envDirs' = envDirs \cup {e}
  BY DEF Install, LinkRelease, Cleanup
<1>3. links \subseteq Nat
  <2>1. Link \subseteq Nat /\ v \in Nat
    BY ConstantsAssumption DEF Link, NoVersion
  <2>2. \A f \in envDirs : deployed[f][a] \in Link
    BY <1>1
  <2> QED BY <2>1, <2>2 DEF LinksAfter
<1>4. v \in links \ {NoVersion}
  BY ConstantsAssumption DEF LinksAfter, NoVersion
<1>5. v \notin old
  BY <1>3, <1>4, LinkedNotOld
<1>6. ASSUME NEW f \in Envs, deployed[f][a] # NoVersion, f # e
      PROVE  deployed[f][a] \notin old
  <2>1. f \in envDirs
    BY <1>6, SafeLinks
  <2>2. deployed[f][a] \in links \ {NoVersion}
    BY <1>6, <2>1 DEF LinksAfter
  <2> QED BY <1>3, <2>2, LinkedNotOld
<1> HIDE DEF links, old
<1>7. v \in released'[a]
  BY <1>1, <1>2, <1>5
<1>8. ASSUME NEW f \in Envs, NEW b \in Apps, deployed'[f][b] # NoVersion
      PROVE  deployed'[f][b] \in released'[b] /\ f \in envDirs'
  <2>1. CASE f = e /\ b = a
    BY <1>1, <1>2, <1>7, <2>1
  <2>2. CASE f # e /\ b = a
    BY <1>1, <1>2, <1>6, <1>8, <2>2, SafeLinks
  <2>3. CASE b # a
    BY <1>1, <1>2, <1>8, <2>3, SafeLinks
  <2> QED BY <2>1, <2>2, <2>3
<1> QED BY <1>7, <1>8

\* A step that neither drops a release nor moves a link or a directory.
LEMMA SameLinksSafe ==
  ASSUME TypeOK, LinksAreSafe, JobHasRelease', UNCHANGED <<deployed, head>>,
         \A a \in Apps : released[a] \subseteq released'[a], envDirs \subseteq envDirs'
  PROVE  LinksAreSafe'
BY SafeLinks, SafeLinksNext

\* A transformer that returns leaves no loop behind.
LEMMA NoJobSafe ==
  ASSUME job' = NoJob PROVE JobHasRelease'
BY DEF JobHasRelease, NoJob

LEMMA DeploySafe ==
  ASSUME TypeOK, LinksAreSafe, NEW e \in Envs, NEW a \in Apps, NEW v \in Versions, NEW b,
         DeployApplicationVersion(e, a, v, b)
  PROVE  LinksAreSafe'
<1>1. CASE Rollback
  BY <1>1, RollbackSafe
<1>2. CASE ~Rollback
  <2>1. v \in released[a] /\ job' = NoJob /\ head' = head
    BY <1>2 DEF DeployApplicationVersion, HasManifest, Ready, Finish
  <2>2. CASE Queue(e, a, v)
    <3>1. UNCHANGED <<released, deployed>> /\ envDirs \subseteq envDirs'
      BY <2>2 DEF Queue, releaseVars
    <3> QED BY <2>1, <3>1, NoJobSafe, SameLinksSafe
  <2>3. CASE Install(e, a, v)
    BY <2>1, <2>3, NoJobSafe, InstallSafe, SafeLinks, SafeLinksNext
  <2> QED BY <1>2, <2>2, <2>3 DEF DeployApplicationVersion
<1> QED BY <1>1, <1>2

LEMMA AddReleaseSafe ==
  ASSUME TypeOK, LinksAreSafe, NEW a \in Apps, NEW v \in Versions, NEW STATE M, NEW STATE T,
         Ready, AddRelease(a, v, M, T)
  PROVE  LinksAreSafe'
<1>1. released \in [Apps -> SUBSET Versions]
  BY TreeTypes DEF TypeOK
<1>2. /\ released' = [released EXCEPT ![a] = @ \cup {v}]
      /\ job' = [NoJob EXCEPT !.kind = "create", !.version = v, !.apps = {a}, !.envs = T]
      /\ UNCHANGED <<deployed, envDirs, head, count>>
  BY DEF AddRelease, deployVars, envVars
<1>3. v \in released'[a] /\ \A c \in Apps : released[c] \subseteq released'[c]
  BY <1>1, <1>2
<1>4. job'.apps = {a} /\ job'.version = v
  BY <1>2 DEF NoJob
<1>5. JobHasRelease'
  BY <1>2, <1>3, <1>4 DEF JobHasRelease, Ready
<1> QED BY <1>2, <1>3, <1>5, SameLinksSafe

LEMMA DeployLatestSafe ==
  ASSUME TypeOK, LinksAreSafe, NEW e \in Envs, NEW a \in Apps, DeployLatest(e, a),
         job.version \in Versions
  PROVE  LinksAreSafe'
<1>1. CASE Rollback
  BY <1>1, RollbackSafe
<1>2. CASE ~Rollback
  <2> DEFINE v == job.version
  <2>1. /\ job' = [job EXCEPT !.envs = @ \ {e}] /\ UNCHANGED <<head, count>>
        /\ job.kind = "create" /\ a \in job.apps
    BY <1>2 DEF DeployLatest
  <2>2. job'.kind = job.kind /\ job'.apps = job.apps /\ job'.version = v
    BY <2>1 DEF TypeOK, JobType
  <2>3. v \in released[a] /\ count < MaxBatch
    BY <2>1, SafeLinks DEF JobHasRelease, NoJob
  <2>4. CASE Queue(e, a, v)
    <3>1. UNCHANGED <<released, deployed>> /\ envDirs \subseteq envDirs'
      BY <2>4 DEF Queue, releaseVars
    <3>2. JobHasRelease'
      BY <2>1, <2>2, <2>3, <3>1, SafeLinks DEF JobHasRelease
    <3> QED BY <2>1, <3>1, <3>2, SameLinksSafe
  <2>5. CASE Install(e, a, v)
    <3>1. \A c \in Apps \ {a} : released'[c] = released[c]
      BY <2>5, TreeTypes DEF Install, Cleanup, TypeOK
    <3>2. v \in released'[a]
      BY <2>3, <2>5, InstallSafe
    <3>3. job.apps \subseteq Apps
      BY DEF TypeOK, JobType
    <3>4. JobHasRelease'
      BY <2>1, <2>2, <2>3, <3>1, <3>2, <3>3, SafeLinks DEF JobHasRelease
    <3> QED BY <2>1, <2>3, <2>5, <3>4, InstallSafe, SafeLinks, SafeLinksNext
  <2> QED BY <1>2, <2>4, <2>5 DEF DeployLatest
<1> QED BY <1>1, <1>2

\* Undeploying an app, or taking it out of one environment, removes links
\* together with, or before, their releases.
LEMMA UndeploySafe ==
  ASSUME TypeOK, LinksAreSafe, NEW a \in Apps, UndeployApplication(a)
  PROVE  LinksAreSafe'
<1>1. CASE Rollback
  BY <1>1, RollbackSafe
<1>2. CASE ~Rollback
  <2>1. /\ released' = [released EXCEPT ![a] = {}]
        /\ deployed' = [e \in Envs |-> [deployed[e] EXCEPT ![a] = NoVersion]]
        /\ envDirs' = envDirs /\ head' = head /\ job' = NoJob
    BY <1>2 DEF UndeployApplication, WithoutApp, Finish, Ready, envVars
  <2>2. deployed \in [Envs -> [Apps -> Link]] /\ released \in [Apps -> SUBSET Versions]
    BY TreeTypes DEF TypeOK
  <2>3. ASSUME NEW e \in Envs, NEW b \in Apps, deployed'[e][b] # NoVersion
        PROVE  deployed'[e][b] \in released'[b] /\ e \in envDirs'
    BY <2>1, <2>2, <2>3, SafeLinks
  <2> QED BY <2>1, <2>3, NoJobSafe, SafeLinks, SafeLinksNext
<1> QED BY <1>1, <1>2

LEMMA DeleteEnvFromAppSafe ==
  ASSUME TypeOK, LinksAreSafe, NEW e \in Envs, NEW a \in Apps, DeleteEnvFromApp(e, a)
  PROVE  LinksAreSafe'
<1>1. /\ deployed' = [deployed EXCEPT ![e][a] = NoVersion]
      /\ released' = released /\ envDirs' = envDirs /\ head' = head /\ job' = NoJob
  BY DEF DeleteEnvFromApp, Finish, Ready, releaseVars, envVars
<1>2. deployed \in [Envs -> [Apps -> Link]]
  BY TreeTypes DEF TypeOK
<1>3. ASSUME NEW f \in Envs, NEW b \in Apps, deployed'[f][b] # NoVersion
      PROVE  deployed'[f][b] \in released'[b] /\ f \in envDirs'
  BY <1>1, <1>2, <1>3, SafeLinks
<1> QED BY <1>1, <1>3, NoJobSafe, SafeLinks, SafeLinksNext

\* Locks, and the configuration of an environment, touch no link.
LEMMA LockTransformerSafe ==
  ASSUME TypeOK, LinksAreSafe, LockTransformer PROVE LinksAreSafe'
<1>1. CASE Rollback
  BY <1>1, RollbackSafe
<1>2. CASE ~Rollback
  <2>1. UNCHANGED <<released, deployed, envDirs, head>> /\ job' = job /\ job = NoJob
    BY <1>2 DEF LockTransformer, CreateEnvironmentLock, CreateEnvironmentGroupLock,
       CreateEnvironmentApplicationLock, DeleteEnvironmentLock, DeleteEnvironmentGroupLock,
       DeleteEnvironmentApplicationLock, CreateEnvLocks, DeleteEnvLocks, Ready, Finish,
       releaseVars, deployVars, envVars
  <2> QED BY <2>1, NoJobSafe, SameLinksSafe
<1> QED BY <1>1, <1>2

LEMMA EnvironmentTransformerSafe ==
  ASSUME TypeOK, LinksAreSafe, EnvironmentTransformer PROVE LinksAreSafe'
<1>1. ASSUME NEW e \in Envs, NEW c \in NewConfigs[e], CreateEnvironment(e, c)
      PROVE  LinksAreSafe'
  <2>1. UNCHANGED <<released, deployed, head>> /\ envDirs \subseteq envDirs' /\ job' = NoJob
    BY <1>1 DEF CreateEnvironment, Ready, Finish, releaseVars, deployVars
  <2> QED BY <2>1, NoJobSafe, SameLinksSafe
<1>2. ASSUME NEW T, NEW S, NEW team, ReleaseTrain(T, S, team)
      PROVE  LinksAreSafe'
  <2>1. UNCHANGED <<released, deployed, envDirs, head, count>> /\ job'.kind = "train"
    BY <1>2 DEF ReleaseTrain, treeVars, releaseVars, deployVars, envVars, NoJob
  <2>2. JobHasRelease'
    BY <1>2, <2>1 DEF JobHasRelease, ReleaseTrain, Ready
  <2> QED BY <2>1, <2>2, SameLinksSafe
<1> QED BY <1>1, <1>2 DEF EnvironmentTransformer

LEMMA TrainEnvironmentSafe ==
  ASSUME TypeOK, LinksAreSafe, NEW e \in Envs, TrainEnvironment(e) PROVE LinksAreSafe'
<1>1. CASE Rollback
  BY <1>1, RollbackSafe
<1>2. CASE ~Rollback
  <2>1. UNCHANGED <<released, deployed, envDirs, head>>
    BY <1>2, TrainEnvironmentCases DEF StopTrain, treeVars, releaseVars, deployVars, envVars
  <2>2. job.kind = "train" /\ job # NoJob
    BY DEF TrainEnvironment, NoJob
  <2>3. job' = NoJob \/ (job'.kind = "train" /\ count' = count)
    BY <1>2, <2>2, TrainEnvironmentCases DEF StopTrain, SkipEnv, TypeOK, JobType
  <2>4. JobHasRelease'
    BY <2>2, <2>3, SafeLinks, NoJobSafe DEF JobHasRelease
  <2> QED BY <2>1, <2>4, SameLinksSafe
<1> QED BY <1>1, <1>2

\* A train deploys to the links as DeployApplicationVersion does.  When it
\* swallows an error the new link is there and nothing was cleaned up.
LEMMA TrainApplicationSafe ==
  ASSUME TypeOK, LinksAreSafe, NEW e \in Envs, NEW a \in Apps, TrainApplication(e, a)
  PROVE  LinksAreSafe'
<1>1. CASE Rollback
  BY <1>1, RollbackSafe
<1>2. CASE StopTrain
  <2>1. UNCHANGED <<released, deployed, envDirs, head>> /\ job' = NoJob
    BY <1>2 DEF StopTrain, treeVars, releaseVars, deployVars, envVars
  <2> QED BY <2>1, NoJobSafe, SameLinksSafe
<1>3. CASE ~Rollback /\ ~StopTrain
  <2>1. PICK v \in Versions \cup {NoVersion} :
          \/ UNCHANGED treeVars
          \/ v \in Versions /\ Queue(e, a, v)
          \/ /\ v \in Versions /\ v \in released[a]
             /\ Install(e, a, v) \/ InstallPartly(e, a, v)
    BY <1>3, TrainApplicationCases DEF HasManifest
  <2>2. /\ UNCHANGED <<head, count>> /\ job # NoJob
        /\ \/ job' = SkipApp(e, a)
           \/ job' = [SkipApp(e, a) EXCEPT !.changes = @ \cup {AppEnv(a, e)}]
    BY <1>3, TrainApplicationCases DEF TrainApplication, NoJob
  <2>3. SkipApp(e, a) \in JobType /\ SkipApp(e, a).kind = "train"
    BY DEF TrainApplication, SkipApp, TypeOK, JobType
  <2>4. job'.kind = "train"
    BY <2>2, <2>3 DEF JobType
  <2>5. JobHasRelease'
    BY <2>2, <2>4, SafeLinks DEF JobHasRelease
  <2>6. CASE UNCHANGED treeVars
    <3>1. UNCHANGED <<released, deployed, envDirs>>
      BY <2>6 DEF treeVars, releaseVars, deployVars, envVars
    <3> QED BY <2>2, <2>5, <3>1, SameLinksSafe
  <2>7. CASE v \in Versions /\ Queue(e, a, v)
    <3>1. UNCHANGED <<released, deployed>> /\ envDirs \subseteq envDirs'
      BY <2>7 DEF Queue, releaseVars
    <3> QED BY <2>2, <2>5, <3>1, SameLinksSafe
  <2>8. CASE v \in Versions /\ v \in released[a] /\ Install(e, a, v)
    BY <2>2, <2>5, <2>8, InstallSafe, SafeLinks, SafeLinksNext
  <2>9. CASE v \in Versions /\ v \in released[a] /\ InstallPartly(e, a, v)
    <3>1. /\ deployed' = [deployed EXCEPT ![e][a] = v]
          /\ released' = released /\ envDirs' = envDirs \cup {e}
      BY <2>9 DEF InstallPartly, LinkRelease, releaseVars
    <3>2. deployed \in [Envs -> [Apps -> Link]]
      BY TreeTypes DEF TypeOK
    <3>3. ASSUME NEW f \in Envs, NEW b \in Apps, deployed'[f][b] # NoVersion
          PROVE  deployed'[f][b] \in released'[b] /\ f \in envDirs'
      BY <2>9, <3>1, <3>2, <3>3, SafeLinks
    <3> QED BY <2>2, <2>5, <3>3, SafeLinks, SafeLinksNext
  <2> QED BY <2>1, <2>6, <2>7, <2>8, <2>9
<1> QED BY <1>1, <1>2, <1>3

LEMMA CommitSafe == ASSUME TypeOK, LinksAreSafe, Commit PROVE LinksAreSafe'
<1>1. Tree' = Tree /\ head' = Tree /\ job' = NoJob
  BY DEF Commit, Tree, treeVars, releaseVars, deployVars, lockVars, envVars
<1> QED BY <1>1, NoJobSafe DEF LinksAreSafe, DeployedReleaseExists

LEMMA EndJobSafe == ASSUME TypeOK, LinksAreSafe, EndJob PROVE LinksAreSafe'
<1>1. UNCHANGED <<released, deployed, envDirs, head>> /\ job' = NoJob
  BY DEF EndJob, treeVars, releaseVars, deployVars, envVars
<1> QED BY <1>1, NoJobSafe, SameLinksSafe

-----------------------------------------------------------------------------
LEMMA InitSafe == Init => LinksAreSafe
BY DEF Init, LinksAreSafe, DeployedReleaseExists, LinksHaveTargets, LinksInDirectories,
       JobHasRelease, NoJob, Tree, NoVersion

\* Both are preserved together: a step of a loop is well typed because the
\* loop's release exists.
LEMMA StepSafe ==
  ASSUME TypeOK, LinksAreSafe, [Next]_vars PROVE TypeOK' /\ LinksAreSafe'
<1>1. CASE LockTransformer
  <2>1. TypeOK'
    BY <1>1, CreateEnvironmentLockType, CreateEnvironmentGroupLockType,
       CreateEnvironmentApplicationLockType, DeleteEnvironmentLockType,
       DeleteEnvironmentGroupLockType, DeleteEnvironmentApplicationLockType
       DEF LockTransformer
  <2> QED BY <1>1, <2>1, LockTransformerSafe
<1>2. CASE ReleaseTransformer
  <2>1. PICK a \in Apps :
          \/ \E r \in Versions \cup {0}, v \in Versions, M \in ManifestSets :
               CreateApplicationVersion(a, r, v, M)
          \/ \E v \in Versions : CreateUndeployApplicationVersion(a, v)
          \/ UndeployApplication(a)
          \/ \E e \in Envs : DeleteEnvFromApp(e, a)
          \/ \E e \in Envs, v \in Versions, b \in {"Record", "Fail", "Ignore"} :
               DeployApplicationVersion(e, a, v, b)
    BY <1>2 DEF ReleaseTransformer
  <2>2. ASSUME NEW r, NEW v \in Versions, NEW M \in ManifestSets,
               CreateApplicationVersion(a, r, v, M)
        PROVE  TypeOK' /\ LinksAreSafe'
    <3>1. CASE Rollback
      BY <3>1, RollbackType, RollbackSafe
    <3>2. CASE ~Rollback
      <4>1. /\ Ready
            /\ AddRelease(a, v, M, IF IsLatest(a, v) THEN M \cap LatestEnvs ELSE {})
        BY <2>2, <3>2 DEF CreateApplicationVersion
      <4> QED BY <2>2, <4>1, AddReleaseSafe, CreateApplicationVersionType
    <3> QED BY <3>1, <3>2
  <2>3. ASSUME NEW v \in Versions, CreateUndeployApplicationVersion(a, v)
        PROVE  TypeOK' /\ LinksAreSafe'
    <3>1. Ready /\ AddRelease(a, v, envDirs, LatestEnvs)
      BY <2>3 DEF CreateUndeployApplicationVersion
    <3> QED BY <2>3, <3>1, AddReleaseSafe, CreateUndeployType
  <2>4. CASE UndeployApplication(a)
    BY <2>4, UndeployType, UndeploySafe
  <2>5. CASE \E e \in Envs : DeleteEnvFromApp(e, a)
    BY <2>5, DeleteEnvFromAppType, DeleteEnvFromAppSafe
  <2>6. CASE \E e \in Envs, v \in Versions, b \in {"Record", "Fail", "Ignore"} :
               DeployApplicationVersion(e, a, v, b)
    BY <2>6, DeployType, DeploySafe
  <2> QED BY <2>1, <2>2, <2>3, <2>4, <2>5, <2>6
<1>3. CASE EnvironmentTransformer
  <2>1. ASSUME NEW T \in TrainTargets, NEW S \in SUBSET Apps, NEW team \in BOOLEAN,
               ReleaseTrain(T, S, team)
        PROVE  TypeOK'
    <3>1. T \in SUBSET Envs
      BY TreeTypes DEF TrainTargets, EnvGroup, TypeOK
    <3> QED BY <2>1, <3>1, ReleaseTrainType
  <2>2. TypeOK'
    BY <1>3, <2>1, CreateEnvironmentType, ConstantsAssumption DEF EnvironmentTransformer
  <2> QED BY <1>3, <2>2, EnvironmentTransformerSafe
<1>4. CASE JobStep
  <2>1. ASSUME NEW e \in Envs, NEW a \in Apps, DeployLatest(e, a)
        PROVE  TypeOK' /\ LinksAreSafe'
    <3>1. job.version \in Versions
      BY <2>1, SafeLinks, TreeTypes DEF DeployLatest, JobHasRelease, TypeOK
    <3> QED BY <2>1, <3>1, DeployLatestType, DeployLatestSafe
  <2>2. ASSUME NEW e \in Envs, TrainEnvironment(e)
        PROVE  TypeOK' /\ LinksAreSafe'
    <3>1. count < MaxBatch
      BY <2>2, SafeLinks DEF TrainEnvironment, JobHasRelease, NoJob
    <3> QED BY <2>2, <3>1, TrainEnvironmentType, TrainEnvironmentSafe
  <2>3. ASSUME NEW e \in Envs, NEW a \in Apps, TrainApplication(e, a)
        PROVE  TypeOK' /\ LinksAreSafe'
    <3>1. count < MaxBatch
      BY <2>3, SafeLinks DEF TrainApplication, JobHasRelease, NoJob
    <3> QED BY <2>3, <3>1, TrainApplicationType, TrainApplicationSafe
  <2>4. ASSUME EndJob PROVE TypeOK' /\ LinksAreSafe'
    <3>1. count < MaxBatch
      BY <2>4, SafeLinks DEF EndJob, JobHasRelease, NoJob
    <3> QED BY <2>4, <3>1, EndJobType, EndJobSafe
  <2> QED BY <1>4, <2>1, <2>2, <2>3, <2>4 DEF JobStep
<1>5. CASE Commit
  BY <1>5, CommitType, CommitSafe
<1>6. CASE Refuse
  BY <1>6, RollbackType, RollbackSafe DEF Refuse
<1>7. CASE UNCHANGED vars
  <2>1. Tree' = Tree /\ UNCHANGED <<head, cached, count, job, changes, unreported, released>>
    BY <1>7 DEF vars, Tree, treeVars, releaseVars, deployVars, lockVars, envVars
  <2> QED BY <2>1 DEF TypeOK, LinksAreSafe, DeployedReleaseExists, JobHasRelease
<1> QED BY <1>1, <1>2, <1>3, <1>4, <1>5, <1>6, <1>7 DEF Next

LEMMA InvariantHolds == Spec => [](TypeOK /\ LinksAreSafe)
<1>1. Init => TypeOK /\ LinksAreSafe
  BY InitTypeOK, InitSafe
<1>2. (TypeOK /\ LinksAreSafe) /\ [Next]_vars => (TypeOK /\ LinksAreSafe)'
  BY StepSafe
<1> QED BY <1>1, <1>2, PTL DEF Spec

\* Every reachable tree, in memory and committed, is well typed.
THEOREM TypeCorrect == Spec => []TypeOK
BY InvariantHolds, PTL

\* No reachable tree, in memory or committed, has a "version" symlink whose
\* release is gone, for any number of apps, environments, releases and locks,
\* any keptVersionsOnCleanup and requests of any length: every deployment is in
\* a directory that findOldApplicationVersions walks, and the release that a
\* loop is about to deploy is there.
THEOREM NoDanglingLink == Spec => []LinksAreSafe
BY InvariantHolds, PTL
=============================================================================
