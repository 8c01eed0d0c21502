----------------------- MODULE ManifestRepoStepProofs -----------------------
(***************************************************************************)
(* Proofs about what a step of ManifestRepo may do to queues, releases,     *)
(* deployed versions and their manifests, for all values of the constants.  *)
(* Every step is of one of nine kinds (StepKinds), every step of a request  *)
(* of one transformer of one of five that follow the loop it is in          *)
(* (StepProgress), and a step between two commits tells what it moves       *)
(* (StepTells); the theorems go through these.                              *)
(***************************************************************************)
EXTENDS ManifestRepoProofs, FiniteSetTheorems, Induction

-----------------------------------------------------------------------------
(* The kinds of steps *)

\* A loop goes on with what is left of it, or there is none.
JobGoesOn ==
  job'.kind = "create" =>
    /\ job.kind = "create" /\ job'.version = job.version
    /\ job'.apps = job.apps /\ job'.envs \subseteq job.envs

Unlocked(e, a, v) == ~Locked(e, a) \/ DeployApplicationVersion(e, a, v, "Ignore")

Installs(e, a, v) ==
  /\ v \in released[a] /\ Unlocked(e, a, v) /\ Install(e, a, v)
  /\ head' = head /\ JobGoesOn

InstallsPartly(e, a, v) ==
  /\ v \in released[a] /\ ~Locked(e, a) /\ InstallPartly(e, a, v)
  /\ ~Readable(queued[e][a], a)
  /\ head' = head /\ JobGoesOn

Queues(e, a, v) ==
  /\ v \in released[a] /\ Locked(e, a) /\ Queue(e, a, v)
  /\ head' = head /\ JobGoesOn

Adds(a, v) ==
  \E M \in SUBSET Envs, T \in SUBSET Envs :
    AddRelease(a, v, M, T) /\ (T # {} => IsLatest(a, v))

Undeploys(a) == UndeployApplication(a) /\ ~Rollback

\* Releases and deployed versions stay, and a queue that is left without a lock
\* has been processed.
Quiet ==
  /\ UNCHANGED <<released, deployed, head>> /\ JobGoesOn
  /\ \A e \in Envs, a \in Apps :
       \/ queued'[e][a] = AfterProcessQueue(e, a)
       \/ queued'[e][a] = queued[e][a] /\ (Locked(e, a) => Locked(e, a)')

Kinds ==
  \/ Rollback \/ Commit \/ Quiet
  \/ \E e \in Envs, a \in Apps, v \in Versions :
       Installs(e, a, v) \/ InstallsPartly(e, a, v) \/ Queues(e, a, v)
  \/ \E a \in Apps, v \in Versions : Adds(a, v)
  \/ \E a \in Apps : Undeploys(a)
  \/ \E e \in Envs, a \in Apps : DeleteEnvFromApp(e, a)

LEMMA LockedIsUnderLock ==
  ASSUME NEW e \in Envs, NEW a \in Apps
  PROVE  (UnderLock(Tree, e, a) <=> Locked(e, a)) /\ (UnderLock(Tree', e, a) <=> Locked(e, a)')
BY DEF UnderLock, Locked, HeldEnvLocks, HeldAppLocks, Tree

LEMMA NoJobGoesOn == ASSUME job' = NoJob PROVE JobGoesOn
BY DEF NoJob, JobGoesOn

LEMMA SkipEnvGoesOn ==
  ASSUME TypeOK, NEW e, job' = SkipEnv(e)  PROVE JobGoesOn
BY DEF TypeOK, JobType, SkipEnv, JobGoesOn

LEMMA TrainGoesOn ==
  ASSUME job'.kind # "create"  PROVE JobGoesOn
BY DEF JobGoesOn

\* A step that does not change a queue nor free a lock.
LEMMA SameQueues ==
  ASSUME UNCHANGED <<released, deployed, queued, head>>, JobGoesOn,
         \A e \in Envs, a \in Apps : Locked(e, a) => Locked(e, a)'
  PROVE  Quiet
BY DEF Quiet

-----------------------------------------------------------------------------
(* Every step has one of these kinds *)

LEMMA DeployKind ==
  ASSUME TypeOK, LinksAreSafe, NEW e \in Envs, NEW a \in Apps, NEW v \in Versions,
         NEW b \in {"Record", "Fail", "Ignore"}, DeployApplicationVersion(e, a, v, b)
  PROVE  Kinds
<1>1. CASE Rollback
  BY <1>1 DEF Kinds
<1>2. CASE ~Rollback
  <2>1. v \in released[a] /\ job' = NoJob /\ head' = head
    BY <1>2 DEF DeployApplicationVersion, HasManifest, Finish, Ready
  <2>2. CASE b # "Ignore" /\ Locked(e, a)
    <3>1. Queue(e, a, v)
      BY <1>2, <2>2 DEF DeployApplicationVersion
    <3> QED BY <2>1, <2>2, <3>1, NoJobGoesOn DEF Queues, Kinds
  <2>3. CASE b = "Ignore" \/ ~Locked(e, a)
    <3>1. Install(e, a, v)
      BY <1>2, <2>3 DEF DeployApplicationVersion
    <3>2. Unlocked(e, a, v)
      BY <2>3 DEF Unlocked
    <3> QED BY <2>1, <3>1, <3>2, NoJobGoesOn DEF Installs, Kinds
  <2> QED BY <2>2, <2>3
<1> QED BY <1>1, <1>2

LEMMA CreateKind ==
  ASSUME TypeOK, NEW a \in Apps, NEW v \in Versions,
         \/ \E r \in Versions \cup {0}, M \in ManifestSets : CreateApplicationVersion(a, r, v, M)
         \/ CreateUndeployApplicationVersion(a, v)
  PROVE  Kinds
<1>1. envDirs \subseteq Envs /\ LatestEnvs \subseteq Envs /\ released[a] \subseteq Nat /\ v \in Nat
  BY TreeTypes, ConstantsAssumption DEF TypeOK, LatestEnvs
<1>2. ASSUME NEW r \in Versions \cup {0}, NEW M \in ManifestSets,
             CreateApplicationVersion(a, r, v, M), ~Rollback
      PROVE  Adds(a, v)
  <2> DEFINE T == IF IsLatest(a, v) THEN M \cap LatestEnvs ELSE {}
  <2>1. AddRelease(a, v, M, T)
    BY <1>2 DEF CreateApplicationVersion
  <2>2. M \in SUBSET Envs /\ T \in SUBSET Envs /\ (T # {} => IsLatest(a, v))
    BY <1>1, ConstantsAssumption
  <2> HIDE DEF T
  <2> QED BY <2>1, <2>2 DEF Adds
<1>3. ASSUME CreateUndeployApplicationVersion(a, v)  PROVE Adds(a, v)
  <2>1. AddRelease(a, v, envDirs, LatestEnvs) /\ released[a] # {} /\ IsLastRelease(a, v - 1)
    BY <1>3 DEF CreateUndeployApplicationVersion
  <2>2. \A r \in released[a] : r <= v
    BY <1>1, <2>1 DEF IsLastRelease
  <2> QED BY <1>1, <2>1, <2>2 DEF Adds, IsLatest
<1> QED BY <1>2, <1>3 DEF Kinds

LEMMA DeployLatestKind ==
  ASSUME TypeOK, LinksAreSafe, NEW e \in Envs, NEW a \in Apps, DeployLatest(e, a)
  PROVE  Kinds
<1>1. CASE Rollback
  BY <1>1 DEF Kinds
<1>2. CASE ~Rollback
  <2> DEFINE v == job.version
  <2>1. v \in released[a] /\ v \in Versions /\ head' = head /\ job' = SkipEnv(e)
    BY <1>2, SafeLinks, TreeTypes DEF DeployLatest, JobHasRelease, TypeOK, SkipEnv
  <2>2. \/ Locked(e, a) /\ Queue(e, a, v)
        \/ Unlocked(e, a, v) /\ Install(e, a, v)
    BY <1>2 DEF DeployLatest, Unlocked
  <2> HIDE DEF v
  <2> QED BY <2>1, <2>2, SkipEnvGoesOn DEF Queues, Installs, Kinds
<1> QED BY <1>1, <1>2

LEMMA StopTrainQuiet == ASSUME StopTrain PROVE Quiet
<1>1. UNCHANGED <<released, deployed, queued, head, envLocks, appLocks>> /\ JobGoesOn
  BY NoJobGoesOn DEF StopTrain, treeVars, releaseVars, deployVars, lockVars
<1>2. \A f \in Envs, b \in Apps : Locked(f, b) => Locked(f, b)'
  BY <1>1 DEF Locked, HeldEnvLocks, HeldAppLocks
<1> QED BY <1>1, <1>2, SameQueues

\* Only an unreadable queue makes the bookkeeping of a deployment fail: the
\* links of the other environments can be read.
LEMMA TrainApplicationKind ==
  ASSUME TypeOK, LinksAreSafe, NEW e \in Envs, NEW a \in Apps, TrainApplication(e, a)
  PROVE  Kinds
<1>1. CASE Rollback
  BY <1>1 DEF Kinds
<1>2. CASE StopTrain
  BY <1>2, StopTrainQuiet DEF Kinds
<1>3. CASE ~Rollback /\ ~StopTrain
  <2>1. job.kind = "train" /\ job \in JobType
    BY DEF TrainApplication, TypeOK
  <2>2. SkipApp(e, a).kind = "train" /\ [SkipApp(e, a) EXCEPT !.changes = @ \cup {AppEnv(a, e)}].kind = "train"
    BY <2>1 DEF SkipApp, JobType
  <2>3. JobGoesOn /\ head' = head
    BY <1>3, <2>2, TrainApplicationCases, TrainGoesOn
  <2>4. CASE UNCHANGED treeVars
    <3>1. UNCHANGED <<released, deployed, queued, envLocks, appLocks>>
      BY <2>4 DEF treeVars, releaseVars, deployVars, lockVars
    <3>2. \A f \in Envs, b \in Apps : Locked(f, b) => Locked(f, b)'
      BY <3>1 DEF Locked, HeldEnvLocks, HeldAppLocks
    <3> QED BY <2>3, <3>1, <3>2, SameQueues DEF Kinds
  <2>5. ASSUME NEW v \in Versions, HasManifest(e, a, v),
               \/ Locked(e, a) /\ Queue(e, a, v)
               \/ ~Locked(e, a) /\ Install(e, a, v)
        PROVE  Kinds
    BY <2>3, <2>5 DEF HasManifest, Queues, Installs, Unlocked, Kinds
  <2>6. ASSUME NEW v \in Versions, HasManifest(e, a, v), ~Locked(e, a), ~CanFinish(e, a),
               InstallPartly(e, a, v)
        PROVE  Kinds
    <3>1. \A f \in envDirs \ {e} : Readable(deployed[f][a], a)
      BY SafeLinks, TreeTypes DEF TypeOK, Readable
    <3>2. ~Readable(queued[e][a], a)
      BY <2>6, <3>1 DEF CanFinish
    <3> QED BY <2>3, <2>6, <3>2 DEF HasManifest, InstallsPartly, Kinds
  <2> QED BY <1>3, <2>4, <2>5, <2>6, TrainApplicationCases
<1> QED BY <1>1, <1>2, <1>3

LEMMA TrainEnvironmentKind ==
  ASSUME TypeOK, NEW e \in Envs, TrainEnvironment(e)  PROVE Kinds
<1>1. CASE Rollback
  BY <1>1 DEF Kinds
<1>2. CASE StopTrain
  BY <1>2, StopTrainQuiet DEF Kinds
<1>3. CASE ~Rollback /\ ~StopTrain
  <2>1. job.kind = "train" /\ job \in JobType
    BY DEF TrainEnvironment, TypeOK
  <2>2. SkipEnv(e).kind = "train" /\ \A A : [job EXCEPT !.apps = A].kind = "train"
    BY <2>1 DEF SkipEnv, JobType
  <2>3. UNCHANGED <<treeVars, head>> /\ job'.kind = "train"
    BY <1>3, <2>2, TrainEnvironmentCases
  <2>4. UNCHANGED <<released, deployed, queued, head, envLocks, appLocks>> /\ JobGoesOn
    BY <2>3, TrainGoesOn DEF treeVars, releaseVars, deployVars, lockVars
  <2>5. \A f \in Envs, b \in Apps : Locked(f, b) => Locked(f, b)'
    BY <2>4 DEF Locked, HeldEnvLocks, HeldAppLocks
  <2> QED BY <2>4, <2>5, SameQueues DEF Kinds
<1> QED BY <1>1, <1>2, <1>3

\* Setting a lock leaves the others.
LEMMA CreateLockKind ==
  ASSUME TypeOK, NEW l \in LockIds,
         \/ \E e \in Envs : CreateEnvironmentLock(e, l)
         \/ \E g \in Groups : CreateEnvironmentGroupLock(g, l)
         \/ \E e \in Envs, a \in Apps : CreateEnvironmentApplicationLock(e, a, l)
  PROVE  Kinds
<1>0. /\ envLocks \in [Envs -> [LockIds -> LockState]]
      /\ appLocks \in [Envs -> [Apps -> [LockIds -> LockState]]]
  BY TreeTypes DEF TypeOK
<1>1. \A state, file : LockAfterCreate(state, file) # "free"
  BY DEF LockAfterCreate
<1>2. ASSUME NEW STATE E, CreateEnvLocks(E, l), Ready  PROVE Quiet
  <2>1. UNCHANGED <<released, deployed, queued, head, appLocks>> /\ JobGoesOn
    BY <1>2, NoJobGoesOn DEF CreateEnvLocks, Finish, Ready, releaseVars, deployVars
  <2>2. \A e \in Envs, m \in LockIds : envLocks[e][m] # "free" => envLocks'[e][m] # "free"
    BY <1>0, <1>1, <1>2 DEF CreateEnvLocks
  <2>3. \A e \in Envs, a \in Apps : Locked(e, a) => Locked(e, a)'
    BY <2>1, <2>2 DEF Locked, HeldEnvLocks, HeldAppLocks
  <2> QED BY <2>1, <2>3, SameQueues
<1>3. ASSUME NEW e \in Envs, NEW a \in Apps, CreateEnvironmentApplicationLock(e, a, l), ~Rollback
      PROVE  Quiet
  <2>1. UNCHANGED <<released, deployed, queued, head, envLocks>> /\ JobGoesOn
    BY <1>3, NoJobGoesOn
       DEF CreateEnvironmentApplicationLock, Finish, Ready, releaseVars, deployVars
  <2>2. \A f \in Envs, b \in Apps, m \in LockIds :
          appLocks[f][b][m] # "free" => appLocks'[f][b][m] # "free"
    <3>1. PICK state : state # "free" /\ appLocks' = [appLocks EXCEPT ![e][a][l] = state]
      BY <1>1, <1>3 DEF CreateEnvironmentApplicationLock
    <3> QED BY <1>0, <3>1
  <2>3. \A f \in Envs, b \in Apps : Locked(f, b) => Locked(f, b)'
    BY <2>1, <2>2 DEF Locked, HeldEnvLocks, HeldAppLocks
  <2> QED BY <2>1, <2>3, SameQueues
<1> QED BY <1>2, <1>3 DEF CreateEnvironmentLock, CreateEnvironmentGroupLock, Kinds

\* Taking a lock away processes the queues it was for.
LEMMA DeleteLockKind ==
  ASSUME TypeOK, NEW l \in LockIds,
         \/ \E e \in Envs : DeleteEnvironmentLock(e, l)
         \/ \E g \in Groups : DeleteEnvironmentGroupLock(g, l)
         \/ \E e \in Envs, a \in Apps : DeleteEnvironmentApplicationLock(e, a, l)
  PROVE  Kinds
<1>0. /\ envLocks \in [Envs -> [LockIds -> LockState]]
      /\ appLocks \in [Envs -> [Apps -> [LockIds -> LockState]]]
      /\ queued \in [Envs -> [Apps -> Link]]
  BY TreeTypes DEF TypeOK
<1>1. ASSUME NEW STATE E, DeleteEnvLocks(E, l), Ready  PROVE Quiet
  <2>1. UNCHANGED <<released, deployed, head, appLocks>> /\ JobGoesOn
    BY <1>1, NoJobGoesOn DEF DeleteEnvLocks, Finish, Ready, releaseVars
  <2>2. ASSUME NEW e \in Envs, NEW a \in Apps
        PROVE  \/ queued'[e][a] = AfterProcessQueue(e, a)
               \/ queued'[e][a] = queued[e][a] /\ (Locked(e, a) => Locked(e, a)')
    <3>1. CASE e \in E
      BY <1>0, <1>1, <3>1 DEF DeleteEnvLocks
    <3>2. CASE e \notin E
      <4>1. envLocks'[e] = envLocks[e] /\ queued'[e] = queued[e]
        BY <1>0, <1>1, <3>2 DEF DeleteEnvLocks
      <4> QED BY <2>1, <4>1 DEF Locked, HeldEnvLocks, HeldAppLocks
    <3> QED BY <3>1, <3>2
  <2> QED BY <2>1, <2>2 DEF Quiet
<1>2. ASSUME NEW e \in Envs, NEW a \in Apps, DeleteEnvironmentApplicationLock(e, a, l), ~Rollback
      PROVE  Quiet
  <2>1. UNCHANGED <<released, deployed, head, envLocks>> /\ JobGoesOn
    BY <1>2, NoJobGoesOn DEF DeleteEnvironmentApplicationLock, Finish, Ready, releaseVars
  <2>2. ASSUME NEW f \in Envs, NEW b \in Apps
        PROVE  \/ queued'[f][b] = AfterProcessQueue(f, b)
               \/ queued'[f][b] = queued[f][b] /\ (Locked(f, b) => Locked(f, b)')
    <3>1. CASE f = e /\ b = a
      BY <1>0, <1>2, <3>1 DEF DeleteEnvironmentApplicationLock
    <3>2. CASE ~(f = e /\ b = a)
      <4>1. appLocks'[f][b] = appLocks[f][b] /\ queued'[f][b] = queued[f][b]
        BY <1>0, <1>2, <3>2 DEF DeleteEnvironmentApplicationLock
      <4> QED BY <2>1, <4>1 DEF Locked, HeldEnvLocks, HeldAppLocks
    <3> QED BY <3>1, <3>2
  <2> QED BY <2>1, <2>2 DEF Quiet
<1> QED BY <1>1, <1>2 DEF DeleteEnvironmentLock, DeleteEnvironmentGroupLock, Kinds

LEMMA StepKinds == ASSUME TypeOK, LinksAreSafe, [Next]_vars PROVE Kinds
<1>1. CASE LockTransformer
  BY <1>1, CreateLockKind, DeleteLockKind DEF LockTransformer
<1>2. CASE ReleaseTransformer
  <2>1. PICK a \in Apps :
          \/ \E r \in Versions \cup {0}, v \in Versions, M \in ManifestSets :
               CreateApplicationVersion(a, r, v, M)
          \/ \E v \in Versions : CreateUndeployApplicationVersion(a, v)
          \/ UndeployApplication(a)
          \/ \E e \in Envs : DeleteEnvFromApp(e, a)
          \/ \E e \in Envs, v \in Versions, b \in {"Record", "Fail", "Ignore"} :
               DeployApplicationVersion(e, a, v, b)
    BY <1>2 DEF ReleaseTransformer
  <2>2. UndeployApplication(a) => Kinds
    BY DEF Undeploys, Kinds
  <2>3. (\E e \in Envs : DeleteEnvFromApp(e, a)) => Kinds
    BY DEF Kinds
  <2> QED BY <2>1, <2>2, <2>3, CreateKind, DeployKind
<1>3. CASE EnvironmentTransformer \/ EndJob \/ UNCHANGED vars
  <2>1. UNCHANGED <<released, deployed, queued, head, envLocks, appLocks>> /\ JobGoesOn
    <3>1. ASSUME NEW e \in Envs, NEW c \in NewConfigs[e], CreateEnvironment(e, c)
          PROVE  UNCHANGED <<released, deployed, queued, head, envLocks, appLocks>> /\ job' = NoJob
      BY <3>1 DEF CreateEnvironment, Finish, Ready, releaseVars, deployVars, lockVars
    <3>2. ASSUME NEW T, NEW S, NEW team, ReleaseTrain(T, S, team)
          PROVE  /\ UNCHANGED <<released, deployed, queued, head, envLocks, appLocks>>
                 /\ job'.kind = "train"
      BY <3>2 DEF ReleaseTrain, NoJob, treeVars, releaseVars, deployVars, lockVars
    <3>3. CASE EndJob
      BY <3>3, NoJobGoesOn DEF EndJob, treeVars, releaseVars, deployVars, lockVars
    <3>4. CASE UNCHANGED vars
      BY <3>4 DEF JobGoesOn, vars, treeVars, releaseVars, deployVars, lockVars
    <3> QED BY <1>3, <3>1, <3>2, <3>3, <3>4, NoJobGoesOn, TrainGoesOn DEF EnvironmentTransformer
  <2>2. \A e \in Envs, a \in Apps : Locked(e, a) => Locked(e, a)'
    BY <2>1 DEF Locked, HeldEnvLocks, HeldAppLocks
  <2> QED BY <2>1, <2>2, SameQueues DEF Kinds
<1>4. CASE JobStep /\ ~EndJob
  BY <1>4, DeployLatestKind, TrainEnvironmentKind, TrainApplicationKind DEF JobStep
<1>5. CASE Commit \/ Refuse
  BY <1>5 DEF Refuse, Kinds
<1> QED BY <1>1, <1>2, <1>3, <1>4, <1>5 DEF Next, JobStep

-----------------------------------------------------------------------------
(* What the kinds do to links and releases *)

\* A cleanup sees the link that was just written, and spares it.
LEMMA InstallReleases ==
  ASSUME TypeOK, NEW e \in Envs, NEW a \in Apps, NEW v \in Versions,
         v \in released[a], Install(e, a, v)
  PROVE  /\ \A b \in Apps : b # a => released'[b] = released[b]
         /\ released'[a] = released[a] \ OldReleases(released[a], LinksAfter(e, a, v))
         /\ v \in released'[a]
         /\ LinksAfter(e, a, v) \subseteq Nat /\ v \in LinksAfter(e, a, v)
<1>1. /\ released \in [Apps -> SUBSET Versions] /\ deployed \in [Envs -> [Apps -> Link]]
      /\ envDirs \subseteq Envs
  BY TreeTypes DEF TypeOK
<1>2. released' = [released EXCEPT ![a] = @ \ OldReleases(released[a], LinksAfter(e, a, v))]
  BY DEF Install, Cleanup
<1>3. v # NoVersion /\ v \in LinksAfter(e, a, v)
  BY ConstantsAssumption DEF LinksAfter, NoVersion
<1>4. LinksAfter(e, a, v) \subseteq Nat
  <2>1. \A f \in envDirs : deployed[f][a] \in Link
    BY <1>1
  <2>2. Versions \subseteq Nat /\ Link \subseteq Nat
    BY ConstantsAssumption DEF Link, NoVersion
  <2> QED BY <2>1, <2>2 DEF LinksAfter
<1>5. v \notin OldReleases(released[a], LinksAfter(e, a, v))
  BY <1>3, <1>4, LinkedNotOld
<1> QED BY <1>1, <1>2, <1>3, <1>4, <1>5

LEMMA InstallEffect ==
  ASSUME TypeOK, NEW e \in Envs, NEW a \in Apps, NEW v \in Versions, Install(e, a, v)
  PROVE  \A f \in Envs, b \in Apps :
           /\ deployed'[f][b] = IF f = e /\ b = a THEN v ELSE deployed[f][b]
           /\ queued'[f][b] = IF f = e /\ b = a THEN NoVersion ELSE queued[f][b]
           /\ Locked(f, b)' <=> Locked(f, b)
<1>1. deployed \in [Envs -> [Apps -> Link]] /\ queued \in [Envs -> [Apps -> Link]]
  BY TreeTypes DEF TypeOK
<1>2. /\ deployed' = [deployed EXCEPT ![e][a] = v]
      /\ queued' = [queued EXCEPT ![e][a] = NoVersion]
      /\ UNCHANGED lockVars
  BY DEF Install, LinkRelease
<1>3. \A f \in Envs, b \in Apps : Locked(f, b)' <=> Locked(f, b)
  BY <1>2 DEF lockVars, Locked, HeldEnvLocks, HeldAppLocks
<1> QED BY <1>1, <1>2, <1>3

LEMMA InstallPartlyEffect ==
  ASSUME TypeOK, NEW e \in Envs, NEW a \in Apps, NEW v \in Versions,
         InstallPartly(e, a, v), ~Readable(queued[e][a], a)
  PROVE  /\ \A f \in Envs, b \in Apps :
              /\ deployed'[f][b] = IF f = e /\ b = a THEN v ELSE deployed[f][b]
              /\ Locked(f, b)' <=> Locked(f, b)
         /\ UNCHANGED <<released, queued>>
<1>1. deployed \in [Envs -> [Apps -> Link]]
  BY TreeTypes DEF TypeOK
<1>2. deployed' = [deployed EXCEPT ![e][a] = v] /\ UNCHANGED <<lockVars, released, queued>>
  BY DEF InstallPartly, LinkRelease, releaseVars
<1> QED BY <1>1, <1>2 DEF lockVars, Locked, HeldEnvLocks, HeldAppLocks

LEMMA QueueEffect ==
  ASSUME TypeOK, NEW e \in Envs, NEW a \in Apps, NEW v \in Versions, Queue(e, a, v)
  PROVE  /\ \A f \in Envs, b \in Apps :
              /\ queued'[f][b] = IF f = e /\ b = a THEN v ELSE queued[f][b]
              /\ Locked(f, b)' <=> Locked(f, b)
         /\ UNCHANGED <<released, deployed>>
<1>1. queued \in [Envs -> [Apps -> Link]]
  BY TreeTypes DEF TypeOK
<1>2. queued' = [queued EXCEPT ![e][a] = v] /\ UNCHANGED <<lockVars, released, deployed>>
  BY DEF Queue, releaseVars
<1> QED BY <1>1, <1>2 DEF lockVars, Locked, HeldEnvLocks, HeldAppLocks

LEMMA AddEffect ==
  ASSUME TypeOK, NEW a \in Apps, NEW v \in Versions, Adds(a, v)
  PROVE  /\ \A b \in Apps : released'[b] = IF b = a THEN released[a] \cup {v} ELSE released[b]
         /\ UNCHANGED <<deployed, queued, envLocks, appLocks, head>>
         /\ job'.kind = "create" /\ job'.version = v /\ job'.apps = {a}
         /\ job'.envs # {} => IsLatest(a, v)
<1>1. PICK M \in SUBSET Envs, T \in SUBSET Envs :
        AddRelease(a, v, M, T) /\ (T # {} => IsLatest(a, v))
  BY DEF Adds
<1>2. released \in [Apps -> SUBSET Versions]
  BY TreeTypes DEF TypeOK
<1>3. released' = [released EXCEPT ![a] = @ \cup {v}]
      /\ UNCHANGED <<deployed, queued, envLocks, appLocks, head>>
      /\ job' = [NoJob EXCEPT !.kind = "create", !.version = v, !.apps = {a}, !.envs = T]
  BY <1>1 DEF AddRelease, deployVars, lockVars
<1>4. job'.kind = "create" /\ job'.version = v /\ job'.apps = {a} /\ job'.envs = T
  BY <1>3 DEF NoJob
<1> QED BY <1>1, <1>2, <1>3, <1>4

LEMMA UndeployEffect ==
  ASSUME TypeOK, NEW a \in Apps, Undeploys(a)
  PROVE  /\ \A f \in Envs, b \in Apps :
              /\ deployed'[f][b] = IF b = a THEN NoVersion ELSE deployed[f][b]
              /\ queued'[f][b] = IF b = a THEN NoVersion ELSE queued[f][b]
              /\ b # a => (Locked(f, b)' <=> Locked(f, b))
         /\ \A b \in Apps : released'[b] = IF b = a THEN {} ELSE released[b]
         /\ head' = head /\ job' = NoJob
<1>1. /\ released \in [Apps -> SUBSET Versions] /\ deployed \in [Envs -> [Apps -> Link]]
      /\ queued \in [Envs -> [Apps -> Link]]
      /\ appLocks \in [Envs -> [Apps -> [LockIds -> LockState]]]
  BY TreeTypes DEF TypeOK
<1>2. /\ released' = [released EXCEPT ![a] = {}]
      /\ deployed' = WithoutApp(deployed, a) /\ queued' = WithoutApp(queued, a)
      /\ appLocks' = [e \in Envs |-> [appLocks[e] EXCEPT ![a] = [l \in LockIds |-> "free"]]]
      /\ UNCHANGED <<envLocks, head>> /\ job' = NoJob
  BY DEF Undeploys, UndeployApplication, Finish, Ready
<1>3. \A f \in Envs, b \in Apps :
        /\ deployed'[f][b] = IF b = a THEN NoVersion ELSE deployed[f][b]
        /\ queued'[f][b] = IF b = a THEN NoVersion ELSE queued[f][b]
        /\ b # a => appLocks'[f][b] = appLocks[f][b]
  BY <1>1, <1>2 DEF WithoutApp
<1>4. \A f \in Envs, b \in Apps : b # a => (Locked(f, b)' <=> Locked(f, b))
  BY <1>2, <1>3 DEF Locked, HeldEnvLocks, HeldAppLocks
<1> QED BY <1>1, <1>2, <1>3, <1>4

LEMMA TakeOutEffect ==
  ASSUME TypeOK, NEW e \in Envs, NEW a \in Apps, DeleteEnvFromApp(e, a)
  PROVE  /\ \A f \in Envs, b \in Apps :
              /\ deployed'[f][b] = IF f = e /\ b = a THEN NoVersion ELSE deployed[f][b]
              /\ queued'[f][b] = IF f = e /\ b = a THEN NoVersion ELSE queued[f][b]
              /\ ~(f = e /\ b = a) => (Locked(f, b)' <=> Locked(f, b))
         /\ UNCHANGED <<released, head>> /\ job' = NoJob
<1>1. /\ deployed \in [Envs -> [Apps -> Link]] /\ queued \in [Envs -> [Apps -> Link]]
      /\ appLocks \in [Envs -> [Apps -> [LockIds -> LockState]]]
  BY TreeTypes DEF TypeOK
<1>2. /\ deployed' = [deployed EXCEPT ![e][a] = NoVersion]
      /\ queued' = [queued EXCEPT ![e][a] = NoVersion]
      /\ appLocks' = [appLocks EXCEPT ![e][a] = [l \in LockIds |-> "free"]]
      /\ UNCHANGED <<released, envLocks, head>> /\ job' = NoJob
  BY DEF DeleteEnvFromApp, Finish, Ready, releaseVars
<1>3. \A f \in Envs, b \in Apps :
        /\ deployed'[f][b] = IF f = e /\ b = a THEN NoVersion ELSE deployed[f][b]
        /\ queued'[f][b] = IF f = e /\ b = a THEN NoVersion ELSE queued[f][b]
        /\ ~(f = e /\ b = a) => appLocks'[f][b] = appLocks[f][b]
  BY <1>1, <1>2
<1>4. \A f \in Envs, b \in Apps : ~(f = e /\ b = a) => (Locked(f, b)' <=> Locked(f, b))
  BY <1>2, <1>3 DEF Locked, HeldEnvLocks, HeldAppLocks
<1> QED BY <1>2, <1>3, <1>4

-----------------------------------------------------------------------------
(* Queues, and apps that are gone *)

LEMMA FreshQueues ==
  /\ NoStaleQueue <=>
       /\ \A e \in Envs, a \in Apps :
            queued[e][a] # NoVersion /\ queued[e][a] = deployed[e][a] => Locked(e, a)
       /\ QueueStaleOnlyUnderLock(head)
  /\ NoStaleQueue' <=>
       /\ \A e \in Envs, a \in Apps :
            queued'[e][a] # NoVersion /\ queued'[e][a] = deployed'[e][a] => Locked(e, a)'
       /\ QueueStaleOnlyUnderLock(head')
BY LockedIsUnderLock DEF NoStaleQueue, QueueStaleOnlyUnderLock, Tree

LEMMA FreshQueuesStep ==
  ASSUME TypeOK, LinksAreSafe, NoStaleQueue, Kinds  PROVE NoStaleQueue'
<1> USE FreshQueues
<1>1. CASE Rollback
  BY <1>1, RollbackTree DEF NoStaleQueue
<1>2. CASE Commit
  <2>1. Tree' = Tree /\ head' = Tree
    BY <1>2 DEF Commit, Tree, treeVars, releaseVars, deployVars, lockVars, envVars
  <2> QED BY <2>1 DEF NoStaleQueue
<1>3. CASE Quiet
  BY <1>3 DEF Quiet, AfterProcessQueue
<1>4. ASSUME NEW e \in Envs, NEW a \in Apps, NEW v \in Versions, Installs(e, a, v)
      PROVE  NoStaleQueue'
  BY <1>4, InstallEffect DEF Installs
<1>5. ASSUME NEW e \in Envs, NEW a \in Apps, NEW v \in Versions, InstallsPartly(e, a, v)
      PROVE  NoStaleQueue'
  BY <1>5, InstallPartlyEffect DEF InstallsPartly, Readable
<1>6. ASSUME NEW e \in Envs, NEW a \in Apps, NEW v \in Versions, Queues(e, a, v)
      PROVE  NoStaleQueue'
  BY <1>6, QueueEffect DEF Queues
<1>7. ASSUME NEW a \in Apps, NEW v \in Versions, Adds(a, v)  PROVE NoStaleQueue'
  <2>1. UNCHANGED <<deployed, queued, envLocks, appLocks, head>>
    BY <1>7, AddEffect
  <2>2. \A f \in Envs, b \in Apps : Locked(f, b)' <=> Locked(f, b)
    BY <2>1 DEF Locked, HeldEnvLocks, HeldAppLocks
  <2> QED BY <2>1, <2>2
<1>8. ASSUME NEW a \in Apps, Undeploys(a)  PROVE NoStaleQueue'
  BY <1>8, UndeployEffect
<1>9. ASSUME NEW e \in Envs, NEW a \in Apps, DeleteEnvFromApp(e, a)  PROVE NoStaleQueue'
  BY <1>9, TakeOutEffect
<1> QED BY <1>1, <1>2, <1>3, <1>4, <1>5, <1>6, <1>7, <1>8, <1>9 DEF Kinds

LEMMA GoneApps ==
  /\ GoneAppLeavesNothing <=>
       /\ \A a \in Apps : released[a] = {} =>
            \A e \in Envs : deployed[e][a] = NoVersion /\ queued[e][a] = NoVersion
       /\ NothingLeft(head)
  /\ GoneAppLeavesNothing' <=>
       /\ \A a \in Apps : released'[a] = {} =>
            \A e \in Envs : deployed'[e][a] = NoVersion /\ queued'[e][a] = NoVersion
       /\ NothingLeft(head')
BY DEF GoneAppLeavesNothing, NothingLeft, Tree

LEMMA GoneAppsStep ==
  ASSUME TypeOK, LinksAreSafe, GoneAppLeavesNothing, Kinds  PROVE GoneAppLeavesNothing'
<1> USE GoneApps
<1>1. CASE Rollback
  BY <1>1, RollbackTree DEF GoneAppLeavesNothing
<1>2. CASE Commit
  <2>1. Tree' = Tree /\ head' = Tree
    BY <1>2 DEF Commit, Tree, treeVars, releaseVars, deployVars, lockVars, envVars
  <2> QED BY <2>1 DEF GoneAppLeavesNothing
<1>3. CASE Quiet
  BY <1>3 DEF Quiet, AfterProcessQueue
<1>4. ASSUME NEW e \in Envs, NEW a \in Apps, NEW v \in Versions, Installs(e, a, v)
      PROVE  GoneAppLeavesNothing'
  <2>1. v \in released[a] /\ Install(e, a, v) /\ head' = head
    BY <1>4 DEF Installs
  <2>2. v \in released'[a] /\ \A b \in Apps : b # a => released'[b] = released[b]
    BY <2>1, InstallReleases
  <2> QED BY <2>1, <2>2, InstallEffect
<1>5. ASSUME NEW e \in Envs, NEW a \in Apps, NEW v \in Versions, InstallsPartly(e, a, v)
      PROVE  GoneAppLeavesNothing'
  BY <1>5, InstallPartlyEffect DEF InstallsPartly
<1>6. ASSUME NEW e \in Envs, NEW a \in Apps, NEW v \in Versions, Queues(e, a, v)
      PROVE  GoneAppLeavesNothing'
  BY <1>6, QueueEffect DEF Queues
<1>7. ASSUME NEW a \in Apps, NEW v \in Versions, Adds(a, v)  PROVE GoneAppLeavesNothing'
  <2>1. /\ \A b \in Apps : released'[b] = IF b = a THEN released[a] \cup {v} ELSE released[b]
        /\ UNCHANGED <<deployed, queued, head>>
    BY <1>7, AddEffect
  <2> QED BY <2>1
<1>8. ASSUME NEW a \in Apps, Undeploys(a)  PROVE GoneAppLeavesNothing'
  BY <1>8, UndeployEffect
<1>9. ASSUME NEW e \in Envs, NEW a \in Apps, DeleteEnvFromApp(e, a)  PROVE GoneAppLeavesNothing'
  BY <1>9, TakeOutEffect
<1> QED BY <1>1, <1>2, <1>3, <1>4, <1>5, <1>6, <1>7, <1>8, <1>9 DEF Kinds

\* A queue that names the version already running is only found under a lock:
\* a deployment drops the queue (DeleteQueuedVersionIfExists), and whoever
\* deletes the last lock processes it (State.ProcessQueue).
THEOREM QueuesAreFresh == Spec => []NoStaleQueue
<1>1. Init => NoStaleQueue
  BY DEF Init, NoStaleQueue, QueueStaleOnlyUnderLock, Tree
<1>2. TypeOK /\ LinksAreSafe /\ NoStaleQueue /\ [Next]_vars => NoStaleQueue'
  BY StepKinds, FreshQueuesStep
<1> QED BY <1>1, <1>2, InvariantHolds, PTL DEF Spec

\* An application without releases is deployed and queued nowhere: a cleanup
\* never takes the last release, and UndeployApplication removes everything.
THEOREM GoneAppsAreGone == Spec => []GoneAppLeavesNothing
<1>1. Init => GoneAppLeavesNothing
  BY DEF Init, GoneAppLeavesNothing, NothingLeft, Tree
<1>2. TypeOK /\ LinksAreSafe /\ GoneAppLeavesNothing /\ [Next]_vars => GoneAppLeavesNothing'
  BY StepKinds, GoneAppsStep
<1> QED BY <1>1, <1>2, InvariantHolds, PTL DEF Spec

-----------------------------------------------------------------------------
(* Locked versions *)

LEMMA LockedStep ==
  ASSUME TypeOK, LinksAreSafe, Kinds, NEW e \in Envs, NEW a \in Apps,
         Locked(e, a), deployed'[e][a] # deployed[e][a]
  PROVE  \/ Rollback \/ UndeployApplication(a) \/ DeleteEnvFromApp(e, a)
         \/ \E v \in Versions : DeployApplicationVersion(e, a, v, "Ignore")
<1>1. CASE Commit \/ Quiet
  BY <1>1 DEF Commit, Quiet, treeVars, deployVars
<1>2. ASSUME NEW f \in Envs, NEW b \in Apps, NEW v \in Versions, Installs(f, b, v)
      PROVE  \E w \in Versions : DeployApplicationVersion(e, a, w, "Ignore")
  <2>1. v \in released[b] /\ Install(f, b, v) /\ Unlocked(f, b, v)
    BY <1>2 DEF Installs
  <2>2. deployed'[e][a] = IF e = f /\ a = b THEN v ELSE deployed[e][a]
    BY <2>1, InstallEffect
  <2> QED BY <2>1, <2>2 DEF Unlocked
<1>3. ASSUME NEW f \in Envs, NEW b \in Apps, NEW v \in Versions, InstallsPartly(f, b, v)
      PROVE  FALSE
  BY <1>3, InstallPartlyEffect DEF InstallsPartly
<1>4. ASSUME NEW f \in Envs, NEW b \in Apps, NEW v \in Versions, Queues(f, b, v)
      PROVE  FALSE
  BY <1>4, QueueEffect DEF Queues
<1>5. ASSUME NEW b \in Apps, NEW v \in Versions, Adds(b, v)  PROVE FALSE
  BY <1>5, AddEffect
<1>6. ASSUME NEW b \in Apps, Undeploys(b)  PROVE UndeployApplication(a)
  <2>1. b = a
    BY <1>6, UndeployEffect
  <2> QED BY <1>6, <2>1 DEF Undeploys
<1>7. ASSUME NEW f \in Envs, NEW b \in Apps, DeleteEnvFromApp(f, b)
      PROVE  DeleteEnvFromApp(e, a)
  <2>1. f = e /\ b = a
    BY <1>7, TakeOutEffect
  <2> QED BY <1>7, <2>1
<1> QED BY <1>1, <1>2, <1>3, <1>4, <1>5, <1>6, <1>7 DEF Kinds

\* While an environment or the app in it is locked, its version moves only by a
\* deployment with lock behaviour IGNORE, or when the app is taken out.
THEOREM LockedVersionsStay == Spec => LockedVersionIsStable
<1> DEFINE A == \A e \in Envs, a \in Apps :
                  UnderLock(Tree, e, a) /\ deployed'[e][a] # deployed[e][a] =>
                    \/ Rollback \/ UndeployApplication(a) \/ DeleteEnvFromApp(e, a)
                    \/ \E v \in Versions : DeployApplicationVersion(e, a, v, "Ignore")
<1>1. TypeOK /\ LinksAreSafe /\ [Next]_vars => [A]_vars
  BY StepKinds, LockedStep, LockedIsUnderLock
<1>2. LockedVersionIsStable <=> [][A]_vars
  BY DEF LockedVersionIsStable
<1> HIDE DEF A
<1> QED BY <1>1, <1>2, InvariantHolds, PTL DEF Spec

-----------------------------------------------------------------------------
(* Releases *)

\* Only a cleanup takes single releases away.
LEMMA ReleaseGone ==
  ASSUME TypeOK, Kinds, NEW a \in Apps, NEW r \in released[a] \ released'[a]
  PROVE  \/ Rollback \/ UndeployApplication(a)
         \/ \E e \in Envs, v \in Versions : v \in released[a] /\ Install(e, a, v)
<1>1. CASE Commit \/ Quiet
  BY <1>1 DEF Commit, Quiet, treeVars, releaseVars
<1>2. ASSUME NEW e \in Envs, NEW b \in Apps, NEW v \in Versions, Installs(e, b, v)
      PROVE  \E f \in Envs, w \in Versions : w \in released[a] /\ Install(f, a, w)
  <2>1. v \in released[b] /\ Install(e, b, v)
    BY <1>2 DEF Installs
  <2>2. a = b
    BY <2>1, InstallReleases
  <2> QED BY <2>1, <2>2
<1>3. ASSUME NEW e \in Envs, NEW b \in Apps, NEW v \in Versions,
             InstallsPartly(e, b, v) \/ Queues(e, b, v)
      PROVE  FALSE
  BY <1>3 DEF InstallsPartly, InstallPartly, Queues, Queue, releaseVars
<1>4. ASSUME NEW b \in Apps, NEW v \in Versions, Adds(b, v)  PROVE FALSE
  <2>1. released'[a] = IF a = b THEN released[b] \cup {v} ELSE released[a]
    BY <1>4, AddEffect
  <2> QED BY <2>1
<1>5. ASSUME NEW b \in Apps, Undeploys(b)  PROVE UndeployApplication(a)
  <2>1. released'[a] = IF a = b THEN {} ELSE released[a]
    BY <1>5, UndeployEffect
  <2> QED BY <1>5, <2>1 DEF Undeploys
<1>6. ASSUME NEW f \in Envs, NEW b \in Apps, DeleteEnvFromApp(f, b)  PROVE FALSE
  BY <1>6 DEF DeleteEnvFromApp, releaseVars
<1> QED BY <1>1, <1>2, <1>3, <1>4, <1>5, <1>6 DEF Kinds

LEMMA LastNotOld ==
  ASSUME NEW rel, rel \subseteq Nat, NEW links, NEW v \in rel, \A r \in rel : r <= v
  PROVE  v \notin OldReleases(rel, links)
<1>1. {w \in rel : v < w} = {}
  <2>1. \A w \in rel : w \in Nat /\ v \in Nat /\ w <= v
    OBVIOUS
  <2>2. \A w \in rel : ~(v < w)
    BY <2>1
  <2> QED BY <2>2
<1>2. Cardinality({}) = 0 /\ ~(0 >= Kept)
  BY FS_EmptySet, ConstantsAssumption
<1> QED BY <1>1, <1>2 DEF OldReleases

\* The last old release has Kept - 1 between itself and each deployed one, and
\* none of those is old.
LEMMA KeptWindow ==
  ASSUME NEW rel, rel \subseteq Nat \ {0}, NEW links, links \subseteq Nat,
         NEW d \in links \ {NoVersion}, NEW r \in OldReleases(rel, links)
  PROVE  /\ r < d
         /\ Cardinality({w \in rel \ OldReleases(rel, links) : w < d}) >= Kept - 1
<1> DEFINE old == OldReleases(rel, links)
<1>0. (\A w \in rel : w \in Nat /\ 0 < w) /\ d \in Nat
  <2>1. \A w \in rel : w \in Nat /\ w # 0
    OBVIOUS
  <2> QED BY <2>1
<1>1. \A o \in old : /\ o \in rel /\ o < d
                     /\ Cardinality({w \in rel : o < w /\ w < d}) >= Kept - 1
  BY DEF OldReleases
<1>2. PICK m \in old : \A o \in old : o <= m
  <2>1. r \in old
    OBVIOUS
  <2> HIDE DEF old
  <2>2. ASSUME NEW o \in old  PROVE o \in 1 .. d
    <3>1. o \in Nat /\ 0 < o /\ o < d /\ d \in Nat
      BY <1>0, <1>1
    <3> QED BY <3>1
  <2>3. old \subseteq 1 .. d /\ old # {}
    BY <2>1, <2>2
  <2> QED BY <1>0, <2>3, GreatestElement
<1> HIDE DEF old
<1> DEFINE between == {w \in rel : m < w /\ w < d}
           left == {w \in rel \ old : w < d}
<1>3. between \subseteq left
  <2>1. ASSUME NEW w \in between  PROVE w \notin old
    <3>1. m < w /\ w \in Nat /\ m \in Nat
      BY <1>0, <1>1
    <3>2. ~(w <= m)
      BY <3>1
    <3> QED BY <1>2, <3>2
  <2> QED BY <2>1
<1>4. IsFiniteSet(left)
  <2>1. IsFiniteSet(1 .. d)
    BY <1>0, FS_Interval
  <2>2. ASSUME NEW w \in left  PROVE w \in 1 .. d
    <3>1. w \in Nat /\ 0 < w /\ w < d /\ d \in Nat
      BY <1>0
    <3> QED BY <3>1
  <2> QED BY <2>1, <2>2, FS_Subset
<1>5. /\ Cardinality(between) >= Kept - 1
      /\ Cardinality(between) <= Cardinality(left)
      /\ Cardinality(between) \in Nat /\ Cardinality(left) \in Nat
  BY <1>1, <1>3, <1>4, FS_Subset, FS_CardinalityType
<1>6. Cardinality(left) >= Kept - 1
  BY <1>5, ConstantsAssumption
<1> QED BY <1>1, <1>6 DEF old

\* The last release of an app is never cleaned up, so CreateApplicationVersion
\* and calculateVersion never hand out a version number a second time.
THEOREM LastReleaseStays == Spec => LatestReleaseSurvives
<1> DEFINE A == \A a \in Apps : \A v \in released[a] :
                  IsLastRelease(a, v) /\ v \notin released'[a] =>
                    Rollback \/ UndeployApplication(a)
<1>1. ASSUME TypeOK, LinksAreSafe, [Next]_vars, NEW a \in Apps, NEW v \in released[a],
             IsLastRelease(a, v), v \notin released'[a]
      PROVE  Rollback \/ UndeployApplication(a)
  <2>1. Kinds /\ released[a] \subseteq Nat /\ \A r \in released[a] : r <= v
    BY <1>1, StepKinds, TreeTypes, ConstantsAssumption DEF TypeOK, IsLastRelease
  <2>2. ASSUME NEW e \in Envs, NEW w \in Versions, w \in released[a], Install(e, a, w)
        PROVE  FALSE
    <3>1. v \notin OldReleases(released[a], LinksAfter(e, a, w))
      BY <2>1, LastNotOld
    <3> QED BY <1>1, <2>2, <3>1, InstallReleases
  <2> QED BY <1>1, <2>1, <2>2, ReleaseGone
<1>2. TypeOK /\ LinksAreSafe /\ [Next]_vars => [A]_vars
  BY <1>1
<1>3. LatestReleaseSurvives <=> [][A]_vars
  BY DEF LatestReleaseSurvives
<1> HIDE DEF A
<1> QED BY <1>2, <1>3, InvariantHolds, PTL DEF Spec

\* Whatever a cleanup takes away (findOldApplicationVersions), every environment
\* keeps the Kept - 1 releases before the one it runs.
THEOREM ReleasesToGoBackTo == Spec => RollbackWindow
<1> DEFINE A == \A a \in Apps : \A r \in released[a] \ released'[a] :
                  \/ Rollback \/ UndeployApplication(a)
                  \/ \A e \in Envs : deployed'[e][a] # NoVersion =>
                       /\ r < deployed'[e][a]
                       /\ Cardinality({w \in released'[a] : w < deployed'[e][a]}) >= Kept - 1
<1>1. ASSUME TypeOK, LinksAreSafe, [Next]_vars, NEW a \in Apps, NEW r \in released[a] \ released'[a],
             ~Rollback, ~UndeployApplication(a),
             NEW e \in Envs, deployed'[e][a] # NoVersion
      PROVE  /\ r < deployed'[e][a]
             /\ Cardinality({w \in released'[a] : w < deployed'[e][a]}) >= Kept - 1
  <2>1. PICK f \in Envs, v \in Versions : v \in released[a] /\ Install(f, a, v)
    BY <1>1, StepKinds, ReleaseGone
  <2> DEFINE links == LinksAfter(f, a, v)
             rel == released[a]
             d == deployed'[e][a]
  <2>2. rel \subseteq Nat \ {0}
    <3>1. released \in [Apps -> SUBSET Versions]
      BY <1>1, TreeTypes DEF TypeOK
    <3> QED BY <3>1, ConstantsAssumption
  <2>3. released'[a] = rel \ OldReleases(rel, links) /\ links \subseteq Nat /\ v \in links
    BY <1>1, <2>1, InstallReleases
  <2>4. d = IF e = f THEN v ELSE deployed[e][a]
    BY <1>1, <2>1, InstallEffect
  <2>5. d \in links \ {NoVersion}
    <3>1. e # f => e \in envDirs /\ d = deployed[e][a]
      BY <1>1, <2>4, SafeLinks
    <3>2. e # f => deployed[e][a] \in links
      BY <3>1 DEF LinksAfter
    <3> QED BY <1>1, <2>3, <2>4, <3>1, <3>2
  <2>6. r \in OldReleases(rel, links)
    BY <1>1, <2>3
  <2> HIDE DEF links, rel, d
  <2>7. r < d /\ Cardinality({w \in rel \ OldReleases(rel, links) : w < d}) >= Kept - 1
    BY <2>2, <2>3, <2>5, <2>6, KeptWindow
  <2> QED BY <2>3, <2>7 DEF d
<1>2. TypeOK /\ LinksAreSafe /\ [Next]_vars => [A]_vars
  BY <1>1
<1>3. RollbackWindow <=> [][A]_vars
  BY DEF RollbackWindow
<1> HIDE DEF A
<1> QED BY <1>2, <1>3, InvariantHolds, PTL DEF Spec

-----------------------------------------------------------------------------
(* Environments that follow the latest release *)

\* The loop that deploys a new release only runs when it is the latest: it
\* stays that, since no release is made before the loop is through.
JobIsLatest ==
  job.kind = "create" /\ job.envs # {} =>
    \A a \in job.apps \cap Apps : \A r \in released[a] : r <= job.version

LEMMA JobIsLatestStep ==
  ASSUME TypeOK, LinksAreSafe, JobIsLatest, Kinds  PROVE JobIsLatest'
<1>1. CASE Rollback \/ Commit
  <2>1. job' = NoJob
    BY <1>1 DEF Rollback, Commit
  <2> QED BY <2>1 DEF NoJob, JobIsLatest
<1>2. ASSUME NEW a \in Apps, NEW v \in Versions, Adds(a, v)  PROVE JobIsLatest'
  <2>1. /\ released'[a] = released[a] \cup {v} /\ job'.version = v /\ job'.apps = {a}
        /\ job'.envs # {} => IsLatest(a, v)
    BY <1>2, AddEffect
  <2>2. job'.envs # {} => \A r \in released'[a] : r <= v
    BY <2>1, ConstantsAssumption DEF IsLatest
  <2> QED BY <2>1, <2>2 DEF JobIsLatest
<1>3. ASSUME JobGoesOn, \A a \in Apps : released'[a] \subseteq released[a]  PROVE JobIsLatest'
  <2>1. SUFFICES ASSUME job'.kind = "create", job'.envs # {},
                        NEW a \in job'.apps \cap Apps, NEW r \in released'[a]
                 PROVE  r <= job'.version
    BY DEF JobIsLatest
  <2>2. job.kind = "create" /\ job'.version = job.version /\ job'.apps = job.apps /\ job.envs # {}
    BY <1>3, <2>1 DEF JobGoesOn
  <2>3. a \in job.apps \cap Apps /\ r \in released[a]
    BY <1>3, <2>1, <2>2
  <2> QED BY <2>2, <2>3 DEF JobIsLatest
<1>4. ASSUME NEW e \in Envs, NEW b \in Apps, NEW v \in Versions, Installs(e, b, v)
      PROVE  JobIsLatest'
  <2>1. v \in released[b] /\ Install(e, b, v) /\ JobGoesOn
    BY <1>4 DEF Installs
  <2>2. \A a \in Apps : released'[a] \subseteq released[a]
    BY <2>1, InstallReleases
  <2> QED BY <1>3, <2>1, <2>2
<1>5. ASSUME NEW e \in Envs, NEW b \in Apps, NEW v \in Versions,
             InstallsPartly(e, b, v) \/ Queues(e, b, v)
      PROVE  JobIsLatest'
  <2>1. released' = released /\ JobGoesOn
    BY <1>5 DEF InstallsPartly, InstallPartly, Queues, Queue, releaseVars
  <2> QED BY <1>3, <2>1
<1>6. CASE Quiet
  BY <1>3, <1>6 DEF Quiet
<1>7. ASSUME NEW a \in Apps, Undeploys(a)  PROVE JobIsLatest'
  <2>1. job' = NoJob
    BY <1>7, UndeployEffect
  <2> QED BY <2>1 DEF NoJob, JobIsLatest
<1>8. ASSUME NEW e \in Envs, NEW a \in Apps, DeleteEnvFromApp(e, a)  PROVE JobIsLatest'
  <2>1. job' = NoJob
    BY <1>8, TakeOutEffect
  <2> QED BY <2>1 DEF NoJob, JobIsLatest
<1> QED BY <1>1, <1>2, <1>4, <1>5, <1>6, <1>7, <1>8 DEF Kinds

\* What is deployed is a release, so it is not newer than the last one.
LEMMA DeployedNotNewer ==
  ASSUME TypeOK, LinksAreSafe, NEW e \in Envs, NEW a \in Apps, NEW v \in Versions,
         \A r \in released[a] : r <= v
  PROVE  v >= deployed[e][a] /\ deployed[e][a] >= deployed[e][a]
<1>1. deployed[e][a] \in Link /\ v \in Nat /\ Link \subseteq Nat
  BY TreeTypes, ConstantsAssumption DEF TypeOK, Link, NoVersion
<1>2. deployed[e][a] = 0 \/ deployed[e][a] <= v
  BY SafeLinks DEF NoVersion
<1>3. deployed[e][a] \in Nat /\ v \in Nat
  BY <1>1
<1> QED BY <1>2, <1>3

LEMMA NotMovedBack ==
  ASSUME TypeOK, LinksAreSafe, JobIsLatest, NEW e \in Envs, NEW a \in Apps, ~Rollback,
         DeployLatest(e, a) \/ (config[e].latest /\ TrainApplication(e, a))
  PROVE  deployed'[e][a] >= deployed[e][a]
<1>1. CASE DeployLatest(e, a)
  <2> DEFINE v == job.version
  <2>0. job.kind = "create" /\ job.envs # {} /\ a \in job.apps
    BY <1>1 DEF DeployLatest
  <2>1. v \in released[a] /\ v \in Versions /\ \A r \in released[a] : r <= v
    BY <2>0, SafeLinks, TreeTypes DEF JobHasRelease, JobIsLatest, TypeOK
  <2>2. Queue(e, a, v) \/ Install(e, a, v)
    BY <1>1 DEF DeployLatest
  <2> HIDE DEF v
  <2>3. deployed'[e][a] = deployed[e][a] \/ deployed'[e][a] = v
    BY <2>1, <2>2, QueueEffect, InstallEffect
  <2> QED BY <2>1, <2>3, DeployedNotNewer
<1>2. CASE config[e].latest /\ TrainApplication(e, a)
  <2>0. deployed[e][a] \in Nat
    <3>1. deployed[e][a] \in Link
      BY TreeTypes DEF TypeOK
    <3>2. Link \subseteq Nat
      BY ConstantsAssumption DEF Link, NoVersion
    <3> QED BY <3>1, <3>2
  <2>1. CASE deployed' = deployed
    BY <2>0, <2>1
  <2>2. ASSUME NEW v \in Versions, IsTrainVersion(config[e], a, v), HasManifest(e, a, v),
               Install(e, a, v) \/ InstallPartly(e, a, v)
        PROVE  deployed'[e][a] >= deployed[e][a]
    <3>1. \A r \in released[a] : r <= v
      BY <1>2, <2>2 DEF IsTrainVersion, IsLastRelease
    <3>2. InstallPartly(e, a, v) => deployed'[e][a] = v
      BY TreeTypes DEF TypeOK, InstallPartly, LinkRelease
    <3>3. deployed'[e][a] = v
      BY <2>2, <3>2, InstallEffect DEF HasManifest
    <3> QED BY <3>1, <3>3, DeployedNotNewer
  <2>3. \A v \in Versions : Queue(e, a, v) => deployed' = deployed
    BY DEF Queue
  <2>4. StopTrain \/ UNCHANGED treeVars => deployed' = deployed
    BY DEF StopTrain, treeVars, deployVars
  <2> QED BY <1>2, <2>1, <2>2, <2>3, <2>4, TrainApplicationCases
<1> QED BY <1>1, <1>2

\* An environment with upstream "latest" is never moved back, neither by
\* CreateApplicationVersion with an older version nor by a release train.
THEOREM LatestGoesForward == Spec => LatestEnvNeverMovedBack
<1> DEFINE A == \A e \in Envs, a \in Apps :
                  DeployLatest(e, a) \/ (config[e].latest /\ TrainApplication(e, a)) =>
                    Rollback \/ deployed'[e][a] >= deployed[e][a]
<1>1. Init => JobIsLatest
  BY DEF Init, JobIsLatest, NoJob
<1>2. TypeOK /\ LinksAreSafe /\ JobIsLatest /\ [Next]_vars => JobIsLatest'
  BY StepKinds, JobIsLatestStep
<1>3. TypeOK /\ LinksAreSafe /\ JobIsLatest /\ [Next]_vars => [A]_vars
  BY NotMovedBack
<1>4. LatestEnvNeverMovedBack <=> [][A]_vars
  BY DEF LatestEnvNeverMovedBack
<1> HIDE DEF A
<1> QED BY <1>1, <1>2, <1>3, <1>4, InvariantHolds, PTL DEF Spec

-----------------------------------------------------------------------------
(* Requests of one transformer *)

\* Nothing has been applied since the head was read.
Fresh == job = NoJob /\ count = 0

\* The version of the app in the environment may still be moved before the
\* commit.
Ahead(e, a) ==
  \/ Fresh
  \/ job.kind = "create" /\ e \in job.envs /\ a \in job.apps
  \/ /\ job.kind = "train" /\ e \in job.envs
     /\ IsCurrent(e) /\ job.apps # {} => a \in job.apps

InMemory(e, a) == <<"manifest", e, a>> \in cached

\* The kinds of steps, once more: what was deployed so far.
Onward == head' = head /\ \A f \in Envs, b \in Apps : Ahead(f, b)' => Ahead(f, b)

Deploys(e, a, v) ==
  /\ Onward
  /\ Ahead(e, a) /\ ~Ahead(e, a)' /\ LinkRelease(e, a, v)
  /\ \A f \in Envs, b \in Apps : InMemory(f, b)' => InMemory(f, b) \/ (f = e /\ b = a)

Leaves ==
  /\ Onward
  /\ UNCHANGED <<deployed, manifestFile>>
  /\ \A f \in Envs, b \in Apps : InMemory(f, b)' => InMemory(f, b)

TakesOut ==
  /\ Onward
  /\ \A f \in Envs, b \in Apps :
       /\ InMemory(f, b)' => InMemory(f, b)
       /\ \/ deployed'[f][b] = deployed[f][b] /\ manifestFile'[f][b] = manifestFile[f][b]
          \/ deployed'[f][b] = NoVersion /\ manifestFile'[f][b] = <<>>

Progress ==
  \/ Rollback \/ Commit \/ Leaves \/ TakesOut
  \/ \E e \in Envs, a \in Apps, v \in Versions : Deploys(e, a, v)

LEMMA FileKinds ==
  ASSUME NEW e, NEW a
  PROVE  /\ <<"manifest", e, a>> \notin ConfigFiles
         /\ \A f : <<"manifest", e, a>> \notin EnvLockFiles(f)
         /\ \A f, b : <<"manifest", e, a>> \notin LockFiles(f, b)
         /\ \A f, l : <<"manifest", e, a>> # <<"envLock", f, l>>
         /\ \A f, b, l : <<"manifest", e, a>> # <<"appLock", f, b, l>>
         /\ \A f : <<"manifest", e, a>> # <<"config", f>>
         /\ \A f, b : <<"manifest", e, a>> = <<"manifest", f, b>> => f = e /\ b = a
<1>1. \A f, l : <<"manifest", e, a>> # <<"envLock", f, l>>
  OBVIOUS
<1>2. \A f, b, l : <<"manifest", e, a>> # <<"appLock", f, b, l>>
  OBVIOUS
<1>3. \A f : <<"manifest", e, a>> # <<"config", f>>
  OBVIOUS
<1>4. \A f, b : <<"manifest", e, a>> = <<"manifest", f, b>> => f = e /\ b = a
  OBVIOUS
<1> QED BY <1>1, <1>2, <1>3, <1>4 DEF ConfigFiles, EnvLockFiles, LockFiles

LEMMA ReadyIsFresh == ASSUME TypeOK, MaxBatch = 1, Ready  PROVE Fresh
BY DEF TypeOK, Ready, Fresh

\* A transformer that returns ends a request of one.
LEMMA Finished ==
  ASSUME TypeOK, count' = count + 1, job' = NoJob
  PROVE  ~Fresh' /\ \A f, b : ~Ahead(f, b)'
<1>1. count' # 0
  BY DEF TypeOK
<1> QED BY <1>1 DEF Fresh, Ahead, NoJob

LEMMA FreshAhead == ASSUME Fresh  PROVE \A f, b : Ahead(f, b)
BY DEF Ahead

LEMMA LockProgress ==
  ASSUME TypeOK, MaxBatch = 1, LockTransformer  PROVE Progress
<1>1. CASE Rollback
  BY <1>1 DEF Progress
<1>2. ASSUME Ready, count' = count + 1, job' = job, head' = head,
             UNCHANGED <<deployed, manifestFile>>,
             \A f \in Envs, b \in Apps : InMemory(f, b)' => InMemory(f, b)
      PROVE  Leaves
  <2>1. Fresh /\ job' = NoJob
    BY <1>2, ReadyIsFresh DEF Ready
  <2> QED BY <1>2, <2>1, Finished DEF Leaves, Onward
<1>3. ASSUME NEW E, NEW l, CreateEnvLocks(E, l)
      PROVE  count' = count + 1 /\ job' = job /\ head' = head /\ UNCHANGED <<deployed, manifestFile>>
  BY <1>3 DEF CreateEnvLocks, Finish, deployVars
<1>4. ASSUME NEW E, NEW l, DeleteEnvLocks(E, l)
      PROVE  count' = count + 1 /\ job' = job /\ head' = head /\ UNCHANGED <<deployed, manifestFile>>
  BY <1>4 DEF DeleteEnvLocks, Finish
<1>5. ASSUME NEW l \in LockIds, NEW e \in Envs, CreateEnvironmentLock(e, l), ~Rollback  PROVE Leaves
  <2>1. Ready /\ CreateEnvLocks({e}, l) /\ cached' = cached \cup {<<"envLock", e, l>>}
    BY <1>5 DEF CreateEnvironmentLock
  <2>2. \A f \in Envs, b \in Apps : InMemory(f, b)' => InMemory(f, b)
    BY <2>1, FileKinds DEF InMemory
  <2> QED BY <1>2, <1>3, <2>1, <2>2
<1>6. ASSUME NEW l \in LockIds, NEW e \in Envs, DeleteEnvironmentLock(e, l), ~Rollback  PROVE Leaves
  <2>1. Ready /\ DeleteEnvLocks({e}, l) /\ cached' \subseteq cached
    BY <1>6 DEF DeleteEnvironmentLock
  <2> QED BY <1>2, <1>4, <2>1 DEF InMemory
<1>7. ASSUME NEW l \in LockIds, NEW g \in Groups, CreateEnvironmentGroupLock(g, l), ~Rollback  PROVE Leaves
  <2>1. /\ Ready /\ CreateEnvLocks(EnvGroup(g), l)
        /\ cached' = cached \cup ConfigFiles \cup {<<"envLock", e, l>> : e \in EnvGroup(g)}
    BY <1>7 DEF CreateEnvironmentGroupLock
  <2>2. \A f \in Envs, b \in Apps : InMemory(f, b)' => InMemory(f, b)
    BY <2>1, FileKinds DEF InMemory
  <2>3. count' = count + 1 /\ job' = job /\ head' = head /\ UNCHANGED <<deployed, manifestFile>>
    BY <2>1 DEF CreateEnvLocks, Finish, deployVars
  <2> QED BY <1>2, <2>1, <2>2, <2>3
<1>8. ASSUME NEW l \in LockIds, NEW g \in Groups, DeleteEnvironmentGroupLock(g, l), ~Rollback  PROVE Leaves
  <2>1. /\ Ready /\ DeleteEnvLocks(EnvGroup(g), l)
        /\ cached' \subseteq cached \cup ConfigFiles
    BY <1>8 DEF DeleteEnvironmentGroupLock
  <2>2. \A f \in Envs, b \in Apps : InMemory(f, b)' => InMemory(f, b)
    BY <2>1, FileKinds DEF InMemory
  <2>3. count' = count + 1 /\ job' = job /\ head' = head /\ UNCHANGED <<deployed, manifestFile>>
    BY <2>1 DEF DeleteEnvLocks, Finish
  <2> QED BY <1>2, <2>1, <2>2, <2>3
<1>9. ASSUME NEW l \in LockIds, NEW e \in Envs, NEW a \in Apps,
             CreateEnvironmentApplicationLock(e, a, l), ~Rollback
      PROVE  Leaves
  <2>1. /\ Ready /\ cached' = cached \cup {<<"appLock", e, a, l>>}
        /\ count' = count + 1 /\ job' = job /\ head' = head /\ UNCHANGED <<deployed, manifestFile>>
    BY <1>9 DEF CreateEnvironmentApplicationLock, Finish, deployVars
  <2>2. \A f \in Envs, b \in Apps : InMemory(f, b)' => InMemory(f, b)
    BY <2>1, FileKinds DEF InMemory
  <2> QED BY <1>2, <2>1, <2>2
<1>10. ASSUME NEW l \in LockIds, NEW e \in Envs, NEW a \in Apps,
             DeleteEnvironmentApplicationLock(e, a, l), ~Rollback
      PROVE  Leaves
  <2>1. /\ Ready /\ cached' \subseteq cached
        /\ count' = count + 1 /\ job' = job /\ head' = head /\ UNCHANGED <<deployed, manifestFile>>
    BY <1>10 DEF DeleteEnvironmentApplicationLock, Finish
  <2> QED BY <1>2, <2>1 DEF InMemory
<1> QED BY <1>1, <1>5, <1>6, <1>7, <1>8, <1>9, <1>10 DEF LockTransformer, Progress

LEMMA InstallMemory ==
  ASSUME NEW e \in Envs, NEW a \in Apps, NEW v \in Versions, Install(e, a, v) \/ InstallPartly(e, a, v)
  PROVE  /\ LinkRelease(e, a, v)
         /\ \A f \in Envs, b \in Apps : InMemory(f, b)' => InMemory(f, b) \/ (f = e /\ b = a)
<1>1. cached' \subseteq cached \cup {<<"manifest", e, a>>} \cup ConfigFiles /\ LinkRelease(e, a, v)
  BY DEF Install, InstallPartly
<1> QED BY <1>1, FileKinds DEF InMemory

LEMMA QueueMemory ==
  ASSUME NEW e \in Envs, NEW a \in Apps, NEW v \in Versions, Queue(e, a, v)
  PROVE  /\ UNCHANGED <<deployed, manifestFile>>
         /\ \A f \in Envs, b \in Apps : InMemory(f, b)' => InMemory(f, b)
BY FileKinds DEF Queue, InMemory

LEMMA DeployProgress ==
  ASSUME TypeOK, MaxBatch = 1, NEW e \in Envs, NEW a \in Apps, NEW v \in Versions,
         NEW b \in {"Record", "Fail", "Ignore"}, DeployApplicationVersion(e, a, v, b)
  PROVE  Progress
<1>1. CASE Rollback
  BY <1>1 DEF Progress
<1>2. CASE ~Rollback
  <2>1. /\ Fresh /\ job' = NoJob /\ head' = head /\ count' = count + 1 /\ v \in released[a]
    BY <1>2, ReadyIsFresh DEF DeployApplicationVersion, HasManifest, Finish, Ready
  <2>2. Onward /\ (\A f, c : Ahead(f, c) /\ ~Ahead(f, c)')
    BY <2>1, Finished, FreshAhead DEF Onward
  <2>3. CASE Queue(e, a, v)
    BY <2>1, <2>2, <2>3, QueueMemory DEF Leaves, Progress
  <2>4. CASE Install(e, a, v) /\ Finish({AppEnv(a, e)})
    <3>1. /\ LinkRelease(e, a, v)
          /\ \A f \in Envs, c \in Apps : InMemory(f, c)' => InMemory(f, c) \/ (f = e /\ c = a)
      BY <2>4, InstallMemory
    <3> QED BY <2>2, <3>1 DEF Deploys, Progress
  <2> QED BY <1>2, <2>3, <2>4 DEF DeployApplicationVersion
<1> QED BY <1>1, <1>2

\* The start of a loop.
LEMMA AddProgress ==
  ASSUME TypeOK, Fresh, NEW a \in Apps, NEW v \in Versions, NEW M, NEW T,
         AddRelease(a, v, M, T)
  PROVE  Leaves
<1>1. UNCHANGED <<deployed, manifestFile, head>> /\ cached' = cached \cup ConfigFiles
  BY DEF AddRelease, deployVars
<1>2. \A f \in Envs, b \in Apps : InMemory(f, b)' => InMemory(f, b)
  BY <1>1, FileKinds DEF InMemory
<1> QED BY <1>1, <1>2, FreshAhead DEF Leaves, Onward

LEMMA CreateProgress ==
  ASSUME TypeOK, MaxBatch = 1, NEW a \in Apps, NEW v \in Versions,
         \/ \E r \in Versions \cup {0}, M \in ManifestSets : CreateApplicationVersion(a, r, v, M)
         \/ CreateUndeployApplicationVersion(a, v)
  PROVE  Progress
<1>1. ASSUME NEW r, NEW M, CreateApplicationVersion(a, r, v, M), ~Rollback  PROVE Leaves
  <2> DEFINE T == IF IsLatest(a, v) THEN M \cap LatestEnvs ELSE {}
  <2>1. Ready /\ AddRelease(a, v, M, T)
    BY <1>1 DEF CreateApplicationVersion
  <2> HIDE DEF T
  <2> QED BY <2>1, ReadyIsFresh, AddProgress
<1>2. ASSUME CreateUndeployApplicationVersion(a, v)  PROVE Leaves
  <2>1. Ready /\ AddRelease(a, v, envDirs, LatestEnvs)
    BY <1>2 DEF CreateUndeployApplicationVersion
  <2> QED BY <2>1, ReadyIsFresh, AddProgress
<1> QED BY <1>1, <1>2 DEF Progress

LEMMA UndeployProgress ==
  ASSUME TypeOK, MaxBatch = 1, NEW a \in Apps, UndeployApplication(a)
  PROVE  Progress
<1>1. CASE Rollback
  BY <1>1 DEF Progress
<1>2. CASE ~Rollback
  <2>0. /\ deployed \in [Envs -> [Apps -> Link]]
        /\ manifestFile \in [Envs -> [Apps -> Seq(Versions)]]
    BY TreeTypes DEF TypeOK
  <2>1. /\ Ready /\ Finish({AppEnv(a, e) : e \in envDirs})
        /\ deployed' = WithoutApp(deployed, a)
        /\ manifestFile' = [e \in Envs |-> [manifestFile[e] EXCEPT ![a] = <<>>]]
        /\ cached' \subseteq cached \cup ConfigFiles
    BY <1>2 DEF UndeployApplication
  <2>2. Onward
    BY <2>1, ReadyIsFresh, Finished, FreshAhead DEF Finish, Ready, Onward
  <2>3. \A f \in Envs, b \in Apps : InMemory(f, b)' => InMemory(f, b)
    BY <2>1, FileKinds DEF InMemory
  <2>4. ASSUME NEW f \in Envs, NEW b \in Apps, b # a
        PROVE  deployed'[f][b] = deployed[f][b] /\ manifestFile'[f][b] = manifestFile[f][b]
    BY <2>0, <2>1, <2>4 DEF WithoutApp
  <2>5. ASSUME NEW f \in Envs
        PROVE  deployed'[f][a] = NoVersion /\ manifestFile'[f][a] = <<>>
    BY <2>0, <2>1 DEF WithoutApp
  <2>6. TakesOut
    BY <2>2, <2>3, <2>4, <2>5 DEF TakesOut
  <2> QED BY <2>6 DEF Progress
<1> QED BY <1>1, <1>2

LEMMA DeleteProgress ==
  ASSUME TypeOK, MaxBatch = 1, NEW e \in Envs, NEW a \in Apps, DeleteEnvFromApp(e, a)
  PROVE  Progress
<1>0. /\ deployed \in [Envs -> [Apps -> Link]]
      /\ manifestFile \in [Envs -> [Apps -> Seq(Versions)]]
  BY TreeTypes DEF TypeOK
<1>1. /\ Ready /\ count' = count + 1 /\ UNCHANGED <<head, job>> /\ cached' \subseteq cached
      /\ deployed' = [deployed EXCEPT ![e][a] = NoVersion]
      /\ manifestFile' = [manifestFile EXCEPT ![e][a] = <<>>]
  BY DEF DeleteEnvFromApp, Finish
<1>2. Onward
  BY <1>1, ReadyIsFresh, Finished, FreshAhead DEF Ready, Onward
<1>3. \A f \in Envs, b \in Apps : InMemory(f, b)' => InMemory(f, b)
  BY <1>1 DEF InMemory
<1>4. ASSUME NEW f \in Envs, NEW b \in Apps, f # e \/ b # a
      PROVE  deployed'[f][b] = deployed[f][b] /\ manifestFile'[f][b] = manifestFile[f][b]
  BY <1>0, <1>1, <1>4
<1>5. deployed'[e][a] = NoVersion /\ manifestFile'[e][a] = <<>>
  BY <1>0, <1>1
<1>6. TakesOut
  BY <1>1, <1>2, <1>3, <1>4, <1>5 DEF TakesOut
<1> QED BY <1>6 DEF Progress

LEMMA EnvironmentProgress ==
  ASSUME TypeOK, MaxBatch = 1, EnvironmentTransformer  PROVE Progress
<1>1. ASSUME NEW e \in Envs, NEW c \in NewConfigs[e], CreateEnvironment(e, c)  PROVE Leaves
  <2>1. /\ Ready /\ count' = count + 1 /\ UNCHANGED <<head, job, deployed, manifestFile>>
        /\ cached' = cached \cup {<<"config", e>>}
    BY <1>1 DEF CreateEnvironment, Finish, deployVars
  <2>2. \A f \in Envs, b \in Apps : InMemory(f, b)' => InMemory(f, b)
    BY <2>1, FileKinds DEF InMemory
  <2> QED BY <2>1, <2>2, ReadyIsFresh, Finished, FreshAhead DEF Ready, Leaves, Onward
<1>2. ASSUME NEW T, NEW S, NEW team, ReleaseTrain(T, S, team)  PROVE Leaves
  <2>1. /\ Ready /\ UNCHANGED <<head, deployed, manifestFile>>
        /\ cached' = cached \cup ConfigFiles
    BY <1>2 DEF ReleaseTrain, treeVars, deployVars
  <2>2. \A f \in Envs, b \in Apps : InMemory(f, b)' => InMemory(f, b)
    BY <2>1, FileKinds DEF InMemory
  <2> QED BY <2>1, <2>2, ReadyIsFresh, FreshAhead DEF Leaves, Onward
<1> QED BY <1>1, <1>2 DEF EnvironmentTransformer, Progress

LEMMA LoopProgress ==
  ASSUME TypeOK, LinksAreSafe, NEW e \in Envs, NEW a \in Apps, DeployLatest(e, a)
  PROVE  Progress
<1>1. CASE Rollback
  BY <1>1 DEF Progress
<1>2. CASE ~Rollback
  <2> DEFINE v == job.version
  <2>1. /\ job.kind = "create" /\ e \in job.envs /\ a \in job.apps /\ job \in JobType
        /\ v \in released[a] /\ v \in Versions /\ UNCHANGED <<head, changes>> /\ job' = SkipEnv(e)
    BY <1>2, SafeLinks, TreeTypes DEF DeployLatest, JobHasRelease, TypeOK, SkipEnv
  <2>2. Queue(e, a, v) \/ Install(e, a, v)
    BY <1>2 DEF DeployLatest
  <2> HIDE DEF v
  <2>3. job'.kind = "create" /\ job'.apps = job.apps /\ job'.envs = job.envs \ {e}
    BY <2>1 DEF SkipEnv, JobType
  <2>4. ~Fresh /\ ~Fresh'
    BY <2>1, <2>3 DEF Fresh, NoJob
  <2>5. \A f \in Envs, b \in Apps : Ahead(f, b)' => Ahead(f, b)
    BY <2>1, <2>3, <2>4 DEF Ahead
  <2>6. Ahead(e, a) /\ ~Ahead(e, a)' /\ Onward
    BY <2>1, <2>3, <2>4, <2>5 DEF Ahead, Onward
  <2>7. CASE Queue(e, a, v)
    BY <2>1, <2>6, <2>7, QueueMemory DEF Leaves, Progress
  <2>8. CASE Install(e, a, v)
    <3>1. /\ LinkRelease(e, a, v)
          /\ \A f \in Envs, b \in Apps : InMemory(f, b)' => InMemory(f, b) \/ (f = e /\ b = a)
      BY <2>1, <2>8, InstallMemory
    <3> QED BY <2>1, <2>6, <3>1 DEF Deploys, Progress
  <2> QED BY <2>2, <2>7, <2>8
<1> QED BY <1>1, <1>2

\* A step of a loop that changes the job only.
LEMMA JobLeaves ==
  ASSUME UNCHANGED <<treeVars, head>>,
         cached' \subseteq cached \/ \E e \in Envs : cached' \subseteq cached \cup EnvLockFiles(e),
         \A f \in Envs, b \in Apps : Ahead(f, b)' => Ahead(f, b)
  PROVE  Leaves
<1>1. UNCHANGED <<deployed, manifestFile>>
  BY DEF treeVars, deployVars
<1>2. \A f \in Envs, b \in Apps : InMemory(f, b)' => InMemory(f, b)
  BY FileKinds DEF InMemory
<1> QED BY <1>1, <1>2 DEF Leaves, Onward

LEMMA StopTrainProgress == ASSUME TypeOK, StopTrain  PROVE Progress
<1>1. UNCHANGED <<treeVars, head, cached>> /\ count' = count + 1 /\ job' = NoJob
  BY DEF StopTrain
<1>2. \A f, b : ~Ahead(f, b)'
  BY <1>1, Finished
<1> QED BY <1>1, <1>2, JobLeaves DEF Progress

LEMMA TrainEnvironmentProgress ==
  ASSUME TypeOK, NEW e \in Envs, TrainEnvironment(e)  PROVE Progress
<1>1. CASE Rollback
  BY <1>1 DEF Progress
<1>2. CASE StopTrain
  BY <1>2, StopTrainProgress
<1>3. CASE ~Rollback /\ ~StopTrain
  <2>1. /\ job.kind = "train" /\ job.apps = {} /\ e \in job.envs /\ job \in JobType
        /\ UNCHANGED <<treeVars, head>>
        /\ cached' \subseteq cached \cup EnvLockFiles(e)
    BY <1>3, TrainEnvironmentCases DEF TrainEnvironment, IsCurrent, TypeOK
  <2>2. ~Fresh
    BY <2>1 DEF Fresh, NoJob
  <2>3. ASSUME NEW E \in SUBSET job.envs, NEW A, job' = [job EXCEPT !.envs = E, !.apps = A]  PROVE Progress
    <3>1. job'.kind = "train" /\ job'.envs = E
      BY <2>1, <2>3 DEF JobType
    <3>2. ~Fresh'
      BY <3>1 DEF Fresh, NoJob
    <3>3. \A f \in Envs, b \in Apps : Ahead(f, b)' => Ahead(f, b)
      BY <2>1, <3>1, <3>2 DEF Ahead
    <3>4. Leaves
      BY <2>1, <3>3, JobLeaves
    <3> QED BY <3>4 DEF Progress
  <2>4. CASE job' = SkipEnv(e)
    <3>1. job' = [job EXCEPT !.envs = job.envs \ {e}, !.apps = job.apps]
      BY <2>1, <2>4 DEF SkipEnv, JobType
    <3> QED BY <2>3, <3>1
  <2>5. ASSUME NEW A, job' = [job EXCEPT !.apps = A]  PROVE Progress
    <3>1. job' = [job EXCEPT !.envs = job.envs, !.apps = A]
      BY <2>1, <2>5 DEF JobType
    <3> QED BY <2>3, <3>1
  <2> QED BY <1>3, <2>4, <2>5, TrainEnvironmentCases
<1> QED BY <1>1, <1>2, <1>3

LEMMA TrainApplicationProgress ==
  ASSUME TypeOK, LinksAreSafe, NEW e \in Envs, NEW a \in Apps, TrainApplication(e, a)  PROVE Progress
<1>1. CASE Rollback
  BY <1>1 DEF Progress
<1>2. CASE StopTrain
  BY <1>2, StopTrainProgress
<1>3. CASE ~Rollback /\ ~StopTrain
  <2> DEFINE step == SkipApp(e, a)
  <2>1. /\ job.kind = "train" /\ IsCurrent(e) /\ e \in job.envs /\ a \in job.apps /\ job \in JobType
        /\ head' = head
    BY <1>3, TrainApplicationCases DEF TrainApplication, IsCurrent, TypeOK
  <2>2. \/ UNCHANGED <<treeVars, cached>>
        \/ \E v \in Versions : Queue(e, a, v) \/ Install(e, a, v) \/ InstallPartly(e, a, v)
    BY <1>3, TrainApplicationCases
  <2>3. job' = step \/ job' = [step EXCEPT !.changes = @ \cup {AppEnv(a, e)}]
    BY <1>3, TrainApplicationCases
  <2>4. /\ step \in JobType /\ step.kind = "train"
        /\ \/ step.apps = {} /\ step.envs = job.envs \ {e}
           \/ step.apps = job.apps \ {a} /\ step.apps # {} /\ step.envs = job.envs
    BY <2>1 DEF SkipApp, JobType
  <2> HIDE DEF step
  <2>5. job'.kind = "train" /\ job'.apps = step.apps /\ job'.envs = step.envs
    BY <2>3, <2>4 DEF JobType
  <2>6. ~Fresh /\ ~Fresh'
    BY <2>1, <2>5 DEF Fresh, NoJob
  <2>7. Ahead(e, a) /\ ~Ahead(e, a)'
    <3>1. Ahead(e, a)
      BY <2>1 DEF Ahead
    <3>2. CASE step.apps = {} /\ step.envs = job.envs \ {e}
      BY <2>5, <2>6, <3>1, <3>2 DEF Ahead
    <3>3. CASE step.apps = job.apps \ {a} /\ step.apps # {} /\ step.envs = job.envs
      <4>1. IsCurrent(e)'
        BY <2>1, <2>5, <3>3 DEF IsCurrent
      <4> QED BY <2>5, <2>6, <3>1, <3>3, <4>1 DEF Ahead
    <3> QED BY <2>4, <3>2, <3>3
  <2>8. ASSUME NEW f \in Envs, NEW b \in Apps, Ahead(f, b)'  PROVE Ahead(f, b)
    <3>1. f \in job'.envs /\ (IsCurrent(f)' /\ job'.apps # {} => b \in job'.apps)
      BY <2>5, <2>6, <2>8 DEF Ahead
    <3>2. CASE step.apps = {} /\ step.envs = job.envs \ {e}
      <4>1. f \in job.envs /\ f # e
        BY <2>5, <3>1, <3>2
      <4>2. ~IsCurrent(f)
        <5>1. e \in Nat /\ f \in Nat
          BY ConstantsAssumption
        <5> QED BY <2>1, <4>1, <5>1 DEF IsCurrent
      <4> QED BY <2>1, <4>1, <4>2 DEF Ahead
    <3>3. CASE step.apps = job.apps \ {a} /\ step.apps # {} /\ step.envs = job.envs
      <4>1. IsCurrent(f)' <=> IsCurrent(f)
        BY <2>5, <3>3 DEF IsCurrent
      <4> QED BY <2>1, <2>5, <3>1, <3>3, <4>1 DEF Ahead
    <3> QED BY <2>4, <3>2, <3>3
  <2>9. Onward
    BY <2>1, <2>8 DEF Onward
  <2>10. CASE UNCHANGED <<treeVars, cached>>
    <3>1. cached' \subseteq cached \cup EnvLockFiles(e)
      BY <2>10
    <3>2. Leaves
      BY <2>1, <2>8, <2>10, <3>1, JobLeaves
    <3> QED BY <3>2 DEF Progress
  <2>11. ASSUME NEW v \in Versions, Queue(e, a, v)  PROVE Progress
    BY <2>9, <2>11, QueueMemory DEF Leaves, Progress
  <2>12. ASSUME NEW v \in Versions, Install(e, a, v) \/ InstallPartly(e, a, v)  PROVE Progress
    <3>1. /\ LinkRelease(e, a, v)
          /\ \A f \in Envs, b \in Apps : InMemory(f, b)' => InMemory(f, b) \/ (f = e /\ b = a)
      BY <2>12, InstallMemory
    <3> QED BY <2>7, <2>9, <3>1 DEF Deploys, Progress
  <2> QED BY <2>2, <2>10, <2>11, <2>12
<1> QED BY <1>1, <1>2, <1>3

LEMMA StepProgress ==
  ASSUME TypeOK, LinksAreSafe, MaxBatch = 1, [Next]_vars  PROVE Progress
<1>1. CASE ReleaseTransformer
  <2>1. PICK a \in Apps :
          \/ \E r \in Versions \cup {0}, v \in Versions, M \in ManifestSets :
               CreateApplicationVersion(a, r, v, M)
          \/ \E v \in Versions : CreateUndeployApplicationVersion(a, v)
          \/ UndeployApplication(a)
          \/ \E e \in Envs : DeleteEnvFromApp(e, a)
          \/ \E e \in Envs, v \in Versions, b \in {"Record", "Fail", "Ignore"} :
               DeployApplicationVersion(e, a, v, b)
    BY <1>1 DEF ReleaseTransformer
  <2> QED BY <2>1, CreateProgress, UndeployProgress, DeleteProgress, DeployProgress
<1>2. CASE EndJob
  <2>1. count' = count + 1 /\ job' = NoJob /\ UNCHANGED <<treeVars, head, cached>>
    BY <1>2 DEF EndJob
  <2>2. \A f, b : ~Ahead(f, b)'
    BY <2>1, Finished
  <2> QED BY <2>1, <2>2, JobLeaves DEF Progress
<1>3. CASE UNCHANGED vars
  <2>1. UNCHANGED <<treeVars, head, cached, count, job>>
    BY <1>3 DEF vars
  <2>2. \A f, b : Ahead(f, b)' <=> Ahead(f, b)
    BY <2>1 DEF Ahead, Fresh, IsCurrent
  <2> QED BY <2>1, <2>2, JobLeaves DEF Progress
<1>4. CASE Commit \/ Refuse
  BY <1>4 DEF Refuse, Progress
<1> QED
  BY <1>1, <1>2, <1>3, <1>4, LockProgress, EnvironmentProgress, LoopProgress, TrainEnvironmentProgress,
     TrainApplicationProgress
  DEF Next, JobStep

-----------------------------------------------------------------------------
(* The copied manifest *)

CopyInv ==
  /\ FileMatchesLink(Tree) /\ FileMatchesLink(head)
  /\ \A e \in Envs, a \in Apps : Ahead(e, a) => ~InMemory(e, a)

\* FileMatchesLink of the tree in memory, at one place.
Copied(e, a) == manifestFile[e][a] = IF deployed[e][a] = NoVersion THEN <<>> ELSE <<deployed[e][a]>>

LEMMA TreeCopied ==
  /\ FileMatchesLink(Tree) <=> \A e \in Envs, a \in Apps : Copied(e, a)
  /\ FileMatchesLink(Tree') <=> \A e \in Envs, a \in Apps : Copied(e, a)'
BY DEF FileMatchesLink, Copied, Tree

LEMMA CopyStep == ASSUME TypeOK, CopyInv, Progress  PROVE CopyInv'
<1>0. /\ deployed \in [Envs -> [Apps -> Link]]
      /\ manifestFile \in [Envs -> [Apps -> Seq(Versions)]]
  BY TreeTypes DEF TypeOK
<1>1. CASE Rollback
  <2>1. FileMatchesLink(Tree') /\ FileMatchesLink(head')
    BY <1>1, RollbackTree DEF CopyInv
  <2>2. \A e \in Envs, a \in Apps : ~InMemory(e, a)'
    BY <1>1 DEF Rollback, InMemory
  <2> QED BY <2>1, <2>2 DEF CopyInv
<1>2. CASE Commit
  <2>1. Tree' = Tree /\ head' = Tree
    BY <1>2 DEF Commit, Tree, treeVars, releaseVars, deployVars, lockVars, envVars
  <2>2. \A e \in Envs, a \in Apps : ~InMemory(e, a)'
    BY <1>2 DEF Commit, InMemory
  <2> QED BY <2>1, <2>2 DEF CopyInv
<1>3. ASSUME Onward, \A e \in Envs, a \in Apps : Copied(e, a)',
             \A e \in Envs, a \in Apps : Ahead(e, a)' => ~InMemory(e, a)'
      PROVE  CopyInv'
  BY <1>3, TreeCopied DEF CopyInv, Onward
<1>4. CASE Leaves
  <2>1. \A e \in Envs, a \in Apps : Copied(e, a)'
    BY <1>4, TreeCopied DEF CopyInv, Leaves, Copied
  <2> QED BY <1>3, <1>4, <2>1 DEF Leaves, Onward, CopyInv
<1>5. CASE TakesOut
  <2>1. \A e \in Envs, a \in Apps : Copied(e, a)'
    BY <1>5, TreeCopied DEF CopyInv, TakesOut, Copied
  <2> QED BY <1>3, <1>5, <2>1 DEF TakesOut, Onward, CopyInv
<1>6. ASSUME NEW e \in Envs, NEW a \in Apps, NEW v \in Versions, Deploys(e, a, v)
      PROVE  CopyInv'
  <2>1. /\ deployed' = [deployed EXCEPT ![e][a] = v]
        /\ manifestFile' = [manifestFile EXCEPT ![e][a] = <<v>>]
    BY <1>6 DEF Deploys, CopyInv, LinkRelease, InMemory
  <2>2. v # NoVersion
    BY ConstantsAssumption DEF NoVersion
  <2>3. Copied(e, a)'
    BY <1>0, <2>1, <2>2 DEF Copied
  <2>4. ASSUME NEW f \in Envs, NEW b \in Apps, f # e \/ b # a  PROVE Copied(f, b)'
    <3>1. deployed'[f][b] = deployed[f][b] /\ manifestFile'[f][b] = manifestFile[f][b]
      BY <1>0, <2>1, <2>4
    <3> QED BY <3>1, TreeCopied DEF CopyInv, Copied
  <2>5. \A f \in Envs, b \in Apps : Ahead(f, b)' => ~InMemory(f, b)'
    BY <1>6 DEF Deploys, Onward, CopyInv
  <2> QED BY <1>3, <1>6, <2>3, <2>4, <2>5 DEF Deploys
<1> QED BY <1>1, <1>2, <1>4, <1>5, <1>6 DEF Progress

\* The manifest file of an app in an environment holds the manifests of the
\* release its "version" link names, once, and is gone when the link is: no
\* second deployment in a request appends to it, though the file system in
\* memory never truncates.  This is for requests of one transformer: with two
\* it is false (the run of TwoDeployments.cfg).
THEOREM ManifestIsCopied == MaxBatch = 1 => (Spec => []DeployedManifestIsCopied)
<1> SUFFICES ASSUME MaxBatch = 1  PROVE Spec => []DeployedManifestIsCopied
  OBVIOUS
<1>1. Init => CopyInv
  BY DEF Init, CopyInv, NoJob, FileMatchesLink, Tree, InMemory
<1>2. TypeOK /\ LinksAreSafe /\ CopyInv /\ [Next]_vars => CopyInv'
  BY StepProgress, CopyStep
<1>3. CopyInv => DeployedManifestIsCopied
  BY DEF CopyInv, DeployedManifestIsCopied
<1> QED BY <1>1, <1>2, <1>3, InvariantHolds, PTL DEF Spec

-----------------------------------------------------------------------------
(* What the webhook is told *)

\* What the webhook will be told once the loop is through, and what a train
\* left out.
Known == changes \cup job.changes \cup unreported

\* CreateApplicationVersion reports the environments before it deploys to them.
CreateReported ==
  job.kind = "create" => \A e \in job.envs, a \in job.apps : <<a, e>> \in changes

ReportInv ==
  /\ CreateReported
  /\ \A e \in Envs, a \in Apps : deployed[e][a] # head.deployed[e][a] => <<a, e>> \in Known

\* A step between two commits: what it moves is known, and what was stays so.
Tells ==
  /\ head' = head /\ CreateReported' /\ Known \subseteq Known'
  /\ \A e \in Envs, a \in Apps : deployed'[e][a] # deployed[e][a] => <<a, e>> \in Known'

\* A transformer that only returns moves what it reports.
LEMMA TellsAtEnd ==
  ASSUME UNCHANGED <<head, unreported>>, changes \subseteq changes',
         job = NoJob \/ job.changes \subseteq changes', job' = NoJob,
         \A e \in Envs, a \in Apps : deployed'[e][a] # deployed[e][a] => <<a, e>> \in changes'
  PROVE  Tells
BY DEF Tells, Known, CreateReported, NoJob

\* A step of a train that reports, or notes as unreported, what it moves.
LEMMA TellsOnTheWay ==
  ASSUME UNCHANGED head, job'.kind # "create", Known \subseteq Known',
         \A e \in Envs, a \in Apps : deployed'[e][a] # deployed[e][a] => <<a, e>> \in Known'
  PROVE  Tells
BY DEF Tells, CreateReported

LEMMA LinkMoves ==
  ASSUME TypeOK, NEW e \in Envs, NEW a \in Apps, NEW v, LinkRelease(e, a, v)
  PROVE  \A f \in Envs, b \in Apps : deployed'[f][b] # deployed[f][b] => f = e /\ b = a
<1>1. deployed \in [Envs -> [Apps -> Link]]
  BY TreeTypes DEF TypeOK
<1> QED BY <1>1 DEF LinkRelease

LEMMA LockTells == ASSUME LockTransformer  PROVE Rollback \/ Tells
<1>1. CASE Rollback
  BY <1>1
<1>2. CASE ~Rollback
  <2>1. job = NoJob /\ deployed' = deployed /\ Finish({})
    BY <1>2 DEF LockTransformer, CreateEnvironmentLock, CreateEnvironmentGroupLock,
       CreateEnvironmentApplicationLock, DeleteEnvironmentLock, DeleteEnvironmentGroupLock,
       DeleteEnvironmentApplicationLock, CreateEnvLocks, DeleteEnvLocks, Ready, deployVars
  <2> QED BY <2>1, TellsAtEnd DEF Finish
<1> QED BY <1>1, <1>2

LEMMA DeployTells ==
  ASSUME TypeOK, NEW e \in Envs, NEW a \in Apps, NEW v, NEW b, DeployApplicationVersion(e, a, v, b)
  PROVE  Rollback \/ Tells
<1>1. CASE Rollback
  BY <1>1
<1>2. CASE Queue(e, a, v) /\ Finish({})
  BY <1>2, TellsAtEnd DEF DeployApplicationVersion, Ready, Queue, Finish
<1>3. CASE Install(e, a, v) /\ Finish({AppEnv(a, e)})
  <2>1. \A f \in Envs, c \in Apps : deployed'[f][c] # deployed[f][c] => f = e /\ c = a
    BY <1>3, LinkMoves DEF Install
  <2>2. job = NoJob
    BY DEF DeployApplicationVersion, Ready
  <2> QED BY <1>3, <2>1, <2>2, TellsAtEnd DEF Finish, AppEnv
<1> QED BY <1>1, <1>2, <1>3 DEF DeployApplicationVersion

LEMMA AddTells ==
  ASSUME Ready, NEW a \in Apps, NEW v, NEW M, NEW T, T \subseteq M, AddRelease(a, v, M, T)
  PROVE  Tells
<1>1. /\ UNCHANGED <<deployed, head, unreported>> /\ job = NoJob
      /\ changes' = changes \cup {<<a, e>> : e \in M}
      /\ job'.envs = T /\ job'.apps = {a} /\ job'.changes = {}
  BY DEF AddRelease, deployVars, Ready, NoJob, AppEnv
<1>2. CreateReported'
  BY <1>1 DEF CreateReported
<1> QED BY <1>1, <1>2 DEF Tells, Known, NoJob

LEMMA CreateTells ==
  ASSUME NEW a \in Apps, NEW v,
         \/ \E r, M : CreateApplicationVersion(a, r, v, M)
         \/ CreateUndeployApplicationVersion(a, v)
  PROVE  Rollback \/ Tells
<1>1. ASSUME NEW r, NEW M, CreateApplicationVersion(a, r, v, M), ~Rollback  PROVE Tells
  <2> DEFINE T == IF IsLatest(a, v) THEN M \cap LatestEnvs ELSE {}
  <2>1. Ready /\ AddRelease(a, v, M, T) /\ T \subseteq M
    BY <1>1 DEF CreateApplicationVersion
  <2> HIDE DEF T
  <2> QED BY <2>1, AddTells
<1>2. ASSUME CreateUndeployApplicationVersion(a, v)  PROVE Tells
  <2>1. Ready /\ AddRelease(a, v, envDirs, LatestEnvs) /\ LatestEnvs \subseteq envDirs
    BY <1>2 DEF CreateUndeployApplicationVersion, LatestEnvs
  <2> QED BY <2>1, AddTells
<1> QED BY <1>1, <1>2

\* An app is only deployed where there is a directory, so UndeployApplication
\* reports every environment it takes the app from.
LEMMA UndeployTells ==
  ASSUME TypeOK, LinksAreSafe, NEW a \in Apps, UndeployApplication(a)
  PROVE  Rollback \/ Tells
<1>1. CASE Rollback
  BY <1>1
<1>2. CASE ~Rollback
  <2>1. /\ job = NoJob /\ Finish({AppEnv(a, e) : e \in envDirs})
        /\ deployed' = WithoutApp(deployed, a)
    BY <1>2 DEF UndeployApplication, Ready
  <2>2. deployed \in [Envs -> [Apps -> Link]]
    BY TreeTypes DEF TypeOK
  <2>3. ASSUME NEW f \in Envs, NEW b \in Apps, deployed'[f][b] # deployed[f][b]
        PROVE  <<b, f>> \in changes'
    <3>1. b = a /\ deployed[f][b] # NoVersion
      BY <2>1, <2>2, <2>3 DEF WithoutApp
    <3>2. f \in envDirs
      BY <3>1, SafeLinks
    <3> QED BY <2>1, <3>1, <3>2 DEF Finish, AppEnv
  <2> QED BY <2>1, <2>3, TellsAtEnd DEF Finish
<1> QED BY <1>1, <1>2

LEMMA DeleteTells ==
  ASSUME TypeOK, NEW e \in Envs, NEW a \in Apps, DeleteEnvFromApp(e, a)  PROVE Tells
<1>1. /\ job = NoJob /\ UNCHANGED <<head, job, unreported>> /\ changes \subseteq changes'
      /\ deployed' = [deployed EXCEPT ![e][a] = NoVersion]
      /\ deployed[e][a] # NoVersion => <<a, e>> \in changes'
  BY DEF DeleteEnvFromApp, Ready, Finish, AppEnv
<1>2. deployed \in [Envs -> [Apps -> Link]]
  BY TreeTypes DEF TypeOK
<1>3. \A f \in Envs, b \in Apps : deployed'[f][b] # deployed[f][b] => <<b, f>> \in changes'
  BY <1>1, <1>2
<1> QED BY <1>1, <1>3, TellsAtEnd

LEMMA EnvironmentTells == ASSUME EnvironmentTransformer  PROVE Tells
<1>1. ASSUME NEW e, NEW c, CreateEnvironment(e, c)  PROVE Tells
  BY <1>1, TellsAtEnd DEF CreateEnvironment, Ready, Finish, deployVars
<1>2. ASSUME NEW T, NEW S, NEW team, ReleaseTrain(T, S, team)  PROVE Tells
  <2>1. /\ UNCHANGED <<deployed, head, changes, unreported>> /\ job = NoJob
        /\ job'.kind = "train" /\ job'.changes = {}
    BY <1>2 DEF ReleaseTrain, Ready, NoJob, treeVars, deployVars
  <2> QED BY <2>1, TellsOnTheWay DEF Known, NoJob
<1> QED BY <1>1, <1>2 DEF EnvironmentTransformer

LEMMA LoopTells ==
  ASSUME TypeOK, CreateReported, NEW e \in Envs, NEW a \in Apps, DeployLatest(e, a)
  PROVE  Rollback \/ Tells
<1>1. CASE Rollback
  BY <1>1
<1>2. CASE ~Rollback
  <2>1. /\ job.kind = "create" /\ e \in job.envs /\ a \in job.apps /\ job \in JobType
        /\ UNCHANGED <<head, changes, unreported>> /\ job' = SkipEnv(e)
    BY <1>2 DEF DeployLatest, TypeOK, SkipEnv
  <2>2. job'.apps = job.apps /\ job'.envs \subseteq job.envs /\ job'.changes = job.changes
    BY <2>1 DEF SkipEnv, JobType
  <2>3. \A f \in Envs, b \in Apps : deployed'[f][b] # deployed[f][b] => f = e /\ b = a
    BY <1>2, LinkMoves DEF DeployLatest, Queue, Install
  <2>4. <<a, e>> \in changes /\ CreateReported'
    BY <2>1, <2>2 DEF CreateReported
  <2> QED BY <2>1, <2>2, <2>3, <2>4 DEF Tells, Known
<1> QED BY <1>1, <1>2

\* A train that returns in the middle, and what it moved is noted.
LEMMA StopTells == ASSUME StopTrain  PROVE Tells
<1>1. /\ UNCHANGED <<deployed, head, changes>> /\ job' = NoJob
      /\ unreported' = unreported \cup job.changes
  BY DEF StopTrain, treeVars, deployVars
<1> QED BY <1>1, TellsOnTheWay DEF Known, NoJob

LEMMA TrainEnvironmentTells ==
  ASSUME TypeOK, NEW e \in Envs, TrainEnvironment(e)  PROVE Rollback \/ Tells
<1>1. CASE Rollback \/ StopTrain
  BY <1>1, StopTells
<1>2. CASE ~Rollback /\ ~StopTrain
  <2>1. job \in JobType /\ job.kind = "train"
    BY DEF TypeOK, TrainEnvironment
  <2>2. /\ SkipEnv(e).kind = "train" /\ SkipEnv(e).changes = job.changes
        /\ \A A : /\ [job EXCEPT !.apps = A].kind = "train"
                  /\ [job EXCEPT !.apps = A].changes = job.changes
    BY <2>1 DEF SkipEnv, JobType
  <2>3. /\ UNCHANGED <<deployed, head, changes, unreported>>
        /\ job'.kind = "train" /\ job'.changes = job.changes
    BY <1>2, <2>2, TrainEnvironmentCases DEF treeVars, deployVars
  <2> QED BY <2>3, TellsOnTheWay DEF Known
<1> QED BY <1>1, <1>2

LEMMA TrainApplicationTells ==
  ASSUME TypeOK, NEW e \in Envs, NEW a \in Apps, TrainApplication(e, a)  PROVE Rollback \/ Tells
<1>1. CASE Rollback \/ StopTrain
  BY <1>1, StopTells
<1>2. CASE ~Rollback /\ ~StopTrain
  <2> DEFINE step == SkipApp(e, a)
             more == [step EXCEPT !.changes = @ \cup {AppEnv(a, e)}]
  <2>1. job \in JobType /\ job.kind = "train"
    BY DEF TypeOK, TrainApplication
  <2>2. step \in JobType /\ step.kind = "train" /\ step.changes = job.changes
    BY <2>1 DEF SkipApp, JobType
  <2>3. more.kind = "train" /\ more.changes = job.changes \cup {<<a, e>>}
    <3> HIDE DEF step
    <3> QED BY <2>2 DEF JobType, AppEnv
  <2> HIDE DEF step, more
  <2>4. CASE UNCHANGED <<deployed, head, changes, unreported>> /\ job' = step
    BY <2>2, <2>4, TellsOnTheWay DEF Known
  <2>5. ASSUME \A f \in Envs, b \in Apps : deployed'[f][b] # deployed[f][b] => f = e /\ b = a,
               UNCHANGED <<head, changes>>,
               \/ job' = more /\ unreported' = unreported
               \/ job' = step /\ unreported' = unreported \cup {<<a, e>>}
        PROVE  Tells
    BY <2>2, <2>3, <2>5, TellsOnTheWay DEF Known
  <2>6. CASE UNCHANGED <<treeVars, head, changes, unreported>> /\ job' = step
    BY <2>4, <2>6 DEF treeVars, deployVars
  <2>7. \A v \in Versions : Queue(e, a, v) => deployed' = deployed
    BY DEF Queue
  <2>8. \A v \in Versions : Install(e, a, v) \/ InstallPartly(e, a, v) =>
          \A f \in Envs, b \in Apps : deployed'[f][b] # deployed[f][b] => f = e /\ b = a
    BY LinkMoves DEF Install, InstallPartly
  <2> QED BY <1>2, <2>4, <2>5, <2>6, <2>7, <2>8, TrainApplicationCases DEF step, more
<1> QED BY <1>1, <1>2

LEMMA StepTells ==
  ASSUME TypeOK, LinksAreSafe, CreateReported, [Next]_vars  PROVE Rollback \/ Commit \/ Tells
<1>1. CASE ReleaseTransformer
  <2>1. PICK a \in Apps :
          \/ \E r \in Versions \cup {0}, v \in Versions, M \in ManifestSets :
               CreateApplicationVersion(a, r, v, M)
          \/ \E v \in Versions : CreateUndeployApplicationVersion(a, v)
          \/ UndeployApplication(a)
          \/ \E e \in Envs : DeleteEnvFromApp(e, a)
          \/ \E e \in Envs, v \in Versions, b \in {"Record", "Fail", "Ignore"} :
               DeployApplicationVersion(e, a, v, b)
    BY <1>1 DEF ReleaseTransformer
  <2> QED BY <2>1, CreateTells, UndeployTells, DeleteTells, DeployTells
<1>2. CASE EndJob
  <2>1. /\ UNCHANGED <<deployed, head, unreported>> /\ job' = NoJob
        /\ changes' = changes \cup job.changes
    BY <1>2 DEF EndJob, treeVars, deployVars
  <2> QED BY <2>1, TellsAtEnd
<1>3. CASE UNCHANGED vars
  BY <1>3 DEF vars, treeVars, deployVars, Tells, Known, CreateReported
<1> QED
  BY <1>1, <1>2, <1>3, LockTells, EnvironmentTells, LoopTells, TrainEnvironmentTells,
     TrainApplicationTells
  DEF Next, JobStep, Refuse

LEMMA ReportStep ==
  ASSUME ReportInv, Rollback \/ Commit \/ Tells  PROVE ReportInv'
<1>1. CASE Rollback
  BY <1>1 DEF Rollback, ReportInv, CreateReported, NoJob
<1>2. CASE Commit
  BY <1>2 DEF Commit, ReportInv, CreateReported, NoJob, Tree, treeVars, deployVars
<1>3. CASE Tells
  BY <1>3 DEF Tells, ReportInv
<1> QED BY <1>1, <1>2, <1>3

\* Every commit reports to the Argo CD webhook each app and environment whose
\* version it changed, in requests of any length, through loops and trains,
\* but for what a release train moved and did not report: where it returned
\* early, or took a failed deployment for one of an app that does not exist.
THEOREM ChangesAreReported == Spec => ChangesReported
<1> DEFINE A == Commit => \A e \in Envs, a \in Apps :
                  deployed[e][a] # head.deployed[e][a] => <<a, e>> \in changes \cup unreported
<1>1. Init => ReportInv
  BY DEF Init, ReportInv, CreateReported, NoJob, Tree
<1>2. TypeOK /\ LinksAreSafe /\ ReportInv /\ [Next]_vars => ReportInv'
  BY StepTells, ReportStep DEF ReportInv
<1>3. ReportInv => [A]_vars
  BY DEF ReportInv, Commit, Known, NoJob
<1>4. ChangesReported <=> [][A]_vars
  BY DEF ChangesReported
<1> HIDE DEF A
<1> QED BY <1>1, <1>2, <1>3, <1>4, InvariantHolds, PTL DEF Spec
=============================================================================
