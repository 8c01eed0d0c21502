---------------------------- MODULE ManifestRepo ----------------------------
(***************************************************************************)
(* The manifest repository of kuberpult's cd-service: which releases       *)
(* exist, what is deployed where, what is queued, what is locked; and the  *)
(* transformers that change it (transformer.go).                           *)
(*                                                                         *)
(* A request is a batch of transformers applied one after the other to one *)
(* in-memory tree read from the head commit (ApplyTransformers).  The tree *)
(* becomes the new head when all of them succeed and is dropped when one   *)
(* fails.  The first eleven variables are that tree, "head" the last       *)
(* commit, and "cached" the files whose bytes the in-memory file system    *)
(* holds: TreeBuilderFS never truncates, so writing such a file appends.   *)
(*                                                                         *)
(* Loops over environments that run in the random order of a Go map, and   *)
(* the release train's loop, are one step per deployment, held in "job".   *)
(***************************************************************************)
EXTENDS Integers, FiniteSets, Sequences

CONSTANTS
  Apps,        \* applications
  Envs,        \* environments, numbered in the order of their names
  Versions,    \* release versions (uint64); 0 is never a version
  LockIds,     \* ids of locks
  Groups,      \* environment group names
  NoGroup,     \* environmentGroup left out of the config
  Kept,        \* keptVersionsOnCleanup
  MaxBatch,    \* bound on the transformers of one request
  ManifestSets,    \* sets of environments a new release may have manifests for
  NewConfigs,      \* configs that each environment is created with
  InitialConfigs,  \* the config.json files of the repository at the start
  TrainSelections  \* sets of apps a release train's team filter can select

NoVersion == 0
NoEnv == 0
Config == [latest : BOOLEAN, upstream : Envs \cup {NoEnv}, group : Groups \cup {NoGroup}]
EmptyConfig == [latest |-> FALSE, upstream |-> NoEnv, group |-> NoGroup]

ASSUME ConstantsAssumption ==
  /\ Envs \subseteq Nat \ {0}
  /\ Versions \subseteq Nat \ {0}
  /\ Kept \in Nat \ {0}
  /\ MaxBatch \in Nat \ {0}
  /\ ManifestSets \subseteq SUBSET Envs
  /\ NewConfigs \in [Envs -> SUBSET Config]
  /\ TrainSelections \subseteq SUBSET Apps
  /\ InitialConfigs \in [Envs -> Config]

VARIABLES
  released,     \* releases of each app
  manifests,    \* environments a release has manifests for
  undeploys,    \* releases that carry the "undeploy" marker
  deployed,     \* the "version" symlink of an app in an environment
  manifestFile, \* the releases whose manifests the deployed file holds, in order
  queued,       \* the "queued_version" symlink
  envLocks,     \* state of each lock of an environment
  appLocks,     \* state of each lock of an app in an environment
  envDirs,      \* directories under environments/
  configFiles,  \* environments with a config.json
  config,       \* what that file decodes to
  head,         \* the committed tree
  cached,       \* files whose bytes are in memory
  count,        \* transformers applied since the head was read
  job,          \* the loop a transformer is in
  changes,      \* app/environment pairs reported to the Argo CD webhook
  unreported    \* history: pairs whose change a train did not report

releaseVars == <<released, manifests, undeploys>>
deployVars == <<deployed, manifestFile, queued>>
lockVars == <<envLocks, appLocks>>
envVars == <<envDirs, configFiles, config>>
treeVars == <<releaseVars, deployVars, lockVars, envVars>>
vars == <<treeVars, head, cached, count, job, changes, unreported>>

-----------------------------------------------------------------------------
(* Reading the tree *)

LockState == {"free", "held", "corrupt"}
Link == Versions \cup {NoVersion}
FileIds == ({"config"} \X Envs) \cup ({"manifest"} \X Envs \X Apps)
           \cup ({"envLock"} \X Envs \X LockIds) \cup ({"appLock"} \X Envs \X Apps \X LockIds)
AppEnvs == Apps \X Envs

\* Mutant: the two names, both strings, in the wrong order.
SwappedAppEnv(a, e) == <<e, a>>

\* AddAppEnv: an entry of what the webhook is told.
AppEnv(a, e) == <<a, e>>
NoJob == [kind |-> "none", version |-> NoVersion, envs |-> {}, apps |-> {},
          team |-> FALSE, select |-> {}, changes |-> {}]

Tree == [released |-> released, manifests |-> manifests, undeploys |-> undeploys,
         deployed |-> deployed, manifestFile |-> manifestFile, queued |-> queued,
         envLocks |-> envLocks, appLocks |-> appLocks,
         envDirs |-> envDirs, configFiles |-> configFiles, config |-> config]

\* A symlink reads as nil when it is missing and fails when its target is gone.
Readable(link, a) == link = NoVersion \/ link \in released[a]
AllReadable(a) == \A e \in envDirs : Readable(deployed[e][a], a)

IsLastRelease(a, v) ==
  \/ v \in released[a] /\ \A r \in released[a] : r <= v
  \/ v = 0 /\ released[a] = {}

\* Mutant: one older release is enough.
IsNewerThanOne(a, v) == released[a] = {} \/ \E r \in released[a] : r <= v

IsLatest(a, v) == \A r \in released[a] : r <= v

\* Mutant: everything that is not deployed is old.
UnlinkedReleases(rel, links) == rel \ links

\* Mutant: one position too many in front of a deployed release.
OldReleasesOneMore(rel, links) ==
  {v \in rel :
     /\ Cardinality({w \in rel : v < w}) >= Kept
     /\ \A d \in links \ {NoVersion} :
          v < d /\ Cardinality({w \in rel : v < w /\ w < d}) >= Kept - 2}

\* The versions that precede both the latest release and every deployed one by
\* at least Kept places: position i < positionOfOldestVersion - (Kept - 1).
OldReleases(rel, links) ==
  {v \in rel :
     /\ Cardinality({w \in rel : v < w}) >= Kept
     /\ \A d \in links \ {NoVersion} :
          v < d /\ Cardinality({w \in rel : v < w /\ w < d}) >= Kept - 1}

HeldEnvLocks(e) == {l \in LockIds : envLocks[e][l] # "free"}
HeldAppLocks(e, a) == {l \in LockIds : appLocks[e][a][l] # "free"}
\* Mutant: the locks of the app are not looked at.
EnvLocked(e, a) == HeldEnvLocks(e) # {}

Locked(e, a) == HeldEnvLocks(e) # {} \/ HeldAppLocks(e, a) # {}
EnvLocksCorrupt(e) == \E l \in LockIds : envLocks[e][l] = "corrupt"
LocksCorrupt(e, a) == EnvLocksCorrupt(e) \/ \E l \in LockIds : appLocks[e][a][l] = "corrupt"

EnvLockFiles(e) == {<<"envLock", e, l>> : l \in HeldEnvLocks(e)}
LockFiles(e, a) == EnvLockFiles(e) \cup {<<"appLock", e, a, l>> : l \in HeldAppLocks(e, a)}
ConfigFiles == {<<"config", e>> : e \in configFiles}
EnvGroup(g) == {e \in envDirs : config[e].group = g}

-----------------------------------------------------------------------------
(* Transactions: StateAt, the loop over transformers, the commit *)

Init ==
  /\ released = [a \in Apps |-> {}]
  /\ manifests = [a \in Apps |-> [v \in Versions |-> {}]]
  /\ undeploys = [a \in Apps |-> {}]
  /\ deployed = [e \in Envs |-> [a \in Apps |-> NoVersion]]
  /\ manifestFile = [e \in Envs |-> [a \in Apps |-> <<>>]]
  /\ queued = [e \in Envs |-> [a \in Apps |-> NoVersion]]
  /\ envLocks = [e \in Envs |-> [l \in LockIds |-> "free"]]
  /\ appLocks = [e \in Envs |-> [a \in Apps |-> [l \in LockIds |-> "free"]]]
  /\ envDirs = {e \in Envs : InitialConfigs[e] # EmptyConfig}
  /\ configFiles = envDirs
  /\ config = InitialConfigs
  /\ head = Tree
  /\ cached = {} /\ count = 0 /\ job = NoJob /\ changes = {} /\ unreported = {}

Ready == job = NoJob /\ count < MaxBatch

\* A transformer returned: its changes join those of the batch.
Finish(chg) ==
  /\ count' = count + 1
  /\ changes' = changes \cup chg
  /\ UNCHANGED <<head, job, unreported>>

\* A transformer failed: the request is answered with its error and the
\* in-memory tree is dropped.
Rollback ==
  /\ released' = head.released /\ manifests' = head.manifests
  /\ undeploys' = head.undeploys /\ deployed' = head.deployed
  /\ manifestFile' = head.manifestFile /\ queued' = head.queued
  /\ envLocks' = head.envLocks /\ appLocks' = head.appLocks
  /\ envDirs' = head.envDirs /\ configFiles' = head.configFiles
  /\ config' = head.config
  /\ cached' = {} /\ count' = 0 /\ job' = NoJob /\ changes' = {} /\ unreported' = {}
  /\ UNCHANGED head

\* Errors from outside the tree: a refused permission, an invalid name, a
\* failing object database.
Refuse == (count > 0 \/ job # NoJob) /\ Rollback

Commit ==
  /\ job = NoJob /\ count > 0
  /\ head' = Tree
  /\ cached' = {} /\ count' = 0 /\ changes' = {} /\ unreported' = {}
  /\ UNCHANGED <<treeVars, job>>

-----------------------------------------------------------------------------
(* Deploying one version: DeployApplicationVersion, without its bookkeeping *)

HasManifest(e, a, v) == v \in released[a] /\ e \in manifests[a][v]

\* Mutant: the manifest file of the previous deployment is written over, not removed.
LinkReleaseAppending(e, a, v) ==
  /\ deployed' = [deployed EXCEPT ![e][a] = v]
  /\ manifestFile' = [manifestFile EXCEPT ![e][a] = Append(@, v)]
  /\ envDirs' = envDirs \cup {e}

\* The "version" link and the copied manifest, written before anything that
\* can still fail.
LinkRelease(e, a, v) ==
  /\ deployed' = [deployed EXCEPT ![e][a] = v]
  /\ manifestFile' = [manifestFile EXCEPT ![e][a] =
                        IF <<"manifest", e, a>> \in cached THEN Append(@, v) ELSE <<v>>]
  /\ envDirs' = envDirs \cup {e}

\* CleanupOldApplicationVersions, after the links of the app are links.
Cleanup(a, links) ==
  LET old == OldReleases(released[a], links)
  IN /\ released' = [released EXCEPT ![a] = @ \ old]
     /\ manifests' = [manifests EXCEPT ![a] =
                        [v \in Versions |-> IF v \in old THEN {} ELSE @[v]]]
     /\ undeploys' = [undeploys EXCEPT ![a] = @ \ old]

\* Mutant: only environments with a configuration are looked at.
ConfiguredLinks(e, a, v) == {deployed[f][a] : f \in configFiles \ {e}} \cup {v}

LinksAfter(e, a, v) == {deployed[f][a] : f \in envDirs \ {e}} \cup {v}

\* Everything but the manifest worked: the new link can be read, and so must
\* the old queue and the links of the other environments.
CanFinish(e, a) ==
  /\ Readable(queued[e][a], a)
  /\ \A f \in envDirs \ {e} : Readable(deployed[f][a], a)

Queue(e, a, v) ==
  /\ queued' = [queued EXCEPT ![e][a] = v]
  /\ envDirs' = envDirs \cup {e}
  /\ cached' = cached \cup LockFiles(e, a)
  /\ UNCHANGED <<releaseVars, deployed, manifestFile, lockVars, configFiles, config>>

Install(e, a, v) ==
  /\ LinkRelease(e, a, v)
  /\ queued' = [queued EXCEPT ![e][a] = NoVersion]
  /\ Cleanup(a, LinksAfter(e, a, v))
  /\ cached' = cached \cup {<<"manifest", e, a>>} \cup ConfigFiles
  /\ UNCHANGED <<lockVars, configFiles, config>>

\* A deployment that fails after its links were written, inside a caller that
\* ignores the error: the queue could not be read, or a link of another
\* environment could not.
InstallPartly(e, a, v) ==
  /\ LinkRelease(e, a, v)
  /\ queued' = IF Readable(queued[e][a], a)
               THEN [queued EXCEPT ![e][a] = NoVersion] ELSE queued
  /\ cached' = cached \cup {<<"manifest", e, a>>}
  /\ UNCHANGED <<releaseVars, lockVars, configFiles, config>>

-----------------------------------------------------------------------------
(* Releases and deployments *)

DeployApplicationVersion(e, a, v, behaviour) ==
  LET checksLocks == behaviour # "Ignore"
      stopped == checksLocks /\ Locked(e, a)
  IN /\ Ready
     /\ \/ /\ \/ ~HasManifest(e, a, v)
              \/ checksLocks /\ LocksCorrupt(e, a)
              \/ stopped /\ behaviour = "Fail"
              \/ ~stopped /\ ~CanFinish(e, a)
           /\ Rollback
        \/ /\ HasManifest(e, a, v) /\ ~LocksCorrupt(e, a)
           /\ stopped /\ behaviour = "Record"
           /\ Queue(e, a, v)
           /\ Finish({})
        \/ /\ HasManifest(e, a, v) /\ ~stopped /\ CanFinish(e, a)
           /\ Install(e, a, v)
           /\ Finish({AppEnv(a, e)})

\* calculateVersion: version 0 asks for the next one.
CalculateVersion(a, requested, v) ==
  \/ requested = v
  \/ requested = 0 /\ IsLastRelease(a, v - 1)

TooOld(a, v) ==
  ~IsLatest(a, v) /\ v \in OldReleases(released[a] \cup {v}, {deployed[e][a] : e \in envDirs})

\* The release directory, and the loop that deploys it to the environments
\* whose upstream is "latest".
AddRelease(a, v, M, targets) ==
  /\ released' = [released EXCEPT ![a] = @ \cup {v}]
  /\ manifests' = [manifests EXCEPT ![a][v] = M]
  /\ cached' = cached \cup ConfigFiles
  /\ changes' = changes \cup {AppEnv(a, e) : e \in M}
  /\ job' = [NoJob EXCEPT !.kind = "create", !.version = v, !.apps = {a}, !.envs = targets]
  /\ UNCHANGED <<deployVars, lockVars, envVars, head, count, unreported>>

LatestEnvs == {e \in envDirs : config[e].latest}

CreateApplicationVersion(a, requested, v, M) ==
  /\ Ready
  /\ CalculateVersion(a, requested, v)
  /\ \/ /\ v \in released[a] \/ TooOld(a, v) \/ (~IsLatest(a, v) /\ ~AllReadable(a))
        /\ Rollback
     \/ /\ v \notin released[a] /\ ~TooOld(a, v)
        /\ IsLatest(a, v) \/ AllReadable(a)
        /\ AddRelease(a, v, M, IF IsLatest(a, v) THEN M \cap LatestEnvs ELSE {})
        /\ UNCHANGED undeploys

CreateUndeployApplicationVersion(a, v) ==
  /\ Ready
  /\ released[a] # {} /\ IsLastRelease(a, v - 1)
  /\ AddRelease(a, v, envDirs, LatestEnvs)
  /\ undeploys' = [undeploys EXCEPT ![a] = @ \cup {v}]

\* One turn of that loop.  The map's order is random.
DeployLatest(e, a) ==
  LET v == job.version
  IN /\ job.kind = "create" /\ e \in job.envs /\ a \in job.apps
     /\ \/ /\ LocksCorrupt(e, a) \/ (~Locked(e, a) /\ ~CanFinish(e, a))
           /\ Rollback
        \/ /\ Locked(e, a) /\ ~LocksCorrupt(e, a)
           /\ Queue(e, a, v)
           /\ job' = [job EXCEPT !.envs = @ \ {e}]
           /\ UNCHANGED <<head, count, changes, unreported>>
        \/ /\ ~Locked(e, a) /\ CanFinish(e, a)
           /\ Install(e, a, v)
           /\ job' = [job EXCEPT !.envs = @ \ {e}]
           /\ UNCHANGED <<head, count, changes, unreported>>

\* Mutant: the changes of the inner transformers are not combined into the outer's.
EndJobUnreported ==
  /\ job.kind # "none" /\ job.envs = {}
  /\ count' = count + 1
  /\ job' = NoJob
  /\ UNCHANGED <<treeVars, head, cached, changes, unreported>>

\* The loop, or the release train, is through.
EndJob ==
  /\ job.kind # "none" /\ job.envs = {}
  /\ count' = count + 1
  /\ changes' = changes \cup job.changes
  /\ job' = NoJob
  /\ UNCHANGED <<treeVars, head, cached, unreported>>

\* Mutant: an environment where the app is locked is left alone.
WithoutUnlockedApp(links, a) ==
  [e \in Envs |-> IF HeldAppLocks(e, a) = {} THEN [links[e] EXCEPT ![a] = NoVersion]
                  ELSE links[e]]

\* The links after an app's directory is gone from every environment.
WithoutApp(links, a) == [e \in Envs |-> [links[e] EXCEPT ![a] = NoVersion]]

UndeployApplication(a) ==
  /\ Ready
  /\ \/ /\ \/ released[a] = {}
           \/ \E v \in released[a] \ undeploys[a] : IsLastRelease(a, v)
           \/ \E e \in envDirs : deployed[e][a] \notin undeploys[a] \cup {NoVersion}
        /\ Rollback
     \/ /\ \E v \in undeploys[a] : IsLastRelease(a, v)
        /\ \A e \in envDirs : deployed[e][a] \in undeploys[a] \cup {NoVersion}
        /\ released' = [released EXCEPT ![a] = {}]
        /\ manifests' = [manifests EXCEPT ![a] = [v \in Versions |-> {}]]
        /\ undeploys' = [undeploys EXCEPT ![a] = {}]
        /\ deployed' = WithoutApp(deployed, a)
        /\ manifestFile' = [e \in Envs |-> [manifestFile[e] EXCEPT ![a] = <<>>]]
        /\ queued' = WithoutApp(queued, a)
        /\ appLocks' = [e \in Envs |-> [appLocks[e] EXCEPT ![a] = [l \in LockIds |-> "free"]]]
        /\ cached' = (cached \cup ConfigFiles)
                     \ ({<<"manifest", e, a>> : e \in Envs}
                        \cup {<<"appLock", e, a, l>> : e \in Envs, l \in LockIds})
        /\ Finish({AppEnv(a, e) : e \in envDirs})
        /\ UNCHANGED <<envLocks, envVars>>

\* Unlike UndeployApplication this asks for no undeploy version.
DeleteEnvFromApp(e, a) ==
  /\ Ready
  /\ deployed' = [deployed EXCEPT ![e][a] = NoVersion]
  /\ manifestFile' = [manifestFile EXCEPT ![e][a] = <<>>]
  /\ queued' = [queued EXCEPT ![e][a] = NoVersion]
  /\ appLocks' = [appLocks EXCEPT ![e][a] = [l \in LockIds |-> "free"]]
  /\ cached' = cached \ ({<<"manifest", e, a>>} \cup {<<"appLock", e, a, l>> : l \in LockIds})
  /\ \/ Finish({AppEnv(a, e)}) /\ e \in envDirs
     \/ /\ Finish({})
        /\ deployed[e][a] = NoVersion /\ queued[e][a] = NoVersion /\ HeldAppLocks(e, a) = {}
  /\ UNCHANGED <<releaseVars, envLocks, envVars>>

-----------------------------------------------------------------------------
(* Locks *)

\* createLock: a lock whose files are in memory gets a second creation time
\* behind the first, which no reader can parse.
LockAfterCreate(state, file) ==
  IF state # "free" /\ file \in cached THEN "corrupt" ELSE "held"

CreateEnvLocks(E, l) ==
  /\ envLocks' = [e \in Envs |-> IF e \in E
        THEN [envLocks[e] EXCEPT ![l] = LockAfterCreate(@, <<"envLock", e, l>>)]
        ELSE envLocks[e]]
  /\ Finish({})
  /\ UNCHANGED <<releaseVars, deployVars, appLocks, envVars>>

CreateEnvironmentLock(e, l) ==
  /\ Ready
  /\ \/ e \notin envDirs /\ Rollback
     \/ /\ e \in envDirs
        /\ CreateEnvLocks({e}, l)
        /\ cached' = cached \cup {<<"envLock", e, l>>}

CreateEnvironmentGroupLock(g, l) ==
  /\ Ready
  /\ \/ EnvGroup(g) = {} /\ Rollback
     \/ /\ EnvGroup(g) # {}
        /\ CreateEnvLocks(EnvGroup(g), l)
        /\ cached' = cached \cup ConfigFiles \cup {<<"envLock", e, l>> : e \in EnvGroup(g)}

CreateEnvironmentApplicationLock(e, a, l) ==
  /\ Ready
  /\ \/ e \notin envDirs /\ Rollback
     \/ /\ e \in envDirs
        /\ appLocks' = [appLocks EXCEPT
              ![e][a][l] = LockAfterCreate(@, <<"appLock", e, a, l>>)]
        /\ cached' = cached \cup {<<"appLock", e, a, l>>}
        /\ Finish({})
        /\ UNCHANGED <<releaseVars, deployVars, envLocks, envVars>>

\* State.ProcessQueue, run when a lock is deleted: it reads the queue and, if
\* there is one, the deployed version, and drops the queue when they agree.
QueueProcessable(e, a) ==
  /\ Readable(queued[e][a], a)
  /\ queued[e][a] # NoVersion => Readable(deployed[e][a], a)

\* Mutant: the queue is left to the next deployment.
QueueKept(e, a) == queued[e][a]

AfterProcessQueue(e, a) ==
  IF queued[e][a] = deployed[e][a] THEN NoVersion ELSE queued[e][a]

DeleteEnvLocks(E, l) ==
  /\ envLocks' = [e \in Envs |-> IF e \in E
        THEN [envLocks[e] EXCEPT ![l] = "free"] ELSE envLocks[e]]
  /\ queued' = [e \in Envs |-> IF e \in E
        THEN [a \in Apps |-> AfterProcessQueue(e, a)] ELSE queued[e]]
  /\ Finish({})
  /\ UNCHANGED <<releaseVars, deployed, manifestFile, appLocks, envVars>>

DeleteEnvironmentLock(e, l) ==
  /\ Ready
  /\ \/ (\E a \in Apps : ~QueueProcessable(e, a)) /\ Rollback
     \/ /\ \A a \in Apps : QueueProcessable(e, a)
        /\ DeleteEnvLocks({e}, l)
        /\ cached' = cached \ {<<"envLock", e, l>>}

DeleteEnvironmentGroupLock(g, l) ==
  LET E == EnvGroup(g)
  IN /\ Ready
     /\ \/ /\ E = {} \/ \E e \in E : \E a \in Apps : ~QueueProcessable(e, a)
           /\ Rollback
        \/ /\ E # {} /\ \A e \in E : \A a \in Apps : QueueProcessable(e, a)
           /\ DeleteEnvLocks(E, l)
           /\ cached' = (cached \cup ConfigFiles) \ {<<"envLock", e, l>> : e \in E}

DeleteEnvironmentApplicationLock(e, a, l) ==
  /\ Ready
  /\ \/ ~QueueProcessable(e, a) /\ Rollback
     \/ /\ QueueProcessable(e, a)
        /\ appLocks' = [appLocks EXCEPT ![e][a][l] = "free"]
        /\ queued' = [queued EXCEPT ![e][a] = AfterProcessQueue(e, a)]
        /\ cached' = cached \ {<<"appLock", e, a, l>>}
        /\ Finish({})
        /\ UNCHANGED <<releaseVars, deployed, manifestFile, envLocks, envVars>>

\* O_EXCL is ignored, so an existing config is replaced; if its bytes are in
\* memory the new document lands behind the old one, which stays in force.
CreateEnvironment(e, c) ==
  /\ Ready
  /\ envDirs' = envDirs \cup {e}
  /\ configFiles' = configFiles \cup {e}
  /\ config' = IF <<"config", e>> \in cached THEN config ELSE [config EXCEPT ![e] = c]
  /\ cached' = cached \cup {<<"config", e>>}
  /\ Finish({})
  /\ UNCHANGED <<releaseVars, deployVars, lockVars>>

-----------------------------------------------------------------------------
(* The release train: environments in the order of their names, all apps of *)
(* one environment before the next.  job.apps holds what is left of the     *)
(* environment in work, the first of job.envs.                              *)

ReleaseTrain(targets, selection, team) ==
  /\ Ready
  /\ targets # {}
  /\ job' = [NoJob EXCEPT !.kind = "train", !.envs = targets, !.team = team, !.select = selection]
  /\ cached' = cached \cup ConfigFiles
  /\ UNCHANGED <<treeVars, head, count, changes, unreported>>

\* getEnvironmentGroupsEnvironmentsOrEnvironment
TrainTargets == ({EnvGroup(g) : g \in Groups} \cup {{e} : e \in envDirs}) \ {{}}

IsCurrent(e) == e \in job.envs /\ \A f \in job.envs : e <= f
SkipEnv(e) == [job EXCEPT !.envs = @ \ {e}]
SkipApp(e, a) ==
  IF job.apps = {a} THEN [job EXCEPT !.envs = @ \ {e}, !.apps = {}]
  ELSE [job EXCEPT !.apps = @ \ {a}]

\* The train returns in the middle, without an error and without a result: what
\* it has done stays, and is not reported.
StopTrain ==
  /\ job' = NoJob /\ count' = count + 1
  /\ unreported' = unreported \cup job.changes
  /\ UNCHANGED <<treeVars, head, cached, changes>>

HasOneSource(c) == c.latest <=> c.upstream = NoEnv
SourceMissing(c) == HasOneSource(c) /\ ~c.latest /\ c.upstream \notin envDirs

\* The names the train goes through: the directories of applications/, or those
\* of the upstream environment, where a deleted lock or queue leaves an empty one.
HasEnvApp(e, a) == deployed[e][a] # NoVersion \/ queued[e][a] # NoVersion \/ HeldAppLocks(e, a) # {}
SourceApps(c) ==
  IF c.latest THEN {{a \in Apps : released[a] # {}}}
  ELSE {S \in SUBSET Apps : \A a \in Apps : HasEnvApp(c.upstream, a) => a \in S}

\* The train reaches an environment.  When the configured upstream does not
\* exist the whole train returns.
TrainEnvironment(e) ==
  LET c == config[e]
  IN /\ job.kind = "train" /\ job.apps = {} /\ IsCurrent(e)
     /\ \/ SourceMissing(c) /\ StopTrain
        \/ /\ HasOneSource(c) /\ ~SourceMissing(c) /\ EnvLocksCorrupt(e)
           /\ Rollback
        \/ /\ ~HasOneSource(c)
           /\ job' = SkipEnv(e)
           /\ UNCHANGED <<treeVars, head, cached, count, changes, unreported>>
        \/ /\ HasOneSource(c) /\ ~SourceMissing(c)
           /\ HeldEnvLocks(e) # {} /\ ~EnvLocksCorrupt(e)
           /\ job' = SkipEnv(e)
           /\ cached' = cached \cup EnvLockFiles(e)
           /\ UNCHANGED <<treeVars, head, count, changes, unreported>>
        \/ /\ HasOneSource(c) /\ ~SourceMissing(c) /\ HeldEnvLocks(e) = {}
           /\ \E apps \in SourceApps(c) :
                job' = IF apps = {} THEN SkipEnv(e) ELSE [job EXCEPT !.apps = apps]
           /\ UNCHANGED <<treeVars, head, cached, count, changes, unreported>>

\* The version the train brings to an app: its last release, or what the
\* upstream environment runs, which may be none.
IsTrainVersion(c, a, v) ==
  IF c.latest THEN IsLastRelease(a, v) ELSE v = deployed[c.upstream][a]

TrainSkips(e, a, v) == v = deployed[e][a] \/ ~HasManifest(e, a, v)

\* The version is deployed, unless it runs already or the app has no manifest
\* for this environment.  An error for a file that does not exist is ignored,
\* whatever the deployment has written by then.
TrainDeploys(e, a, v) ==
  \/ /\ \/ ~Readable(deployed[e][a], a) \/ ~Readable(v, a)
        \/ ~TrainSkips(e, a, v) /\ LocksCorrupt(e, a)
     /\ Rollback
  \/ /\ Readable(deployed[e][a], a) /\ Readable(v, a)
     /\ TrainSkips(e, a, v)
     /\ job' = SkipApp(e, a)
     /\ UNCHANGED <<treeVars, head, cached, count, changes, unreported>>
  \/ /\ Readable(deployed[e][a], a) /\ ~TrainSkips(e, a, v)
     /\ Locked(e, a) /\ ~LocksCorrupt(e, a)
     /\ Queue(e, a, v)
     /\ job' = SkipApp(e, a)
     /\ UNCHANGED <<head, count, changes, unreported>>
  \/ /\ Readable(deployed[e][a], a) /\ ~TrainSkips(e, a, v) /\ ~Locked(e, a)
     /\ CanFinish(e, a)
     /\ Install(e, a, v)
     /\ job' = [SkipApp(e, a) EXCEPT !.changes = @ \cup {AppEnv(a, e)}]
     /\ UNCHANGED <<head, count, changes, unreported>>
  \/ /\ Readable(deployed[e][a], a) /\ ~TrainSkips(e, a, v) /\ ~Locked(e, a)
     /\ ~CanFinish(e, a)
     /\ InstallPartly(e, a, v)
     /\ job' = SkipApp(e, a)
     /\ unreported' = unreported \cup {<<a, e>>}
     /\ UNCHANGED <<head, count, changes>>

\* With a team filter the owner of the app is read first: when that fails the
\* train returns, and the apps of other teams are left alone.
TrainApplication(e, a) ==
  /\ job.kind = "train" /\ IsCurrent(e) /\ a \in job.apps
  /\ \/ job.team /\ StopTrain
     \/ /\ a \notin job.select
        /\ job' = SkipApp(e, a)
        /\ UNCHANGED <<treeVars, head, cached, count, changes, unreported>>
     \/ /\ a \in job.select
        /\ \E v \in Link : IsTrainVersion(config[e], a, v) /\ TrainDeploys(e, a, v)

-----------------------------------------------------------------------------
LockTransformer ==
  \E l \in LockIds :
    \/ \E e \in Envs : CreateEnvironmentLock(e, l)
    \/ \E e \in Envs : DeleteEnvironmentLock(e, l)
    \/ \E g \in Groups : CreateEnvironmentGroupLock(g, l)
    \/ \E g \in Groups : DeleteEnvironmentGroupLock(g, l)
    \/ \E e \in Envs, a \in Apps : CreateEnvironmentApplicationLock(e, a, l)
    \/ \E e \in Envs, a \in Apps : DeleteEnvironmentApplicationLock(e, a, l)

ReleaseTransformer ==
  \E a \in Apps :
    \/ \E r \in Versions \cup {0}, v \in Versions, M \in ManifestSets :
         CreateApplicationVersion(a, r, v, M)
    \/ \E v \in Versions : CreateUndeployApplicationVersion(a, v)
    \/ UndeployApplication(a)
    \/ \E e \in Envs : DeleteEnvFromApp(e, a)
    \/ \E e \in Envs, v \in Versions, b \in {"Record", "Fail", "Ignore"} :
         DeployApplicationVersion(e, a, v, b)

EnvironmentTransformer ==
  \/ \E e \in Envs : \E c \in NewConfigs[e] : CreateEnvironment(e, c)
  \/ \E T \in TrainTargets : ReleaseTrain(T, Apps, FALSE)
  \/ \E T \in TrainTargets, S \in TrainSelections : ReleaseTrain(T, S, TRUE)

JobStep ==
  \/ \E e \in Envs, a \in Apps : DeployLatest(e, a)
  \/ \E e \in Envs : TrainEnvironment(e)
  \/ \E e \in Envs, a \in Apps : TrainApplication(e, a)
  \/ EndJob

Next ==
  \/ LockTransformer \/ ReleaseTransformer \/ EnvironmentTransformer
  \/ JobStep \/ Commit \/ Refuse

Spec == Init /\ [][Next]_vars

-----------------------------------------------------------------------------
(* Properties.  Those about the tree hold of the tree in memory and of the *)
(* committed one.                                                          *)

TreeType ==
  [released : [Apps -> SUBSET Versions],
   manifests : [Apps -> [Versions -> SUBSET Envs]],
   undeploys : [Apps -> SUBSET Versions],
   deployed : [Envs -> [Apps -> Link]],
   manifestFile : [Envs -> [Apps -> Seq(Versions)]],
   queued : [Envs -> [Apps -> Link]],
   envLocks : [Envs -> [LockIds -> LockState]],
   appLocks : [Envs -> [Apps -> [LockIds -> LockState]]],
   envDirs : SUBSET Envs,
   configFiles : SUBSET Envs,
   config : [Envs -> Config]]

JobType ==
  [kind : {"none", "create", "train"}, version : Link, envs : SUBSET Envs,
   apps : SUBSET Apps, team : BOOLEAN, select : SUBSET Apps, changes : SUBSET AppEnvs]

\* Every variable has its type, in memory and in the head commit.
TypeOK ==
  /\ Tree \in TreeType
  /\ head \in TreeType
  /\ cached \subseteq FileIds
  /\ count \in 0 .. MaxBatch
  /\ job \in JobType
  /\ changes \subseteq AppEnvs
  /\ unreported \subseteq AppEnvs

\* No "version" symlink dangles: whatever cleanups, undeployments and failed
\* deployments do, the release an environment runs is still in the repository.
\* Every reader of the tree (findOldApplicationVersions, the train, the
\* overview) fails on a dangling one.
LinksHaveTargets(t) ==
  \A e \in Envs, a \in Apps :
    t.deployed[e][a] # NoVersion => t.deployed[e][a] \in t.released[a]
DeployedReleaseExists == LinksHaveTargets(Tree) /\ LinksHaveTargets(head)

\* What makes DeployedReleaseExists inductive: an app is only deployed in an
\* environment that has a directory, so findOldApplicationVersions, which walks
\* the directories, sees every deployment; and the release that a loop of
\* CreateApplicationVersion is about to deploy is there.
LinksInDirectories(t) ==
  \A e \in Envs, a \in Apps : t.deployed[e][a] # NoVersion => e \in t.envDirs
JobHasRelease ==
  /\ job # NoJob => count < MaxBatch
  /\ job.kind = "create" => \A a \in job.apps : job.version \in released[a]
LinksAreSafe ==
  /\ DeployedReleaseExists
  /\ LinksInDirectories(Tree) /\ LinksInDirectories(head)
  /\ JobHasRelease

UnderLock(t, e, a) ==
  \E l \in LockIds : t.envLocks[e][l] # "free" \/ t.appLocks[e][a][l] # "free"

\* A queue that names the version already running is only found under a lock:
\* whichever lock goes last, and however the version got there, the queue has
\* been dropped (State.ProcessQueue, DeleteQueuedVersionIfExists).
QueueStaleOnlyUnderLock(t) ==
  \A e \in Envs, a \in Apps :
    t.queued[e][a] # NoVersion /\ t.queued[e][a] = t.deployed[e][a] => UnderLock(t, e, a)
NoStaleQueue == QueueStaleOnlyUnderLock(Tree) /\ QueueStaleOnlyUnderLock(head)

\* An application without releases has left nothing behind in any environment:
\* neither a deployment nor a queued version, so that version numbers, which
\* start again at 1, cannot revive an old one.
NothingLeft(t) ==
  \A a \in Apps : t.released[a] = {} =>
    \A e \in Envs : t.deployed[e][a] = NoVersion /\ t.queued[e][a] = NoVersion
GoneAppLeavesNothing == NothingLeft(Tree) /\ NothingLeft(head)

\* The manifests Argo CD reads are those of the version the environment
\* claims to run.
FileMatchesLink(t) ==
  \A e \in Envs, a \in Apps :
    t.manifestFile[e][a] = IF t.deployed[e][a] = NoVersion THEN <<>> ELSE <<t.deployed[e][a]>>
DeployedManifestIsCopied == FileMatchesLink(Tree) /\ FileMatchesLink(head)

\* Under a lock of the environment or of the app in it, the deployed version
\* moves only by an explicit deployment that ignores locks, or when the app is
\* taken out: no release, train, queue or lock deletion moves it.
LockedVersionIsStable ==
  [][\A e \in Envs, a \in Apps :
       UnderLock(Tree, e, a) /\ deployed'[e][a] # deployed[e][a] =>
         \/ Rollback \/ UndeployApplication(a) \/ DeleteEnvFromApp(e, a)
         \/ \E v \in Versions : DeployApplicationVersion(e, a, v, "Ignore")]_vars

\* The last release of an app survives every cleanup, so "last release + 1"
\* is never a number used before, unless the whole app is undeployed.
LatestReleaseSurvives ==
  [][\A a \in Apps : \A v \in released[a] :
       IsLastRelease(a, v) /\ v \notin released'[a] => Rollback \/ UndeployApplication(a)]_vars

\* A cleanup leaves every environment the Kept - 1 releases before the one it
\* runs, to go back to: positionOfOldestVersion - (keptVersionsOnCleanup - 1)
\* keeps one fewer than the comment on the constant says.
RollbackWindow ==
  [][\A a \in Apps : \A r \in released[a] \ released'[a] :
       \/ Rollback \/ UndeployApplication(a)
       \/ \A e \in Envs : deployed'[e][a] # NoVersion =>
            /\ r < deployed'[e][a]
            /\ Cardinality({w \in released'[a] : w < deployed'[e][a]}) >= Kept - 1]_vars

\* transformer.go:49: the number of old releases that will always be kept in
\* addition to the ones that are deployed.
KeptReleasesStay ==
  [][\A a \in Apps : \A r \in released[a] \ released'[a] :
       \/ Rollback \/ UndeployApplication(a)
       \/ \A e \in Envs : deployed'[e][a] # NoVersion =>
            Cardinality({w \in released'[a] : w < deployed'[e][a]}) >= Kept]_vars

\* An environment that follows "latest" is never moved back by a release,
\* however late the build that made it finishes, nor by a train.
LatestEnvNeverMovedBack ==
  [][\A e \in Envs, a \in Apps :
       DeployLatest(e, a) \/ (config[e].latest /\ TrainApplication(e, a)) =>
         Rollback \/ deployed'[e][a] >= deployed[e][a]]_vars

\* README.md:107: when one environment cannot be changed the others are still
\* processed.  A train that does not fail has visited all of its environments.
TrainVisitsAll ==
  [][job.kind = "train" /\ job'.kind = "none" => Rollback \/ job.envs = {}]_vars

\* The Argo CD webhook of a commit names every app whose version the commit
\* changed, through every level of transformers that call others, and every
\* batch.  What it may leave out is what a release train left out itself, in
\* the three places that return without reporting: an upstream environment that
\* does not exist, an owner that cannot be read, and a deployment whose error
\* is ignored after it wrote the link.
ChangesReported ==
  [][Commit => \A e \in Envs, a \in Apps :
       deployed[e][a] # head.deployed[e][a] => <<a, e>> \in changes \cup unreported]_vars

=============================================================================
