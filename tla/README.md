# Kuberpult: formal models

Kuberpult keeps the Argo CD manifests of many applications in a git repository
and decides which release of an application runs in which environment. This
directory holds TLA+ models of its services, the TLC configurations that check
them on small instances, and proofs that TLAPS checks for every value of the
constants. Paths below are relative to the root of the repository.

    ManifestRepo.tla        what a request does to the manifest repository
    ManifestRepoProofs.tla  its types, and that no deployed release is ever deleted
    ManifestRepoStepProofs.tla  what a step may do to queues, releases, versions, manifests and reports
    MCManifestRepo.tla      instances for TLC
    PushQueue.tla           how a request gets into the repository and is answered
    PushQueueProofs.tla     what an answer promises, that there is one, and the order of the branch
    MCPushQueue.tla         instances for TLC
    Rollout.tla             the rollout service
    RolloutProofs.tla       its types, and that listeners and broadcast miss nothing
    MCRollout.tla           an instance for TLC
    Cart.tla                the planned actions of the web UI and their submission
    CartProofs.tla          targets, lock ids and what was confirmed
    MCCart.tla              instances for TLC
    Session.tla             a page of the web UI: sign-in and its two streams
    Feed.tla                what such a page promises: the abstract specification
    SessionProofs.tla       types, tokens, check marks, and that Session implements Feed
    MCSession.tla           an instance for TLC
    Pages.tla               what the pages derive from an overview and the URL
    PagesProofs.tla         that the cards show every deployment and count every release
    MCPages.tla             an instance for TLC
    Induction.tla           lemmas on greatest elements, induction, folds and sums, for the proofs

A run is `tlc -config <file>.cfg MC<module>.tla`, a proof
`tlapm <module>Proofs.tla`. PROJECT.json lists the runs, the lines each
definition stands for, the hazards, and the theorems.

## 1. The system

                     Batch, release, train                StreamOverview
    CI, UI --> frontend-service ----------> cd-service ------------------> rollout-service
                    ^                        |      |                       |    ^     |
                    |                  push, |      | webhook       refresh |    |     | StreamStatus
                    |                  fetch v      v                       v    |     v
                    |               git remote     Argo CD <-----------------  watch   clients
                    +---- StreamOverview (UI) <-- cd-service

**cd-service** (`services/cd-service`)

| Component | State | Operations | Hard because | Correct when |
|---|---|---|---|---|
| Manifest repository and transformers (`repository/transformer.go`, `repository.go`) | the git tree: releases, `version` and `queued_version` symlinks, copied manifests, locks, environment configs | 15 transformers, applied in batches to one in-memory tree; commit or drop | the state is spread over symlinks that can dangle; loops stop in the middle; some errors are swallowed; locks come from three places | nothing that runs is deleted; locked versions stay; queues go when they are done; the webhook hears of each change a transformer returns |
| In-memory git tree (`fs/fs.go`) | blobs and trees of one request | read, write, symlink, remove | a write never truncates, so the second write of a file appends | what is read is what was written last |
| Push queue and worker (`repository/queue.go`, `repository.go`) | a channel for 5 elements, a result channel for each, the local branch, the worker's batch | `Apply`, `add`, drain, apply, push, reset, retry, answer, webhook, `Notify` | callers are cancelled at any point, pushes time out and go on, the remote moves, one push stands for many requests | success means pushed and visible; each request is answered once; commits keep the order of the queue |
| Batch service (`service/batch.go`) | none | translates a `BatchRequest` (at most 100 actions) to transformers | one request, one commit | as the transformers |
| Change notification and overview stream (`notify/notify.go`, `service/overview.go`) | a set of channels for one signal; the last overview | subscribe, notify, update, stream | signals coalesce; the first subscriber fills the cache | every subscriber gets to the last overview |
| Environment groups (`mapper/environments_config.go`) | none | sorts and ranks environments by their distance from "latest" | cycles and missing upstreams in the configuration | distances are shortest paths |
| Argo CD rendering, SQLite object store, credentials, interceptors, start-up | none that others see | formatting, key-value storage, wiring | | |

**rollout-service** (`services/rollout-service`)

| Component | State | Operations | Hard because | Correct when |
|---|---|---|---|---|
| Version consumer (`versions/versions.go`) | the versions of the last overview, a cache of overviews | turns overviews into events | overviews are skipped; what is gone has to be found by comparison; streams break | the broadcast has the versions of the last overview |
| Broadcast (`service/broadcast.go`, `service.go`) | per application the versions that kuberpult and Argo CD report; the listeners | two event handlers, `Start`, unsubscribe, `StreamStatus` | events come from two goroutines in any order; a slow listener is cut off | an open listener misses nothing |
| Argo CD notifier (`notifier/*.go`) | the version a refresh was last asked for; refreshes in progress | subscribe, re-subscribe, refresh | bounded concurrency blocks the reader, which may lose its channel | a refresh for every version that stays |
| Metrics (`metrics/metrics.go`) | per application a counter and time stamps | listens to the broadcast | | |

**Web UI** (`services/frontend-service/src/ui`)

| Component | State | Operations | Hard because | Correct when |
|---|---|---|---|---|
| Cart and side bar (`utils/store.tsx`, `components/SideBar`, and each control that plans an action) | the planned actions, the lock message, the confirmation, one spinner | add (limit of 100, duplicates), remove, "delete them all", confirm, submit, answer | overviews and answers arrive while the user reads, plans and confirms; an error keeps the cart, into which the submission has written | what is sent is what was confirmed; no target twice; every new lock has the reason and id of its batch |
| App and sign-in (`App/index.tsx`, `utils/AzureAuthProvider.tsx`, the stores of `store.tsx`) | configuration, token, two subscriptions, overview, rollout status | load, sign in, subscribe, retry, give up, cancel on a new token | effects run in the order of renders; tokens arrive late, twice or never; a stream is retried eight times in its life | nothing is asked for without a token; the page never falls back, and follows or says that it does not |
| Release cards (`components/ReleaseCard`) | none | joins the overview and the rollout status | the two come on different streams | a check mark is a success that was reported for this version |
| Lanes, history, dialog, filters (`components/ServiceLane`, `Releases`, `ReleaseDialog`, `chip`, `Pages/Home`, `TopAppBar`) | the URL and its search parameters | navigate, search, select teams, open and close the dialog | the URL outlives what it names; cards and the numbers between them are slices and differences of indices | nothing that is gone is looked up; no deployment is hidden; the numbers add up |
| Lock table (`components/LocksTable`, `Pages/Locks`), snackbar, warnings, buttons, styles | the direction of a sort, a message | | | |

**Shared, and the frontend-service's server.** `pkg/setup` starts servers and
background tasks and stops all when one ends; `pkg/auth` carries users and checks
permissions; the server of the frontend-service translates REST and gRPC calls
and forwards them. `PROJECT.json` has a row, with its reason, for each part that
is not modelled.

**Interactions.** A gRPC handler of the cd-service calls `Repository.Apply`,
which sends an element to the worker's channel and waits. The worker applies
each element (`ApplyTransformers`), pushes, calls Argo CD's webhook with the
changes, calls `Notify`, and answers on the element's own channel. `Notify` wakes
the goroutine of the overview service, which reads the tree, stores the overview
and wakes its streams. One such stream feeds the version consumer, which feeds
the broadcast under its mutex; Argo CD's watch feeds it too. The broadcast's
listeners are goroutines that read bounded channels. A page of the UI holds one
stream of the cd-service and one of the rollout-service; what they deliver goes
into stores that every component reads when it renders, and the cart goes back
as one `ProcessBatch`.

## 2. ManifestRepo

State. `released`, `manifests`, `undeploys` are `applications/<app>/releases/*`
with the environments of their manifests and the `undeploy` marker;
`deployed` and `queued` are the `version` and `queued_version` symlinks of
`environments/<env>/applications/<app>`, as numbers, so that "the link dangles" is
"the number is not in `released`"; `manifestFile` is the list of releases whose
documents are in the deployed `manifests.yaml`; `envLocks` and `appLocks` are
lock files; `envDirs`, `configFiles`, `config` are the environments. These eleven are
the tree in memory. `head` is the committed tree. `cached` holds the files
whose bytes the in-memory file system has read or written in this request:
writing one of those appends (`fs.go:133`), which makes `manifestFile` longer
and a lock unreadable (`corrupt`).

Actions. Each transformer is an action with the guard of its early returns,
in the order of the code. `DeployApplicationVersion` is the decision (locked?
queue, refuse or install); `Install` is the link, the manifests, the metadata, the
end of the queue and the cleanup, `InstallPartly` the case where the part
behind the manifests fails (a dangling queue) and the caller goes on. Where the
code loops over environments in the order of a Go map, or a train over
environments and apps, `job` holds what is left of the loop and each iteration is
a step: `DeployLatest`, `TrainEnvironment`, `TrainApplication`, `EndJob`. A train
returns in its middle, as a success without a result, where an upstream has no directory
and, with a team filter, where the owner of an app cannot be read (`StopTrain`). `Commit`
ends a request, `Refuse` stands for every failure that depends on what is not
modelled (permissions, invalid names, I/O) and drops the tree, as `Rollback`
does in the failures that are. `changes` is the `TransformerResult` that reaches
the webhook; `unreported`, a history, is what a train deployed and left out of its
result.

Left out: commit messages, authors, dates, release metadata, rendered Argo CD
files, reads of the overview, bootstrap mode (environments from a config map).
A failure may be taken at any time (`Refuse`), so what is proved of the tree does not
depend on which requests are refused.

Runs. Every property holds of the tree in memory and of the committed one.

| Run | Instance | Distinct states | Shows |
|---|---|---|---|
| `ManifestRepo` | 1 app, 3 versions, 2 environments one behind the other (the first without config, whose directory is made by a deployment or by `CreateEnvironment`), 1 lock id for environment, group and app, `Kept` 2, trains with and without team | 2,973,000 | `TypeOK`, `LinksAreSafe`, `NoStaleQueue`, `DeployedManifestIsCopied`, `GoneAppLeavesNothing`, `LatestReleaseSurvives`, `RollbackWindow`, `LatestEnvNeverMovedBack`, `LockedVersionIsStable`, `ChangesReported` |
| `KeptReleases` | 1 environment, 3 versions, `Kept` 2 | violation | `KeptReleasesStay` |
| `TrainStops` | a group of 2, whose first environment has an upstream that does not exist | violation | `TrainVisitsAll` |
| `TwoDeployments` | requests of 2 transformers | violation | `DeployedManifestIsCopied` |

Why these bounds. A cleanup's cut is decided by the oldest deployed release, the
last release and `Kept`: with `Kept` = 2 and one environment on the latest of three versions the
first of them is cut, and two environments give one the cleanup could overlook. A
queue outlives its release when such a cleanup takes it. Queues, locks and
deployments of one app do not look at another app, so one app shows their
interleavings; a train over a group of two has one environment left when it is at the first,
locked or not, and one that follows another shows what it may find there. `Kept` is 20 by
default; the code uses it only in the two comparisons that `OldReleases` has.

A request has 100 actions at most; what a batch adds to a single transformer is
that the bytes of a file are in memory already. `TwoDeployments` has requests of two, and
all theorems but one are for requests of any length; `DeployedManifestIsCopied` is
checked and proved for requests of one transformer, because with two it does not hold.

## 3. PushQueue

State. `caller`, `live`, `answer`, `result` describe a request from its caller's side:
`live` is the set of those whose context is not cancelled, `result` the channel
with room for one value. `queue` is the bounded channel. `pc`, `batch`, `next`,
`redo`, `round`, `tries`, `err`, `changed` are the local variables and the
position of the worker in `ProcessQueueOnce`. `local`, `remote` and `late` are
branches, as sequences of commits made since the start; `late` holds the pushes that
timed out and still run. `announced` and `seen` record what the webhook and the
subscribers of `Notify` were told. `accepted`, `commits` and `refused` are histories, the last of
the requests whose second push the remote rejected.

Actions. Callers: `Enqueue`, `AddCancelled`, `Cancel`, `Return`, `GiveUp`. The
worker: `Take` and `CheckFirst` (the head of the queue), `Drain` and `Drained`,
`ApplyOk`, `ApplyFailed`, `ApplyInvalidJson` (fetch, reset, start again),
`Applied`, the outcomes of a push (`Pushed`, `PushBroken`, `PushTimeout`,
`PushDiverged`, `PushRefused`), `Reset`, `Post` (webhook and `Notify`),
`Answer`. Others: `ForeignPush` and `Land`, a late push that arrives.

Abstractions: transformers succeed or fail at will; a commit is `<<request, n>>`,
n counting how often the request was committed; a push that timed out pushes
the branch of the moment of the time-out; git refuses what is no fast-forward;
nobody rewrites the remote branch; a webhook that fails is logged by the code
and changes nothing; the closing of the queue at shutdown is left out.

| Run | Instance | Distinct states | Shows |
|---|---|---|---|
| `PushQueue` | 2 requests, 1 cancellable, channel for 1, 2 foreign pushes, 1 late push, 2 tries | 421,000 | `TypeOK`, `AnswersAreBacked`, `AppliedInOrder`, `NoRequestLost`, `AnsweredOnce`, `SuccessIsPushed`, `AnsweredIsVisible`, `EveryRequestAnswered` |
| `PushQueueStuck` | a cancelled request at the head | violation | `EveryCallerReturns` |

Why these bounds. Two requests give a batch of two, or one that is accepted,
cancelled or refused by the full channel while the other is pushed: every place an element can be
in, and every pair of places. One foreign push can cause the reset, the second its failure; the
code resets once per batch (`round`). A late push can land before or after
the request is answered, and before or after the next batch's. Two tries distinguish a retry from
the last failure.

The remote may reject any push. The code looks at what the remote reports of a ref in the first
round only (`repository.go:449`), so a rejection in the second one is answered with
success. The model has that answer; `SuccessIsPushed` and `AnsweredIsVisible` except exactly
the requests in `refused`, and hold for everybody else, in the same runs and the batches after.

Fairness (`FairSpec`). The worker is a goroutine that never waits for anything
but the queue and its own sends, so its steps are weakly fair, as one action:
which outcome a push has is left open. A caller returns when there is an answer or its
context is cancelled (a `select`), so `Return` or `GiveUp` is weakly fair for
each. Nothing makes a context end or a foreign push happen.

## 4. Rollout

State. `overview` is the cd-service's; `stream`, `signal`, `inbox` are a
stream of overviews, the channel for one signal behind it, and the overview on
its way; `versions`, `left` are the consumer's map and the events it has still
to pass on; `state`, `listeners` are the fields of `Broadcast`; `initial` and
`channel` are what a listener has not read yet; `target` is `notifyStatus`,
`waiting` the call that waits in `errgroup.Go`, `running` the refreshes in
progress, as a set. `view`, what each listener read last, is a history.

Actions. `Deploy` and `SendOverview` (the cd-service); `Connect`, `Break`, `Receive`,
`PassOn` (the consumer: one event at a time, so that events of Argo CD come
between); `ArgoEvent` with any version the app ever had, or none when the
cd-service did not answer; `ArgoEventPanic`, `ClientPanics` and `Stop`, after
which the service starts anew (`Restarted`); clients that connect, read and leave; the
subscriber's `Subscribe`, `RefresherReads`, `NotifyArgoCd`, `Resubscribe`; and
`RefreshEnds`. `Publish` inside the event handlers sends to every listener and
closes the ones whose channel is full.

An overview's version is `Nil` for an application it does not list, and 0 for one
that is listed and not deployed. Environment groups and deployment times are left out; so is the metrics
listener, which reads like a client; and the events of an overview are passed on
in any order (the code: first the listed ones, then the deleted ones).

| Run | Instance | Distinct states | Shows |
|---|---|---|---|
| `Rollout` | 2 apps, 1 version, 1 client, channels for 1 event, 1 refresh at a time, 2 deployments, 1 event of Argo CD, 1 incident | 99,000 | `TypeOK`, `ListenersKnowTheState`, `BroadcastFollowsOverview`, `EveryVersionIsRefreshed` |
| `NeedlessRefresh` | 1 app, 1 deployment, 1 event of Argo CD | violation | `NoNeedlessRefresh` |

Why these bounds. The channel of 100 events is one that is full after one, so a
listener is closed by two events it does not read; two apps make the second refresh wait
and give an overview with one event passed on and one left. An app is absent,
listed at 0, or at 1. An incident is a client that
connects or leaves, a broken stream, or a stop: one of them at a time, at every moment.

Fairness. Weak for the consumer, the subscriber, and the cd-service's stream:
goroutines that wait only for what the formula's guards name. Weak for the
end of a refresh: it has a timeout of 60 s (`notifier.go:65`). None for clients and
Argo CD. A subscriber that keeps losing its channel until its backoff ends is in `Stop`.
`EveryVersionIsRefreshed` excuses a broken stream: the code never
opens a new one (`versions.go:147`). It also excuses a version that Argo CD has reported
itself, for which the comment at `subscriber.go:100` wants no refresh; the code asks for one all
the same, which is `NoNeedlessRefresh` (section 9). The model has the panics that stop the service
(`ClientPanics`, `ArgoEventPanic`): the properties hold through the restart, they do not
say that it does not happen.

## 5. Cart

State. `actions` is the `UpdateAction` store; `message`, `dialog`, `spinner` are
the hooks of the side bar; `inFlight` holds the calls of `ProcessBatch` without
answer, each with the number that stands for its random lock id. `selection` has for each
app the dialog of its lane that removes it from environments. `serverLocks` is what the manifest
repository has, `locks` what the last overview showed of it. `reviewed`, the cart at the
moment the confirmation was opened, and `beside`, the apps whose selection was open at that
moment, are histories.

Actions. One per control that plans something: the lock buttons of an environment card
and of a group, the lock symbols (environment and app), `AddApplicationLock` and
`DeployAndLock` of the release dialog, `PrepareUndeployOrUndeploy` and the
removal from environments of a lane's menu. All go through `AddTo`, which is `addAction`
with its limit and its check for duplicates, folded over what one click adds.
`DeleteItem` (the bin), `DeleteThemAll` (the hint at similar locks),
`UpdateMessage`, `ShowDialog`, `CancelConfirmation`, `ApplyActions` (which
writes id and message into the cart's own actions), `BatchSucceeded` and
`BatchFailed`. The server applies a batch as a whole, before or after the
page has given up on it; others lock a group and unlock it; an overview may arrive at any time, in a
dialog, too.

What covers what. The confirmation of the side bar lies in a container whose pseudo-element
covers the page (`ConfirmationDialog.scss:21`, added in `SideBar.tsx:421` and `:443`), so
nothing behind it can be clicked (`Clickable`). The selection of environments is the same
box without that container (`EnvSelectionDialog.tsx:57`): while it is open the page can be used,
"Apply" with it, and its `z-index` is above the cover. So a selection that was open when the
confirmation opened can still be ticked, cancelled and confirmed, and confirming it adds
removals to the cart under confirmation. `ConfirmedIsReviewed` says that this is all that
can get in. The spinner only shades the page.

Abstractions. Clicks only, no keyboard. Lock dates and authors, texts, the order
of lock lists and the snackbar are left out; so are the conflicting locks that the
confirmation lists and the reasons shown in the side bar, which are functions of cart and overview at each
render. Which of "prepare" and "delete" the
menu offers depends on a summary of the server and is left open. The side bar exists only
on a page that is ready, so `authReady` holds.

| Run | Instance | Distinct states | Shows |
|---|---|---|---|
| `Cart` | 1 app, a group of 2 environments that somebody else locks, too, room for 2 actions, 2 clicks on the plan, 2 submissions | 1,340,000 | `TypeOK`, `OneActionPerTarget`, `LocksOfOneApply`, `ConfirmedIsReviewed`, `SpinnerEnds` |
| `CartDeleteAll` | 2 apps, their locks on one environment made with one "Apply" | violation | `AllSimilarArePlanned` |

Why these bounds. A click adds at most two actions and the cart holds two, so
it is full before, in the middle of and after a click. Two submissions overlap, or the second
repeats what the first left in the cart. The group's locks of somebody else
are made and removed at any time, also one that the user's own batch deletes; they have
one id on two environments, as those of a batch of the user have, which
the hint at similar locks needs. Two clicks on the plan are enough to deploy, to lock and to
remove what was planned; every other click is free.

Fairness. Weak for `Answers`: a call of gRPC-web ends, with an answer or an error. None
for the user, the server or the overviews.

## 6. Session and Feed

State. `config`, `authReady`, `authHeader`, `account`, `asking` are the start and the
sign-in; `sub` has for each stream whether App's effect has subscribed, with
which token, and how many errors the subscription has had; `wire` and `due` are messages
under way; `overview` is how many of the server's `deployments` the page
has seen; `rolloutStatus` is the store of that name. `rollout` is the status
that the rollout service has of each environment, `succeeded` a history of its
reports.

Actions. `ConfigArrives`, `ConfigFails`; `SignIn`, `TokenArrives`, `TokenFails`,
each for any account that was asked about, in any order; `Subscribe`, which is
an effect of App and runs again when the token changes, cancelling the stream
there was; `OverviewArrives`, `StatusArrives`; `StreamFails`, `Retry` and `GiveUp`, which is
where `rolloutStatus` is flushed or enabled; `Reload`. `CardStatus` is
`calculateDeploymentStatus`.

Feed is what a page promises about the overview: it shows a revision that the
server had, moves only forward, and either shows the newest in the end or tells that it is
stalled. The mapping is `head <- Len(deployments)`, `shown <- overview`,
`stalled <- Stalled`, where `Stalled` is what the user sees of
`useGlobalLoadingState`: the spinner of the configuration or the login, or
the warning that the connection is lost.

| Run | Instance | Distinct states | Shows |
|---|---|---|---|
| `Session` | 2 environments, 2 versions, 2 deployments, 2 reports, 2 accounts, 1 retry | 1,401,000 | `TypeOK`, `WithToken`, `SuccessWasReported`, `IsFeed` (safety and liveness) |

Why these bounds. One retry has a stream that fails, is resumed, fails again and is given
up; two accounts have two answers that cross. Two versions and two reports make one
stream show a version the other does not know of yet, in both directions. A page that
has been reloaded is the initial one with deployments, so reloads need no bound.

Fairness. Weak for `Subscribe` (React runs effects after a render), `Retry` (a timer) and
`OverviewArrives` of the overview's stream. None for people, tokens and failures: a page may
fail until it gives up, which is `Stalled`. `IsFeed` is Feed with its
fairness: the page keeps showing newer overviews unless it is stalled.

## 7. Pages

State. `releases`, `deployed`, `team` are the overview, as far as lanes and
cards look at it: an environment may know an app without a deployment (0), for its
locks or its queue. `page`, `application`, `teams`, `dialog` are the
path and the search parameters.

Actions. The user's: `Navigate`, `Search`, `SelectTeam`, `ClearTeams`,
`OpenReleaseDialog`, `CloseReleaseDialog`, on what the page offers. An overview that arrives
differs from the one before by what a transformer of the manifest repository does:
`CreateRelease`, `Deploy`, `LockOrQueue`, `RemoveEnvironment`, `Cleanup`,
`UndeployApplication`.

The selected teams are in the URL, joined by commas and split at them (`Toggled`): a team whose
name has a comma comes back as several entries, and its apps are not shown. Names with
an empty part ("a," or ",") are left out.

The algorithms are operators: `ReleasesToDisplay` with JavaScript's
`findIndex` and `slice` (which count from 0 and cut at the end),
`NumberOfReleasesBetween` and `Diff`, `DeployedAtGroups` and the chips.

| Run | Instance | Distinct states | Shows |
|---|---|---|---|
| `Pages` | 1 app, of no team, of a team or of one whose name has a comma, 3 environments in 2 groups, 4 versions, room for 2 cards, 3 entries of teams, a search without hits | 2,906,000 | `TypeOK`, `ReleasesAreFound`, `HiddenAddUp`, `DeploymentsAreShown` |

Why these bounds. Three environments run up to three versions, one more than the lane
has room for (6 in the code), which is when the number of trailing cards gets negative;
the fourth version is above, between or below them. A group of two has chips with two,
one and no environment. Lanes do not look at other apps; the search and the teams see an app
that is there, gone, or in another team. Links that are copied or edited are
the URLs that an app left behind when it was undeployed.

## 8. What is proved

TLAPS proves these for all values of the constants that satisfy the named assumption of
their module (`ConstantsAssumption`, `SessionAssumption`, `NilAssumption`, `CartAssumption`,
`PagesAssumption`). They say what type a constant has, keep a placeholder apart from data
(`NilAssumption`) or, in Pages, that no part of a team's name between commas is empty.

| Theorem | Statement | Argument |
|---|---|---|
| `ManifestRepoProofs!TypeCorrect` | `Spec => []TypeOK` | one lemma per transformer |
| `ManifestRepoProofs!NoDanglingLink` | `Spec => []LinksAreSafe` | itself inductive |
| `ManifestRepoStepProofs!QueuesAreFresh` | `Spec => []NoStaleQueue` | inductive, with `LinksAreSafe` |
| `ManifestRepoStepProofs!GoneAppsAreGone` | `Spec => []GoneAppLeavesNothing` | inductive, with `LinksAreSafe` |
| `ManifestRepoStepProofs!LockedVersionsStay` | `Spec => LockedVersionIsStable` | by kinds of steps |
| `ManifestRepoStepProofs!LastReleaseStays` | `Spec => LatestReleaseSurvives` | a cleanup spares the last release |
| `ManifestRepoStepProofs!ReleasesToGoBackTo` | `Spec => RollbackWindow` | counting (`KeptWindow`) |
| `ManifestRepoStepProofs!LatestGoesForward` | `Spec => LatestEnvNeverMovedBack` | inductive invariant `JobIsLatest` |
| `ManifestRepoStepProofs!ManifestIsCopied` | `MaxBatch = 1 => (Spec => []DeployedManifestIsCopied)` | inductive invariant `CopyInv`, by `StepProgress` |
| `ManifestRepoStepProofs!ChangesAreReported` | `Spec => ChangesReported` | inductive invariant `ReportInv`, by `StepTells` |
| `PushQueueProofs!TypeCorrect` | `Spec => []TypeOK` | one lemma per group of actions |
| `PushQueueProofs!BackedAnswers` | `Spec => []AnswersAreBacked` | itself inductive |
| `PushQueueProofs!PushedSuccess` | `Spec => []SuccessIsPushed` | from `BackedAnswers` |
| `PushQueueProofs!VisibleAnswers` | `Spec => []AnsweredIsVisible` | from `BackedAnswers` |
| `PushQueueProofs!RequestsAreKept` | `Spec => []NoRequestLost` | inductive invariant `NothingLost` |
| `PushQueueProofs!OneAnswer` | `Spec => []AnsweredOnce` | inductive invariant `OnceInv` |
| `PushQueueProofs!OrderIsKept` | `Spec => []AppliedInOrder` | inductive invariant `OrderInv`, with `OnceInv` |
| `RolloutProofs!TypeCorrect` | `Spec => []TypeOK` | inductive invariant `IInv` |
| `RolloutProofs!FollowsOverview` | `Spec => []BroadcastFollowsOverview` | inductive invariant `IInv` |
| `RolloutProofs!ListenersInformed` | `Spec => []ListenersKnowTheState` | inductive invariant `ListenersInv`, with `IInv` |
| `SessionProofs!TypeCorrect` | `Spec => []TypeOK` | inductive invariant `IInv` |
| `SessionProofs!TokenSafe` | `Spec => []WithToken` | inductive invariant `TokenInv`, with `IInv` |
| `SessionProofs!SuccessSafe` | `Spec => []SuccessWasReported` | inductive invariant `SuccessInv` |
| `SessionProofs!Implementation` | `Spec => Feed!Spec` | every step is one of Feed or a stutter, with `IInv` |
| `CartProofs!TypeCorrect` | `Spec => []TypeOK` | inductive invariant `IInv` |
| `CartProofs!OneForEachTarget` | `Spec => []OneActionPerTarget` | `IInv`: every cart and batch is in `GoodPlans` |
| `CartProofs!OwnLockIds` | `Spec => []LocksOfOneApply` | `IInv` |
| `CartProofs!ReviewedThenConfirmed` | `Spec => []ConfirmedIsReviewed` | `IInv`: `DialogInv` |
| `PagesProofs!TypeCorrect` | `Spec => []TypeOK` | inductive invariant `IInv` |
| `PagesProofs!ShownReleasesExist` | `Spec => []ReleasesAreFound` | `IInv`, `CardsCover` |
| `PagesProofs!AllReleasesCounted` | `Spec => []HiddenAddUp` | `IInv`, `CardsCover`, `HiddenSum` |
| `PagesProofs!AllDeploymentsShown` | `Spec => []DeploymentsAreShown` | `IInv`, `CardsCover`, `CountByVersion` |

That the release of every link exists (`DeployedReleaseExists`) is not inductive: a cleanup only
spares the releases it finds by walking the directories of environments, so a link in an environment
without directory would be lost; and a loop of `CreateApplicationVersion`
deploys a release it made some steps ago. `LinksAreSafe` adds that links are only in
environments that have a directory, and that the release of a running loop is
there. The key lemma (`LinkedNotOld`) is that `OldReleases` contains no linked release.

ManifestRepo has many transformers that change little. `StepKinds` shows once that every step
is of one of nine kinds (the end of a request, good or bad; a deployment, whole or
in part; a queueing; a new release with its cleanup; an app or an environment taken out;
anything else, after which a queue without a lock has been processed), and each theorem goes through the
kinds. Thus `NoStaleQueue` is kept because a deployment drops the queue and so does the
deletion of a last lock. `RollbackWindow` is about what a cleanup leaves: the code keeps
Kept - 1 releases before the oldest deployed one, so from the newest deleted release to
any deployed one there are as many (`KeptWindow`, with `GreatestElement`). `LatestEnvNeverMovedBack` needs
that the version a loop of `CreateApplicationVersion` deploys stays the latest
while the loop runs (`JobIsLatest`).

`ManifestIsCopied` follows a request from its first step to its
commit, so the kinds of steps are others (`Progress`): the end of a request, a
deployment, taking out, and what leaves versions alone. `Ahead` names the app and environment pairs
that the request may still deploy to: all before the transformer has begun, then what its loop
has left. A deployment takes its pair out of them and nothing comes back, so a place is
deployed to once. `CopyInv` says that the manifest file of what is ahead is not in memory
yet, so that writing it replaces it. That is for requests of one transformer (`MaxBatch = 1`);
with two, `DeployedManifestIsCopied` is false (section 9).

`ChangesAreReported` is for requests of any length. `StepTells` shows of every step that what it
deploys gets into the changes of the request, into those of its loop, or into `unreported`, and that
nothing gets out of these but by a commit or a roll-back. So `ReportInv`, that what differs from
the head is among the three, is kept; at a commit there is no loop, and two are left. What is in
`unreported` is named by the two actions that put it there: `StopTrain` and the failed
deployment of `TrainDeploys`.

`SuccessIsPushed` is not inductive: the answer is sent at the end of `Post`'s
loop, long after the push. `AnswersAreBacked` says where the batch is at each
position of the worker: applied up to `next` while it applies, in the local branch and among the
changes when it pushes, in both branches behind a push without error, announced
behind `Post`; and that what was answered with success is in both branches, so that neither a
reset (to the remote branch) nor a failed push takes it away, or is in `refused`. `NothingLost` adds that an idle worker has no batch. `OnceInv` says that an element
is in one place only: queue and batch have no duplicates and none in common, and a request
that is not yet made is in neither and has no answer. Only with it does an answer to one
element leave the others without; the run `PushQueueStuck` shows what a cancelled one can do.
`OrderInv` puts every place a request can be in on one line, that of `accepted`, the order in which the
queue took the requests: the queue holds its end, in order; the batch requests taken before,
in order; and a branch, local, remote or pushed late, none but requests that were taken,
in order, with every request of the batch that precedes one it has.

`BroadcastFollowsOverview` needs what holds before the first stream (`DownInv`): `Connect`
starts from no versions, which is only right because the process has told the broadcast
nothing yet. `ListenersKnowTheState` says what a listener will know at the end, so it is
about the last event of a key; the invariant `Informed` says of each of the three places an
event can be in (the channel, the snapshot, what was read) that it holds the right one if the places
that are read later have none. That the channel has a last event of the key is
`GreatestElement`, from the well-foundedness of `<` on the naturals.

Of Cart, the state is a list that every click folds into. `GoodPlans` are the lists within the
limit that name no target twice. `AddTo`, the folded `AddActions` and the filter of `DeleteItem`
keep them (`AddToGood`, `AddAllGood`, `WithoutGood`), for targets are among the fields `addAction` compares.
`DialogInv` says what an open confirmation implies: a message when there is a new lock, no open
selection of an app outside `beside`, and a cart that extends the reviewed one, or an empty one, by
removals of apps in `beside` (`UnderReview`). Confirming a selection folds `AddTo` over such
removals, which keeps that (`RemovalConfirmable`). So what `ApplyActions` stamps is complete, and stamping
overwrites the id that a failed submission left in a lock.

Of Pages, most is about what operators compute, which the theorems need for lists of
any length. `DescendingSorts` says that the sorted list has every element once. `CardsCover`
says what the cards are: releases in descending order, the latest first, all deployed ones
among them, at every relation of the room to the number of deployed ones. `HiddenSum` adds the
gaps between the positions of such cards; `CountByVersion` counts the environments of a group by the
card of their version. The invariant itself only says that what is deployed is a release.

Induction.tla has what these need of folds. The library's induction theorems take an operator, which
no prover here can instantiate, so a property is written as the set of the elements
that have it, and the least element outside that set (by well-foundedness) refutes
itself (`InductionOnNat`, `InductionOnSubsets`). With it the recursive functions that `FoldFunction` and
`FoldLeft` are defined by exist (`FoldExists`, `FoldLeftExists`), sums can be taken apart (`SumWithout`)
and telescope (`SumTelescopes`).

`IInv` of Session adds to the types that streams exist only on a page that is ready
(`ReadyInv`), and that overviews under way are on an open stream, in the order of
the server and none older than the page (`WireInv`): without it a step of
`OverviewArrives` could fall back. `TokenInv` adds that a ready page has a header, so a
subscription made from it has one. `SuccessInv` is about the store instead of the
card: whatever it holds as successful was reported so, and the card compares the version
(`CardHasReports`).

Only model-checked: liveness (`EveryRequestAnswered`, `EveryVersionIsRefreshed`,
`SpinnerEnds`, the fairness of Feed in `IsFeed`), which TLAPS cannot prove here. Every
invariant and every action property of a passing run is the statement of a theorem, one of them
(`ManifestIsCopied`) with a hypothesis that the run `TwoDeployments` shows to be needed. The proofs about Cart use its types for
lists (`Plans`), so `TypeOK` states them as such; Pages has its groups as sets of environments and
its sort by counting, because neither the order in a group nor the algorithm of the sort matters to a property.

## 9. What the runs found

* A request cancelled while it is next in the queue is answered twice. When its
  caller has left, the second send blocks the worker for good
  (`repository.go:407`, run `PushQueueStuck`).
* Two deployments of an app to an environment in one request leave the
  manifests of both in the file Argo CD reads (`fs.go:133`, run `TwoDeployments`).
* "Delete them all!" leaves out the lock of a second app that was locked on the same
  environment with the same "Apply" (`store.tsx:155`, run `CartDeleteAll`).

* A cleanup keeps 19 releases before the oldest deployed one where the comment on
  `keptVersionsOnCleanup` says that 20 are always kept in addition to the deployed ones
  (`transformer.go:603` against `:49`, run `KeptReleases`). `RollbackWindow` states the
  number that the code does keep.
* A train stops without an error at an environment whose upstream does not
  exist, although the README says the others are processed
  (`transformer.go:1245`, run `TrainStops`). What it had deployed is committed and not reported.
* Argo CD is asked to refresh an application that it has just reported at the right
  version, against the comment: the comparison is one of pointers
  (`subscriber.go:101`, run `NeedlessRefresh`).

Met while modelling, in the model as the code has them, without a run of their own, because
nothing in the repository says what is meant to happen:

* A second push that the remote rejects in its status is answered with success
  (`repository.go:449`, the history `refused`).
* A train with a team filter ends as a success in the middle of its group when the owner of an app
  cannot be read (`transformer.go:1276`, `StopTrain`).
* A train that meets a `queued_version` link without its release has already
  written the new `version` link, takes the error for "some apps do not exist on all
  envs", and commits what it does not report (`transformer.go:1322`, `TrainDeploys`).
* A client of `StreamStatus` stops the rollout service when it is sent an
  application that Argo CD has not reported (`broadcast.go:217`, `ClientPanics`).
* A selection of environments that is open beside the confirmation changes the cart under it
  (`EnvSelectionDialog.tsx:57`, `ConfirmSelection`).
* A team whose name has a comma hides its apps when it is selected (`dropdown.tsx:88`, `Toggled`).

Hazards that no property covers: environments taken out of a config map in bootstrap mode
(`repository.go:1340`, not modelled); no `Notify` when a reset leaves nothing to push
(`repository.go:430`); `Combine`, which keeps the commit of the first element
(`repository.go:727`); the queue closed under callers at shutdown (`repository.go:288`). In the UI: two
rounds of "Remove environment from app" together can take all environments, which one round refuses
(`ServiceLane.tsx:155`); a chip of a group shows the locks of its first environment only
(`EnvironmentGroupChip.tsx:107`); the snackbar has room for one message.

## 10. Plan

In this order; each with its runs, and proofs where named.

Of the proofs, the next is the refinement of item 2, for which `OrderIsKept`, `OneAnswer`
and `BackedAnswers` are the lemmas.

1. **Overview**: coalescing signals, the cached overview, its subscribers
   (`notify.go`, `overview.go`). Its abstract specification is Feed, which Session's
   server side assumes. Composed with Rollout's consumer, it replaces `SendOverview`.
2. **Publication**, the abstract specification of a request (accepted, then
   published or refused, then answered), which PushQueue implements.
3. **Setup**: the order of shutdown hooks, the end of background tasks, the
   queue that is closed while callers add to it.
4. **EnvironmentGroups**: distances as a recursive function against shortest paths.
5. The metrics listener of the broadcast.

Not modelled, and not planned: rendering of manifests, the SQLite store, credentials,
interceptors, permissions (one nondeterministic refusal), REST parsing, charts and scripts: they
keep no state that other parts depend on. Of the UI: the lock table, whose only state is the
direction of a sort; warnings and the snackbar, which show what the models have as state;
menus that only open and close; dates, styles and the components of Material UI.
