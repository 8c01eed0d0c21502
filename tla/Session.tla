------------------------------ MODULE Session -------------------------------
(***************************************************************************)
(* A page of the web UI from its start: it asks for the configuration, for  *)
(* a token where Azure is used, and subscribes to two streams, the overview *)
(* and the status of the rollouts.  A stream that fails is retried with a   *)
(* growing pause, MaxRetries times in the life of the subscription, however *)
(* much it delivered in between.  The effects of App run again when the     *)
(* header changes: the old subscription is cancelled, a new one made.       *)
(*                                                                          *)
(* The overview is reduced to the deployments of one app.  A release card   *)
(* takes the environments of its version from the overview and their state  *)
(* from the other stream, which may be ahead or behind.                     *)
(***************************************************************************)
EXTENDS Naturals, Sequences

CONSTANTS
  Envs, Versions,
  MaxRetries,    \* 8 in the code
  MaxDeploys,    \* bound on the deployments
  MaxReports,    \* bound on the changes that the rollout service reports
  MaxLogins,     \* bound on the accounts that are signed in, one after another
  Nothing        \* no status

ASSUME SessionAssumption ==
  /\ MaxRetries \in Nat /\ MaxDeploys \in Nat
  /\ MaxReports \in Nat /\ MaxLogins \in Nat
  /\ \A e \in Envs, v \in Versions, s \in {"error", "progressing", "successful"} :
       Nothing # [environment |-> e, version |-> v, rolloutStatus |-> s]

VARIABLES
  config,        \* configReady: "pending", "ready"; "failed" is never retried
  account,       \* MSAL: 0, nobody is signed in, or the number of the account
  asking,        \* AcquireToken: the accounts for which a token is asked
  authHeader,    \* AzureAuthSub: 0 without a token, or the account of the token
  authReady,
  sub,           \* the subscriptions of App's effects
  wire,          \* overviews under way to the page
  due,           \* environments whose newest status is under way
  overview,      \* UpdateOverview: how many deployments it has
  rolloutStatus, \* the store of the statuses
  azure,         \* authConfig.azureAuth.enabled
  rolloutEnabled,\* whether there is a rollout service
  deployments,   \* the server: deployments to environments so far
  rollout,       \* the rollout service: its status of each environment
  reports,       \* reports so far (bound)
  succeeded      \* the environments and versions reported as successful (history)

uiVars == <<config, asking, authHeader, authReady, sub, wire, due, overview, rolloutStatus>>
serverVars == <<azure, rolloutEnabled, deployments, rollout, reports, succeeded>>
vars == <<uiVars, account, serverVars>>

Streams == {"overview", "status"}

Status == {"error", "progressing", "successful"}

Deployment == [environment : Envs, version : Versions]

StreamStatusResponse == [environment : Envs, version : Versions, rolloutStatus : Status]

-----------------------------------------------------------------------------
(* What a release card shows *)

\* The environments that have version v in the overview.
DeployedAt(v) ==
  {e \in Envs : \E i \in 1 .. overview :
     /\ deployments[i] = [environment |-> e, version |-> v]
     /\ \A j \in i + 1 .. overview : deployments[j].environment # e}

\* Mutant: the version of the report is not looked at.
EnvStatusOfAnyVersion(e, v) ==
  LET status == rolloutStatus.applications[e] IN
  IF status = Nothing THEN "unknown" ELSE status.rolloutStatus

\* The status of an environment with version v: a success that was reported for
\* another version is not the success of this one.
EnvStatus(e, v) ==
  LET status == rolloutStatus.applications[e] IN
  CASE status = Nothing -> "unknown"
    [] status # Nothing /\ status.rolloutStatus = "successful" /\ status.version # v -> "progressing"
    [] OTHER -> status.rolloutStatus

\* The most interesting one comes first.
CardStatus(v) ==
  LET statuses == {EnvStatus(e, v) : e \in DeployedAt(v)} IN
  CASE ~rolloutStatus.enabled \/ statuses = {} -> "none"
    [] rolloutStatus.enabled /\ "error" \in statuses -> "error"
    [] rolloutStatus.enabled /\ "error" \notin statuses /\ "progressing" \in statuses -> "progressing"
    [] rolloutStatus.enabled /\ statuses \cap {"error", "progressing"} = {} /\ "unknown" \in statuses -> "unknown"
    [] OTHER -> "successful"

-----------------------------------------------------------------------------
(* Configuration and sign-in *)

\* With Azure the children of AcquireToken are mounted, which asks for a token
\* of the account; without, the requests need none.
ConfigArrives ==
  /\ config = "pending"
  /\ config' = "ready"
  /\ authReady' = ~azure
  /\ asking' = IF azure /\ account > 0 THEN {account} ELSE {}
  /\ UNCHANGED <<account, authHeader, sub, wire, due, overview, rolloutStatus, serverVars>>

\* Logged on the console only: the spinner stays.
ConfigFails ==
  /\ config = "pending"
  /\ config' = "failed"
  /\ UNCHANGED <<account, asking, authHeader, authReady, sub, wire, due, overview, rolloutStatus, serverVars>>

\* The way back from the login page, or another account in MSAL's cache.
SignIn ==
  /\ azure /\ config = "ready" /\ account < MaxLogins
  /\ account' = account + 1
  /\ asking' = asking \cup {account + 1}
  /\ UNCHANGED <<config, authHeader, authReady, sub, wire, due, overview, rolloutStatus, serverVars>>

\* Silently or from the popup.  The answer to an older question may be the last.
TokenArrives(n) ==
  /\ n \in asking
  /\ asking' = asking \ {n}
  /\ authHeader' = n
  /\ authReady' = TRUE
  /\ UNCHANGED <<config, account, sub, wire, due, overview, rolloutStatus, serverVars>>

\* Both ways failed: the header, if there is one, stays.
TokenFails(n) ==
  /\ n \in asking
  /\ asking' = asking \ {n}
  /\ UNCHANGED <<config, account, authHeader, authReady, sub, wire, due, overview, rolloutStatus, serverVars>>

-----------------------------------------------------------------------------
(* The streams *)

Subscription(phase, header, errors) == [phase |-> phase, header |-> header, errors |-> errors]

\* Mutant: no unsubscribe, and the older stream is the slower one.
ConnectBeside(s) ==
  IF s = "overview" THEN wire' = <<Len(deployments)>> \o wire /\ UNCHANGED due
  ELSE due' = {e \in Envs : rollout[e] # Nothing} /\ UNCHANGED wire

\* A stream starts with all that the server has: the overview, and the status of
\* every environment.  Then comes one message for each change.
Connect(s) ==
  IF s = "overview" THEN wire' = <<Len(deployments)>> /\ UNCHANGED due
  ELSE due' = {e \in Envs : rollout[e] # Nothing} /\ UNCHANGED wire

\* What was under way is lost with its stream.
Disconnect(s) ==
  IF s = "overview" THEN wire' = <<>> /\ UNCHANGED due ELSE due' = {} /\ UNCHANGED wire

\* Mutant: authReady is forgotten.
SubscribeEarly(s) ==
  /\ sub[s].phase = "off" \/ sub[s].header # authHeader
  /\ sub' = [sub EXCEPT ![s] = Subscription("open", authHeader, 0)]
  /\ Connect(s)
  /\ UNCHANGED <<config, account, asking, authHeader, authReady, overview, rolloutStatus, serverVars>>

\* The effect of App for a stream, which first cancels the one there is.
Subscribe(s) ==
  /\ authReady
  /\ sub[s].phase = "off" \/ sub[s].header # authHeader
  /\ sub' = [sub EXCEPT ![s] = Subscription("open", authHeader, 0)]
  /\ Connect(s)
  /\ UNCHANGED <<config, account, asking, authHeader, authReady, overview, rolloutStatus, serverVars>>

OverviewArrives ==
  /\ wire # <<>>
  /\ overview' = Head(wire)
  /\ wire' = Tail(wire)
  /\ UNCHANGED <<config, account, asking, authHeader, authReady, sub, due, rolloutStatus, serverVars>>

\* UpdateRolloutStatus
StatusArrives(e) ==
  /\ e \in due
  /\ due' = due \ {e}
  /\ rolloutStatus' = [enabled |-> TRUE, applications |-> [rolloutStatus.applications EXCEPT ![e] = rollout[e]]]
  /\ UNCHANGED <<config, account, asking, authHeader, authReady, sub, wire, overview, serverVars>>

\* Mutant: one retry too many.
StreamFailsOnceMore(s) ==
  /\ sub[s].phase = "open"
  /\ sub' = [sub EXCEPT ![s] = Subscription("waiting", @.header, @.errors + 1)]
  /\ Disconnect(s)
  /\ UNCHANGED <<config, account, asking, authHeader, authReady, overview, rolloutStatus, serverVars>>

\* A stream ends with an error (its normal end is one, too: the frontend service
\* passes it on as such).  retryStrategy waits, or gives up after MaxRetries.
StreamFails(s) ==
  /\ sub[s].phase = "open" /\ sub[s].errors < MaxRetries
  /\ sub' = [sub EXCEPT ![s] = Subscription("waiting", @.header, @.errors + 1)]
  /\ Disconnect(s)
  /\ UNCHANGED <<config, account, asking, authHeader, authReady, overview, rolloutStatus, serverVars>>

Retry(s) ==
  /\ sub[s].phase = "waiting"
  /\ sub' = [sub EXCEPT ![s].phase = "open"]
  /\ Connect(s)
  /\ UNCHANGED <<config, account, asking, authHeader, authReady, overview, rolloutStatus, serverVars>>

\* The last error.  Without a rollout service it is "not implemented", unless
\* the connection itself fails: FlushRolloutStatus or EnableRolloutStatus.
GiveUp(s) ==
  /\ sub[s].phase = "open" /\ sub[s].errors = MaxRetries
  /\ sub' = [sub EXCEPT ![s].phase = "dead"]
  /\ Disconnect(s)
  /\ IF s = "overview" THEN UNCHANGED rolloutStatus
     ELSE \/ ~rolloutEnabled /\ rolloutStatus' = [enabled |-> FALSE, applications |-> [e \in Envs |-> Nothing]]
          \/ rolloutStatus' = [rolloutStatus EXCEPT !.enabled = TRUE]
  /\ UNCHANGED <<config, account, asking, authHeader, authReady, overview, serverVars>>

\* "Connection Error: Refresh the page".  MSAL keeps the account.
Reload ==
  /\ config # "pending"
  /\ config' = "pending" /\ asking' = {}
  /\ authHeader' = 0 /\ authReady' = FALSE
  /\ sub' = [s \in Streams |-> Subscription("off", 0, 0)]
  /\ wire' = <<>> /\ due' = {}
  /\ overview' = 0
  /\ rolloutStatus' = [enabled |-> FALSE, applications |-> [e \in Envs |-> Nothing]]
  /\ UNCHANGED <<account, serverVars>>

-----------------------------------------------------------------------------
(* The servers, seen from the UI *)

Deploy(e, v) ==
  /\ Len(deployments) < MaxDeploys
  /\ deployments' = Append(deployments, [environment |-> e, version |-> v])
  /\ wire' = IF sub["overview"].phase = "open" THEN Append(wire, Len(deployments) + 1) ELSE wire
  /\ UNCHANGED <<config, account, asking, authHeader, authReady, sub, due, overview, rolloutStatus,
                 azure, rolloutEnabled, rollout, reports, succeeded>>

\* Argo CD reports on a version that was deployed to the environment.
RolloutReports(r) ==
  /\ rolloutEnabled /\ reports < MaxReports
  /\ \E i \in 1 .. Len(deployments) : deployments[i] = [environment |-> r.environment, version |-> r.version]
  /\ reports' = reports + 1
  /\ rollout' = [rollout EXCEPT ![r.environment] = r]
  /\ succeeded' = IF r.rolloutStatus = "successful" THEN succeeded \cup {<<r.environment, r.version>>} ELSE succeeded
  /\ due' = IF sub["status"].phase = "open" THEN due \cup {r.environment} ELSE due
  /\ UNCHANGED <<config, account, asking, authHeader, authReady, sub, wire, overview, rolloutStatus,
                 azure, rolloutEnabled, deployments>>

-----------------------------------------------------------------------------

Init ==
  /\ config = "pending" /\ asking = {}
  /\ authHeader = 0 /\ authReady = FALSE
  /\ sub = [s \in Streams |-> Subscription("off", 0, 0)]
  /\ wire = <<>> /\ due = {}
  /\ overview = 0
  /\ rolloutStatus = [enabled |-> FALSE, applications |-> [e \in Envs |-> Nothing]]
  /\ account = 0
  /\ azure \in BOOLEAN /\ rolloutEnabled \in BOOLEAN
  /\ deployments = <<>>
  /\ rollout = [e \in Envs |-> Nothing]
  /\ reports = 0 /\ succeeded = {}

Next ==
  \/ ConfigArrives
  \/ ConfigFails
  \/ SignIn
  \/ \E n \in asking : TokenArrives(n)
  \/ \E n \in asking : TokenFails(n)
  \/ \E s \in Streams : Subscribe(s)
  \/ OverviewArrives
  \/ \E e \in Envs : StatusArrives(e)
  \/ \E s \in Streams : StreamFails(s)
  \/ \E s \in Streams : Retry(s)
  \/ \E s \in Streams : GiveUp(s)
  \/ Reload
  \/ \E e \in Envs, v \in Versions : Deploy(e, v)
  \/ \E r \in StreamStatusResponse : RolloutReports(r)

Spec == Init /\ [][Next]_vars

\* Effects run after a render, timers run out, what is under way arrives unless
\* its stream fails.  No answer of a person or of MSAL is counted on.
FairSpec ==
  /\ Spec
  /\ WF_vars(Subscribe("overview"))
  /\ WF_vars(Retry("overview"))
  /\ WF_vars(OverviewArrives)

-----------------------------------------------------------------------------
(* Properties *)

Phases == {"off", "open", "waiting", "dead"}

\* The types of the variables.
TypeOK ==
  /\ config \in {"pending", "ready", "failed"}
  /\ account \in Nat /\ asking \subseteq 1 .. account /\ authHeader \in 0 .. account
  /\ authReady \in BOOLEAN
  /\ sub \in [Streams -> [phase : Phases, header : Nat, errors : 0 .. MaxRetries]]
  /\ wire \in Seq(Nat) /\ due \subseteq Envs
  /\ overview \in 0 .. Len(deployments)
  /\ rolloutStatus \in [enabled : BOOLEAN, applications : [Envs -> StreamStatusResponse \cup {Nothing}]]
  /\ azure \in BOOLEAN /\ rolloutEnabled \in BOOLEAN
  /\ deployments \in Seq(Deployment)
  /\ rollout \in [Envs -> StreamStatusResponse \cup {Nothing}]
  /\ reports \in Nat
  /\ succeeded \subseteq Envs \X Versions

\* Where Azure is used no request leaves the page without a token, whatever the
\* order of configuration, sign-in, renewals and reloads: the server would
\* answer it as a request of nobody.
WithToken == azure => \A s \in Streams : sub[s].phase # "off" => sub[s].header # 0

\* A card has its check mark only if the rollout of its version was reported as
\* successful in each environment that the overview shows it for, however far
\* one of the two streams is ahead of the other.
SuccessWasReported ==
  \A v \in Versions : CardStatus(v) = "successful" => DeployedAt(v) \X {v} \subseteq succeeded

\* The spinner: of the configuration, or of the login.
Loading == config # "ready" \/ ~authReady

\* What the user sees of a page that cannot follow: the spinner, or the warning of
\* the stream that was given up.
Stalled == Loading \/ sub["overview"].phase = "dead"

Feed == INSTANCE Feed WITH head <- Len(deployments), shown <- overview, stalled <- Stalled

\* The page is a Feed: it never falls back to an older overview, across
\* failures, retries and new tokens, and it arrives at the newest one or is
\* stalled.
IsFeed == Feed!FairSpec
=============================================================================
