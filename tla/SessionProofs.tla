--------------------------- MODULE SessionProofs ---------------------------
(***************************************************************************)
(* Proofs about a session of the web UI, for any environments, versions and *)
(* bounds: its types, the token of every request, the check mark of a       *)
(* release card, and that it implements the safety part of Feed.            *)
(***************************************************************************)
EXTENDS Session, SequenceTheorems, TLAPS

-----------------------------------------------------------------------------
(* The invariants *)

\* A stream is subscribed to only after the configuration and a token.
ReadyInv ==
  /\ authReady \/ asking # {} => config = "ready"
  /\ \A s \in Streams : sub[s].phase # "off" => authReady

\* Overviews are under way only on an open stream, in the order of the server's
\* commits, none older than the one on the page.
WireInv ==
  /\ wire # <<>> => sub["overview"].phase = "open"
  /\ \A i \in DOMAIN wire : overview <= wire[i] /\ wire[i] <= Len(deployments)
  /\ \A i, j \in DOMAIN wire : i <= j => wire[i] <= wire[j]

IInv == TypeOK /\ ReadyInv /\ WireInv

\* Where Azure is used a page that is ready has a token, and so has a stream.
TokenInv ==
  /\ azure /\ authReady => authHeader # 0
  /\ WithToken

\* What is successful in these statuses was reported so.
Reported(statuses) ==
  \A e \in Envs : statuses[e] # Nothing /\ statuses[e].rolloutStatus = "successful" =>
                    <<e, statuses[e].version>> \in succeeded

SuccessInv == Reported(rollout) /\ Reported(rolloutStatus.applications)

-----------------------------------------------------------------------------
(* Types, and the overviews under way *)

LEMMA InitInv == Init => IInv
<1> SUFFICES ASSUME Init PROVE IInv
  OBVIOUS
<1>1. /\ wire \in Seq(Nat) /\ deployments \in Seq(Deployment)
      /\ Len(deployments) = 0 /\ DOMAIN wire = {}
  BY EmptySeq DEF Init
<1>2. sub \in [Streams -> [phase : Phases, header : Nat, errors : 0 .. MaxRetries]]
  BY SessionAssumption DEF Init, Phases, Subscription
<1>3. /\ rolloutStatus \in [enabled : BOOLEAN, applications : [Envs -> StreamStatusResponse \cup {Nothing}]]
      /\ rollout \in [Envs -> StreamStatusResponse \cup {Nothing}]
  BY DEF Init
<1>4. /\ config = "pending" /\ account = 0 /\ asking = {} /\ authHeader = 0 /\ authReady = FALSE
      /\ due = {} /\ overview = 0 /\ azure \in BOOLEAN /\ rolloutEnabled \in BOOLEAN
      /\ reports = 0 /\ succeeded = {}
  BY DEF Init
<1>5. TypeOK
  <2>1. config \in {"pending", "ready", "failed"} /\ authReady \in BOOLEAN
    BY <1>4
  <2>2. account \in Nat /\ authHeader \in 0 .. account /\ overview \in 0 .. Len(deployments) /\ reports \in Nat
    BY <1>1, <1>4
  <2>3. asking \subseteq 1 .. account /\ due \subseteq Envs /\ succeeded \subseteq Envs \X Versions
    BY <1>4
  <2> QED BY <1>1, <1>2, <1>3, <1>4, <2>1, <2>2, <2>3 DEF TypeOK
<1>6. ReadyInv
  BY DEF ReadyInv, Init, Streams, Subscription
<1>7. WireInv
  BY <1>1 DEF WireInv, Init
<1> QED BY <1>5, <1>6, <1>7 DEF IInv

\* A new stream carries the newest overview, a lost one nothing.
LEMMA ConnectType ==
  ASSUME TypeOK, NEW s \in Streams, Connect(s) \/ Disconnect(s)
  PROVE  /\ wire' \in Seq(Nat) /\ due' \subseteq Envs
         /\ s # "overview" => wire' = wire
         /\ s = "overview" => wire' = <<Len(deployments)>> \/ wire' = <<>>
<1>1. Len(deployments) \in Nat /\ <<Len(deployments)>> \in Seq(Nat) /\ <<>> \in Seq(Nat)
  BY EmptySeq DEF TypeOK
<1> QED BY <1>1 DEF TypeOK, Connect, Disconnect

LEMMA SignInInv ==
  ASSUME IInv, NEW n, 
         ConfigArrives \/ ConfigFails \/ SignIn \/ (n \in asking /\ (TokenArrives(n) \/ TokenFails(n)))
  PROVE  IInv'
<1>1. UNCHANGED <<sub, wire, due, overview, rolloutStatus, serverVars>>
  BY DEF ConfigArrives, ConfigFails, SignIn, TokenArrives, TokenFails
<1>2. /\ config' \in {"pending", "ready", "failed"} /\ account' \in Nat
      /\ asking' \subseteq 1 .. account' /\ authHeader' \in 0 .. account' /\ authReady' \in BOOLEAN
  <2>1. /\ config \in {"pending", "ready", "failed"} /\ account \in Nat
        /\ asking \subseteq 1 .. account /\ authHeader \in 0 .. account /\ authReady \in BOOLEAN /\ azure \in BOOLEAN
    BY DEF IInv, TypeOK
  <2>2. CASE ConfigArrives
    BY <2>1, <2>2 DEF ConfigArrives
  <2>3. CASE ConfigFails
    BY <2>1, <2>3 DEF ConfigFails
  <2>4. CASE SignIn
    BY <2>1, <2>4 DEF SignIn
  <2>5. CASE n \in asking /\ TokenArrives(n)
    BY <2>1, <2>5 DEF TokenArrives
  <2>6. CASE n \in asking /\ TokenFails(n)
    BY <2>1, <2>6 DEF TokenFails
  <2> QED BY <2>2, <2>3, <2>4, <2>5, <2>6
<1>3. TypeOK'
  BY <1>1, <1>2 DEF IInv, TypeOK, serverVars
<1>4. ReadyInv'
  BY <1>1 DEF IInv, ReadyInv, ConfigArrives, ConfigFails, SignIn, TokenArrives, TokenFails
<1>5. WireInv'
  BY <1>1 DEF IInv, WireInv, serverVars
<1> QED BY <1>3, <1>4, <1>5 DEF IInv

LEMMA StreamInv ==
  ASSUME IInv, NEW s \in Streams, Subscribe(s) \/ StreamFails(s) \/ Retry(s) \/ GiveUp(s)
  PROVE  IInv'
<1>1. /\ wire' \in Seq(Nat) /\ due' \subseteq Envs
      /\ s # "overview" => wire' = wire
      /\ s = "overview" => wire' = <<Len(deployments)>> \/ wire' = <<>>
  BY ConnectType DEF IInv, Subscribe, StreamFails, Retry, GiveUp
<1>2. UNCHANGED <<config, account, asking, authHeader, authReady, overview, serverVars>>
  BY DEF Subscribe, StreamFails, Retry, GiveUp
<1>3. sub' \in [Streams -> [phase : Phases, header : Nat, errors : 0 .. MaxRetries]]
  <2> DEFINE SubType == [phase : Phases, header : Nat, errors : 0 .. MaxRetries]
  <2>1. sub \in [Streams -> SubType] /\ authHeader \in Nat /\ MaxRetries \in Nat
    BY SessionAssumption DEF IInv, TypeOK
  <2>2. CASE Subscribe(s)
    <3>1. Subscription("open", authHeader, 0) \in SubType
      BY <2>1 DEF Subscription, Phases
    <3> QED BY <2>1, <2>2, <3>1 DEF Subscribe
  <2>3. CASE StreamFails(s)
    <3>1. Subscription("waiting", sub[s].header, sub[s].errors + 1) \in SubType
      BY <2>1, <2>3 DEF StreamFails, Subscription, Phases
    <3>2. sub' = [sub EXCEPT ![s] = Subscription("waiting", sub[s].header, sub[s].errors + 1)]
      BY <2>3 DEF StreamFails
    <3> QED BY <2>1, <3>1, <3>2
  <2>4. CASE Retry(s)
    <3>1. [sub[s] EXCEPT !.phase = "open"] \in SubType
      BY <2>1 DEF Phases
    <3> QED BY <2>1, <2>4, <3>1 DEF Retry
  <2>5. CASE GiveUp(s)
    <3>1. [sub[s] EXCEPT !.phase = "dead"] \in SubType
      BY <2>1 DEF Phases
    <3> QED BY <2>1, <2>5, <3>1 DEF GiveUp
  <2> QED BY <2>2, <2>3, <2>4, <2>5
<1>4. rolloutStatus' \in [enabled : BOOLEAN, applications : [Envs -> StreamStatusResponse \cup {Nothing}]]
  <2>1. rolloutStatus \in [enabled : BOOLEAN, applications : [Envs -> StreamStatusResponse \cup {Nothing}]]
    BY DEF IInv, TypeOK
  <2>2. \/ rolloutStatus' = rolloutStatus
        \/ rolloutStatus' = [enabled |-> FALSE, applications |-> [e \in Envs |-> Nothing]]
        \/ rolloutStatus' = [rolloutStatus EXCEPT !.enabled = TRUE]
    BY DEF Subscribe, StreamFails, Retry, GiveUp
  <2>3. CASE rolloutStatus' = rolloutStatus
    BY <2>1, <2>3
  <2>4. CASE rolloutStatus' = [enabled |-> FALSE, applications |-> [e \in Envs |-> Nothing]]
    BY <2>4
  <2>5. CASE rolloutStatus' = [rolloutStatus EXCEPT !.enabled = TRUE]
    BY <2>1, <2>5
  <2> QED BY <2>2, <2>3, <2>4, <2>5
<1>5. TypeOK'
  BY <1>1, <1>2, <1>3, <1>4 DEF IInv, TypeOK, serverVars
<1>6. \A t \in Streams : t # s => sub'[t] = sub[t]
  BY DEF IInv, TypeOK, Subscribe, StreamFails, Retry, GiveUp
<1>7. authReady
  BY DEF IInv, ReadyInv, Subscribe, StreamFails, Retry, GiveUp
<1>8. ReadyInv'
  BY <1>2, <1>6, <1>7 DEF IInv, ReadyInv
<1>9. WireInv'
  <2>1. CASE s # "overview"
    BY <1>1, <1>2, <1>6, <2>1 DEF IInv, WireInv, Streams, serverVars
  <2>2. CASE wire' = <<>>
    BY <2>2 DEF WireInv
  <2>3. CASE s = "overview" /\ wire' # <<>>
    <3>1. wire' = <<Len(deployments)>> /\ DOMAIN wire' = {1} /\ wire'[1] = Len(deployments)
      BY <1>1, <2>3
    <3>2. Subscribe(s) \/ Retry(s)
      BY <2>3 DEF StreamFails, GiveUp, Disconnect
    <3>3. sub'[s].phase = "open"
      BY <3>2 DEF IInv, TypeOK, Subscribe, Retry, Subscription
    <3>4. overview <= Len(deployments) /\ Len(deployments) \in Nat
      BY DEF IInv, TypeOK
    <3> QED BY <1>2, <2>3, <3>1, <3>3, <3>4 DEF WireInv, serverVars
  <2> QED BY <2>1, <2>2, <2>3
<1> QED BY <1>5, <1>8, <1>9 DEF IInv
\* The head of a sequence in order is below the rest.
LEMMA OverviewArrivesInv ==
  ASSUME IInv, OverviewArrives
  PROVE  IInv' /\ overview' \in overview .. Len(deployments)
<1>1. /\ wire \in Seq(Nat) /\ wire # <<>> /\ Len(wire) \in Nat /\ Len(wire) >= 1
      /\ Len(deployments) \in Nat /\ overview \in Nat
  BY EmptySeq DEF IInv, TypeOK, OverviewArrives
<1>2. /\ wire' \in Seq(Nat) /\ Len(wire') = Len(wire) - 1
      /\ \A i \in 1 .. Len(wire) - 1 : wire'[i] = wire[i + 1]
  BY <1>1, HeadTailProperties DEF OverviewArrives
<1>3. overview' = wire[1] /\ 1 \in DOMAIN wire
  BY <1>1 DEF OverviewArrives
<1>4. overview' \in overview .. Len(deployments)
  <2>1. wire[1] \in Nat /\ overview <= wire[1] /\ wire[1] <= Len(deployments)
    BY <1>1, <1>3 DEF IInv, WireInv
  <2> QED BY <1>1, <1>3, <2>1
<1>5. UNCHANGED <<config, account, asking, authHeader, authReady, sub, due, rolloutStatus, serverVars>>
  BY DEF OverviewArrives
<1>6. TypeOK'
  <2>1. overview' \in 0 .. Len(deployments)
    BY <1>1, <1>4
  <2> QED BY <1>2, <1>5, <2>1 DEF IInv, TypeOK, serverVars
<1>7. ReadyInv'
  BY <1>5 DEF IInv, ReadyInv
<1>8. WireInv'
  <2>1. \A i \in DOMAIN wire' : i + 1 \in DOMAIN wire /\ wire'[i] = wire[i + 1] /\ i \in Nat
    <3>1. DOMAIN wire = 1 .. Len(wire) /\ DOMAIN wire' = 1 .. Len(wire) - 1
      BY <1>1, <1>2
    <3> QED BY <1>1, <1>2, <3>1
  <2>2. \A i \in DOMAIN wire' : overview' <= wire'[i] /\ wire'[i] <= Len(deployments)
    <3> TAKE i \in DOMAIN wire'
    <3>1. 1 <= i + 1 /\ i + 1 \in DOMAIN wire /\ wire'[i] = wire[i + 1]
      BY <2>1
    <3> QED BY <1>3, <3>1 DEF IInv, WireInv
  <2>3. \A i, j \in DOMAIN wire' : i <= j => wire'[i] <= wire'[j]
    <3> SUFFICES ASSUME NEW i \in DOMAIN wire', NEW j \in DOMAIN wire', i <= j
                 PROVE  wire'[i] <= wire'[j]
      OBVIOUS
    <3>1. i + 1 <= j + 1 /\ i + 1 \in DOMAIN wire /\ j + 1 \in DOMAIN wire
      BY <2>1
    <3> QED BY <2>1, <3>1 DEF IInv, WireInv
  <2>4. sub'["overview"].phase = "open"
    BY <1>1, <1>5 DEF IInv, WireInv
  <2> QED BY <1>5, <2>2, <2>3, <2>4 DEF WireInv, serverVars
<1> QED BY <1>4, <1>6, <1>7, <1>8 DEF IInv

LEMMA StatusArrivesInv == ASSUME IInv, NEW e \in Envs, StatusArrives(e) PROVE IInv'
<1>1. UNCHANGED <<config, account, asking, authHeader, authReady, sub, wire, overview, serverVars>>
  BY DEF StatusArrives
<1>2. /\ due' \subseteq Envs
      /\ rolloutStatus' \in [enabled : BOOLEAN, applications : [Envs -> StreamStatusResponse \cup {Nothing}]]
  BY DEF IInv, TypeOK, StatusArrives
<1>3. TypeOK'
  BY <1>1, <1>2 DEF IInv, TypeOK, serverVars
<1> QED BY <1>1, <1>3 DEF IInv, ReadyInv, WireInv, serverVars

LEMMA ReloadInv == ASSUME IInv, Reload PROVE IInv'
<1>1. wire' = <<>> /\ wire' \in Seq(Nat) /\ DOMAIN wire' = {}
  BY EmptySeq DEF Reload
<1>2. sub' \in [Streams -> [phase : Phases, header : Nat, errors : 0 .. MaxRetries]]
  BY SessionAssumption DEF Reload, Phases, Subscription
<1>3. rolloutStatus' \in [enabled : BOOLEAN, applications : [Envs -> StreamStatusResponse \cup {Nothing}]]
  BY DEF Reload
<1>4. /\ config' = "pending" /\ asking' = {} /\ authHeader' = 0 /\ authReady' = FALSE
      /\ due' = {} /\ overview' = 0 /\ UNCHANGED <<account, serverVars>>
  BY DEF Reload
<1>5. account \in Nat /\ Len(deployments) \in Nat
  BY DEF IInv, TypeOK
<1>6. TypeOK'
  <2>1. /\ config' \in {"pending", "ready", "failed"} /\ asking' \subseteq 1 .. account'
        /\ authReady' \in BOOLEAN
    BY <1>4
  <2>2. overview' \in 0 .. Len(deployments') /\ due' \subseteq Envs /\ authHeader' \in 0 .. account'
    BY <1>4, <1>5 DEF serverVars
  <2> QED BY <1>1, <1>2, <1>3, <1>4, <2>1, <2>2 DEF IInv, TypeOK, serverVars
<1>7. ReadyInv'
  BY <1>4 DEF ReadyInv, Reload, Streams, Subscription
<1>8. WireInv'
  BY <1>1 DEF WireInv
<1> QED BY <1>6, <1>7, <1>8 DEF IInv

LEMMA DeployInv ==
  ASSUME IInv, NEW e \in Envs, NEW v \in Versions, Deploy(e, v)
  PROVE  IInv' /\ Len(deployments') = Len(deployments) + 1
<1>1. /\ wire \in Seq(Nat) /\ Len(wire) \in Nat /\ deployments \in Seq(Deployment)
      /\ Len(deployments) \in Nat
  BY DEF IInv, TypeOK
<1>2. /\ deployments' \in Seq(Deployment) /\ Len(deployments') = Len(deployments) + 1
  <2>1. [environment |-> e, version |-> v] \in Deployment
    BY DEF Deployment
  <2> QED BY <1>1, <2>1, AppendProperties DEF Deploy
<1>3. UNCHANGED <<config, account, asking, authHeader, authReady, sub, due, overview, rolloutStatus,
                  azure, rolloutEnabled, rollout, reports, succeeded>>
  BY DEF Deploy
<1>4. ReadyInv'
  BY <1>3 DEF IInv, ReadyInv
<1>5. wire' \in Seq(Nat) /\ WireInv'
  <2>1. CASE sub["overview"].phase # "open"
    BY <1>1, <1>2, <1>3, <2>1 DEF IInv, WireInv, Deploy
  <2>2. CASE sub["overview"].phase = "open"
    <3>1. wire' = Append(wire, Len(deployments) + 1)
      BY <2>2 DEF Deploy
    <3>2. /\ wire' \in Seq(Nat) /\ Len(wire') = Len(wire) + 1 /\ wire'[Len(wire) + 1] = Len(deployments) + 1
          /\ \A i \in 1 .. Len(wire) : wire'[i] = wire[i]
      BY <1>1, <3>1, AppendProperties
    <3>3. overview <= Len(deployments) /\ overview \in Nat
      BY <1>1 DEF IInv, TypeOK
    <3>4. \A i \in 1 .. Len(wire) : wire[i] \in Nat /\ overview <= wire[i] /\ wire[i] <= Len(deployments)
      BY <1>1 DEF IInv, WireInv
    <3>5. \A i \in DOMAIN wire' : overview <= wire'[i] /\ wire'[i] <= Len(deployments) + 1
      <4>1. DOMAIN wire' = 1 .. Len(wire) + 1
        BY <1>1, <3>2
      <4> TAKE i \in DOMAIN wire'
      <4>2. CASE i = Len(wire) + 1
        BY <1>1, <3>2, <3>3, <4>2
      <4>3. CASE i # Len(wire) + 1
        <5>1. i \in 1 .. Len(wire)
          BY <1>1, <4>1, <4>3
        <5> QED BY <1>1, <3>2, <3>3, <3>4, <5>1
      <4> QED BY <4>2, <4>3
    <3>6. \A i, j \in DOMAIN wire' : i <= j => wire'[i] <= wire'[j]
      <4> SUFFICES ASSUME NEW i \in DOMAIN wire', NEW j \in DOMAIN wire', i <= j
                   PROVE  wire'[i] <= wire'[j]
        OBVIOUS
      <4>1. CASE j = Len(wire) + 1
        BY <3>2, <3>5, <4>1
      <4>2. CASE j # Len(wire) + 1
        <5>1. i \in 1 .. Len(wire) /\ j \in 1 .. Len(wire) /\ DOMAIN wire = 1 .. Len(wire)
          BY <1>1, <3>2, <4>2
        <5> QED BY <3>2, <5>1 DEF IInv, WireInv
      <4> QED BY <4>1, <4>2
    <3> QED BY <1>2, <1>3, <2>2, <3>2, <3>5, <3>6 DEF WireInv
  <2> QED BY <2>1, <2>2
<1>6. TypeOK'
  <2>1. overview' \in 0 .. Len(deployments')
    BY <1>1, <1>2, <1>3 DEF IInv, TypeOK
  <2> QED BY <1>2, <1>3, <1>5, <2>1 DEF IInv, TypeOK
<1> QED BY <1>2, <1>4, <1>5, <1>6 DEF IInv

LEMMA RolloutReportsInv == ASSUME IInv, NEW r \in StreamStatusResponse, RolloutReports(r) PROVE IInv'
<1>1. UNCHANGED <<config, account, asking, authHeader, authReady, sub, wire, overview, rolloutStatus,
                  azure, rolloutEnabled, deployments>>
  BY DEF RolloutReports
<1>2. r.environment \in Envs /\ r.version \in Versions
  BY DEF StreamStatusResponse
<1>3. /\ rollout' \in [Envs -> StreamStatusResponse \cup {Nothing}] /\ due' \subseteq Envs
      /\ succeeded' \subseteq Envs \X Versions /\ reports' \in Nat
  BY <1>2 DEF IInv, TypeOK, RolloutReports
<1>4. TypeOK'
  BY <1>1, <1>3 DEF IInv, TypeOK
<1> QED BY <1>1, <1>4 DEF IInv, ReadyInv, WireInv

LEMMA NextInv == IInv /\ [Next]_vars => IInv'
<1> SUFFICES ASSUME IInv, [Next]_vars PROVE IInv'
  OBVIOUS
<1>1. CASE ConfigArrives \/ ConfigFails \/ SignIn
  BY <1>1, SignInInv
<1>2. CASE \E n \in asking : TokenArrives(n) \/ TokenFails(n)
  BY <1>2, SignInInv
<1>3. CASE \E s \in Streams : Subscribe(s) \/ StreamFails(s) \/ Retry(s) \/ GiveUp(s)
  BY <1>3, StreamInv
<1>4. CASE OverviewArrives
  BY <1>4, OverviewArrivesInv
<1>5. CASE \E e \in Envs : StatusArrives(e)
  BY <1>5, StatusArrivesInv
<1>6. CASE Reload
  BY <1>6, ReloadInv
<1>7. CASE \E e \in Envs, v \in Versions : Deploy(e, v)
  BY <1>7, DeployInv
<1>8. CASE \E r \in StreamStatusResponse : RolloutReports(r)
  BY <1>8, RolloutReportsInv
<1>9. CASE UNCHANGED vars
  BY <1>9 DEF IInv, TypeOK, ReadyInv, WireInv, vars, uiVars, serverVars
<1> QED BY <1>1, <1>2, <1>3, <1>4, <1>5, <1>6, <1>7, <1>8, <1>9 DEF Next

LEMMA Invariance == Spec => []IInv
<1> QED BY InitInv, NextInv, PTL DEF Spec

\* The types of the variables, for any environments, versions and bounds; that
\* the page is never ahead of the server among them.
THEOREM TypeCorrect == Spec => []TypeOK
<1>1. IInv => TypeOK
  BY DEF IInv
<1> QED BY <1>1, Invariance, PTL

-----------------------------------------------------------------------------
(* Tokens *)

\* Where Azure is used no stream is opened without a token, whatever the order
\* of configuration, sign-in, renewals, failures and reloads.
THEOREM TokenSafe == Spec => []WithToken
<1>1. Init => TokenInv
  BY DEF Init, TokenInv, WithToken, Streams, Subscription
<1>2. IInv /\ TokenInv /\ [Next]_vars => TokenInv'
  <2> SUFFICES ASSUME IInv, TokenInv, [Next]_vars PROVE TokenInv'
    OBVIOUS
  <2>1. azure' = azure
    BY DEF Next, vars, serverVars, ConfigArrives, ConfigFails, SignIn, TokenArrives, TokenFails, Subscribe,
       OverviewArrives, StatusArrives, StreamFails, Retry, GiveUp, Reload, Deploy, RolloutReports
  <2>2. CASE ConfigArrives
    BY <2>1, <2>2 DEF TokenInv, WithToken, ConfigArrives
  <2>3. ASSUME NEW n \in asking, TokenArrives(n)  PROVE TokenInv'
    <3>1. n # 0
      BY DEF IInv, TypeOK
    <3> QED BY <2>1, <2>3, <3>1 DEF TokenInv, WithToken, TokenArrives
  <2>4. ASSUME NEW s \in Streams, Subscribe(s)  PROVE TokenInv'
    <3>1. \A t \in Streams : sub'[t] = IF t = s THEN Subscription("open", authHeader, 0) ELSE sub[t]
      BY <2>4 DEF IInv, TypeOK, Subscribe
    <3>2. authReady /\ UNCHANGED <<authReady, authHeader>>
      BY <2>4 DEF Subscribe
    <3> QED BY <2>1, <3>1, <3>2 DEF TokenInv, WithToken, Subscription
  <2>5. ASSUME NEW s \in Streams, StreamFails(s) \/ Retry(s) \/ GiveUp(s)  PROVE TokenInv'
    <3>1. sub[s].phase # "off" /\ sub'[s].header = sub[s].header
      BY <2>5 DEF IInv, TypeOK, StreamFails, Retry, GiveUp, Subscription
    <3>2. \A t \in Streams : t # s => sub'[t] = sub[t]
      BY <2>5 DEF IInv, TypeOK, StreamFails, Retry, GiveUp
    <3>3. UNCHANGED <<authReady, authHeader>>
      BY <2>5 DEF StreamFails, Retry, GiveUp
    <3> QED BY <2>1, <3>1, <3>2, <3>3 DEF TokenInv, WithToken
  <2>6. CASE Reload
    BY <2>1, <2>6 DEF TokenInv, WithToken, Reload, Subscription, Streams
  <2>7. CASE UNCHANGED <<sub, authReady, authHeader>>
    BY <2>1, <2>7 DEF TokenInv, WithToken
  <2>8. \/ UNCHANGED <<sub, authReady, authHeader>>
        \/ ConfigArrives \/ Reload \/ \E n \in asking : TokenArrives(n)
        \/ \E s \in Streams : Subscribe(s) \/ StreamFails(s) \/ Retry(s) \/ GiveUp(s)
    BY DEF Next, vars, uiVars, ConfigFails, SignIn, TokenFails, OverviewArrives, StatusArrives, Deploy, RolloutReports
  <2> QED BY <2>2, <2>3, <2>4, <2>5, <2>6, <2>7, <2>8
<1>3. TokenInv => WithToken
  BY DEF TokenInv
<1> QED BY <1>1, <1>2, <1>3, Invariance, PTL DEF Spec

-----------------------------------------------------------------------------
(* The check mark of a release card *)

LEMMA CardHasReports ==
  ASSUME TypeOK, SuccessInv, NEW v \in Versions, CardStatus(v) = "successful"
  PROVE  DeployedAt(v) \X {v} \subseteq succeeded
<1> SUFFICES ASSUME NEW e \in DeployedAt(v) PROVE <<e, v>> \in succeeded
  OBVIOUS
<1> DEFINE statuses == {EnvStatus(d, v) : d \in DeployedAt(v)}
           status == rolloutStatus.applications[e]
<1>1. e \in Envs
  BY DEF DeployedAt
<1>2. "error" \notin statuses /\ "progressing" \notin statuses /\ "unknown" \notin statuses
  BY DEF CardStatus
<1>3. EnvStatus(e, v) \in statuses
  OBVIOUS
<1>4. status # Nothing
  BY <1>2, <1>3 DEF EnvStatus
<1>5. status \in StreamStatusResponse
  BY <1>1, <1>4 DEF TypeOK
<1>6. status.rolloutStatus \in Status
  BY <1>5 DEF StreamStatusResponse
<1>7. EnvStatus(e, v) = status.rolloutStatus /\ status.rolloutStatus = "successful" /\ status.version = v
  <2>1. CASE status.rolloutStatus = "successful" /\ status.version # v
    <3>1. EnvStatus(e, v) = "progressing"
      BY <1>4, <2>1 DEF EnvStatus
    <3> QED BY <1>2, <1>3, <3>1
  <2>2. CASE ~(status.rolloutStatus = "successful" /\ status.version # v)
    <3>1. EnvStatus(e, v) = status.rolloutStatus
      BY <1>4, <2>2 DEF EnvStatus
    <3> QED BY <1>2, <1>3, <1>6, <2>2, <3>1 DEF Status
  <2> QED BY <2>1, <2>2
<1> QED BY <1>1, <1>4, <1>7 DEF SuccessInv, Reported

\* A card has its check mark only if the rollout of its version was reported as
\* successful wherever the overview shows it.
THEOREM SuccessSafe == Spec => []SuccessWasReported
<1>1. Init => SuccessInv
  BY DEF Init, SuccessInv, Reported
<1>2. IInv /\ SuccessInv /\ [Next]_vars => SuccessInv'
  <2> SUFFICES ASSUME IInv, SuccessInv, [Next]_vars PROVE SuccessInv'
    OBVIOUS
  <2>1. ASSUME NEW e \in Envs, StatusArrives(e)  PROVE SuccessInv'
    <3>1. UNCHANGED <<rollout, succeeded>>
      BY <2>1 DEF StatusArrives, serverVars
    <3>2. \A d \in Envs : rolloutStatus'.applications[d] = IF d = e THEN rollout[e] ELSE rolloutStatus.applications[d]
      BY <2>1 DEF IInv, TypeOK, StatusArrives
    <3> QED BY <3>1, <3>2 DEF SuccessInv, Reported
  <2>2. ASSUME NEW s \in Streams, GiveUp(s)  PROVE SuccessInv'
    <3>1. UNCHANGED <<rollout, succeeded>>
      BY <2>2 DEF GiveUp, serverVars
    <3>2. \/ rolloutStatus'.applications = rolloutStatus.applications
          \/ rolloutStatus'.applications = [e \in Envs |-> Nothing]
      BY <2>2 DEF IInv, TypeOK, GiveUp
    <3> QED BY <3>1, <3>2 DEF SuccessInv, Reported
  <2>3. CASE Reload
    <3>1. UNCHANGED <<rollout, succeeded>> /\ rolloutStatus'.applications = [e \in Envs |-> Nothing]
      BY <2>3 DEF Reload, serverVars
    <3> QED BY <3>1 DEF SuccessInv, Reported
  <2>4. ASSUME NEW r \in StreamStatusResponse, RolloutReports(r)  PROVE SuccessInv'
    <3>1. rolloutStatus' = rolloutStatus /\ succeeded \subseteq succeeded'
      BY <2>4 DEF RolloutReports
    <3>2. r.rolloutStatus = "successful" => <<r.environment, r.version>> \in succeeded'
      BY <2>4 DEF RolloutReports
    <3>3. \A d \in Envs : rollout'[d] = IF d = r.environment THEN r ELSE rollout[d]
      BY <2>4 DEF IInv, TypeOK, RolloutReports
    <3> QED BY <3>1, <3>2, <3>3 DEF SuccessInv, Reported
  <2>5. CASE UNCHANGED <<rollout, succeeded, rolloutStatus>>
    BY <2>5 DEF SuccessInv, Reported
  <2>6. \/ UNCHANGED <<rollout, succeeded, rolloutStatus>> \/ Reload
        \/ \E e \in Envs : StatusArrives(e)
        \/ \E s \in Streams : GiveUp(s)
        \/ \E r \in StreamStatusResponse : RolloutReports(r)
    BY DEF Next, vars, uiVars, serverVars, ConfigArrives, ConfigFails, SignIn, TokenArrives, TokenFails,
       Subscribe, OverviewArrives, StreamFails, Retry, Deploy
  <2> QED BY <2>1, <2>2, <2>3, <2>4, <2>5, <2>6
<1>3. IInv /\ SuccessInv => SuccessWasReported
  BY CardHasReports DEF IInv, SuccessWasReported
<1> QED BY <1>1, <1>2, <1>3, Invariance, PTL DEF Spec

-----------------------------------------------------------------------------
(* Refinement *)

\* Each step of a session is one of Feed, or changes nothing there.
LEMMA StepRefines == IInv /\ IInv' /\ [Next]_vars => [Feed!Next]_(Feed!vars)
<1> SUFFICES ASSUME IInv, IInv', [Next]_vars PROVE [Feed!Next]_(Feed!vars)
  OBVIOUS
<1> DEFINE head == Len(deployments)
<1>1. CASE head' = head /\ overview' = overview
  <2>1. CASE Stalled' = Stalled
    BY <1>1, <2>1 DEF Feed!vars
  <2>2. CASE Stalled' # Stalled
    <3>1. Feed!Stall \/ Feed!Resume
      BY <1>1, <2>2 DEF Feed!Stall, Feed!Resume, Stalled, Loading
    <3> QED BY <3>1 DEF Feed!Next
  <2> QED BY <2>1, <2>2
<1>2. CASE OverviewArrives
  <2>1. overview' \in overview .. head /\ head' = head /\ overview \in Nat /\ head \in Nat
    BY <1>2, OverviewArrivesInv DEF IInv, TypeOK, OverviewArrives, serverVars
  <2>2. ~Stalled /\ Stalled' = Stalled
    <3>1. config = "ready" /\ authReady /\ sub["overview"].phase = "open"
      BY <1>2 DEF IInv, ReadyInv, WireInv, OverviewArrives, Streams
    <3> QED BY <1>2, <3>1 DEF Stalled, Loading, OverviewArrives
  <2>3. CASE overview' = overview
    BY <1>1, <2>1, <2>3
  <2>4. CASE overview' # overview
    <3>1. overview < head /\ overview' \in overview + 1 .. head
      BY <2>1, <2>4
    <3>2. Feed!Show
      BY <2>1, <2>2, <3>1 DEF Feed!Show
    <3> QED BY <3>2 DEF Feed!Next
  <2> QED BY <2>3, <2>4
<1>3. CASE Reload
  <2>1. overview' = 0 /\ Stalled' = TRUE /\ head' = head
    BY <1>3 DEF Reload, Stalled, Loading, serverVars
  <2> QED BY <2>1 DEF Feed!Next, Feed!Reload
<1>4. ASSUME NEW e \in Envs, NEW v \in Versions, Deploy(e, v)  PROVE [Feed!Next]_(Feed!vars)
  <2>1. head' = head + 1
    BY <1>4, DeployInv
  <2>2. overview' = overview /\ Stalled' = Stalled
    BY <1>4 DEF Deploy, Stalled, Loading
  <2> QED BY <2>1, <2>2 DEF Feed!Next, Feed!Commit
<1>5. \/ UNCHANGED <<deployments, overview>> \/ OverviewArrives \/ Reload
      \/ \E e \in Envs, v \in Versions : Deploy(e, v)
  BY DEF Next, vars, uiVars, serverVars, ConfigArrives, ConfigFails, SignIn, TokenArrives, TokenFails, Subscribe,
     StatusArrives, StreamFails, Retry, GiveUp, RolloutReports
<1> QED BY <1>1, <1>2, <1>3, <1>4, <1>5

\* A session implements Feed without its fairness: across failures, retries,
\* new tokens and reloads the page shows revisions that the server has had, and
\* falls back to an older one only by a reload.
THEOREM Implementation == Spec => Feed!Spec
<1>1. Init => Feed!Init
  BY EmptySeq DEF Init, Feed!Init, Stalled, Loading
<1>2. IInv /\ IInv' /\ [Next]_vars => [Feed!Next]_(Feed!vars)
  BY StepRefines
<1> QED BY <1>1, <1>2, Invariance, PTL DEF Spec, Feed!Spec
=============================================================================
