------------------------------- MODULE Rollout -------------------------------
(***************************************************************************)
(* The rollout service: it follows the overviews of the cd-service          *)
(* (versions.go) and the applications of Argo CD (service.go), keeps what   *)
(* it knows of every application in every environment (broadcast.go), and   *)
(* passes each change on to its listeners: the clients of StreamStatus, and *)
(* the subscriber that asks Argo CD to refresh (subscriber.go).             *)
(*                                                                          *)
(* A key is an application in an environment.  Its version in an overview   *)
(* is Nil when it is not listed there, and 0 when it is listed but nothing  *)
(* is deployed.                                                             *)
(***************************************************************************)
EXTENDS Integers, FiniteSets, Sequences, SequencesExt

CONSTANTS
  Keys,          \* applications in environments
  MaxVersion,    \* bound on the versions that are deployed
  Statuses,      \* what rolloutStatus makes of the events of Argo CD
  Clients,       \* clients of StreamStatus
  Refresher,     \* the listener of notifier.Subscribe
  ChannelCap,    \* room in a listener's channel
  Limit,         \* refreshes that run at a time
  MaxDeploys,    \* bound on the deployments
  MaxArgoEvents, \* bound on the events of Argo CD
  MaxIncidents,  \* bound on clients that connect or leave, broken streams and stops
  Nil            \* a nil *VersionInfo, an app without state

ASSUME ConstantsAssumption ==
  /\ MaxVersion \in Nat /\ ChannelCap \in Nat \ {0} /\ Limit \in Nat \ {0}
  /\ MaxDeploys \in Nat /\ MaxArgoEvents \in Nat /\ MaxIncidents \in Nat
  /\ Refresher \notin Clients
  /\ Nil \notin Nat /\ Nil \notin Keys \X Nat

VARIABLES
  overview,   \* the versions in the cd-service's overview
  stream,     \* the consumer's StreamOverview
  signal,     \* the cd-service has an overview to send on it
  inbox,      \* an overview on its way
  versions,   \* the last overview the consumer received
  left,       \* keys whose event it still has to pass on
  state,      \* Broadcast.state
  listeners,  \* Broadcast.listener
  attached,   \* listeners between Start and their unsubscribe
  initial,    \* what is unread of the result of Start
  channel,    \* the channel of each listener
  view,       \* what a listener last read of each key (history)
  target,     \* notifyStatus of the subscriber
  waiting,    \* the refresh for which there is no room yet
  running,    \* refreshes in progress
  deploys, argoEvents, incidents  \* what is bounded

consumerVars == <<stream, signal, inbox, versions, left>>
listenerVars == <<listeners, attached, initial, channel, view>>
refreshVars == <<target, waiting, running>>
bounds == <<deploys, argoEvents, incidents>>
vars == <<overview, consumerVars, state, listenerVars, refreshVars, bounds>>

Listeners == Clients \cup {Refresher}
Deployed == 0 .. MaxVersion
RolloutStatus == Statuses \cup {"unknown", "progressing"}
AppState == [argocd : Deployed \cup {Nil}, kuberpult : Deployed \cup {Nil}, status : RolloutStatus]
Event == [key : Keys, argocd : Deployed \cup {Nil}, kuberpult : Deployed \cup {Nil},
          status : RolloutStatus]

\* A record of an application is not a nil pointer.
ASSUME NilAssumption == Nil \notin AppState

NewState == [argocd |-> Nil, kuberpult |-> Nil, status |-> "unknown"]
Nothing == [k \in Keys |-> Nil]

\* What the process holds when it starts.
Fresh ==
  [stream |-> "down", versions |-> Nothing, state |-> Nothing,
   initial |-> [l \in Listeners |-> {}], channel |-> [l \in Listeners |-> <<>>],
   view |-> [l \in Listeners |-> Nothing], target |-> Nothing]

Init ==
  /\ overview = Nothing
  /\ stream = Fresh.stream /\ signal = FALSE /\ inbox = <<>>
  /\ versions = Fresh.versions /\ left = {}
  /\ state = Fresh.state
  /\ listeners = {} /\ attached = {}
  /\ initial = Fresh.initial /\ channel = Fresh.channel /\ view = Fresh.view
  /\ target = Fresh.target /\ waiting = Nil /\ running = {}
  /\ deploys = 0 /\ argoEvents = 0 /\ incidents = 0

\* The process ends and is started again.
Restarted ==
  /\ stream' = Fresh.stream /\ signal' = FALSE /\ inbox' = <<>>
  /\ versions' = Fresh.versions /\ left' = {}
  /\ state' = Fresh.state
  /\ listeners' = {} /\ attached' = {}
  /\ initial' = Fresh.initial /\ channel' = Fresh.channel /\ view' = Fresh.view
  /\ target' = Fresh.target /\ waiting' = Nil /\ running' = {}
  /\ UNCHANGED <<overview, deploys, argoEvents>>

Incident == incidents < MaxIncidents /\ incidents' = incidents + 1

-----------------------------------------------------------------------------
(* The cd-service: its overview, and one signal per stream *)

Deploy(k, v) ==
  /\ deploys < MaxDeploys /\ overview[k] # v
  /\ overview' = [overview EXCEPT ![k] = v]
  /\ signal' = (stream = "open")
  /\ deploys' = deploys + 1
  /\ UNCHANGED <<stream, inbox, versions, left, state, listenerVars, refreshVars, argoEvents,
                 incidents>>

\* StreamOverview sends the overview of the moment, so it skips the ones between.
SendOverview ==
  /\ stream = "open" /\ signal /\ inbox = <<>>
  /\ inbox' = <<overview>>
  /\ signal' = FALSE
  /\ UNCHANGED <<overview, stream, versions, left, state, listenerVars, refreshVars, bounds>>

-----------------------------------------------------------------------------
(* Broadcast *)

\* appState.getEvent
GetEvent(k, st) ==
  [key |-> k, argocd |-> st.argocd, kuberpult |-> st.kuberpult,
   status |-> IF st.kuberpult # Nil /\ st.argocd # Nil /\ st.kuberpult # st.argocd
              THEN "progressing" ELSE st.status]

StateOf(k) == IF state[k] = Nil THEN NewState ELSE state[k]

Full(l) == Len(channel[l]) = ChannelCap

\* Mutant: a listener whose channel is full misses the event.
PublishDropping(event) ==
  /\ channel' = [l \in Listeners |->
       IF l \in listeners /\ ~Full(l) THEN Append(channel[l], event) ELSE channel[l]]
  /\ UNCHANGED listeners

\* An event goes to every listener; one whose channel is full is closed.
Publish(event) ==
  /\ channel' = [l \in Listeners |->
       IF l \in listeners /\ ~Full(l) THEN Append(channel[l], event) ELSE channel[l]]
  /\ listeners' = {l \in listeners : ~Full(l)}

Set(k, st) ==
  /\ state' = [state EXCEPT ![k] = st]
  /\ Publish(GetEvent(k, st))

\* applyKuberpultEvent
ProcessKuberpultEvent(k, v) ==
  LET old == StateOf(k)
  IN IF old.kuberpult # v THEN Set(k, [old EXCEPT !.kuberpult = v])
     ELSE UNCHANGED <<state, channel, listeners>>

\* applyArgoEvent.  v is Nil when the version could not be requested; where the
\* status is the old one, the comparison then reads through a nil pointer.
ArgoPanics(k, v, s) == v = Nil /\ StateOf(k).status = s /\ StateOf(k).argocd # Nil

ProcessArgoEvent(k, v, s) ==
  LET old == StateOf(k)
  IN IF s # old.status \/ old.argocd = Nil \/ old.argocd # v
     THEN Set(k, [old EXCEPT !.argocd = v, !.status = s])
     ELSE UNCHANGED <<state, channel, listeners>>

\* Start: the snapshot and the new listener under one lock.
Attach(l) ==
  /\ attached' = attached \cup {l}
  /\ listeners' = listeners \cup {l}
  /\ initial' = [initial EXCEPT ![l] = {GetEvent(k, state[k]) : k \in {j \in Keys : state[j] # Nil}}]
  /\ channel' = [channel EXCEPT ![l] = <<>>]
  /\ view' = [view EXCEPT ![l] = Nothing]

Detach(l) ==
  /\ attached' = attached \ {l}
  /\ listeners' = listeners \ {l}
  /\ initial' = [initial EXCEPT ![l] = {}]
  /\ channel' = [channel EXCEPT ![l] = <<>>]
  /\ view' = [view EXCEPT ![l] = Nothing]

-----------------------------------------------------------------------------
(* versions.ConsumeEvents *)

Connect ==
  /\ stream = "down"
  /\ stream' = "open" /\ signal' = TRUE /\ inbox' = <<>>
  /\ versions' = Fresh.versions /\ left' = {}
  /\ UNCHANGED <<overview, state, listenerVars, refreshVars, bounds>>

\* Recv fails and keeps failing: the loop goes on with the same stream.
Break ==
  /\ stream = "open" /\ Incident
  /\ stream' = "broken" /\ signal' = FALSE
  /\ inbox' \in {inbox, <<>>}
  /\ UNCHANGED <<overview, versions, left, state, listenerVars, refreshVars, deploys, argoEvents>>

\* A lookup in a map of versions.
Number(v) == IF v = Nil THEN 0 ELSE v

\* Mutant: applications that are gone are not looked for.
ReceiveForgetting ==
  /\ inbox # <<>> /\ left = {}
  /\ versions' = Head(inbox)
  /\ left' = {k \in Keys : versions'[k] # Nil /\ Number(versions'[k]) # Number(versions[k])}
  /\ inbox' = <<>>
  /\ UNCHANGED <<overview, stream, signal, state, listenerVars, refreshVars, bounds>>

\* An overview: what is new in it, and what was listed in the last one and has
\* no version in this one.  An application that is listed without a version is
\* passed on with the overview after the first.
Receive ==
  /\ inbox # <<>> /\ left = {}
  /\ versions' = Head(inbox)
  /\ left' = {k \in Keys :
       \/ versions'[k] # Nil /\ Number(versions'[k]) # Number(versions[k])
       \/ versions[k] # Nil /\ Number(versions'[k]) = 0}
  /\ inbox' = <<>>
  /\ UNCHANGED <<overview, stream, signal, state, listenerVars, refreshVars, bounds>>

\* In any order: applications come out of a map.
PassOn(k) ==
  /\ k \in left
  /\ left' = left \ {k}
  /\ ProcessKuberpultEvent(k, Number(versions[k]))
  /\ UNCHANGED <<overview, stream, signal, inbox, versions, attached, initial, view, refreshVars,
                 bounds>>

-----------------------------------------------------------------------------
(* service.ConsumeEvents: what Argo CD's watch says of an application.  Its  *)
(* version is that of the revision it was synced to, so any it ever had; Nil *)
(* when the cd-service did not answer.                                       *)

ArgoEvent(k, v, s) ==
  /\ argoEvents < MaxArgoEvents /\ argoEvents' = argoEvents + 1
  /\ ~ArgoPanics(k, v, s)
  /\ ProcessArgoEvent(k, v, s)
  /\ UNCHANGED <<overview, consumerVars, attached, initial, view, refreshVars, deploys, incidents>>

\* The nil version is read; nothing recovers the panic.
ArgoEventPanic(k, v, s) ==
  /\ Incident
  /\ ArgoPanics(k, v, s)
  /\ Restarted

\* A background task returns: the watch was refused, the cd-service cancelled
\* the stream, or the subscriber's backoff is over.  All the others stop too.
Stop == Incident /\ Restarted

-----------------------------------------------------------------------------
(* Listeners read their snapshot first, then their channel *)

Unread(l) ==
  IF initial[l] # {} THEN initial[l]
  ELSE IF channel[l] # <<>> THEN {Head(channel[l])} ELSE {}

Read(l, event) ==
  /\ view' = [view EXCEPT ![l][event.key] = event]
  /\ IF initial[l] # {}
     THEN initial' = [initial EXCEPT ![l] = @ \ {event}] /\ UNCHANGED channel
     ELSE channel' = [channel EXCEPT ![l] = Tail(@)] /\ UNCHANGED initial

\* The channel is closed and empty.
AtEnd(l) == l \in attached \ listeners /\ Unread(l) = {}

ClientConnects(c) ==
  /\ c \notin attached /\ Incident
  /\ Attach(c)
  /\ UNCHANGED <<overview, consumerVars, state, refreshVars, deploys, argoEvents>>

ClientReads(c) ==
  \E event \in Unread(c) :
    /\ event.argocd # Nil
    /\ Read(c, event)
    /\ UNCHANGED <<overview, consumerVars, state, listeners, attached, refreshVars, bounds>>

\* streamStatus reads the version that Argo CD has not reported.
ClientPanics(c) ==
  /\ \E event \in Unread(c) : event.argocd = Nil
  /\ Restarted
  /\ UNCHANGED incidents

\* The client leaves, or its stream ends with the channel.
ClientLeaves(c) ==
  /\ c \in attached
  /\ Incident \/ (AtEnd(c) /\ UNCHANGED incidents)
  /\ Detach(c)
  /\ UNCHANGED <<overview, consumerVars, state, refreshVars, deploys, argoEvents>>

Subscribe ==
  /\ Refresher \notin attached
  /\ Attach(Refresher)
  /\ UNCHANGED <<overview, consumerVars, state, refreshVars, bounds>>

\* maybeSend.  The comparison of the two versions compares pointers, which
\* differ.
NeedsRefresh(event) ==
  event.kuberpult # Nil /\ target[event.key] # event.kuberpult

RefresherReads ==
  \E event \in Unread(Refresher) :
    /\ waiting = Nil
    /\ Read(Refresher, event)
    /\ \/ /\ NeedsRefresh(event)
          /\ target' = [target EXCEPT ![event.key] = event.kuberpult]
          /\ waiting' = <<event.key, event.kuberpult>>
       \/ /\ ~NeedsRefresh(event)
          /\ UNCHANGED <<target, waiting>>
    /\ UNCHANGED <<overview, consumerVars, state, listeners, attached, running, bounds>>

\* Mutant: nothing limits the refreshes.
NotifyUnlimited ==
  /\ waiting # Nil
  /\ running' = running \cup {waiting}
  /\ waiting' = Nil
  /\ UNCHANGED <<overview, consumerVars, state, listenerVars, target, bounds>>

\* errgroup.Go waits for room.
NotifyArgoCd ==
  /\ waiting # Nil /\ Cardinality(running) < Limit
  /\ running' = running \cup {waiting}
  /\ waiting' = Nil
  /\ UNCHANGED <<overview, consumerVars, state, listenerVars, target, bounds>>

\* Argo CD answers, or 60 seconds are over.
RefreshEnds(r) ==
  /\ r \in running
  /\ running' = running \ {r}
  /\ UNCHANGED <<overview, consumerVars, state, listenerVars, target, waiting, bounds>>

\* Mutant: the subscriber does not come back.
NeverAgain == AtEnd(Refresher) /\ UNCHANGED vars

\* subscribeOnce returns errChannelClosed; Subscribe starts over after a pause.
Resubscribe ==
  /\ AtEnd(Refresher) /\ waiting = Nil
  /\ Detach(Refresher)
  /\ UNCHANGED <<overview, consumerVars, state, refreshVars, bounds>>

-----------------------------------------------------------------------------
Consumer == Connect \/ Receive \/ \E k \in Keys : PassOn(k)
Subscriber == Subscribe \/ RefresherReads \/ NotifyArgoCd \/ Resubscribe
Client(c) == ClientConnects(c) \/ ClientReads(c) \/ ClientPanics(c) \/ ClientLeaves(c)
Argo ==
  \E k \in Keys, v \in Deployed \cup {Nil}, s \in Statuses :
    ArgoEvent(k, v, s) \/ ArgoEventPanic(k, v, s)

Next ==
  \/ \E k \in Keys, v \in Deployed \cup {Nil} : Deploy(k, v)
  \/ SendOverview \/ Consumer \/ Break \/ Argo \/ Stop
  \/ \E c \in Clients : Client(c)
  \/ Subscriber \/ \E r \in running : RefreshEnds(r)

Spec == Init /\ [][Next]_vars

\* The cd-service answers a stream, the goroutines of the service run, and a
\* refresh ends by its timeout.  Nothing is assumed of clients and Argo CD.
FairSpec ==
  /\ Spec
  /\ WF_vars(SendOverview) /\ WF_vars(Consumer) /\ WF_vars(Subscriber)
  /\ WF_vars(\E r \in running : RefreshEnds(r))

-----------------------------------------------------------------------------
(* Properties *)

\* Types; no listener's channel holds more than it has room for, and no more
\* refreshes run than allowed.
TypeOK ==
  /\ overview \in [Keys -> Deployed \cup {Nil}]
  /\ stream \in {"down", "open", "broken"} /\ signal \in BOOLEAN
  /\ inbox \in Seq([Keys -> Deployed \cup {Nil}]) /\ Len(inbox) <= 1
  /\ versions \in [Keys -> Deployed \cup {Nil}] /\ left \subseteq Keys
  /\ state \in [Keys -> AppState \cup {Nil}]
  /\ listeners \subseteq attached /\ attached \subseteq Listeners
  /\ initial \in [Listeners -> SUBSET Event]
  /\ channel \in [Listeners -> Seq(Event)] /\ \A l \in Listeners : Len(channel[l]) <= ChannelCap
  /\ view \in [Listeners -> [Keys -> Event \cup {Nil}]]
  /\ target \in [Keys -> Deployed \cup {Nil}]
  /\ waiting \in (Keys \X Deployed) \cup {Nil}
  /\ running \subseteq Keys \X Deployed /\ Cardinality(running) <= Limit
  /\ deploys \in 0 .. MaxDeploys /\ argoEvents \in 0 .. MaxArgoEvents
  /\ incidents \in 0 .. MaxIncidents

\* What a listener will know of a key once it has read everything.
Knows(l, k) ==
  LET inChannel == {i \in DOMAIN channel[l] : channel[l][i].key = k}
      inSnapshot == {event \in initial[l] : event.key = k}
  IN IF inChannel # {} THEN channel[l][CHOOSE i \in inChannel : \A j \in inChannel : j <= i]
     ELSE IF inSnapshot # {} THEN CHOOSE event \in inSnapshot : TRUE
     ELSE view[l][k]

\* A listener whose channel is open will know, of every application, exactly
\* what Broadcast holds: no event is missed between the snapshot and the
\* channel, dropped from a full channel, or read in the wrong order.
ListenersKnowTheState ==
  \A l \in listeners, k \in Keys :
    Knows(l, k) = IF state[k] = Nil THEN Nil ELSE GetEvent(k, state[k])

\* Outside the events it is still passing on, the consumer has told Broadcast
\* the last overview it received, whichever overviews it never saw and
\* whichever applications were taken out of one.
BroadcastFollowsOverview ==
  \A k \in Keys \ left :
    Number(StateOf(k).kuberpult) = Number(versions[k])

Refreshed(k, v) == target[k] = v /\ waiting # <<k, v>>

ReportedByArgo(k, v) == state[k] # Nil /\ state[k].argocd = v

\* Argo CD is asked to refresh for every version that stays and that it has not
\* reported itself, also when the subscriber was too slow and lost its channel,
\* or the service was restarted; unless the stream of overviews is broken, which
\* nothing repairs.
EveryVersionIsRefreshed ==
  \A k \in Keys : \A v \in 1 .. MaxVersion :
    overview[k] = v ~>
      (Refreshed(k, v) \/ ReportedByArgo(k, v) \/ overview[k] # v \/ stream = "broken")

-----------------------------------------------------------------------------
(* A comment that the code does not keep. *)

\* subscriber.go:100: no refresh of an application whose version in Argo CD, in
\* the event that the subscriber reads, is already the right one.
NoNeedlessRefresh ==
  [][waiting' # waiting /\ waiting' # Nil =>
       view'[Refresher][waiting'[1]].argocd # waiting'[2]]_vars
=============================================================================
