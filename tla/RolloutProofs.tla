---------------------------- MODULE RolloutProofs ----------------------------
(***************************************************************************)
(* Proofs about the rollout service, for any applications, clients, sizes   *)
(* of channels and bounds: its types, that the broadcast follows the        *)
(* overview, and that an open listener misses nothing.                      *)
(***************************************************************************)
EXTENDS Rollout, SequenceTheorems, FiniteSetTheorems, Induction, TLAPS

-----------------------------------------------------------------------------
(* The invariants *)

\* Before its first stream the consumer has nothing.
DownInv == stream = "down" => inbox = <<>> /\ versions = Nothing /\ left = {}

IInv == TypeOK /\ IsFiniteSet(running) /\ DownInv /\ BroadcastFollowsOverview

\* What a listener has to know of a key.
Expected(k) == IF state[k] = Nil THEN Nil ELSE GetEvent(k, state[k])

\* The channel has no event of the key; nor has the snapshot.
NotInChannel(l, k) == \A i \in DOMAIN channel[l] : channel[l][i].key # k
NotInSnapshot(l, k) == \A event \in initial[l] : event.key # k

\* What comes last of a key is right, wherever it is: in the channel, in the
\* snapshot, or read.
Informed(l, k) ==
  /\ \A i \in DOMAIN channel[l] :
       channel[l][i].key = k /\ (\A j \in DOMAIN channel[l] : j > i => channel[l][j].key # k)
       => channel[l][i] = Expected(k)
  /\ NotInChannel(l, k) => \A event \in initial[l] : event.key = k => event = Expected(k)
  /\ NotInChannel(l, k) /\ NotInSnapshot(l, k) => view[l][k] = Expected(k)

ListenersInv == \A l \in listeners, k \in Keys : Informed(l, k)

-----------------------------------------------------------------------------
(* Types *)

LEMMA NewStateType == NewState \in AppState
BY DEF NewState, AppState, RolloutStatus

LEMMA GetEventType ==
  ASSUME NEW k \in Keys, NEW st \in AppState
  PROVE  GetEvent(k, st) \in Event /\ GetEvent(k, st).key = k
BY DEF GetEvent, Event, AppState, RolloutStatus

LEMMA StateOfType ==
  ASSUME TypeOK, NEW k \in Keys  PROVE StateOf(k) \in AppState
BY NewStateType DEF TypeOK, StateOf

LEMMA NumberType ==
  ASSUME NEW v \in Deployed \cup {Nil}
  PROVE  /\ Number(v) \in Deployed /\ Number(v) # Nil
         /\ Number(Number(v)) = Number(v)
<1>1. 0 \in Deployed /\ 0 # Nil /\ \A d \in Deployed : d # Nil
  <2>1. 0 .. MaxVersion \subseteq Nat /\ 0 \in 0 .. MaxVersion
    BY ConstantsAssumption
  <2> QED BY <2>1, ConstantsAssumption DEF Deployed
<1> QED BY <1>1 DEF Number

LEMMA EmptyInbox == <<>> \in Seq([Keys -> Deployed \cup {Nil}]) /\ Len(<<>>) = 0
OBVIOUS

LEMMA FreshTypes ==
  /\ Fresh.stream = "down" /\ Fresh.versions = Nothing /\ Fresh.state = Nothing
  /\ Fresh.target = Nothing
  /\ Fresh.initial \in [Listeners -> SUBSET Event]
  /\ Fresh.channel \in [Listeners -> Seq(Event)] /\ \A l \in Listeners : Len(Fresh.channel[l]) <= ChannelCap
  /\ Fresh.view \in [Listeners -> [Keys -> Event \cup {Nil}]]
  /\ Nothing \in [Keys -> Deployed \cup {Nil}] /\ Nothing \in [Keys -> AppState \cup {Nil}]
<1>1. <<>> \in Seq(Event) /\ Len(<<>>) = 0 /\ 0 <= ChannelCap
  BY ConstantsAssumption
<1> QED BY <1>1 DEF Fresh, Nothing

LEMMA IncidentType == ASSUME TypeOK, Incident PROVE incidents' \in 0 .. MaxIncidents
BY ConstantsAssumption DEF TypeOK, Incident

\* An event that is published.
LEMMA SetType ==
  ASSUME TypeOK, NEW k \in Keys, NEW st \in AppState, Set(k, st)
  PROVE  /\ state' \in [Keys -> AppState \cup {Nil}]
         /\ channel' \in [Listeners -> Seq(Event)]
         /\ \A l \in Listeners : Len(channel'[l]) <= ChannelCap
         /\ listeners' \subseteq listeners
<1> DEFINE event == GetEvent(k, st)
<1>1. event \in Event
  BY GetEventType
<1>2. /\ state' = [state EXCEPT ![k] = st]
      /\ channel' = [l \in Listeners |->
           IF l \in listeners /\ ~Full(l) THEN Append(channel[l], event) ELSE channel[l]]
      /\ listeners' = {l \in listeners : ~Full(l)}
  BY DEF Set, Publish
<1>3. /\ state \in [Keys -> AppState \cup {Nil}]
      /\ channel \in [Listeners -> Seq(Event)] /\ \A l \in Listeners : Len(channel[l]) <= ChannelCap
  BY DEF TypeOK
<1> HIDE DEF event
<1>4. ASSUME NEW l \in Listeners
      PROVE  channel'[l] \in Seq(Event) /\ Len(channel'[l]) <= ChannelCap
  <2>1. channel[l] \in Seq(Event) /\ Len(channel[l]) \in Nat /\ Len(channel[l]) <= ChannelCap
    BY <1>3
  <2>2. CASE l \in listeners /\ ~Full(l)
    <3>1. channel'[l] = Append(channel[l], event) /\ Len(channel[l]) # ChannelCap
      BY <1>2, <2>2 DEF Full
    <3>2. Append(channel[l], event) \in Seq(Event) /\ Len(Append(channel[l], event)) = Len(channel[l]) + 1
      BY <1>1, <2>1, AppendProperties
    <3> QED BY <2>1, <3>1, <3>2, ConstantsAssumption
  <2>3. CASE ~(l \in listeners /\ ~Full(l))
    BY <1>2, <2>1, <2>3
  <2> QED BY <2>2, <2>3
<1>5. channel' \in [Listeners -> Seq(Event)]
  BY <1>2, <1>4
<1> QED BY <1>2, <1>3, <1>4, <1>5

LEMMA KuberpultEventType ==
  ASSUME TypeOK, NEW k \in Keys, NEW v \in Deployed, ProcessKuberpultEvent(k, v)
  PROVE  /\ state' \in [Keys -> AppState \cup {Nil}]
         /\ channel' \in [Listeners -> Seq(Event)]
         /\ \A l \in Listeners : Len(channel'[l]) <= ChannelCap
         /\ listeners' \subseteq listeners
<1> DEFINE st == [StateOf(k) EXCEPT !.kuberpult = v]
<1>1. st \in AppState
  BY StateOfType DEF AppState
<1> HIDE DEF st
<1>2. CASE Set(k, st)
  BY <1>1, <1>2, SetType
<1>3. CASE UNCHANGED <<state, channel, listeners>>
  BY <1>3 DEF TypeOK
<1> QED BY <1>2, <1>3 DEF ProcessKuberpultEvent, st

LEMMA ArgoEventType ==
  ASSUME TypeOK, NEW k \in Keys, NEW v \in Deployed \cup {Nil}, NEW s \in Statuses,
         ProcessArgoEvent(k, v, s)
  PROVE  /\ state' \in [Keys -> AppState \cup {Nil}]
         /\ channel' \in [Listeners -> Seq(Event)]
         /\ \A l \in Listeners : Len(channel'[l]) <= ChannelCap
         /\ listeners' \subseteq listeners
<1> DEFINE st == [StateOf(k) EXCEPT !.argocd = v, !.status = s]
<1>1. st \in AppState
  BY StateOfType DEF AppState, RolloutStatus
<1> HIDE DEF st
<1>2. CASE Set(k, st)
  BY <1>1, <1>2, SetType
<1>3. CASE UNCHANGED <<state, channel, listeners>>
  BY <1>3 DEF TypeOK
<1> QED BY <1>2, <1>3 DEF ProcessArgoEvent, st

\* A snapshot has the event of each application that has a state.
LEMMA AttachType ==
  ASSUME TypeOK, NEW l \in Listeners, Attach(l)
  PROVE  /\ listeners' \subseteq attached' /\ attached' \subseteq Listeners
         /\ initial' \in [Listeners -> SUBSET Event]
         /\ channel' \in [Listeners -> Seq(Event)]
         /\ \A m \in Listeners : Len(channel'[m]) <= ChannelCap
         /\ view' \in [Listeners -> [Keys -> Event \cup {Nil}]]
<1> DEFINE snapshot == {GetEvent(k, state[k]) : k \in {j \in Keys : state[j] # Nil}}
<1>1. snapshot \subseteq Event
  <2>1. \A k \in Keys : state[k] # Nil => state[k] \in AppState
    BY DEF TypeOK
  <2> QED BY <2>1, GetEventType
<1>2. <<>> \in Seq(Event) /\ Len(<<>>) = 0 /\ 0 <= ChannelCap
  BY ConstantsAssumption
<1>3. Nothing \in [Keys -> Event \cup {Nil}]
  BY DEF Nothing
<1>4. /\ attached' = attached \cup {l} /\ listeners' = listeners \cup {l}
      /\ initial' = [initial EXCEPT ![l] = snapshot]
      /\ channel' = [channel EXCEPT ![l] = <<>>]
      /\ view' = [view EXCEPT ![l] = Nothing]
  BY DEF Attach
<1> HIDE DEF snapshot
<1> QED BY <1>1, <1>2, <1>3, <1>4 DEF TypeOK

LEMMA DetachType ==
  ASSUME TypeOK, NEW l \in Listeners, Detach(l)
  PROVE  /\ listeners' \subseteq attached' /\ attached' \subseteq Listeners
         /\ initial' \in [Listeners -> SUBSET Event]
         /\ channel' \in [Listeners -> Seq(Event)]
         /\ \A m \in Listeners : Len(channel'[m]) <= ChannelCap
         /\ view' \in [Listeners -> [Keys -> Event \cup {Nil}]]
<1>1. <<>> \in Seq(Event) /\ Len(<<>>) = 0 /\ 0 <= ChannelCap
  BY ConstantsAssumption
<1>2. Nothing \in [Keys -> Event \cup {Nil}]
  BY DEF Nothing
<1> QED BY <1>1, <1>2 DEF TypeOK, Detach

LEMMA UnreadType ==
  ASSUME TypeOK, NEW l \in Listeners, NEW event \in Unread(l)
  PROVE  /\ event \in Event
         /\ initial[l] # {} => event \in initial[l]
         /\ initial[l] = {} => channel[l] # <<>> /\ event = Head(channel[l])
<1>1. initial[l] \subseteq Event /\ channel[l] \in Seq(Event)
  BY DEF TypeOK
<1>2. channel[l] # <<>> => Head(channel[l]) \in Event
  BY <1>1, HeadTailProperties
<1> QED BY <1>1, <1>2 DEF Unread

LEMMA ReadType ==
  ASSUME TypeOK, NEW l \in Listeners, NEW event \in Unread(l), Read(l, event)
  PROVE  /\ initial' \in [Listeners -> SUBSET Event]
         /\ channel' \in [Listeners -> Seq(Event)]
         /\ \A m \in Listeners : Len(channel'[m]) <= ChannelCap
         /\ view' \in [Listeners -> [Keys -> Event \cup {Nil}]]
<1>1. /\ initial \in [Listeners -> SUBSET Event]
      /\ channel \in [Listeners -> Seq(Event)] /\ \A m \in Listeners : Len(channel[m]) <= ChannelCap
      /\ view \in [Listeners -> [Keys -> Event \cup {Nil}]]
  BY DEF TypeOK
<1>2. event \in Event /\ event.key \in Keys
  BY UnreadType DEF Event
<1>3. view' \in [Listeners -> [Keys -> Event \cup {Nil}]]
  BY <1>1, <1>2 DEF Read
<1>4. CASE initial[l] # {}
  BY <1>1, <1>3, <1>4 DEF Read
<1>5. CASE initial[l] = {}
  <2>1. channel[l] # <<>> /\ channel' = [channel EXCEPT ![l] = Tail(@)] /\ initial' = initial
    BY <1>5, UnreadType DEF Read
  <2>2. Tail(channel[l]) \in Seq(Event) /\ Len(Tail(channel[l])) = Len(channel[l]) - 1 /\ Len(channel[l]) \in Nat
    BY <1>1, <2>1, HeadTailProperties
  <2>3. Len(Tail(channel[l])) <= ChannelCap
    BY <1>1, <2>2, ConstantsAssumption
  <2> QED BY <1>1, <1>3, <2>1, <2>2, <2>3
<1> QED BY <1>4, <1>5

LEMMA RestartedInv ==
  ASSUME IInv, Restarted, incidents' \in 0 .. MaxIncidents  PROVE IInv'
<1>1. IsFiniteSet({}) /\ Cardinality({}) = 0 /\ 0 <= Limit
  BY FS_EmptySet, ConstantsAssumption
<1>7. inbox' \in Seq([Keys -> Deployed \cup {Nil}]) /\ Len(inbox') <= 1
  <2>1. inbox' = <<>>
    BY DEF Restarted
  <2> QED BY <2>1, EmptyInbox
<1>2. /\ stream' = "down" /\ signal' \in BOOLEAN /\ left' \subseteq Keys
      /\ versions' \in [Keys -> Deployed \cup {Nil}] /\ target' \in [Keys -> Deployed \cup {Nil}]
      /\ state' \in [Keys -> AppState \cup {Nil}]
      /\ listeners' \subseteq attached' /\ attached' \subseteq Listeners
  BY FreshTypes DEF Restarted
<1>3. /\ initial' \in [Listeners -> SUBSET Event]
      /\ channel' \in [Listeners -> Seq(Event)] /\ \A l \in Listeners : Len(channel'[l]) <= ChannelCap
      /\ view' \in [Listeners -> [Keys -> Event \cup {Nil}]]
  BY FreshTypes DEF Restarted
<1>4. /\ waiting' \in (Keys \X Deployed) \cup {Nil}
      /\ running' \subseteq Keys \X Deployed /\ Cardinality(running') <= Limit
      /\ overview' \in [Keys -> Deployed \cup {Nil}]
      /\ deploys' \in 0 .. MaxDeploys /\ argoEvents' \in 0 .. MaxArgoEvents
  BY <1>1 DEF IInv, TypeOK, Restarted
<1>5. TypeOK'
  BY <1>2, <1>3, <1>4, <1>7 DEF TypeOK
<1>6. BroadcastFollowsOverview'
  BY FreshTypes DEF Restarted, BroadcastFollowsOverview, StateOf, Nothing, NewState, Number
<1> QED BY <1>1, <1>5, <1>6, FreshTypes DEF IInv, Restarted, DownInv

LEMMA InitInv == Init => IInv
<1> SUFFICES ASSUME Init PROVE IInv
  OBVIOUS
<1>1. IsFiniteSet({}) /\ Cardinality({}) = 0 /\ 0 <= Limit
  BY FS_EmptySet, ConstantsAssumption
<1>2. /\ overview \in [Keys -> Deployed \cup {Nil}]
      /\ stream = "down" /\ signal \in BOOLEAN /\ left \subseteq Keys
      /\ versions \in [Keys -> Deployed \cup {Nil}] /\ target \in [Keys -> Deployed \cup {Nil}]
      /\ state \in [Keys -> AppState \cup {Nil}]
      /\ listeners \subseteq attached /\ attached \subseteq Listeners
  BY FreshTypes DEF Init
<1>8. inbox \in Seq([Keys -> Deployed \cup {Nil}]) /\ Len(inbox) <= 1
  <2>1. inbox = <<>>
    BY DEF Init
  <2> QED BY <2>1, EmptyInbox
<1>3. /\ initial \in [Listeners -> SUBSET Event]
      /\ channel \in [Listeners -> Seq(Event)] /\ \A l \in Listeners : Len(channel[l]) <= ChannelCap
      /\ view \in [Listeners -> [Keys -> Event \cup {Nil}]]
  BY FreshTypes DEF Init
<1>4. /\ waiting \in (Keys \X Deployed) \cup {Nil}
      /\ running \subseteq Keys \X Deployed /\ Cardinality(running) <= Limit
  BY <1>1 DEF Init
<1>5. deploys \in 0 .. MaxDeploys /\ argoEvents \in 0 .. MaxArgoEvents /\ incidents \in 0 .. MaxIncidents
  BY ConstantsAssumption DEF Init
<1>6. TypeOK
  BY <1>2, <1>3, <1>4, <1>5, <1>8 DEF TypeOK
<1>7. BroadcastFollowsOverview
  BY FreshTypes DEF Init, BroadcastFollowsOverview, StateOf, Nothing, NewState, Number
<1> QED BY <1>1, <1>6, <1>7, FreshTypes DEF IInv, Init, DownInv

-----------------------------------------------------------------------------
(* The cd-service and the consumer *)

\* The overview changes, or is sent.
LEMMA OverviewInv ==
  ASSUME IInv, \/ \E k \in Keys, v \in Deployed \cup {Nil} : Deploy(k, v)
               \/ SendOverview
  PROVE  IInv'
<1>1. ASSUME NEW k \in Keys, NEW v \in Deployed \cup {Nil}, Deploy(k, v)  PROVE IInv'
  <2>1. overview' \in [Keys -> Deployed \cup {Nil}] /\ signal' \in BOOLEAN /\ deploys' \in 0 .. MaxDeploys
    BY <1>1, ConstantsAssumption DEF IInv, TypeOK, Deploy
  <2>2. TypeOK'
    BY <1>1, <2>1 DEF IInv, TypeOK, Deploy, listenerVars, refreshVars
  <2> QED BY <1>1, <2>2 DEF IInv, Deploy, refreshVars, DownInv, BroadcastFollowsOverview, StateOf
<1>2. CASE SendOverview
  <2>1. inbox' = <<overview>> /\ overview \in [Keys -> Deployed \cup {Nil}]
    BY <1>2 DEF IInv, TypeOK, SendOverview
  <2>2. inbox' \in Seq([Keys -> Deployed \cup {Nil}]) /\ Len(inbox') <= 1
    BY <2>1
  <2>3. TypeOK'
    BY <1>2, <2>2 DEF IInv, TypeOK, SendOverview, listenerVars, refreshVars, bounds
  <2> QED BY <1>2, <2>3 DEF IInv, SendOverview, refreshVars, DownInv, BroadcastFollowsOverview, StateOf
<1> QED BY <1>1, <1>2

LEMMA ConnectInv == ASSUME IInv, Connect PROVE IInv'
<1>2. TypeOK'
  BY EmptyInbox, FreshTypes DEF IInv, TypeOK, Connect, listenerVars, refreshVars, bounds
<1>3. BroadcastFollowsOverview'
  BY FreshTypes DEF IInv, Connect, DownInv, BroadcastFollowsOverview, StateOf
<1> QED BY <1>2, <1>3 DEF IInv, Connect, DownInv, refreshVars

LEMMA BreakInv == ASSUME IInv, Break PROVE IInv'
<1>1. inbox' \in Seq([Keys -> Deployed \cup {Nil}]) /\ Len(inbox') <= 1
  <2>1. CASE inbox' = inbox
    BY <2>1 DEF IInv, TypeOK
  <2>2. CASE inbox' = <<>>
    BY <2>2, EmptyInbox
  <2> QED BY <2>1, <2>2 DEF Break
<1>3. incidents' \in 0 .. MaxIncidents
  BY IncidentType DEF IInv, Break
<1>2. TypeOK'
  BY <1>1, <1>3 DEF IInv, TypeOK, Break, listenerVars, refreshVars
<1> QED BY <1>2 DEF IInv, Break, refreshVars, DownInv, BroadcastFollowsOverview, StateOf

\* A new overview: an application that is not passed on has the version that
\* the broadcast was told before.
LEMMA ReceiveInv == ASSUME IInv, Receive PROVE IInv'
<1>1. versions' \in [Keys -> Deployed \cup {Nil}]
  BY HeadTailProperties DEF IInv, TypeOK, Receive
<1>2. TypeOK'
  <2> QED BY <1>1, EmptyInbox DEF IInv, TypeOK, Receive, listenerVars, refreshVars, bounds
<1>3. ASSUME NEW k \in Keys, k \notin left'
      PROVE  Number(StateOf(k).kuberpult) = Number(versions'[k])
  <2>1. Number(StateOf(k).kuberpult) = Number(versions[k])
    BY DEF IInv, Receive, BroadcastFollowsOverview
  <2>2. /\ versions'[k] # Nil => Number(versions'[k]) = Number(versions[k])
        /\ versions[k] # Nil => Number(versions'[k]) # 0
    BY <1>3 DEF Receive
  <2> QED BY <2>1, <2>2 DEF Number
<1>4. BroadcastFollowsOverview'
  BY <1>3 DEF BroadcastFollowsOverview, Receive, StateOf
<1> QED BY <1>2, <1>4 DEF IInv, Receive, DownInv, refreshVars

LEMMA PassOnInv == ASSUME IInv, NEW k \in Keys, PassOn(k) PROVE IInv'
<1>1. Number(versions[k]) \in Deployed /\ Number(versions[k]) # Nil /\ Number(Number(versions[k])) = Number(versions[k])
  BY NumberType DEF IInv, TypeOK
<1>2. /\ state' \in [Keys -> AppState \cup {Nil}]
      /\ channel' \in [Listeners -> Seq(Event)]
      /\ \A l \in Listeners : Len(channel'[l]) <= ChannelCap
      /\ listeners' \subseteq listeners
  BY <1>1, KuberpultEventType DEF IInv, PassOn
<1>3. TypeOK'
  BY <1>2 DEF IInv, TypeOK, PassOn, refreshVars, bounds
<1>4. ASSUME NEW j \in Keys, j \notin left'
      PROVE  Number(StateOf(j)'.kuberpult) = Number(versions[j])
  <2> DEFINE st == [StateOf(k) EXCEPT !.kuberpult = Number(versions[k])]
  <2>1. StateOf(k) \in AppState /\ st \in AppState /\ st.kuberpult = Number(versions[k])
    BY <1>1, StateOfType DEF IInv, AppState
  <2>2. CASE j # k
    <3>1. state'[j] = state[j] /\ j \notin left
      BY <1>4, <2>2 DEF IInv, TypeOK, PassOn, ProcessKuberpultEvent, Set
    <3> QED BY <3>1 DEF IInv, BroadcastFollowsOverview, StateOf
  <2>3. CASE j = k /\ StateOf(k).kuberpult = Number(versions[k])
    BY <1>1, <2>3 DEF PassOn, ProcessKuberpultEvent, StateOf
  <2>4. CASE j = k /\ StateOf(k).kuberpult # Number(versions[k])
    <3>1. Set(k, st)
      BY <2>4 DEF PassOn, ProcessKuberpultEvent
    <3> HIDE DEF st
    <3>2. state'[k] = st
      BY <3>1 DEF Set, IInv, TypeOK
    <3> QED BY <1>1, <2>1, <2>4, <3>2, NilAssumption DEF StateOf
  <2> QED BY <2>2, <2>3, <2>4
<1>5. BroadcastFollowsOverview'
  BY <1>4 DEF BroadcastFollowsOverview, PassOn
<1> QED BY <1>3, <1>5 DEF IInv, PassOn, DownInv, refreshVars

-----------------------------------------------------------------------------
(* Argo CD *)

LEMMA ArgoInv == ASSUME IInv, Argo PROVE IInv'
<1>1. ASSUME NEW k \in Keys, NEW v \in Deployed \cup {Nil}, NEW s \in Statuses, ArgoEvent(k, v, s)
      PROVE  IInv'
  <2>1. ProcessArgoEvent(k, v, s)
    BY <1>1 DEF ArgoEvent
  <2>2. /\ state' \in [Keys -> AppState \cup {Nil}]
        /\ channel' \in [Listeners -> Seq(Event)]
        /\ \A l \in Listeners : Len(channel'[l]) <= ChannelCap
        /\ listeners' \subseteq listeners
    BY <2>1, ArgoEventType DEF IInv
  <2>3. argoEvents' \in 0 .. MaxArgoEvents
    BY <1>1, ConstantsAssumption DEF IInv, TypeOK, ArgoEvent
  <2>4. TypeOK'
    BY <1>1, <2>2, <2>3 DEF IInv, TypeOK, ArgoEvent, consumerVars, refreshVars
  <2>5. ASSUME NEW j \in Keys  PROVE StateOf(j)'.kuberpult = StateOf(j).kuberpult
    <3> DEFINE st == [StateOf(k) EXCEPT !.argocd = v, !.status = s]
    <3>1. StateOf(k) \in AppState /\ st \in AppState /\ st.kuberpult = StateOf(k).kuberpult
      BY StateOfType DEF IInv, AppState, RolloutStatus
    <3>2. CASE state' = state
      BY <3>2 DEF StateOf
    <3>3. CASE Set(k, st)
      <4> HIDE DEF st
      <4>1. state' = [state EXCEPT ![k] = st]
        BY <3>3 DEF Set
      <4>2. CASE j = k
        BY <3>1, <4>1, <4>2, NilAssumption DEF StateOf, IInv, TypeOK
      <4>3. CASE j # k
        BY <4>1, <4>3 DEF StateOf, IInv, TypeOK
      <4> QED BY <4>2, <4>3
    <3> QED BY <2>1, <3>2, <3>3 DEF ProcessArgoEvent
  <2>6. BroadcastFollowsOverview'
    BY <1>1, <2>5 DEF IInv, BroadcastFollowsOverview, ArgoEvent, consumerVars
  <2> QED BY <1>1, <2>4, <2>6 DEF IInv, ArgoEvent, DownInv, consumerVars, refreshVars
<1>2. ASSUME NEW k \in Keys, NEW v \in Deployed \cup {Nil}, NEW s \in Statuses, ArgoEventPanic(k, v, s)
      PROVE  IInv'
  BY <1>2, RestartedInv, IncidentType DEF IInv, ArgoEventPanic
<1> QED BY <1>1, <1>2 DEF Argo

-----------------------------------------------------------------------------
(* Listeners *)

\* Whatever only touches listeners leaves the rest of the invariant alone.
LEMMA ListenerStep ==
  ASSUME IInv, UNCHANGED <<overview, consumerVars, state>>,
         listeners' \subseteq attached', attached' \subseteq Listeners,
         initial' \in [Listeners -> SUBSET Event],
         channel' \in [Listeners -> Seq(Event)], \A l \in Listeners : Len(channel'[l]) <= ChannelCap,
         view' \in [Listeners -> [Keys -> Event \cup {Nil}]],
         target' \in [Keys -> Deployed \cup {Nil}],
         waiting' \in (Keys \X Deployed) \cup {Nil},
         running' \subseteq Keys \X Deployed, IsFiniteSet(running'), Cardinality(running') <= Limit,
         UNCHANGED <<deploys, argoEvents>>, incidents' \in 0 .. MaxIncidents
  PROVE  IInv'
<1>1. TypeOK'
  BY DEF IInv, TypeOK, consumerVars
<1>2. DownInv' /\ BroadcastFollowsOverview'
  BY DEF IInv, DownInv, BroadcastFollowsOverview, StateOf, consumerVars
<1> QED BY <1>1, <1>2 DEF IInv

LEMMA ClientInv == ASSUME IInv, NEW c \in Clients, Client(c) PROVE IInv'
<1>1. c \in Listeners /\ TypeOK
  BY DEF Listeners, IInv
<1>2. /\ target \in [Keys -> Deployed \cup {Nil}] /\ waiting \in (Keys \X Deployed) \cup {Nil}
      /\ running \subseteq Keys \X Deployed /\ IsFiniteSet(running) /\ Cardinality(running) <= Limit
      /\ incidents \in 0 .. MaxIncidents
      /\ listeners \subseteq attached /\ attached \subseteq Listeners
  BY DEF IInv, TypeOK
<1>3. CASE ClientConnects(c)
  <2>1. Attach(c) /\ incidents' \in 0 .. MaxIncidents
    BY <1>1, <1>3, IncidentType DEF ClientConnects
  <2> QED BY <1>1, <1>2, <1>3, <2>1, AttachType, ListenerStep DEF ClientConnects, refreshVars
<1>4. CASE ClientReads(c)
  <2>1. PICK event \in Unread(c) : Read(c, event)
    BY <1>4 DEF ClientReads
  <2> QED BY <1>1, <1>2, <1>4, <2>1, ReadType, ListenerStep DEF ClientReads, refreshVars, bounds
<1>5. CASE ClientPanics(c)
  BY <1>2, <1>5, RestartedInv DEF ClientPanics
<1>6. CASE ClientLeaves(c)
  <2>1. Detach(c) /\ incidents' \in 0 .. MaxIncidents
    BY <1>1, <1>2, <1>6, IncidentType DEF ClientLeaves
  <2> QED BY <1>1, <1>2, <1>6, <2>1, DetachType, ListenerStep DEF ClientLeaves, refreshVars
<1> QED BY <1>3, <1>4, <1>5, <1>6 DEF Client

LEMMA SubscriberInv == ASSUME IInv, Subscriber PROVE IInv'
<1>1. Refresher \in Listeners /\ TypeOK
  BY DEF Listeners, IInv
<1>2. /\ target \in [Keys -> Deployed \cup {Nil}] /\ waiting \in (Keys \X Deployed) \cup {Nil}
      /\ running \subseteq Keys \X Deployed /\ IsFiniteSet(running) /\ Cardinality(running) <= Limit
      /\ incidents \in 0 .. MaxIncidents
      /\ listeners \subseteq attached /\ attached \subseteq Listeners
  BY DEF IInv, TypeOK
<1>3. CASE Subscribe
  <2>1. Attach(Refresher)
    BY <1>3 DEF Subscribe
  <2> QED BY <1>1, <1>2, <1>3, <2>1, AttachType, ListenerStep DEF Subscribe, refreshVars, bounds
<1>4. CASE RefresherReads
  <2>1. PICK event \in Unread(Refresher) :
          /\ Read(Refresher, event)
          /\ \/ /\ NeedsRefresh(event)
                /\ target' = [target EXCEPT ![event.key] = event.kuberpult]
                /\ waiting' = <<event.key, event.kuberpult>>
             \/ UNCHANGED <<target, waiting>>
    BY <1>4 DEF RefresherReads
  <2>2. event.key \in Keys /\ event.kuberpult \in Deployed \cup {Nil}
    BY <1>1, UnreadType DEF Event
  <2>3. target' \in [Keys -> Deployed \cup {Nil}] /\ waiting' \in (Keys \X Deployed) \cup {Nil}
    BY <1>2, <2>1, <2>2 DEF NeedsRefresh
  <2> QED BY <1>1, <1>2, <1>4, <2>1, <2>3, ReadType, ListenerStep DEF RefresherReads, bounds
<1>5. CASE NotifyArgoCd
  <2>1. /\ IsFiniteSet(running \cup {waiting})
        /\ Cardinality(running \cup {waiting}) <= Cardinality(running) + 1
        /\ Cardinality(running) \in Nat
    <3>1. /\ IsFiniteSet(running \cup {waiting})
          /\ Cardinality(running \cup {waiting}) =
               IF waiting \in running THEN Cardinality(running) ELSE Cardinality(running) + 1
      BY <1>2, FS_AddElement
    <3>2. Cardinality(running) \in Nat
      BY <1>2, FS_CardinalityType
    <3> QED BY <3>1, <3>2
  <2>2. running' = running \cup {waiting} /\ running' \subseteq Keys \X Deployed /\ waiting' = Nil
    BY <1>2, <1>5 DEF NotifyArgoCd
  <2>3. Cardinality(running') <= Limit
    <3>1. Cardinality(running) < Limit /\ Limit \in Nat
      BY <1>5, ConstantsAssumption DEF NotifyArgoCd
    <3>2. Cardinality(running \cup {waiting}) \in Nat
      BY <2>1, FS_CardinalityType
    <3> QED BY <2>1, <2>2, <3>1, <3>2
  <2> QED BY <1>1, <1>2, <1>5, <2>1, <2>2, <2>3, ListenerStep
          DEF NotifyArgoCd, listenerVars, bounds, TypeOK
<1>6. CASE Resubscribe
  <2>1. Detach(Refresher)
    BY <1>6 DEF Resubscribe
  <2> QED BY <1>1, <1>2, <1>6, <2>1, DetachType, ListenerStep DEF Resubscribe, refreshVars, bounds
<1> QED BY <1>3, <1>4, <1>5, <1>6 DEF Subscriber

LEMMA RefreshEndsInv == ASSUME IInv, NEW r \in running, RefreshEnds(r) PROVE IInv'
<1>1. IsFiniteSet(running') /\ Cardinality(running') <= Limit
  <2>1. IsFiniteSet(running) /\ Cardinality(running) <= Limit /\ Cardinality(running) \in Nat
    BY FS_CardinalityType DEF IInv, TypeOK
  <2>2. running' = running \ {r}
    BY DEF RefreshEnds
  <2>3. /\ IsFiniteSet(running \ {r})
        /\ Cardinality(running \ {r}) = IF r \in running THEN Cardinality(running) - 1 ELSE Cardinality(running)
    BY <2>1, FS_RemoveElement
  <2>4. Cardinality(running \ {r}) <= Limit
    BY <2>1, <2>3, ConstantsAssumption
  <2> QED BY <2>2, <2>3, <2>4
<1> QED BY <1>1, ListenerStep DEF IInv, TypeOK, RefreshEnds, listenerVars, bounds

LEMMA NextInv == IInv /\ [Next]_vars => IInv'
<1> SUFFICES ASSUME IInv, [Next]_vars PROVE IInv'
  OBVIOUS
<1>1. CASE \/ \E k \in Keys, v \in Deployed \cup {Nil} : Deploy(k, v)
           \/ SendOverview
  BY <1>1, OverviewInv
<1>2. CASE Consumer
  BY <1>2, ConnectInv, ReceiveInv, PassOnInv DEF Consumer
<1>3. CASE Break
  BY <1>3, BreakInv
<1>4. CASE Argo
  BY <1>4, ArgoInv
<1>5. CASE Stop
  BY <1>5, RestartedInv, IncidentType DEF IInv, Stop
<1>6. CASE \E c \in Clients : Client(c)
  BY <1>6, ClientInv
<1>7. CASE Subscriber
  BY <1>7, SubscriberInv
<1>8. CASE \E r \in running : RefreshEnds(r)
  BY <1>8, RefreshEndsInv
<1>9. CASE UNCHANGED vars
  BY <1>9 DEF IInv, TypeOK, DownInv, BroadcastFollowsOverview, StateOf,
              vars, consumerVars, listenerVars, refreshVars, bounds
<1> QED BY <1>1, <1>2, <1>3, <1>4, <1>5, <1>6, <1>7, <1>8, <1>9 DEF Next

LEMMA Invariance == Spec => []IInv
<1>1. Init => IInv
  BY InitInv
<1>2. IInv /\ [Next]_vars => IInv'
  BY NextInv
<1> QED BY <1>1, <1>2, PTL DEF Spec

-----------------------------------------------------------------------------
(* Theorems about the types and the consumer *)

\* The types of Rollout's variables: no channel of a listener holds more events
\* than it has room for, and never do more refreshes run than errgroup's limit.
THEOREM TypeCorrect == Spec => []TypeOK
<1>1. IInv => TypeOK
  BY DEF IInv
<1> QED BY <1>1, Invariance, PTL

\* What the broadcast knows of kuberpult's versions is the last overview that
\* versions.ConsumeEvents received, outside the events it is still passing on.
THEOREM FollowsOverview == Spec => []BroadcastFollowsOverview
<1>1. IInv => BroadcastFollowsOverview
  BY DEF IInv
<1> QED BY <1>1, Invariance, PTL

-----------------------------------------------------------------------------
(* What listeners know *)

LEMMA SetInformed ==
  ASSUME TypeOK, ListenersInv, NEW k \in Keys, NEW st \in AppState, Set(k, st),
         UNCHANGED <<initial, view>>
  PROVE  ListenersInv'
<1> DEFINE event == GetEvent(k, st)
<1>1. event \in Event /\ event.key = k
  BY GetEventType
<1>2. /\ state' = [state EXCEPT ![k] = st]
      /\ channel' = [l \in Listeners |->
           IF l \in listeners /\ ~Full(l) THEN Append(channel[l], event) ELSE channel[l]]
      /\ listeners' = {l \in listeners : ~Full(l)}
  BY DEF Set, Publish
<1>3. \A j \in Keys : Expected(j)' = IF j = k THEN event ELSE Expected(j)
  BY <1>2, NilAssumption DEF Expected, TypeOK
<1> SUFFICES ASSUME NEW l \in listeners', NEW j \in Keys  PROVE Informed(l, j)'
  BY DEF ListenersInv
<1> HIDE DEF event
<1> DEFINE n == Len(channel[l])
<1>4. /\ l \in listeners /\ l \in Listeners /\ channel[l] \in Seq(Event)
      /\ channel'[l] = Append(channel[l], event) /\ Informed(l, j)
  BY <1>2 DEF TypeOK, ListenersInv
<1>5. /\ n \in Nat /\ DOMAIN channel[l] = 1 .. n /\ DOMAIN channel'[l] = 1 .. n + 1
      /\ channel'[l][n + 1] = event /\ \A i \in 1 .. n : channel'[l][i] = channel[l][i]
  BY <1>1, <1>4, AppendProperties, LenProperties
<1> HIDE DEF n
<1>6. CASE j = k
  <2>1. ASSUME NEW i \in DOMAIN channel'[l],
               \A m \in DOMAIN channel'[l] : m > i => channel'[l][m].key # j
        PROVE  channel'[l][i] = event
    <3>1. ~(n + 1 > i)
      BY <1>1, <1>5, <1>6, <2>1
    <3>2. i = n + 1
      BY <1>5, <3>1
    <3> QED BY <1>5, <3>2
  <2>2. ~NotInChannel(l, j)'
    BY <1>1, <1>5, <1>6 DEF NotInChannel
  <2> QED BY <1>3, <1>6, <2>1, <2>2 DEF Informed
<1>7. CASE j # k
  <2>1. ASSUME NEW i \in DOMAIN channel'[l], channel'[l][i].key = j,
               \A m \in DOMAIN channel'[l] : m > i => channel'[l][m].key # j
        PROVE  channel'[l][i] = Expected(j)
    <3>1. i # n + 1 /\ i \in 1 .. n
      BY <1>1, <1>5, <1>7, <2>1
    <3>2. \A m \in 1 .. n : m > i => channel[l][m].key # j
      BY <1>5, <2>1
    <3> QED BY <1>4, <1>5, <2>1, <3>1, <3>2 DEF Informed
  <2>2. NotInChannel(l, j)' => NotInChannel(l, j)
    BY <1>5 DEF NotInChannel
  <2>3. NotInSnapshot(l, j)' <=> NotInSnapshot(l, j)
    BY DEF NotInSnapshot
  <2> QED BY <1>3, <1>4, <1>7, <2>1, <2>2, <2>3 DEF Informed
<1> QED BY <1>6, <1>7

LEMMA AttachInformed ==
  ASSUME TypeOK, ListenersInv, NEW l \in Listeners, Attach(l), UNCHANGED state
  PROVE  ListenersInv'
<1> SUFFICES ASSUME NEW m \in listeners', NEW k \in Keys  PROVE Informed(m, k)'
  BY DEF ListenersInv
<1>1. m \in Listeners /\ Expected(k)' = Expected(k)
  BY DEF TypeOK, Attach, Expected
<1>2. CASE m = l
  <2>1. /\ channel'[l] = <<>> /\ view'[l] = Nothing
        /\ initial'[l] = {GetEvent(j, state[j]) : j \in {i \in Keys : state[i] # Nil}}
    BY DEF TypeOK, Attach
  <2>2. DOMAIN channel'[l] = {}
    BY <2>1
  <2>3. ASSUME NEW event \in initial'[l], event.key = k  PROVE event = Expected(k)
    <3>1. PICK j \in Keys : state[j] # Nil /\ event = GetEvent(j, state[j])
      BY <2>1
    <3> QED BY <2>3, <3>1 DEF GetEvent, Expected
  <2>4. ASSUME NotInSnapshot(l, k)'  PROVE view'[l][k] = Expected(k)
    <3>1. state[k] = Nil
      <4>1. state[k] # Nil => GetEvent(k, state[k]) \in initial'[l] /\ GetEvent(k, state[k]).key = k
        BY <2>1 DEF GetEvent
      <4> QED BY <2>4, <4>1 DEF NotInSnapshot
    <3> QED BY <2>1, <3>1 DEF Expected, Nothing
  <2> QED BY <1>1, <1>2, <2>2, <2>3, <2>4 DEF Informed
<1>3. CASE m # l
  <2>1. /\ m \in listeners /\ channel'[m] = channel[m] /\ initial'[m] = initial[m] /\ view'[m] = view[m]
    BY <1>1, <1>3 DEF TypeOK, Attach
  <2> QED BY <1>1, <2>1 DEF ListenersInv, Informed, NotInChannel, NotInSnapshot
<1> QED BY <1>2, <1>3

LEMMA DetachInformed ==
  ASSUME TypeOK, ListenersInv, NEW l \in Listeners, Detach(l), UNCHANGED state
  PROVE  ListenersInv'
<1> SUFFICES ASSUME NEW m \in listeners', NEW k \in Keys  PROVE Informed(m, k)'
  BY DEF ListenersInv
<1>1. /\ m # l /\ m \in listeners /\ m \in Listeners /\ Expected(k)' = Expected(k)
      /\ channel'[m] = channel[m] /\ initial'[m] = initial[m] /\ view'[m] = view[m]
  BY DEF TypeOK, Detach, Expected
<1> QED BY <1>1 DEF ListenersInv, Informed, NotInChannel, NotInSnapshot

\* Reading takes the first of what is unread.
LEMMA ReadInformed ==
  ASSUME TypeOK, ListenersInv, NEW l \in Listeners, NEW event \in Unread(l), Read(l, event),
         UNCHANGED <<state, listeners>>
  PROVE  ListenersInv'
<1> SUFFICES ASSUME NEW m \in listeners, NEW k \in Keys  PROVE Informed(m, k)'
  BY DEF ListenersInv
<1>1. m \in Listeners /\ Expected(k)' = Expected(k) /\ Informed(m, k)
  BY DEF TypeOK, Expected, ListenersInv
<1>2. CASE m # l
  <2>1. channel'[m] = channel[m] /\ initial'[m] = initial[m] /\ view'[m] = view[m]
    BY <1>1, <1>2 DEF TypeOK, Read
  <2> QED BY <1>1, <2>1 DEF Informed, NotInChannel, NotInSnapshot
<1>3. /\ event.key \in Keys /\ initial[l] \subseteq Event /\ channel[l] \in Seq(Event)
      /\ view'[l][k] = IF event.key = k THEN event ELSE view[l][k]
  BY UnreadType DEF TypeOK, Read, Event
<1>4. CASE m = l /\ initial[l] # {}
  <2>1. event \in initial[l] /\ channel'[l] = channel[l] /\ initial'[l] = initial[l] \ {event}
    BY <1>4, UnreadType DEF TypeOK, Read
  <2>2. NotInChannel(l, k)' <=> NotInChannel(l, k)
    BY <2>1 DEF NotInChannel
  <2>3. ASSUME NotInChannel(l, k), NotInSnapshot(l, k)'  PROVE view'[l][k] = Expected(k)
    <3>1. CASE event.key = k
      BY <1>1, <1>3, <1>4, <2>1, <2>3, <3>1 DEF Informed
    <3>2. CASE event.key # k
      <4>1. NotInSnapshot(l, k)
        BY <2>1, <2>3, <3>2 DEF NotInSnapshot
      <4> QED BY <1>1, <1>3, <1>4, <2>3, <3>2, <4>1 DEF Informed
    <3> QED BY <3>1, <3>2
  <2> QED BY <1>1, <1>4, <2>1, <2>2, <2>3 DEF Informed
<1>5. CASE m = l /\ initial[l] = {}
  <2> DEFINE n == Len(channel[l])
  <2>1. channel[l] # <<>> /\ event = Head(channel[l]) /\ channel'[l] = Tail(channel[l]) /\ initial'[l] = {}
    BY <1>5, UnreadType DEF TypeOK, Read
  <2>2. /\ n \in Nat \ {0} /\ DOMAIN channel[l] = 1 .. n /\ DOMAIN channel'[l] = 1 .. n - 1
        /\ event = channel[l][1] /\ \A i \in 1 .. n - 1 : channel'[l][i] = channel[l][i + 1]
    BY <1>3, <2>1, HeadTailProperties, LenProperties, EmptySeq
  <2> HIDE DEF n
  <2>3. ASSUME NEW i \in 1 .. n - 1, channel'[l][i].key = k,
               \A j \in 1 .. n - 1 : j > i => channel'[l][j].key # k
        PROVE  channel'[l][i] = Expected(k)
    <3>1. ASSUME NEW j \in 1 .. n, j > i + 1  PROVE channel[l][j].key # k
      <4>1. j - 1 \in 1 .. n - 1 /\ j - 1 > i /\ (j - 1) + 1 = j
        BY <2>2, <3>1
      <4> QED BY <2>2, <2>3, <4>1
    <3>2. i + 1 \in 1 .. n /\ channel[l][i + 1].key = k
      BY <2>2, <2>3
    <3> QED BY <1>1, <1>5, <2>2, <3>1, <3>2 DEF Informed
  <2>4. ASSUME NotInChannel(l, k)'  PROVE view'[l][k] = Expected(k)
    <3>1. ASSUME NEW j \in 2 .. n  PROVE channel[l][j].key # k
      <4>1. j - 1 \in 1 .. n - 1 /\ (j - 1) + 1 = j
        BY <2>2
      <4> QED BY <2>2, <2>4, <4>1 DEF NotInChannel
    <3>2. CASE event.key = k
      <4>1. 1 \in 1 .. n /\ \A j \in 1 .. n : j > 1 => channel[l][j].key # k
        BY <2>2, <3>1
      <4>2. channel[l][1] = Expected(k)
        BY <1>1, <1>5, <2>2, <3>2, <4>1 DEF Informed
      <4> QED BY <1>3, <2>2, <3>2, <4>2
    <3>3. CASE event.key # k
      <4>1. NotInChannel(l, k)
        <5>1. \A j \in 1 .. n : j = 1 \/ j \in 2 .. n
          BY <2>2
        <5> QED BY <2>2, <3>1, <3>3, <5>1 DEF NotInChannel
      <4>2. NotInSnapshot(l, k)
        BY <1>5 DEF NotInSnapshot
      <4> QED BY <1>1, <1>3, <1>5, <3>3, <4>1, <4>2 DEF Informed
    <3> QED BY <3>2, <3>3
  <2> QED BY <1>1, <1>5, <2>1, <2>2, <2>3, <2>4 DEF Informed
<1> QED BY <1>2, <1>4, <1>5

\* A step that leaves the listeners as they are.
LEMMA SameInformed ==
  ASSUME ListenersInv, UNCHANGED <<state, listeners, initial, channel, view>>
  PROVE  ListenersInv'
BY DEF ListenersInv, Informed, Expected, NotInChannel, NotInSnapshot

LEMMA ConsumerInformed == ASSUME IInv, ListenersInv, Consumer PROVE ListenersInv'
<1>1. CASE Connect
  BY <1>1, SameInformed DEF Connect, listenerVars
<1>2. CASE Receive
  BY <1>2, SameInformed DEF Receive, listenerVars
<1>3. ASSUME NEW k \in Keys, PassOn(k)  PROVE ListenersInv'
  <2> DEFINE v == Number(versions[k])
             st == [StateOf(k) EXCEPT !.kuberpult = v]
  <2>1. TypeOK /\ v \in Deployed
    BY NumberType DEF IInv, TypeOK
  <2>2. st \in AppState
    BY <2>1, StateOfType DEF AppState
  <2>3. Set(k, st) \/ UNCHANGED <<state, channel, listeners>>
    BY <1>3 DEF PassOn, ProcessKuberpultEvent
  <2>4. UNCHANGED <<initial, view>>
    BY <1>3 DEF PassOn
  <2> HIDE DEF st, v
  <2> QED BY <2>1, <2>2, <2>3, <2>4, SetInformed, SameInformed
<1> QED BY <1>1, <1>2, <1>3 DEF Consumer

LEMMA RestartedInformed == ASSUME Restarted PROVE ListenersInv'
BY DEF Restarted, ListenersInv

LEMMA ArgoInformed == ASSUME IInv, ListenersInv, Argo PROVE ListenersInv'
<1>1. PICK k \in Keys, v \in Deployed \cup {Nil}, s \in Statuses :
        ArgoEvent(k, v, s) \/ ArgoEventPanic(k, v, s)
  BY DEF Argo
<1>2. CASE ArgoEvent(k, v, s)
  <2> DEFINE st == [StateOf(k) EXCEPT !.argocd = v, !.status = s]
  <2>1. TypeOK /\ st \in AppState
    BY StateOfType DEF IInv, AppState, RolloutStatus
  <2>2. Set(k, st) \/ UNCHANGED <<state, channel, listeners>>
    BY <1>2 DEF ArgoEvent, ProcessArgoEvent
  <2>3. UNCHANGED <<initial, view>>
    BY <1>2 DEF ArgoEvent
  <2> HIDE DEF st
  <2> QED BY <2>1, <2>2, <2>3, SetInformed, SameInformed
<1>3. CASE ArgoEventPanic(k, v, s)
  BY <1>3, RestartedInformed DEF ArgoEventPanic
<1> QED BY <1>1, <1>2, <1>3

LEMMA ClientInformed ==
  ASSUME IInv, ListenersInv, NEW c \in Clients, Client(c)  PROVE ListenersInv'
<1>1. c \in Listeners /\ TypeOK
  BY DEF Listeners, IInv
<1>2. CASE ClientConnects(c)
  BY <1>1, <1>2, AttachInformed DEF ClientConnects
<1>3. CASE ClientReads(c)
  <2>1. PICK event \in Unread(c) : Read(c, event) /\ UNCHANGED <<state, listeners>>
    BY <1>3 DEF ClientReads
  <2> QED BY <1>1, <2>1, ReadInformed
<1>4. CASE ClientPanics(c)
  BY <1>4, RestartedInformed DEF ClientPanics
<1>5. CASE ClientLeaves(c)
  BY <1>1, <1>5, DetachInformed DEF ClientLeaves
<1> QED BY <1>2, <1>3, <1>4, <1>5 DEF Client

LEMMA SubscriberInformed == ASSUME IInv, ListenersInv, Subscriber PROVE ListenersInv'
<1>1. Refresher \in Listeners /\ TypeOK
  BY DEF Listeners, IInv
<1>2. CASE Subscribe
  BY <1>1, <1>2, AttachInformed DEF Subscribe
<1>3. CASE RefresherReads
  <2>1. PICK event \in Unread(Refresher) : Read(Refresher, event) /\ UNCHANGED <<state, listeners>>
    BY <1>3 DEF RefresherReads
  <2> QED BY <1>1, <2>1, ReadInformed
<1>4. CASE NotifyArgoCd
  BY <1>4, SameInformed DEF NotifyArgoCd, listenerVars
<1>5. CASE Resubscribe
  BY <1>1, <1>5, DetachInformed DEF Resubscribe
<1> QED BY <1>2, <1>3, <1>4, <1>5 DEF Subscriber

LEMMA InformedNext == IInv /\ ListenersInv /\ [Next]_vars => ListenersInv'
<1> SUFFICES ASSUME IInv, ListenersInv, [Next]_vars PROVE ListenersInv'
  OBVIOUS
<1>1. CASE \E k \in Keys, v \in Deployed \cup {Nil} : Deploy(k, v)
  BY <1>1, SameInformed DEF Deploy, listenerVars
<1>2. CASE SendOverview
  BY <1>2, SameInformed DEF SendOverview, listenerVars
<1>3. CASE Break
  BY <1>3, SameInformed DEF Break, listenerVars
<1>4. CASE Stop
  BY <1>4, RestartedInformed DEF Stop
<1>5. CASE \E r \in running : RefreshEnds(r)
  BY <1>5, SameInformed DEF RefreshEnds, listenerVars
<1>6. CASE UNCHANGED vars
  BY <1>6, SameInformed DEF vars, listenerVars
<1> QED BY <1>1, <1>2, <1>3, <1>4, <1>5, <1>6, ConsumerInformed, ArgoInformed, ClientInformed,
           SubscriberInformed DEF Next

LEMMA InformedKnows == TypeOK /\ ListenersInv => ListenersKnowTheState
<1> SUFFICES ASSUME TypeOK, ListenersInv, NEW l \in listeners, NEW k \in Keys
             PROVE  Knows(l, k) = Expected(k)
  BY DEF ListenersKnowTheState, Expected
<1> DEFINE inChannel == {i \in DOMAIN channel[l] : channel[l][i].key = k}
           inSnapshot == {event \in initial[l] : event.key = k}
           greatest == CHOOSE i \in inChannel : \A j \in inChannel : j <= i
<1>1. Informed(l, k)
  BY DEF ListenersInv
<1>2. CASE inChannel # {}
  <2>1. Len(channel[l]) \in Nat /\ DOMAIN channel[l] = 1 .. Len(channel[l])
    BY DEF TypeOK
  <2>2. \E i \in inChannel : \A j \in inChannel : j <= i
    <3>1. inChannel \subseteq 1 .. Len(channel[l])
      BY <2>1
    <3> HIDE DEF inChannel
    <3> QED BY <1>2, <2>1, <3>1, GreatestElement
  <2>3. greatest \in inChannel /\ \A j \in inChannel : j <= greatest
    <3> HIDE DEF inChannel
    <3> QED BY <2>2
  <2>4. Knows(l, k) = channel[l][greatest]
    BY <1>2 DEF Knows
  <2> HIDE DEF greatest
  <2>5. \A j \in DOMAIN channel[l] : j > greatest => channel[l][j].key # k
    BY <2>1, <2>3
  <2> QED BY <1>1, <2>3, <2>4, <2>5 DEF Informed
<1>3. CASE inChannel = {} /\ inSnapshot # {}
  <2>1. NotInChannel(l, k)
    BY <1>3 DEF NotInChannel
  <2>2. \A event \in inSnapshot : event = Expected(k)
    BY <1>1, <2>1 DEF Informed
  <2>3. Knows(l, k) = CHOOSE event \in inSnapshot : TRUE
    BY <1>3 DEF Knows
  <2> HIDE DEF inSnapshot
  <2> QED BY <1>3, <2>2, <2>3
<1>4. CASE inChannel = {} /\ inSnapshot = {}
  <2>1. NotInChannel(l, k) /\ NotInSnapshot(l, k)
    BY <1>4 DEF NotInChannel, NotInSnapshot
  <2>2. Knows(l, k) = view[l][k]
    BY <1>4 DEF Knows
  <2> QED BY <1>1, <2>1, <2>2 DEF Informed
<1> QED BY <1>2, <1>3, <1>4

\* A listener whose channel Broadcast has not closed will know, of every
\* application, what Broadcast holds: Start takes the snapshot and adds the
\* channel under one lock, and no event is dropped from an open channel.
THEOREM ListenersInformed == Spec => []ListenersKnowTheState
<1>1. Init => ListenersInv
  BY DEF Init, ListenersInv
<1>2. IInv /\ ListenersInv /\ [Next]_vars => ListenersInv'
  BY InformedNext
<1>3. IInv /\ ListenersInv => ListenersKnowTheState
  BY InformedKnows DEF IInv
<1> QED BY <1>1, <1>2, <1>3, Invariance, PTL DEF Spec
=============================================================================
