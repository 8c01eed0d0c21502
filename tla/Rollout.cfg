\* Two applications, a client, a channel for one event, and one refresh at a time.
SPECIFICATION FairSpec
CONSTANTS
  Keys = {k1, k2}
  MaxVersion = 1
  Statuses <- JustSuccessful
  Clients = {c1}
  Refresher = refresher
  ChannelCap = 1
  Limit = 1
  MaxDeploys = 2
  MaxArgoEvents = 1
  MaxIncidents = 1
  Nil = nil
CHECK_DEADLOCK FALSE
INVARIANTS TypeOK ListenersKnowTheState BroadcastFollowsOverview
PROPERTY EveryVersionIsRefreshed
