\* One application whose version Argo CD reports before the overview arrives.
SPECIFICATION Spec
CONSTANTS
  Keys = {k1}
  MaxVersion = 1
  Statuses <- JustSuccessful
  Clients = {}
  Refresher = refresher
  ChannelCap = 1
  Limit = 1
  MaxDeploys = 1
  MaxArgoEvents = 1
  MaxIncidents = 0
  Nil = nil
CHECK_DEADLOCK FALSE
PROPERTY NoNeedlessRefresh
