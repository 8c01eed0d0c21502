\* A cancelled request at the head of the queue and one behind it.
SPECIFICATION FairSpec
CONSTANTS
  Requests = {r1, r2}
  Cancellable = {r1}
  QueueCap = 1
  MaxTries = 2
  MaxForeign = 0
  MaxLate = 0
  Foreign = f
CHECK_DEADLOCK FALSE
PROPERTY EveryCallerReturns
