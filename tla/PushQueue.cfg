\* Two requests, of which one may be cancelled, foreign pushes, pushes that break,
\* are rejected or outlive their timeout: what answers promise, the order of
\* commits, and that every caller returns unless the worker is stuck.
SPECIFICATION FairSpec
CONSTANTS
  Requests = {r1, r2}
  Cancellable = {r1}
  QueueCap = 1
  MaxTries = 2
  MaxForeign = 2
  MaxLate = 1
  Foreign = f
CHECK_DEADLOCK FALSE
INVARIANTS TypeOK AnswersAreBacked AppliedInOrder NoRequestLost AnsweredOnce
  SuccessIsPushed AnsweredIsVisible
PROPERTY EveryRequestAnswered
