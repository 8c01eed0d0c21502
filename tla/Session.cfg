\* Two environments, two deployments and two reports about them; two accounts,
\* one retry of each stream in the life of a subscription.
SPECIFICATION FairSpec
CONSTANTS
  Envs = {e1, e2}
  Versions = {v1, v2}
  MaxRetries = 1
  MaxDeploys = 2
  MaxReports = 2
  MaxLogins = 2
  Nothing = Nothing
INVARIANTS TypeOK WithToken SuccessWasReported
PROPERTY IsFeed
