\* One app, two environments in a group that somebody else locks, too; the user
\* clicks twice on the plan and applies twice, in any order with the
\* answers and the overviews.
SPECIFICATION FairSpec
CONSTANTS
  a1 = a1
  a2 = a2
  e1 = e1
  e2 = e2
  f1 = f1
  Apps = {a1}
  Envs = {e1, e2}
  Versions = {v1}
  Groups <- OneGroup
  ForeignApplies <- GroupOfAnother
  Reasons = {m2}
  Nothing = Nothing
  MaxActions = 2
  MaxApplies = 2
  MaxEdits = 2
INVARIANTS TypeOK OneActionPerTarget  
PROPERTY SpinnerEnds
