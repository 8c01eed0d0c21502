\* Two app locks of one "Apply" on one environment; the user deletes one of
\* them and follows the hint at the other.
SPECIFICATION Spec
CONSTANTS
  a1 = a1
  a2 = a2
  e1 = e1
  e2 = e2
  f1 = f1
  Apps = {a1, a2}
  Envs = {e1}
  Versions = {v1}
  Groups = {}
  ForeignApplies <- TwoOfOneApply
  Reasons = {m2}
  Nothing = Nothing
  MaxActions = 3
  MaxApplies = 1
  MaxEdits = 2
PROPERTY AllSimilarArePlanned
