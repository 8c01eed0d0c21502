\* One app of no team, of a team, or of one whose name has a comma; an
\* environment and a group of two, up to four versions in lanes that have room
\* for two; a search that finds nothing.
SPECIFICATION Spec
CONSTANTS
  e1 = e1
  e2 = e2
  e3 = e3
  Apps = {a1}
  t1 = t1
  t2 = t2
  t1t2 = t1t2
  Teams = {t1, t1t2}
  Texts <- Entries
  Split <- AtCommas
  MaxSelected = 3
  Envs = {e1, e2, e3}
  Groups <- OneAndTwo
  MaxVersion = 4
  Displayed = 2
  Searches = {s1}
  Hits <- NothingFound
  Nothing = Nothing
INVARIANTS TypeOK ReleasesAreFound HiddenAddUp DeploymentsAreShown
