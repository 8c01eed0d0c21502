-------------------------------- MODULE Pages --------------------------------
(***************************************************************************)
(* What the pages of the web UI derive from an overview and from the URL:   *)
(* the lanes of the home page with their release cards, the history of an   *)
(* app, and the dialog of a release.  The URL holds the page and the search *)
(* parameters: an application name, teams, and the release of the dialog.   *)
(* They outlive what they name: an overview that arrives can take away an   *)
(* app, a release or a team, and bring it back.                             *)
(***************************************************************************)
EXTENDS Integers, SequencesExt

CONSTANTS
  Apps,
  Teams,         \* the teams of apps, without the missing one
  Envs,
  Groups,        \* environmentGroups: for each the set of its environments
  MaxVersion,    \* bound on the versions
  Displayed,     \* numberOfDisplayedReleasesOnHome, 6 in the code
  Searches,      \* what a user types as application name
  Hits(_),       \* the apps whose names contain it
  Texts,         \* the entries that the search parameter of the teams can have
  Split(_),      \* a team's name, split at its commas
  MaxSelected,   \* bound on those entries
  Nothing        \* an empty string, a field that is not there

NoTeam == "<No Team>"

\* A part of a name between two commas is not empty.
ASSUME PagesAssumption ==
  /\ MaxVersion \in Nat \ {0} /\ Displayed \in Nat \ {0} /\ MaxSelected \in Nat
  /\ IsFiniteSet(Envs) /\ Groups \in Seq(SUBSET Envs)
  /\ Nothing \notin Nat /\ Nothing \notin Texts
  /\ \A t \in Teams \cup {NoTeam} : Split(t) \in Seq(Texts)

VARIABLES
  releases,     \* overview: the versions of each app, none for an app it does not have
  deployed,     \* overview: applications[app].version of each environment
  team,         \* overview: the team of each app, trimmed
  page,         \* the path: "home", "environments", "locks", or the app of a history
  application,  \* search parameter: the text in the search field
  teams,        \* search parameter: the selected teams, joined by commas and split at them
  dialog        \* search parameters dialog-app and dialog-version

overview == <<releases, deployed, team>>
url == <<page, application, teams, dialog>>
vars == <<overview, url>>

Versions == 1 .. MaxVersion

\* No version is deployed, on an environment that knows the app for its locks or
\* its queue.
NotDeployed == 0

-----------------------------------------------------------------------------
(* The cards of a lane *)

\* JavaScript's findIndex and slice, which count from 0.
FindIndex(s, x) == SelectInSeq(s, LAMBDA y : y = x) - 1
Slice(s, from, to) == SubSeq(s, from + 1, Min({to, Len(s)}))

\* The versions sorted, the highest first: that at i has i - 1 above it.
Descending(S) == [i \in 1 .. Cardinality(S) |-> CHOOSE v \in S : Cardinality({w \in S : w > v}) = i - 1]

VersionsForApp(a) == Descending(releases[a])

DeployedReleases(a) == Descending({deployed[a][e] : e \in Envs} \ {Nothing, NotDeployed})

\* Mutant: the latest release is shown only where it is deployed.
DeployedAreImportant(running, all) == IF running = <<>> THEN <<all[1]>> ELSE running

\* The deployed releases, and the latest.
ImportantReleases(running, all) == IF Contains(running, all[1]) THEN running ELSE <<all[1]>> \o running

\* Mutant: never more cards than there is room for.
ReleasesThatFit(running, all) ==
  LET important == ImportantReleases(running, all)
      oldest == FindIndex(all, Last(important))
      cards == important \o Slice(all, oldest + 1, oldest + (Displayed - Len(important)) + 1)
  IN SubSeq(cards, 1, Min({Displayed, Len(cards)}))

\* The important releases, and those that follow the oldest of them.
ReleasesToDisplay(running, all) ==
  LET important == ImportantReleases(running, all)
      oldest == FindIndex(all, Last(important))
      trailing == Displayed - Len(important)
  IN important \o Slice(all, oldest + 1, oldest + trailing + 1)

Cards(a) == ReleasesToDisplay(DeployedReleases(a), VersionsForApp(a))

NumberOfReleasesBetween(all, higher, lower) == FindIndex(all, lower) - FindIndex(all, higher) - 1

\* The number of hidden releases that is shown behind the i-th card.
Diff(a, i) ==
  LET all == VersionsForApp(a) IN
  IF i < Len(Cards(a)) THEN NumberOfReleasesBetween(all, Cards(a)[i], Cards(a)[i + 1])
  ELSE NumberOfReleasesBetween(all, Cards(a)[i], Last(all)) + 1

\* The groups that have environments with version v of the app, by number.
DeployedAtGroups(a, v) ==
  LET running(i) == {e \in Groups[i] : deployed[a][e] = v} IN
  [i \in {j \in DOMAIN Groups : running(j) # {}} |->
    [environments |-> running(i), numberOfEnvsInGroup |-> Cardinality(Groups[i])]]

\* A chip bears the name of the group and how many of its environments it stands
\* for, "(2/3)", or the name of the only one, "(1/3)".
EnvironmentGroupChip(g) ==
  IF Cardinality(g.environments) >= 2
  THEN [group |-> TRUE, deployed |-> Cardinality(g.environments), total |-> g.numberOfEnvsInGroup]
  ELSE [group |-> FALSE, deployed |-> 1, total |-> g.numberOfEnvsInGroup]

\* The chips of a card.
Chips(a, v) == [i \in DOMAIN DeployedAtGroups(a, v) |-> EnvironmentGroupChip(DeployedAtGroups(a, v)[i])]

-----------------------------------------------------------------------------
(* The pages *)

Known == {a \in Apps : releases[a] # {}}

TeamOf(a) == IF team[a] = Nothing THEN NoTeam ELSE team[a]

\* What the drop-down offers.
TeamNames == {TeamOf(a) : a \in Known}

\* Without a selection there is no filter.
FilteredApps(selected) == {a \in Known : selected = <<>> \/ Contains(selected, TeamOf(a))}

SearchedApplications(apps, text) == {a \in apps : text = Nothing \/ a \in Hits(text)}

\* The lanes of the home page.
Lanes == IF page = "home" THEN SearchedApplications(FilteredApps(teams), application) ELSE {}

\* The release cards of the page that is open.
ShownReleases ==
  (UNION {{[app |-> a, version |-> v] : v \in Range(Cards(a))} : a \in Lanes})
  \cup {[app |-> a, version |-> v] : a \in {page} \cap Apps, v \in IF page \in Apps THEN releases[page] ELSE {}}

\* Mutant: what the URL says is shown.
DialogUnchecked == dialog

\* The dialog that is shown: the one of the URL, if its release exists.
ReleaseDialogParams ==
  IF dialog # Nothing /\ dialog.version \in releases[dialog.app] THEN dialog ELSE Nothing

ReleaseOptional(a, e) == IF deployed[a][e] \in releases[a] THEN deployed[a][e] ELSE Nothing

\* What a row of the dialog says is deployed on its environment.
DeployedVersion(a, e) == IF deployed[a][e] = Nothing THEN Nothing ELSE ReleaseOptional(a, e)

EnvironmentList(a) == [e \in Envs |-> DeployedVersion(a, e)]

-----------------------------------------------------------------------------
(* The user *)

\* Nothing but the dialog can be clicked while it is shown.
Clickable == ReleaseDialogParams = Nothing

\* The navigation bar, and "View History" of a lane.  The search parameters stay.
Navigate(p) ==
  /\ Clickable
  /\ p \in {"home", "environments", "locks"} \cup Lanes
  /\ page' = p
  /\ UNCHANGED <<overview, application, teams, dialog>>

Search(text) ==
  /\ Clickable
  /\ application' = text
  /\ UNCHANGED <<overview, page, teams, dialog>>

\* Mutant: the empty entry is kept among the selected teams.
ToggledBesideNothing(t) == IF Contains(teams, t) THEN RemoveFirst(teams, t) ELSE teams \o <<Nothing>> \o Split(t)

\* The selected teams after a click on an entry of the drop-down.  The URL holds
\* the names with commas between them, so a name that has a comma comes back as
\* several entries, and is never found among them.
Toggled(t) == IF Contains(teams, t) THEN RemoveFirst(teams, t) ELSE teams \o Split(t)

\* An entry of the drop-down.  A selected team that no app has any more is not
\* offered, and stays selected.
SelectTeam(t) ==
  /\ Clickable /\ t \in TeamNames
  /\ Len(Toggled(t)) <= MaxSelected
  /\ teams' = Toggled(t)
  /\ UNCHANGED <<overview, page, application, dialog>>

ClearTeams ==
  /\ Clickable
  /\ teams' = <<>>
  /\ UNCHANGED <<overview, page, application, dialog>>

OpenReleaseDialog(r) ==
  /\ Clickable /\ r \in ShownReleases
  /\ dialog' = r
  /\ UNCHANGED <<overview, page, application, teams>>

CloseReleaseDialog ==
  /\ ReleaseDialogParams # Nothing
  /\ dialog' = Nothing
  /\ UNCHANGED <<overview, page, application, teams>>

-----------------------------------------------------------------------------
(* The manifest repository, as its overviews show it *)

\* A release of a new app or of a known one, out of order perhaps.
CreateRelease(a, v, t) ==
  /\ v \notin releases[a]
  /\ releases[a] # {} => \E w \in releases[a] : w < v
  /\ releases' = [releases EXCEPT ![a] = @ \cup {v}]
  /\ team' = [team EXCEPT ![a] = IF t = Nothing THEN @ ELSE t]
  /\ UNCHANGED <<deployed, url>>

Deploy(a, e, v) ==
  /\ v \in releases[a]
  /\ deployed' = [deployed EXCEPT ![a][e] = v]
  /\ UNCHANGED <<releases, team, url>>

\* A lock or a queued version, on an environment without the app.
LockOrQueue(a, e) ==
  /\ deployed[a][e] = Nothing
  /\ deployed' = [deployed EXCEPT ![a][e] = NotDeployed]
  /\ UNCHANGED <<releases, team, url>>

RemoveEnvironment(a, e) ==
  /\ deployed[a][e] # Nothing
  /\ deployed' = [deployed EXCEPT ![a][e] = Nothing]
  /\ UNCHANGED <<releases, team, url>>

\* A clean-up takes releases older than all that are deployed, never the latest.
Cleanup(a, v) ==
  /\ v \in releases[a] /\ v # Max(releases[a])
  /\ \A e \in Envs : deployed[a][e] \notin {Nothing, NotDeployed} => v < deployed[a][e]
  /\ releases' = [releases EXCEPT ![a] = @ \ {v}]
  /\ UNCHANGED <<deployed, team, url>>

UndeployApplication(a) ==
  /\ a \in Known
  /\ releases' = [releases EXCEPT ![a] = {}]
  /\ deployed' = [deployed EXCEPT ![a] = [e \in Envs |-> Nothing]]
  /\ team' = [team EXCEPT ![a] = Nothing]
  /\ UNCHANGED url

-----------------------------------------------------------------------------

\* The start page, without search parameters.
Init ==
  /\ releases = [a \in Apps |-> {}]
  /\ deployed = [a \in Apps |-> [e \in Envs |-> Nothing]]
  /\ team = [a \in Apps |-> Nothing]
  /\ page = "home"
  /\ application = Nothing
  /\ teams = <<>>
  /\ dialog = Nothing

User ==
  \/ \E p \in {"home", "environments", "locks"} \cup Apps : Navigate(p)
  \/ \E text \in Searches \cup {Nothing} : Search(text)
  \/ \E t \in TeamNames : SelectTeam(t)
  \/ ClearTeams
  \/ \E r \in ShownReleases : OpenReleaseDialog(r)
  \/ CloseReleaseDialog

OverviewArrives ==
  \/ \E a \in Apps, v \in Versions, t \in Teams \cup {Nothing} : CreateRelease(a, v, t)
  \/ \E a \in Apps, e \in Envs, v \in Versions : Deploy(a, e, v)
  \/ \E a \in Apps, e \in Envs : LockOrQueue(a, e)
  \/ \E a \in Apps, e \in Envs : RemoveEnvironment(a, e)
  \/ \E a \in Apps, v \in Versions : Cleanup(a, v)
  \/ \E a \in Apps : UndeployApplication(a)

Next == User \/ OverviewArrives

Spec == Init /\ [][Next]_vars

-----------------------------------------------------------------------------
(* Properties *)

\* The types of the variables.  A selected team may have gone, but it is never
\* the empty text that the parameter yields when nothing is selected.
TypeOK ==
  /\ releases \in [Apps -> SUBSET Versions]
  /\ deployed \in [Apps -> [Envs -> Versions \cup {NotDeployed, Nothing}]]
  /\ team \in [Apps -> Teams \cup {Nothing}]
  /\ page \in {"home", "environments", "locks"} \cup Apps
  /\ application \in Searches \cup {Nothing}
  /\ teams \in Seq(Texts) /\ Len(teams) <= MaxSelected
  /\ dialog \in [app : Apps, version : Versions] \cup {Nothing}

\* No page throws for a release that it cannot find: what a card, a row of the
\* history or the dialog shows is in the overview, whatever an overview has taken
\* away and however old the URL is.  And the dialog names the version of every
\* environment that has one.
ReleasesAreFound ==
  \A r \in ShownReleases \cup ({ReleaseDialogParams} \ {Nothing}) :
    /\ r.version \in releases[r.app]
    /\ \A e \in Envs : deployed[r.app][e] \in {EnvironmentList(r.app)[e], NotDeployed, Nothing}

\* The cards of a lane and the numbers between and behind them account for every
\* release of the app, in order.
HiddenAddUp ==
  \A a \in Lanes :
    /\ \A i \in DOMAIN Cards(a) : Diff(a, i) >= 0
    /\ Len(Cards(a)) + SumFunction([i \in DOMAIN Cards(a) |-> Diff(a, i)]) = Cardinality(releases[a])

\* The numbers on the chips of a lane add up to the environments of each group
\* that run the app: every deployment is on one card, even if there are more
\* versions deployed than the lane has room for.  The lane is where a forgotten
\* environment would be missed.
DeploymentsAreShown ==
  \A a \in Lanes, i \in DOMAIN Groups :
    LET number(v) == IF i \in DOMAIN Chips(a, v) THEN Chips(a, v)[i].deployed ELSE 0 IN
    SumFunction([c \in DOMAIN Cards(a) |-> number(Cards(a)[c])])
      = Cardinality({e \in Groups[i] : deployed[a][e] \notin {Nothing, NotDeployed}})
=============================================================================
