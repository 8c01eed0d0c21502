-------------------------------- MODULE Cart --------------------------------
(***************************************************************************)
(* The planned actions of the web UI: store.tsx keeps them, the pages add   *)
(* to them (environment and release cards, lock lists, the menu of a        *)
(* service lane), the side bar shows them and sends them as one batch.      *)
(*                                                                          *)
(* The confirmation of the batch covers the page: while it is open nothing  *)
(* behind it can be clicked, but overviews and answers of the server still  *)
(* arrive.  A selection of environments covers nothing, lies above whatever *)
(* covers the page, and every lane has its own: it can be used at any time. *)
(* The spinner of a submission only shades the page: the user goes on       *)
(* planning and can apply again.                                            *)
(***************************************************************************)
EXTENDS Naturals, FiniteSets, Sequences, SequencesExt

CONSTANTS
  Apps, Envs, Versions,
  Groups,        \* environment groups: the sequences of their environments
  ForeignApplies,\* sets of locks that others make, each with one "Apply", and delete
  Reasons,       \* what a user types as lock message
  Nothing,       \* an empty string, a field an action does not have
  MaxActions,    \* maxBatchActions, 100 in the code
  MaxApplies,    \* bound on the batches sent
  MaxEdits       \* bound on the clicks that change the plan

ASSUME CartAssumption ==
  /\ MaxActions \in Nat \ {0} /\ MaxApplies \in Nat /\ MaxEdits \in Nat
  /\ Groups \subseteq Seq(Envs)
  /\ Nothing \notin Reasons
  /\ IsFiniteSet(UNION ForeignApplies)
  /\ \A l \in UNION ForeignApplies : l.environment \in Envs /\ l.application \in Apps \cup {Nothing}

VARIABLES
  actions,    \* UpdateAction: the cart
  message,    \* SideBar.lockMessage
  dialog,     \* SideBar.dialogState.showConfirmationDialog
  spinner,    \* SideBar.showSpinner
  inFlight,   \* calls of ProcessBatch without an answer
  applies,    \* batches sent so far; the number of one is its random lock id
  serverLocks,\* the locks of the manifest repository
  locks,      \* the locks in the overview
  selection,  \* EnvSelectionDialog of each app's lane: Closed, or selectedEnvs
  reviewed,   \* the cart when the dialog opened (history)
  beside,     \* apps whose selection was open at that time (history)
  edits       \* clicks so far (bound)

vars == <<actions, message, dialog, spinner, inFlight, applies, serverLocks, locks, selection, reviewed, beside, edits>>
cartVars == <<message, dialog, spinner, inFlight, applies, serverLocks, locks, reviewed, beside>>

Closed == Nothing

-----------------------------------------------------------------------------
(* Actions and locks *)

Blank == [kind |-> "", environment |-> Nothing, application |-> Nothing, version |-> Nothing, lockId |-> Nothing, message |-> Nothing]

CreateEnvironmentLock(e) == [Blank EXCEPT !.kind = "createEnvironmentLock", !.environment = e]
CreateApplicationLock(a, e) == [Blank EXCEPT !.kind = "createEnvironmentApplicationLock", !.environment = e, !.application = a]
Deploy(a, e, v) == [Blank EXCEPT !.kind = "deploy", !.environment = e, !.application = a, !.version = v]

\* The planned deletion of a lock, of an environment or of an application.
DeleteLock(l) ==
  [Blank EXCEPT !.kind = IF l.application = Nothing THEN "deleteEnvironmentLock" ELSE "deleteEnvironmentApplicationLock",
                !.environment = l.environment, !.application = l.application, !.lockId = l.lockId]

LockCreations == {"createEnvironmentLock", "createEnvironmentApplicationLock"}
LockDeletions == {"deleteEnvironmentLock", "deleteEnvironmentApplicationLock"}

Kinds == LockCreations \cup LockDeletions \cup {"deploy", "undeploy", "prepareUndeploy", "deleteEnvFromApp"}
Creates(a) == a.kind \in LockCreations
Deletes(a) == a.kind \in LockDeletions

EnvironmentLocks(S) == {l \in S : l.application = Nothing}
ApplicationLocks(S) == {l \in S : l.application # Nothing}

\* The lock a planned deletion names.
Names(a, l) == l.lockId = a.lockId /\ l.application = a.application /\ l.environment = a.environment

\* The locks with the id of a planned deletion that are not in the cart yet.
SimilarLocks(a) ==
  IF ~Deletes(a) THEN {}
  ELSE {l \in locks : l.lockId = a.lockId /\ ~\E b \in ToSet(actions) : Deletes(b) /\ Names(b, l)}

-----------------------------------------------------------------------------
(* Adding to the cart *)

\* What makes two actions of one kind the same to the check for duplicates.
ComparedFields ==
  [createEnvironmentLock |-> {"environment"},
   deleteEnvironmentLock |-> {"environment", "lockId"},
   createEnvironmentApplicationLock |-> {"application", "environment"},
   deleteEnvironmentApplicationLock |-> {"environment", "lockId"},
   deploy |-> {"application", "environment"},
   undeploy |-> {"application"},
   prepareUndeploy |-> {"application"}]

\* Mutant: all fields are compared, the lock id of a refused batch among them.
DuplicatesInAll(b, a) == b = a

Duplicates(b, a) ==
  /\ b.kind = a.kind /\ a.kind \in DOMAIN ComparedFields
  /\ \A f \in ComparedFields[a.kind] : b[f] = a[f]

\* Mutant: the limit is compared with the actions that are there already.
AddOneMore(cart, a) ==
  IF Len(cart) > MaxActions \/ \E b \in ToSet(cart) : Duplicates(b, a) THEN cart ELSE Append(cart, a)

AddTo(cart, a) ==
  IF Len(cart) + 1 > MaxActions \/ \E b \in ToSet(cart) : Duplicates(b, a) THEN cart ELSE Append(cart, a)

\* A list filtered for what is not x.
Without(list, x) == FoldLeft(LAMBDA kept, y : IF y = x THEN kept ELSE Append(kept, y), <<>>, list)

\* Mutant: a confirmation that leaves the page as it is.
ClickableBehind == TRUE

\* Nothing behind the confirmation can be clicked while it is open.
Clickable == ~dialog

\* A click on the page, which changes the plan.
Click == Clickable /\ edits < MaxEdits /\ edits' = edits + 1

AddActions(planned) ==
  /\ Click
  /\ actions' = FoldLeft(AddTo, actions, planned)
  /\ UNCHANGED <<cartVars, selection>>

AddEnvironmentLock(e) == AddActions(<<CreateEnvironmentLock(e)>>)

AddGroupLock(g) == AddActions([i \in DOMAIN g |-> CreateEnvironmentLock(g[i])])

\* The lock symbols of an environment; those of an app in the dialog of a release.
\* The lists of locks have both.
DeleteEnvironmentLock(l) == l.application = Nothing /\ AddActions(<<DeleteLock(l)>>)
DeleteAppLock(l) == l.application # Nothing /\ AddActions(<<DeleteLock(l)>>)

AddApplicationLock(a, e) == AddActions(<<CreateApplicationLock(a, e)>>)

DeployAndLock(a, e, v) == AddActions(<<Deploy(a, e, v), CreateApplicationLock(a, e)>>)

\* The menu of a lane: what is offered depends on the app's undeploySummary.
PrepareUndeployOrUndeploy(a) ==
  \E kind \in {"prepareUndeploy", "undeploy"} : AddActions(<<[Blank EXCEPT !.kind = kind, !.application = a]>>)

-----------------------------------------------------------------------------
(* Removing an app from environments *)

OpenSelection(a) ==
  /\ Clickable /\ selection[a] = Closed
  /\ selection' = [selection EXCEPT ![a] = <<>>]
  /\ UNCHANGED <<cartVars, actions, edits>>

\* The check boxes are for the environments that the app exists on, which may
\* be others with every overview; a selected one that has left stays selected.
ToggleEnv(a, e) ==
  /\ selection[a] # Closed
  /\ selection' = [selection EXCEPT ![a] = IF Contains(@, e) THEN RemoveFirst(@, e) ELSE Append(@, e)]
  /\ UNCHANGED <<cartVars, actions, edits>>

\* Also where the lane leaves the page, by another page or by the overview.
CancelSelection(a) ==
  /\ selection[a] # Closed
  /\ selection' = [selection EXCEPT ![a] = Closed]
  /\ UNCHANGED <<cartVars, actions, edits>>

Removal(a, e) == [Blank EXCEPT !.kind = "deleteEnvFromApp", !.application = a, !.environment = e]

\* As many selected as there are check boxes: refused, with a hint.
ConfirmSelection(a, existsAt) ==
  /\ selection[a] # Closed /\ edits < MaxEdits
  /\ LET picked == selection[a]
     IN actions' = IF Len(picked) = Cardinality(existsAt) THEN actions
                   ELSE FoldLeft(AddTo, actions, [i \in DOMAIN picked |-> Removal(a, picked[i])])
  /\ selection' = [selection EXCEPT ![a] = Closed]
  /\ edits' = edits + 1
  /\ UNCHANGED cartVars

-----------------------------------------------------------------------------
(* The side bar *)

\* The bin of an item: every action that equals it goes.
DeleteItem(i) ==
  /\ Click
  /\ actions' = Without(actions, actions[i])
  /\ UNCHANGED <<cartVars, selection>>

\* "Delete them all": app locks first, then environment locks.
DeleteThemAll(i) ==
  /\ SimilarLocks(actions[i]) # {}
  /\ \E apps \in SetToSeqs(ApplicationLocks(SimilarLocks(actions[i]))) :
     \E envs \in SetToSeqs(EnvironmentLocks(SimilarLocks(actions[i]))) :
       LET all == apps \o envs IN AddActions([n \in DOMAIN all |-> DeleteLock(all[n])])

NewLockExists == \E a \in ToSet(actions) : Creates(a)

UpdateMessage(m) ==
  /\ Clickable /\ NewLockExists
  /\ message' = m
  /\ UNCHANGED <<actions, dialog, spinner, inFlight, applies, serverLocks, locks, selection, reviewed, beside, edits>>

CanApply == actions # <<>> /\ (NewLockExists => message # Nothing)

ShowDialog ==
  /\ Clickable /\ CanApply
  /\ dialog' = TRUE
  /\ reviewed' = actions /\ beside' = {a \in Apps : selection[a] # Closed}
  /\ UNCHANGED <<actions, message, spinner, inFlight, applies, serverLocks, locks, selection, edits>>

CancelConfirmation ==
  /\ dialog
  /\ dialog' = FALSE
  /\ reviewed' = <<>> /\ beside' = {}
  /\ UNCHANGED <<actions, message, spinner, inFlight, applies, serverLocks, locks, selection, edits>>

\* Mutant: a lock that has an id keeps it.
StampedOnce(a) ==
  IF Creates(a) /\ a.lockId = Nothing
  THEN [a EXCEPT !.lockId = applies + 1, !.message = IF message # Nothing THEN message ELSE @]
  ELSE a

\* Message and lock id are written into the actions of the cart, which keeps
\* them until the answer.
Stamped(a) ==
  IF Creates(a)
  THEN [a EXCEPT !.lockId = applies + 1, !.message = IF message # Nothing THEN message ELSE @]
  ELSE a

\* The confirmation.  The side bar is only there once authReady is true, which
\* it stays.
ApplyActions ==
  /\ dialog /\ applies < MaxApplies
  /\ actions' = [i \in DOMAIN actions |-> Stamped(actions[i])]
  /\ inFlight' = inFlight \cup {[id |-> applies + 1, actions |-> actions', applied |-> FALSE]}
  /\ applies' = applies + 1
  /\ spinner' = TRUE
  /\ message' = Nothing
  /\ dialog' = FALSE
  /\ reviewed' = <<>> /\ beside' = {}
  /\ UNCHANGED <<serverLocks, locks, selection, edits>>

\* Mutant: the spinner is turned off in "then", not in "finally".
FailedStillSpinning(r) ==
  /\ inFlight' = inFlight \ {r}
  /\ UNCHANGED <<actions, message, dialog, spinner, applies, serverLocks, locks, selection, reviewed, beside, edits>>

\* An answer: a success empties the cart, an error leaves it for another try.
BatchSucceeded(r) ==
  /\ r.applied
  /\ inFlight' = inFlight \ {r}
  /\ actions' = <<>>
  /\ spinner' = FALSE
  /\ UNCHANGED <<message, dialog, applies, serverLocks, locks, selection, reviewed, beside, edits>>

\* The batch was refused, or it was applied and its answer lost.
BatchFailed(r) ==
  /\ inFlight' = inFlight \ {r}
  /\ spinner' = FALSE
  /\ UNCHANGED <<actions, message, dialog, applies, serverLocks, locks, selection, reviewed, beside, edits>>

-----------------------------------------------------------------------------
(* The server, seen from the UI *)

LockStep(S, a) ==
  IF Deletes(a) THEN {l \in S : ~Names(a, l)}
  ELSE IF Creates(a)
       THEN S \cup {[environment |-> a.environment, application |-> a.application, lockId |-> a.lockId]}
       ELSE S

\* A batch is applied as a whole.
ServerApplies(r) ==
  /\ ~r.applied
  /\ serverLocks' = FoldLeft(LockStep, serverLocks, r.actions)
  /\ inFlight' = (inFlight \ {r}) \cup {[r EXCEPT !.applied = TRUE]}
  /\ UNCHANGED <<actions, message, dialog, spinner, applies, locks, selection, reviewed, beside, edits>>

\* Others lock, with one lock id, and unlock.
OthersChange(L) ==
  /\ serverLocks' = IF L \subseteq serverLocks THEN serverLocks \ L ELSE serverLocks \cup L
  /\ UNCHANGED <<actions, message, dialog, spinner, inFlight, applies, locks, selection, reviewed, beside, edits>>

OverviewArrives ==
  /\ locks' = serverLocks
  /\ UNCHANGED <<actions, message, dialog, spinner, inFlight, applies, serverLocks, selection, reviewed, beside, edits>>

-----------------------------------------------------------------------------

Init ==
  /\ actions = <<>> /\ reviewed = <<>> /\ beside = {}
  /\ message = Nothing
  /\ dialog = FALSE /\ spinner = FALSE
  /\ inFlight = {} /\ applies = 0
  /\ serverLocks \in {UNION S : S \in SUBSET ForeignApplies} /\ locks = serverLocks
  /\ selection = [a \in Apps |-> Closed]
  /\ edits = 0

Plan ==
  \/ \E e \in Envs : AddEnvironmentLock(e)
  \/ \E g \in Groups : AddGroupLock(g)
  \/ \E l \in locks : DeleteEnvironmentLock(l)
  \/ \E l \in locks : DeleteAppLock(l)
  \/ \E a \in Apps, e \in Envs : AddApplicationLock(a, e)
  \/ \E a \in Apps, e \in Envs, v \in Versions : DeployAndLock(a, e, v)
  \/ \E a \in Apps : PrepareUndeployOrUndeploy(a)
  \/ \E a \in Apps : OpenSelection(a)
  \/ \E a \in Apps, e \in Envs : ToggleEnv(a, e)
  \/ \E a \in Apps : CancelSelection(a)
  \/ \E a \in Apps, existsAt \in SUBSET Envs : ConfirmSelection(a, existsAt)
  \/ \E i \in DOMAIN actions : DeleteItem(i)
  \/ \E i \in DOMAIN actions : DeleteThemAll(i)

Answers == \E r \in inFlight : BatchSucceeded(r) \/ BatchFailed(r)

Next ==
  \/ Plan
  \/ \E m \in Reasons \cup {Nothing} : UpdateMessage(m)
  \/ ShowDialog
  \/ CancelConfirmation
  \/ ApplyActions
  \/ Answers
  \/ \E r \in inFlight : ServerApplies(r)
  \/ \E L \in ForeignApplies : OthersChange(L)
  \/ OverviewArrives

Spec == Init /\ [][Next]_vars

\* A call of ProcessBatch ends, if only with a timeout.
FairSpec == Spec /\ WF_vars(Answers)

-----------------------------------------------------------------------------
(* Properties *)

PlannedAction ==
  [kind : Kinds, environment : Envs \cup {Nothing}, application : Apps \cup {Nothing},
   version : Versions \cup {Nothing},
   lockId : (1 .. MaxApplies) \cup {Nothing} \cup {l.lockId : l \in UNION ForeignApplies},
   message : Reasons \cup {Nothing}]

Lock ==
  (UNION ForeignApplies) \cup
  [environment : Envs, application : Apps \cup {Nothing}, lockId : 1 .. MaxApplies]

Plans == {plan \in Seq(PlannedAction) : Len(plan) <= MaxActions}

Batch == [id : 1 .. MaxApplies, actions : Plans, applied : BOOLEAN]

\* The types of the variables; no cart and no batch exceeds the limit that the
\* batch service sets.
TypeOK ==
  /\ actions \in Plans /\ reviewed \in Plans
  /\ message \in Reasons \cup {Nothing}
  /\ dialog \in BOOLEAN /\ spinner \in BOOLEAN
  /\ inFlight \subseteq Batch /\ \A r \in inFlight : r.id <= applies
  /\ applies \in 0 .. MaxApplies /\ edits \in 0 .. MaxEdits
  /\ serverLocks \subseteq Lock /\ locks \subseteq Lock
  /\ selection \in [Apps -> Seq(Envs) \cup {Closed}] /\ beside \subseteq Apps

\* No batch deploys an app twice to an environment, whose manifests the server
\* would write behind one another, nor locks anything twice under its one lock
\* id: however the clicks, the answers and the overviews fall.
OneActionPerTarget ==
  \A plan \in {actions} \cup {r.actions : r \in inFlight} : \A i, j \in DOMAIN plan :
    /\ i # j /\ plan[i].kind = plan[j].kind
    /\ plan[i].environment = plan[j].environment /\ plan[i].application = plan[j].application
    => plan[i].kind \in LockDeletions \cup {"deleteEnvFromApp"}

\* Every lock that is sent has a reason, and the lock id of its own batch: what
\* an earlier, refused batch wrote into the actions of the cart never leaves
\* with a later one.  The hint at similar locks relies on it.
LocksOfOneApply ==
  \A r \in inFlight : \A a \in ToSet(r.actions) : Creates(a) => a.lockId = r.id /\ a.message # Nothing

\* What is confirmed is what stood in the cart when the confirmation opened, or
\* nothing of it when the answer to an earlier batch has emptied the cart since;
\* and behind that the removals of apps whose selection of environments lay
\* open beside the confirmation, the one thing that changes the plan under it.
ConfirmedIsReviewed ==
  dialog => \E plan \in {reviewed, <<>>} :
    /\ IsPrefix(plan, actions)
    /\ \A i \in Len(plan) + 1 .. Len(actions) :
         actions[i].kind = "deleteEnvFromApp" /\ actions[i].application \in beside

\* A submission does not shade the page for ever, whatever becomes of it and of
\* others that share the one flag.
SpinnerEnds == spinner ~> ~spinner

\* "Delete them all!" plans the deletion of every similar lock, unless the cart
\* is full.
AllSimilarArePlanned ==
  [][\A i \in DOMAIN actions : DeleteThemAll(i) =>
       \/ Len(actions') = MaxActions
       \/ \A l \in SimilarLocks(actions[i]) : \E b \in ToSet(actions') : Deletes(b) /\ Names(b, l)]_vars
=============================================================================
