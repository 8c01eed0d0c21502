-------------------------------- MODULE Feed --------------------------------
(***************************************************************************)
(* What a page of the web UI promises about the overview: it shows one of   *)
(* the revisions that the server has had, moves only forward through them,  *)
(* and either reaches the newest or lets the user know that it cannot.      *)
(***************************************************************************)
EXTENDS Naturals

VARIABLES
  head,     \* the newest revision of the server
  shown,    \* the revision on the page
  stalled   \* the page says that it waits or is cut off

vars == <<head, shown, stalled>>

Init == head \in Nat /\ shown = 0 /\ stalled = TRUE

Commit == head' = head + 1 /\ UNCHANGED <<shown, stalled>>

Show ==
  /\ ~stalled
  /\ shown < head
  /\ shown' \in shown + 1 .. head
  /\ UNCHANGED <<head, stalled>>

\* The page loses its connection, or is connected again.
Stall == ~stalled /\ stalled' = TRUE /\ UNCHANGED <<head, shown>>
Resume == stalled /\ stalled' = FALSE /\ UNCHANGED <<head, shown>>

\* A reload of the page starts with nothing.
Reload == shown' = 0 /\ stalled' = TRUE /\ UNCHANGED head

Next == Commit \/ Show \/ Stall \/ Resume \/ Reload

Spec == Init /\ [][Next]_vars

FairSpec == Spec /\ WF_vars(Show)
=============================================================================
