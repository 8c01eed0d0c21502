------------------------------- MODULE MCCart -------------------------------
(* Small instances of Cart for TLC. *)
EXTENDS Cart, TLC

CONSTANTS a1, a2, e1, e2, f1

Locks(environment, application, lockId) ==
  [environment |-> environment, application |-> application, lockId |-> lockId]

OneGroup == {<<e1, e2>>}

\* A group that somebody else locks.
GroupOfAnother == {{Locks(e, Nothing, f1) : e \in {e1, e2}}}

\* Two app locks on one environment, made with one "Apply".
TwoOfOneApply == {{Locks(e1, a, f1) : a \in {a1, a2}}}
=============================================================================
