------------------------------- MODULE MCPages -------------------------------
(* Small instances of Pages for TLC. *)
EXTENDS Pages

CONSTANTS e1, e2, e3, t1, t2, t1t2

OneAndTwo == <<{e1}, {e2, e3}>>

NothingFound(text) == {}

\* The name t1t2 has a comma between t1 and t2.
Entries == {t1, t2, NoTeam}
AtCommas(t) == IF t = t1t2 THEN <<t1, t2>> ELSE <<t>>
=============================================================================
