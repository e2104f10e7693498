---------------------------- MODULE MCResultsDoc ----------------------------
(* Small instances of ResultsDoc for TLC. *)
EXTENDS ResultsDoc

CONSTANTS c1, c2, e1, e2, old, sib, k1, k2

\* Legacy content and the second edit sit under the key that an edited
\* template no longer has.
MCKeyOf == [f \in Fact |-> IF f \in {e2, old} THEN k2 ELSE k1]
=============================================================================
