----------------------- MODULE MCResultsDocConnection -----------------------
(* Small instances of ResultsDocConnection for TLC.                          *)
EXTENDS ResultsDocConnection, TLC

CONSTANTS lead, helper, note

Alike == Permutations({lead, helper})
=============================================================================
