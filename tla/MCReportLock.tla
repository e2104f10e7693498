---------------------------- MODULE MCReportLock ----------------------------
(* Small instances of ReportLock for TLC. *)
EXTENDS ReportLock, TLC

CONSTANTS c1, c2, e1, e2, f1, p1, p2
=============================================================================
