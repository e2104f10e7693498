------------------------- MODULE MCAgreementSigning -------------------------
(* Small instances of AgreementSigning for TLC. *)
EXTENDS AgreementSigning, TLC

CONSTANTS anna, ben, q1, q2, q3, none

\* Anna may ask twice (two tabs, or a retry), Ben once.
TwoTabs == q1 :> anna @@ q2 :> anna @@ q3 :> ben
Answers == q1 :> {"sign"} @@ q2 :> {"sign", "decline", "view"} @@ q3 :> {"sign", "decline", "view"}
=============================================================================
