------------------------- MODULE MCSlotArbitration --------------------------
(* Small instances of SlotArbitration: three windows, of which the middle    *)
(* one collides with both others.                                            *)
EXTENDS SlotArbitration, TLC

CONSTANTS early, middle, late

From == early :> 0 @@ middle :> 1 @@ late :> 2
Hours == early :> 2 @@ middle :> 2 @@ late :> 2
Ids   == early :> 2 @@ middle :> 1 @@ late :> 3
=============================================================================
