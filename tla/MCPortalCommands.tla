-------------------------- MODULE MCPortalCommands --------------------------
(* Small instances of PortalCommands: two updates that carry a credential,   *)
(* then an operation (delivered twice) and a quota sync.                     *)
EXTENDS PortalCommands, TLC

CONSTANTS first, second, erase, quota

Kinds      == first :> "update" @@ second :> "update" @@ erase :> "operation" @@ quota :> "quota"
Order      == first :> 1 @@ second :> 2 @@ erase :> 3 @@ quota :> 4
Passwords  == first :> 1 @@ second :> 2 @@ erase :> 0 @@ quota :> 0
Deliveries == first :> 1 @@ second :> 1 @@ erase :> 2 @@ quota :> 1
=============================================================================
