-------------------------- MODULE MCPaymentLedger --------------------------
(* Small instances of PaymentLedger: an invoice of 2, a deposit of 1 that may*)
(* be delivered twice at a time, a card that pays the rest, an offline       *)
(* payment of 1, the correction of the card to 1, a refund of 2, QuickBooks  *)
(* reporting 1 or 2, the invoice raised and voided.                          *)
EXTENDS PaymentLedger, TLC

CONSTANTS deposit, again, card, cash, fix, cancel, part, full, bill, scrap

Asks == deposit :> "deposit" @@ again :> "deposit" @@ card :> "card" @@ cash :> "offline"
        @@ fix :> "correct" @@ cancel :> "refund" @@ part :> "sync" @@ full :> "sync" @@ bill :> "raise"
        @@ scrap :> "void"

Kinded  == [r \in Requests |-> Asks[r]]
Figures == [r \in Requests |-> CASE r \in {cancel, full} -> 2 [] OTHER -> 1]
Sets == {{deposit, card, cash, fix, cancel, bill}, {deposit, again, card, cancel, bill, scrap},
         {deposit, card, cash, part, full, bill}}

Refs    == [r \in Requests |-> CASE r = again -> deposit
                                 [] r = fix -> card
                                 [] OTHER -> r]
=============================================================================
