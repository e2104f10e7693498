--------------------------- MODULE PaymentLedger ---------------------------
(***************************************************************************)
(* The money of one order: the payments ledger (payment-ledger.service.ts),*)
(* the invoice columns and the report gate derived from it, and the        *)
(* requests that append to it: booking deposits and card settlements from  *)
(* Stripe, offline payments, corrections, cancellation refunds, figures    *)
(* reported by QuickBooks, and the raising and voiding of the invoice.     *)
(*                                                                         *)
(* A request is a sequence of statements, each an action here; requests    *)
(* interleave between them.  The order has at most one invoice, raised     *)
(* after the ledger was introduced and worth something.                    *)
(***************************************************************************)
EXTENDS Integers, FiniteSets, FiniteSetsExt

CONSTANTS
    Requests,
    Kind,       \* what each request asks
    Amount,     \* the figure it carries
    Ref,        \* the reference of a deposit; the payment a correction is about
    Total,      \* the total of the invoice
    Batches,    \* the sets of requests that are made of one order
    MaxOpen,    \* requests on their way at one time
    MaxFaults   \* failed or repeated deliveries

Kinds == {"deposit", "card", "offline", "correct", "refund", "sync", "raise", "void"}

ASSUME Money ==
    /\ Kind \in [Requests -> Kinds] /\ Amount \in [Requests -> Nat]
    /\ Ref \in [Requests -> Requests]
    /\ Batches \subseteq SUBSET Requests
    /\ Total \in Nat \ {0} /\ {MaxOpen, MaxFaults} \subseteq Nat
    \* QuickBooks reports what it has received of this invoice.
    /\ \A r \in Requests : Kind[r] = "sync" => Amount[r] <= Total

VARIABLES
    rows,       \* order_payments; a row without an invoice is held on the order
    invoice,    \* the invoice: raised, voided, paid_at, amount_paid_cents
    gate,       \* inspections.payment_status is 'paid'
    req,        \* where each request stands, and the figures it has read
    faults,     \* deliveries that failed or were repeated
    blind       \* some request wrote on a reading no longer true, or on none

vars == <<rows, invoice, gate, req, faults, blind>>

-----------------------------------------------------------------------------
At == {"idle", "retry", "insert", "claim", "load", "sum", "append", "read", "write",
       "ask", "unlock", "check", "lower", "held", "hold", "done", "refused", "dead"}

\* A row: the request that appended it, which of its rows it is, the signed
\* amount, and whether it belongs to the invoice or is held on the order.
Row == [by : Requests, nth : Nat, cents : Int, billed : BOOLEAN]

Cents(x) == x.cents
Billed   == {x \in rows : x.billed}
Net      == MapThenSumSet(Cents, Billed)
Held     == MapThenSumSet(Cents, rows \ Billed)

Fresh(step) == [at |-> step, cents |-> 0, rest |-> 0, saw |-> 0]
Over == {"idle", "retry", "done", "refused", "dead"}

Init ==
    /\ rows = {} /\ gate = FALSE /\ faults = 0 /\ blind = FALSE
    /\ invoice = [raised |-> FALSE, voided |-> FALSE, paid |-> FALSE, cached |-> 0]
    /\ \E batch \in Batches :
          req = [r \in Requests |-> Fresh(IF r \in batch THEN "idle" ELSE "refused")]

Is(r, kinds) == Kind[r] \in kinds
Lesser(a, b) == IF a < b THEN a ELSE b

Goto(r, step) ==
    req' = [req EXCEPT ![r] = IF step \in Over THEN Fresh(step) ELSE [@ EXCEPT !.at = step]]
Carry(r, step, cents) ==
    req' = [req EXCEPT ![r] = [@ EXCEPT !.at = step, !.cents = cents, !.saw = Net]]
Sure(true) == blind' = (blind \/ ~true)
Begins(r)  == /\ req[r].at \in {"idle", "retry"}
              /\ Cardinality({q \in Requests : req[q].at \notin Over}) < MaxOpen

FaultyNewRow(r, cents, billed) ==
    [by |-> r, nth |-> Cardinality({x \in rows : x.by = r}), cents |-> cents, billed |-> TRUE]
NewRow(r, cents, billed) ==
    [by |-> r, nth |-> Cardinality({x \in rows : x.by = r}), cents |-> cents, billed |-> billed]

Backed == invoice.paid /\ ~invoice.voided

-----------------------------------------------------------------------------
\* Stripe reports a deposit: recordPayment asks whether the reference is known
\* already, and the unique index settles what happened in between.
Known(r) == \E x \in rows : Is(x.by, {"deposit"}) /\ Ref[x.by] = Ref[r]

Deposit(r) ==
    /\ Is(r, {"deposit"}) /\ Begins(r)
    /\ Goto(r, IF Known(r) THEN "done" ELSE "insert")
    /\ UNCHANGED <<rows, invoice, gate, faults, blind>>

FaultyDeposited(r) == rows \cup {NewRow(r, Amount[r], FALSE)}
Deposited(r) == IF Known(r) THEN rows ELSE rows \cup {NewRow(r, Amount[r], FALSE)}

InsertDeposit(r) ==
    /\ req[r].at = "insert" /\ Goto(r, "done")
    /\ rows' = Deposited(r)
    /\ UNCHANGED <<invoice, gate, faults, blind>>

\* createInvoice, and applyHeldDepositsToInvoice.
Raise(r) ==
    /\ Is(r, {"raise"}) /\ Begins(r) /\ ~invoice.raised
    /\ invoice' = [invoice EXCEPT !.raised = TRUE]
    /\ Goto(r, "claim")
    /\ UNCHANGED <<rows, gate, faults, blind>>

FaultyClaimed == "done"
Claimed == "read"

Claim(r) ==
    /\ req[r].at = "claim"
    /\ rows' = {[x EXCEPT !.billed = TRUE] : x \in rows}
    /\ Goto(r, IF rows = Billed THEN "done" ELSE Claimed)
    /\ Sure(rows = Billed \/ Net = 0)
    /\ UNCHANGED <<invoice, gate, faults>>

\* voidInvoice.
Void(r) ==
    /\ Is(r, {"void"}) /\ Begins(r) /\ invoice.raised
    /\ invoice' = [invoice EXCEPT !.voided = TRUE]
    /\ Goto(r, IF invoice.voided THEN "done" ELSE "check")
    /\ UNCHANGED <<rows, gate, faults, blind>>

InFull(r) == Is(r, {"card"}) \/ (Is(r, {"sync"}) /\ Amount[r] = Total)

\* markPaid of a card settlement, recordOfflinePayment, and the figure of
\* QuickBooks, which is only compared once the ledger has rows.
Open(r) ==
    /\ Begins(r) /\ invoice.raised
    /\ \/ Is(r, {"card"}) /\ Goto(r, IF invoice.paid THEN "unlock" ELSE "sum")
       \/ Is(r, {"offline"}) /\ Goto(r, IF invoice.voided THEN "refused" ELSE "sum")
       \/ Is(r, {"sync"}) /\ Billed # {} /\ Goto(r, "done")
       \/ Is(r, {"sync"}) /\ Billed = {} /\ Goto(r, IF InFull(r) THEN "load" ELSE "sum")
    /\ UNCHANGED <<rows, invoice, gate, faults, blind>>

Load(r) ==
    /\ req[r].at = "load" /\ Goto(r, IF invoice.paid THEN "done" ELSE "sum")
    /\ UNCHANGED <<rows, invoice, gate, faults, blind>>

\* getNetReceivedCents, and what the request makes of it.
FaultyOutstanding == Total
Outstanding == Total - Net

Sum(r) ==
    /\ req[r].at = "sum"
    /\ \/ InFull(r) /\ Outstanding > 0 /\ Carry(r, "append", Outstanding)
       \/ InFull(r) /\ Outstanding <= 0 /\ Goto(r, "read")
       \/ /\ Is(r, {"sync"}) /\ ~InFull(r)
          /\ IF Amount[r] = Net THEN Goto(r, "read") ELSE Carry(r, "append", Amount[r] - Net)
       \/ /\ Is(r, {"offline"})
          /\ IF Amount[r] > Outstanding THEN Goto(r, "refused") ELSE Carry(r, "append", Amount[r])
       \/ /\ Is(r, {"refund"})
          /\ IF req[r].cents > Net THEN Goto(r, "refused") ELSE Carry(r, "append", -req[r].cents)
    /\ UNCHANGED <<rows, invoice, gate, faults, blind>>

\* correctPayment: once per payment, and downwards only.
Correct(r) ==
    /\ Is(r, {"correct"}) /\ Begins(r)
    /\ \E x \in Billed :
          /\ x.by = Ref[r] /\ x.cents > 0
          /\ IF Amount[r] >= x.cents \/ \E y \in rows : Is(y.by, {"correct"}) /\ Ref[y.by] = Ref[r]
             THEN Goto(r, "refused") ELSE Carry(r, "append", Amount[r] - x.cents)
    /\ UNCHANGED <<rows, invoice, gate, faults, blind>>

\* quoteCancellation and applyCancellationRefund: what the invoice received
\* goes back first, then the deposit still held.
Quote(r) ==
    /\ Is(r, {"refund"}) /\ Begins(r)
    /\ LET owed == Lesser(Amount[r], Net + Held)
           back == Lesser(owed, Net)
       IN  IF owed <= 0 THEN Goto(r, "done")
           ELSE req' = [req EXCEPT ![r] = [@ EXCEPT !.at = IF back > 0 THEN "sum" ELSE "held",
                                                    !.cents = back, !.rest = owed - back]]
    /\ UNCHANGED <<rows, invoice, gate, faults, blind>>

Append(r) ==
    /\ req[r].at = "append" /\ Goto(r, "read")
    /\ rows' = rows \cup {NewRow(r, req[r].cents, TRUE)}
    /\ Sure(req[r].saw = Net)
    /\ UNCHANGED <<invoice, gate, faults>>

\* recomputeInvoicePaymentState.
After(r) == CASE Is(r, {"card"}) -> "unlock"
              [] Is(r, {"offline"}) -> "ask"
              [] Is(r, {"sync"}) -> "done"
              [] OTHER -> "check"

Read(r) ==
    /\ req[r].at = "read"
    /\ IF Billed = {} THEN Goto(r, After(r)) ELSE Carry(r, "write", req[r].cents)
    /\ UNCHANGED <<rows, invoice, gate, faults, blind>>

Write(r) ==
    /\ req[r].at = "write" /\ Goto(r, After(r))
    /\ invoice' = [invoice EXCEPT !.cached = req[r].saw, !.paid = req[r].saw >= Total]
    /\ Sure(req[r].saw = Net)
    /\ UNCHANGED <<rows, gate, faults>>

\* markPaymentReceived opens the report; an offline payment asks first.
Ask(r) ==
    /\ req[r].at = "ask" /\ Goto(r, IF invoice.paid THEN "unlock" ELSE "done")
    /\ UNCHANGED <<rows, invoice, gate, faults, blind>>

Unlock(r) ==
    /\ req[r].at = "unlock" /\ Goto(r, "done")
    /\ gate' = TRUE /\ Sure(Backed)
    /\ UNCHANGED <<rows, invoice, faults>>

\* syncInspectionPaymentGate closes it when no paid invoice is left.
Onward(r) == IF Is(r, {"refund"}) /\ req[r].rest > 0 THEN "held" ELSE "done"

Check(r) ==
    /\ req[r].at = "check" /\ Goto(r, IF Backed THEN Onward(r) ELSE "lower")
    /\ UNCHANGED <<rows, invoice, gate, faults, blind>>

FaultyLowered == gate
Lowered == FALSE

Lower(r) ==
    /\ req[r].at = "lower" /\ Goto(r, Onward(r))
    /\ gate' = Lowered /\ Sure(~Backed)
    /\ UNCHANGED <<rows, invoice, faults>>

\* refundHeldDeposit.
LookHeld(r) ==
    /\ req[r].at = "held"
    /\ IF req[r].rest > Held THEN Goto(r, "refused")
       ELSE req' = [req EXCEPT ![r] = [@ EXCEPT !.at = "hold", !.saw = Held]]
    /\ UNCHANGED <<rows, invoice, gate, faults, blind>>

RefundHeld(r) ==
    /\ req[r].at = "hold"
    /\ rows' = rows \cup {NewRow(r, -req[r].rest, FALSE)}
    /\ req' = [req EXCEPT ![r] = [@ EXCEPT !.at = "check", !.rest = 0]]
    /\ Sure(req[r].saw = Held)
    /\ UNCHANGED <<invoice, gate, faults>>

\* Stripe delivers an event again when a delivery failed, or its answer was
\* lost; any other request that fails is over.
Webhook(r) == Is(r, {"deposit", "card"})

Fail(r) ==
    /\ faults < MaxFaults /\ faults' = faults + 1
    /\ req[r].at \notin Over \/ (req[r].at = "done" /\ Webhook(r))
    /\ Goto(r, IF Webhook(r) THEN "retry" ELSE "dead")
    /\ UNCHANGED <<rows, invoice, gate, blind>>

Next ==
    \E r \in Requests :
       \/ Deposit(r) \/ InsertDeposit(r) \/ Raise(r) \/ Claim(r) \/ Void(r) \/ Open(r) \/ Load(r)
       \/ Sum(r) \/ Correct(r) \/ Quote(r) \/ Append(r) \/ Read(r) \/ Write(r) \/ Ask(r)
       \/ Unlock(r) \/ Check(r) \/ Lower(r) \/ LookHeld(r) \/ RefundHeld(r) \/ Fail(r)

Spec == Init /\ [][Next]_vars

-----------------------------------------------------------------------------
\* Every value has its type; only deposits and their refunds are held on the
\* order, and the rest belongs to an invoice that exists.
TypeOK ==
    /\ rows \in SUBSET Row
    /\ \A x \in rows : IF x.billed THEN invoice.raised ELSE Is(x.by, {"deposit", "refund"})
    /\ gate \in BOOLEAN /\ faults \in 0 .. MaxFaults
    /\ invoice \in [raised : BOOLEAN, voided : BOOLEAN, paid : BOOLEAN, cached : Int]
    /\ req \in [Requests -> [at : At, cents : Int, rest : Int, saw : Int]]
    /\ blind \in BOOLEAN

AtRest == \A r \in Requests : req[r].at \in Over \ {"retry", "dead"}

\* A deposit delivered twice, even at the same time, is one row.
DepositOnce ==
    \A x, y \in rows : Is(x.by, {"deposit"}) /\ Is(y.by, {"deposit"})
                       /\ Ref[x.by] = Ref[y.by] => x = y

Advance   == MapThenSumSet(Cents, {x \in rows : Is(x.by, {"deposit"})})
Corrected == {x \in rows : Is(x.by, {"correct"})}
TakenBack == -MapThenSumSet(Cents, {x \in Billed : x.cents < 0})
Again(r)  == MapThenSumSet(Cents, {x \in Billed : x.by = r /\ x.nth > 0})

\* A card settlement delivered again, whatever runs meanwhile and whatever was
\* read too early, enters no more than what corrections, refunds and lower figures
\* of QuickBooks have taken back; where nothing was taken back, it enters nothing.
SettledOnce == \A r \in Requests : Is(r, {"card"}) => Again(r) <= TakenBack

\* That holds, and while every request wrote on what was still true, no more is
\* received than was billed or had been paid in advance, and no more refunded
\* than was received.
InBounds ==
    ~blind =>
        /\ Net <= Total \/ Net <= Advance
        /\ Held >= 0 /\ Net - MapThenSumSet(Cents, Corrected) >= 0
LedgerInBounds == SettledOnce /\ InBounds

\* Once all are through, and no request wrote blindly, the invoice shows what the
\* ledger holds, ...
InvoiceShowsLedger ==
    ~blind /\ AtRest /\ Billed # {} => invoice.cached = Net /\ invoice.paid = (Net >= Total)

\* ... and the report is open exactly while an unvoided invoice is paid, unless
\* it is QuickBooks that paid it, or the deposits alone cover it.
ReportOpenWhilePaid ==
    ~blind /\ AtRest /\ (\A x \in rows : ~Is(x.by, {"sync"})) /\ Advance < Total =>
        (gate <=> Backed)
=============================================================================
