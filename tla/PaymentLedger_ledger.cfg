SPECIFICATION Spec
CONSTANTS
    deposit = deposit
    again = again
    card = card
    cash = cash
    fix = fix
    cancel = cancel
    part = part
    full = full
    bill = bill
    scrap = scrap
    Requests = {deposit, again, card, cash, fix, cancel, part, full, bill, scrap}
    Kind <- Kinded
    Amount <- Figures
    Ref <- Refs
    Batches <- Sets
    Total = 2
    MaxOpen = 2
    MaxFaults = 1
CHECK_DEADLOCK FALSE
INVARIANT TypeOK
INVARIANT DepositOnce
INVARIANT LedgerInBounds
INVARIANT InvoiceShowsLedger
INVARIANT ReportOpenWhilePaid
