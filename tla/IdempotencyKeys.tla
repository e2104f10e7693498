-------------------------- MODULE IdempotencyKeys --------------------------
(***************************************************************************)
(* The table behind the Idempotency-Key header (idempotency/store.ts): one *)
(* row per key, which is the lock of the request that inserted it and then *)
(* the answer its repeats get.  Each operator below is one statement sent  *)
(* to D1; whoever extends this module decides what runs between them.      *)
(*                                                                         *)
(* A fingerprint is the hash of the request; it stands here for the        *)
(* request itself, and the stored answer is left out.  Days pass, because  *)
(* a claim expires after one and a row is swept after several.             *)
(***************************************************************************)
EXTENDS Naturals

CONSTANTS
    Keys,           \* Idempotency-Key values
    Prints,         \* fingerprints
    ClaimDays,      \* TTL_MS, in days
    LedgerDays,     \* how long the retention sweep keeps a row
    Days            \* bound: the last day of the model

ASSUME LedgerBounds ==
    /\ ClaimDays \in Nat \ {0} /\ LedgerDays \in Nat \ {0} /\ Days \in Nat \ {0}

VARIABLES
    ledger,     \* the row of each key
    today

-----------------------------------------------------------------------------
Unused == [state |-> "none", print |-> "none", born |-> 0]
Row    == [state : {"none", "in_flight", "done"}, print : Prints \cup {"none"}, born : 0..Days]

LedgerInit == ledger = [k \in Keys |-> Unused] /\ today = 1

ClaimOf(p) == [state |-> "in_flight", print |-> p, born |-> today]
Expired(k) == ledger[k].born + ClaimDays <= today

\* The insert of claimKey: it succeeds only where there is no row.
Claim(k, p) ==
    /\ ledger[k] = Unused
    /\ ledger' = [ledger EXCEPT ![k] = ClaimOf(p)]

\* What the row tells a request whose insert did nothing.  The fingerprint is
\* compared before the state; a row swept in the meantime counts as in flight.
FaultyVerdict(k, p) ==
    CASE ledger[k] = Unused -> "in_flight"
      [] ledger[k].state = "done" -> "done"
      [] OTHER -> IF Expired(k) THEN "expired" ELSE "in_flight"
Verdict(k, p) ==
    CASE ledger[k] = Unused            -> "in_flight"
      [] ledger[k] # Unused /\ ledger[k].print # p -> "mismatch"
      [] ledger[k].print = p /\ ledger[k].state = "done" -> "done"
      [] OTHER -> IF Expired(k) THEN "expired" ELSE "in_flight"

\* The conditional update that takes an expired claim over: of two requests
\* that found it expired only one still does.
Stealable(k) == ledger[k].state = "in_flight" /\ Expired(k)
Steal(k, p) ==
    /\ Stealable(k)
    /\ ledger' = [ledger EXCEPT ![k] = ClaimOf(p)]

\* completeKey and releaseKey name the row by its key alone.
Complete(k) == ledger' = [ledger EXCEPT ![k].state = IF @ = "none" THEN "none" ELSE "done"]
Release(k)  == ledger' = [ledger EXCEPT ![k] = Unused]

\* The retention sweep goes by the day of the claim, whatever the state.
Swept == {k \in Keys : ledger[k] # Unused /\ ledger[k].born + LedgerDays < today}
SweepLedger ==
    /\ Swept # {}
    /\ ledger' = [k \in Keys |-> IF k \in Swept THEN Unused ELSE ledger[k]]
=============================================================================
