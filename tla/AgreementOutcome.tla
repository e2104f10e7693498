-------------------------- MODULE AgreementOutcome --------------------------
(***************************************************************************)
(* What sending an agreement for signature promises, with no mention of    *)
(* requests, claims, retries or cron jobs.                                 *)
(*                                                                         *)
(* Every signer gives one answer and never changes it.  The envelope gets  *)
(* one outcome, which the answers justify under its completion policy, and *)
(* what follows a completed envelope (the audit row, the verification      *)
(* token, the signed PDF, the e-mails) is started at most once.            *)
(***************************************************************************)
EXTENDS Naturals

CONSTANT Signers

VARIABLES policy,        \* "all" signers must sign, or "one" is enough
          outcome,       \* of the envelope: "open", "signed", "declined", "expired"
          answer,        \* of each signer: the same values
          completions    \* how often the completion pipeline was started

vars == <<policy, outcome, answer, completions>>

Init == /\ policy \in {"all", "one"}
        /\ outcome = "open"
        /\ answer = [s \in Signers |-> "open"]
        /\ completions = 0

Answered(s, a) == /\ answer[s] = "open"
                  /\ answer' = [answer EXCEPT ![s] = a]
                  /\ UNCHANGED <<policy, outcome, completions>>

\* A signature may come after the envelope was decided, but not once it expired.
Sign(s) == outcome # "expired" /\ Answered(s, "signed")

Decline(s) == Answered(s, "declined")

\* Signers who have not answered lose the chance when the envelope expires.
Lapse(late) == /\ outcome = "expired"
               /\ \A s \in late : answer[s] = "open"
               /\ answer' = [s \in Signers |-> IF s \in late THEN "expired" ELSE answer[s]]
               /\ UNCHANGED <<policy, outcome, completions>>

Decide(o) == /\ outcome = "open"
             /\ outcome' = o
             /\ UNCHANGED <<policy, answer, completions>>

Agreed == IF policy = "one" THEN \E s \in Signers : answer[s] = "signed"
                            ELSE \A s \in Signers : answer[s] = "signed"

Refused == \/ \A s \in Signers : answer[s] = "declined"
           \/ policy = "all" /\ \E s \in Signers : answer[s] = "declined"

Complete == /\ outcome = "signed" /\ completions = 0
            /\ completions' = 1
            /\ UNCHANGED <<policy, outcome, answer>>

Next == \/ \E s \in Signers : Sign(s) \/ Decline(s)
        \/ \E late \in SUBSET Signers : Lapse(late)
        \/ Agreed /\ Decide("signed")
        \/ Refused /\ Decide("declined")
        \/ Decide("expired")
        \/ Complete

Spec == Init /\ [][Next]_vars
=============================================================================
