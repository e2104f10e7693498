-------------------------- MODULE AgreementSigning --------------------------
(***************************************************************************)
(* Signing one agreement envelope: signers who open, sign or decline       *)
(* through their links (agreement.ts, signer-state.ts), the claim a        *)
(* signature takes on its signer row, the audit rows, the roll-forward of  *)
(* the envelope, and the cron job that expires it.                         *)
(*                                                                         *)
(* Every statement sent to D1 is a step of its own.  A claim is named by   *)
(* the request that made it (the code compares drawing and time); the      *)
(* clock is the set of claims older than the stale window.                 *)
(*                                                                         *)
(* A definition named Faulty... is a mistake the one after it could easily *)
(* have been written with; nothing else refers to it.                      *)
(***************************************************************************)
EXTENDS Naturals, Sequences, FiniteSets

CONSTANTS
    Signers,        \* the signer rows of the envelope
    Requests,       \* requests that may be made through the links
    For,            \* whose link each request uses
    May,            \* what each request may be: "sign", "decline", "view"
    ClaimAttempts,  \* how often a request tries to claim
    MaxDeaths,      \* requests whose isolate may disappear
    NoClaim

ASSUME Links == /\ For \in [Requests -> Signers]
                /\ May \in [Requests -> SUBSET {"sign", "decline", "view"}]
                /\ NoClaim \notin Requests
                /\ Signers # {}
ASSUME Tries == ClaimAttempts \in Nat /\ MaxDeaths \in Nat

VARIABLES
    envelope,   \* agreement_requests.status
    policy,     \* its completion policy
    signer,     \* the agreement_signers rows: status, and the claim stored with it
    chain,      \* per signer, the claims its signer.signed audit rows name
    stale,      \* claims older than STALE_SIGNING_MS
    effects,    \* how often the completion pipeline was started
    cron,       \* the expiry job: "idle", "queued", "cascading"
    pc,         \* where each request is
    mine        \* what each request has read

d1   == <<envelope, policy, signer, chain>>
vars == <<d1, stale, effects, cron, pc, mine>>

-----------------------------------------------------------------------------
Decided == {"signed", "declined", "expired"}
Waiting == {"pending", "sent", "viewed"}
Row     == [status : Waiting \cup Decided \cup {"signing"}, by : Requests \cup {NoClaim}]

\* A signature is being recorded right now.
IsLive(row) == row.status = "signing" /\ row.by \notin stale

\* computeEnvelopeStatus: what the signers' statuses make of the envelope.
Aggregate ==
    LET all(x) == \A s \in Signers : signer[s].status = x
        any(x) == \E s \in Signers : signer[s].status = x
    IN  IF all("declined") THEN "declined"
        ELSE IF policy = "one" /\ any("signed") THEN "signed"
        ELSE IF policy = "all" /\ any("declined") THEN "declined"
        ELSE IF policy = "all" /\ all("signed") THEN "signed"
        ELSE IF any("viewed") \/ any("signing") \/ any("signed") THEN "viewed"
        ELSE IF any("sent") THEN "sent" ELSE "pending"

\* The places a request can be at, and what it has read on the way.
Labels == {"idle", "claiming", "missed", "appending", "confirming", "checking", "releasing",
           "sweeping", "resuming", "declining", "viewing", "loading", "rolling", "completing",
           "done", "dead"}
Memo   == [op : {"sign", "decline", "view"}, row : Row, env : Waiting \cup Decided,
           agg : Waiting \cup Decided, tries : Nat]

NoRow   == [status |-> "sent", by |-> NoClaim]
Nothing == [op |-> "view", row |-> NoRow, env |-> "sent", agg |-> "sent", tries |-> 0]

\* A request goes on, having read m; one that ends keeps nothing.
Ended == {"done", "dead"}
GoWith(r, label, m) == /\ pc' = [pc EXCEPT ![r] = label]
                       /\ mine' = [mine EXCEPT ![r] = IF label \in Ended THEN Nothing ELSE m]
Go(r, label)        == GoWith(r, label, mine[r])

\* The signer is settled; the envelope, last seen as env, comes next.
RollForward(r, env) ==
    GoWith(r, "loading", [mine[r] EXCEPT !.env = env, !.row = NoRow, !.tries = 0])

Put(s, row)  == signer' = [signer EXCEPT ![s] = row]

Init == /\ envelope = "sent" /\ policy \in {"all", "one"}
        /\ signer = [s \in Signers |-> NoRow]
        /\ chain = [s \in Signers |-> <<>>]
        /\ stale = {} /\ effects = 0 /\ cron = "idle"
        /\ pc = [r \in Requests |-> "idle"]
        /\ mine = [r \in Requests |-> Nothing]

-----------------------------------------------------------------------------
\* Where the row a request has just read sends it.
Signable(row) == CASE row.status = "signed"                               -> "resuming"
                   [] row.status \in {"declined", "expired"} \/ IsLive(row) -> "done"
                   [] OTHER                                               -> "claiming"

Declinable(row) == IF row.status \in Decided \/ IsLive(row) THEN "done" ELSE "declining"

Viewable(row) == IF row.status \in {"pending", "sent"} THEN "viewing" ELSE "done"

\* A request resolves its link to a signer and the envelope.
Arrive(r, op) ==
    /\ pc[r] = "idle"
    /\ GoWith(r, CASE op = "sign"    -> Signable(signer[For[r]])
                   [] op = "decline" -> Declinable(signer[For[r]])
                   [] op = "view"    -> Viewable(signer[For[r]]),
              [Nothing EXCEPT !.op = op, !.row = signer[For[r]], !.env = envelope])
    /\ UNCHANGED <<d1, stale, effects, cron>>

\* The claim: one conditional update that pins what was read.
Pinned(r) == /\ signer[For[r]].status = mine[r].row.status
             /\ mine[r].row.status = "signing" => signer[For[r]].by = mine[r].row.by

Claim(r) ==
    /\ pc[r] = "claiming"
    /\ IF Pinned(r) /\ envelope # "expired"
       THEN Put(For[r], [status |-> "signing", by |-> r]) /\ Go(r, "appending")
       ELSE Go(r, "missed") /\ UNCHANGED signer
    /\ UNCHANGED <<envelope, policy, chain, stale, effects, cron>>

\* The claim did not match: look at the rows as they are now.
Reread(r) ==
    /\ pc[r] = "missed"
    /\ GoWith(r, IF envelope = "expired" \/ mine[r].tries + 1 >= ClaimAttempts THEN "done"
                 ELSE Signable(signer[For[r]]),
              [mine[r] EXCEPT !.row = signer[For[r]], !.tries = @ + 1])
    /\ UNCHANGED <<d1, stale, effects, cron>>

\* The signer.signed audit row: written; refused; or written and reported as
\* refused.
Append1(r) == chain' = [chain EXCEPT ![For[r]] = Append(@, r)]

Record(r) ==
    /\ pc[r] = "appending"
    /\ \/ Append1(r) /\ Go(r, "confirming")
       \/ UNCHANGED chain /\ Go(r, "releasing")
       \/ Append1(r) /\ Go(r, "releasing")
    /\ UNCHANGED <<envelope, policy, signer, stale, effects, cron>>

\* The row still shows this very claim.
FaultySameClaim(r) == signer[For[r]].status = "signing"
SameClaim(r) == signer[For[r]] = [status |-> "signing", by |-> r]

Confirm(r) ==
    /\ pc[r] = "confirming"
    /\ IF SameClaim(r) /\ envelope # "expired"
       THEN Put(For[r], [signer[For[r]] EXCEPT !.status = "signed"]) /\ RollForward(r, mine[r].env)
       ELSE Go(r, "checking") /\ UNCHANGED signer
    /\ UNCHANGED <<envelope, policy, chain, stale, effects, cron>>

Check(r) ==
    /\ pc[r] = "checking"
    /\ Go(r, IF envelope = "expired" THEN "releasing" ELSE "done")
    /\ UNCHANGED <<d1, stale, effects, cron>>

\* Put the signer back as it was before the claim, in two statements.
FaultyReleased == "done"
Released == "sweeping"

Release(r) ==
    /\ pc[r] = "releasing"
    /\ IF SameClaim(r) THEN Put(For[r], mine[r].row) ELSE UNCHANGED signer
    /\ Go(r, Released)
    /\ UNCHANGED <<envelope, policy, chain, stale, effects, cron>>

ExpireReleased(r) ==
    /\ pc[r] = "sweeping"
    /\ IF signer[For[r]].status \in Waiting /\ envelope = "expired"
       THEN Put(For[r], [signer[For[r]] EXCEPT !.status = "expired"]) ELSE UNCHANGED signer
    /\ Go(r, "done")
    /\ UNCHANGED <<envelope, policy, chain, stale, effects, cron>>

\* A signer who has signed asks again: the envelope may have been left behind.
Resume(r) ==
    /\ pc[r] = "resuming"
    /\ IF envelope \in Decided THEN Go(r, "done") ELSE RollForward(r, envelope)
    /\ UNCHANGED <<d1, stale, effects, cron>>

\* A stale signing row may decline, pinned to the claim judged stale.
Decline(r) ==
    LET row == signer[For[r]] IN
    /\ pc[r] = "declining"
    /\ IF IF mine[r].row.status = "signing" THEN row.status = "signing" /\ row.by = mine[r].row.by
                                            ELSE row.status \notin Decided \cup {"signing"}
       THEN Put(For[r], [row EXCEPT !.status = "declined"]) /\ RollForward(r, mine[r].env)
       ELSE Go(r, "done") /\ UNCHANGED signer
    /\ UNCHANGED <<envelope, policy, chain, stale, effects, cron>>

View(r) ==
    /\ pc[r] = "viewing"
    /\ IF signer[For[r]].status \in {"pending", "sent"}
       THEN Put(For[r], [signer[For[r]] EXCEPT !.status = "viewed"]) ELSE UNCHANGED signer
    /\ RollForward(r, mine[r].env)
    /\ UNCHANGED <<envelope, policy, chain, stale, effects, cron>>

\* Roll the envelope forward: read the signers, then one conditional update.
FaultyLoaded(r) == IF mine[r].env = "viewed" THEN "viewed" ELSE Aggregate
Loaded(r) == Aggregate

Load(r) ==
    /\ pc[r] = "loading"
    /\ GoWith(r, "rolling", [mine[r] EXCEPT !.agg = Loaded(r)])
    /\ UNCHANGED <<d1, stale, effects, cron>>

\* Whether the update is sent at all: a finish that found everybody signed
\* does not look at what it read of the envelope before.
Rolls(r) == \/ mine[r].op = "sign" /\ mine[r].agg = "signed"
            \/ mine[r].env \notin Decided /\ mine[r].agg # mine[r].env

FaultyCompletes(r) == mine[r].op = "sign" /\ mine[r].agg = "signed" /\ mine[r].env # "signed"
Completes(r) == mine[r].op = "sign" /\ mine[r].agg = "signed" /\ envelope \notin Decided

Roll(r) ==
    /\ pc[r] = "rolling"
    /\ envelope' = IF Rolls(r) /\ envelope \notin Decided THEN mine[r].agg ELSE envelope
    /\ Go(r, IF Completes(r) THEN "completing" ELSE "done")
    /\ UNCHANGED <<policy, signer, chain, stale, effects, cron>>

\* runEnvelopeCompletionPipeline.
Complete(r) ==
    /\ pc[r] = "completing"
    /\ effects' = effects + 1
    /\ Go(r, "done")
    /\ UNCHANGED <<d1, stale, cron>>

\* The isolate of a request disappears, or a statement of it fails.
Die(r) ==
    /\ pc[r] \notin {"idle", "done", "dead"}
    /\ Cardinality({q \in Requests : pc[q] = "dead"}) < MaxDeaths
    /\ Go(r, "dead")
    /\ UNCHANGED <<d1, stale, effects, cron>>

-----------------------------------------------------------------------------
\* A claim outlives the stale window; its request may still be running.
Age(r) ==
    /\ \E s \in Signers : signer[s] = [status |-> "signing", by |-> r]
    /\ r \notin stale
    /\ stale' = stale \cup {r}
    /\ UNCHANGED <<d1, effects, cron, pc, mine>>

\* The expiry job is queued only when its probe sees an overdue envelope that
\* is still open; a run that fails half way is delivered again.
Probe ==
    /\ cron = "idle" /\ envelope \in Waiting
    /\ cron' = "queued"
    /\ UNCHANGED <<d1, stale, effects, pc, mine>>

ExpireEnvelope ==
    /\ cron = "queued"
    /\ envelope' = IF envelope \in Waiting THEN "expired" ELSE envelope
    /\ cron' = "cascading"
    /\ UNCHANGED <<policy, signer, chain, stale, effects, pc, mine>>

ExpireSigners ==
    /\ cron = "cascading"
    /\ signer' = [s \in Signers |-> IF signer[s].status \in Waiting /\ envelope = "expired"
                                    THEN [signer[s] EXCEPT !.status = "expired"] ELSE signer[s]]
    /\ cron' = "idle"
    /\ UNCHANGED <<envelope, policy, chain, stale, effects, pc, mine>>

Redeliver ==
    /\ cron = "cascading"
    /\ cron' = "queued"
    /\ UNCHANGED <<d1, stale, effects, pc, mine>>

-----------------------------------------------------------------------------
Step(r) == \/ Claim(r) \/ Reread(r) \/ Record(r) \/ Confirm(r) \/ Check(r)
           \/ Release(r) \/ ExpireReleased(r) \/ Resume(r) \/ Decline(r) \/ View(r)
           \/ Load(r) \/ Roll(r) \/ Complete(r)

Next == \/ \E r \in Requests : \/ \E op \in May[r] : Arrive(r, op)
                               \/ Step(r) \/ Die(r) \/ Age(r)
        \/ Probe \/ ExpireEnvelope \/ ExpireSigners \/ Redeliver

Spec == Init /\ [][Next]_vars

-----------------------------------------------------------------------------
\* The rows only ever hold the statuses the code knows: an envelope is never
\* given a status of a signer, in particular never "signing".
TypeOK ==
    /\ envelope \in Waiting \cup Decided
    /\ policy \in {"all", "one"}
    /\ signer \in [Signers -> Row]
    /\ chain \in [Signers -> Seq(Requests)]
    /\ stale \in SUBSET Requests
    /\ effects \in Nat
    /\ cron \in {"idle", "queued", "cascading"}
    /\ pc \in [Requests -> Labels]
    /\ mine \in [Requests -> Memo]

\* A signer counted as signed has an audit row that names the signature stored
\* on the row.  It is the newest such row if the claim was confirmed within
\* the stale window, apart from rows of requests that had lost their own claim
\* to the window before (the window the comment in claimSignedBySigner accepts).
SignedIsRecorded ==
    \A s \in Signers : signer[s].status = "signed" =>
        \E i \in DOMAIN chain[s] :
            /\ chain[s][i] = signer[s].by
            /\ signer[s].by \notin stale =>
                  \A j \in i + 1 .. Len(chain[s]) : chain[s][j] \in stale

\* Every signer answers once, the envelope is decided once and as the answers
\* justify, and completion starts at most once: whoever finishes together,
\* takes over a stale claim, declines late, or is overtaken by the expiry job.
Promise == INSTANCE AgreementOutcome WITH
    outcome     <- IF envelope \in Decided THEN envelope ELSE "open",
    answer      <- [s \in Signers |->
                        IF signer[s].status \in Decided THEN signer[s].status ELSE "open"],
    completions <- effects
ImplementsAgreement == Promise!Spec

\* Nothing is running.
Quiet == /\ \A r \in Requests : pc[r] \in {"idle", "done", "dead"}
         /\ cron = "idle"
Lost  == \E r \in Requests : pc[r] = "dead"

\* Signatures that complete the envelope have completed it once the requests
\* are through, also when the last signers finish together, unless a request
\* was lost on the way.
EnvelopeRolledForward == Quiet /\ Aggregate = "signed" => envelope \in Decided \/ Lost

\* Once the envelope has expired and nothing runs, no signer is left who looks
\* able to sign: the job skips signers in the middle of a signature, and the
\* release of their claim puts them where the job would have.  A claim that
\* went stale while its request ran may stay on the row.
ExpiryReachedSigners ==
    Quiet /\ envelope = "expired" =>
        \A s \in Signers : \/ signer[s].status \in Decided
                          \/ (signer[s].status = "signing" /\ signer[s].by \in stale)
                          \/ Lost
=============================================================================
