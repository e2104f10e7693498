--------------------------- MODULE PortalCommands ---------------------------
(***************************************************************************)
(* Commands of the portal to this application: the queue that delivers     *)
(* them at least once and in any order, the consumer with its "processed"  *)
(* marker, stale guard, credential salvage, roll-back and replies          *)
(* (cmd-consumer.ts, cmd-batch.ts, cmd-reply.ts, admin-credential.ts).     *)
(* Replies leave through the outbox of SyncOutbox.                         *)
(*                                                                         *)
(* Every statement sent to D1 is a step of its own; the consumer handles   *)
(* one message at a time (max_concurrency 1).  What a command writes is    *)
(* abstracted to which command wrote it last.                              *)
(***************************************************************************)
EXTENDS SyncOutbox

CONSTANTS
    Commands,
    Kind,           \* "update" (tenant fields), "quota", "rename", "operation" (not tenant state)
    Seq,            \* tenantseq: the order in which the portal issued them
    CredSeq,        \* credseq, 0 if the command carries no credential
    Asks,           \* commands that ask for a reply
    Copies,         \* messages of each command: the portal resends, the queue duplicates
    MaxFaults       \* crashes of the consumer and statements that fail

ASSUME Issued ==
    /\ Kind \in [Commands -> {"update", "quota", "rename", "operation"}]
    /\ Commands # {}
    /\ Seq \in [Commands -> Nat \ {0}] /\ CredSeq \in [Commands -> Nat]
    /\ \A c, d \in Commands : Seq[c] = Seq[d] => c = d
    /\ Asks \in SUBSET Commands
    /\ Copies \in [Commands -> Nat \ {0}] /\ MaxFaults \in Nat

VARIABLES
    extra,      \* further copies of each command that may still arrive
    inbox,      \* messages of each command on the command queue
    dead,       \* commands that exhausted their retries
    processed,  \* rows of processed_cmd_events
    tenant,     \* the tenant row: does it exist, applied_cmd_seq, applied_cred_seq
    fields,     \* for each kind of state, the tenantseq of the command that wrote it last
    credential, \* the credseq of the stored password hash
    runs,       \* how often each operation took effect
    answers,    \* the command each outbox event answers, and with what
    job,        \* what the consumer is doing
    hit         \* the faults each command ran into

portal == <<extra, inbox, dead, processed, tenant, fields, credential, runs, answers, job, hit>>
vars   == <<outbox, portal>>

-----------------------------------------------------------------------------
Field  == {"update", "quota", "rename"}
Fault  == {"crash", "dedup", "guard", "apply", "advance", "undo", "reply"}
Result == {"applied", "duplicate", "stale", "salvaged"}

NoJob  == [at |-> "idle", cmd |-> CHOOSE c \in Commands : TRUE, salvage |-> FALSE, result |-> "stale"]

Init == /\ OutboxInit
        /\ inbox = [c \in Commands |-> 1] /\ extra = [c \in Commands |-> Copies[c] - 1]
        /\ dead = {} /\ processed = {}
        /\ \E here \in BOOLEAN : tenant = [here |-> here, seq |-> 0, cred |-> 0]
        /\ fields = [f \in Field |-> 0] /\ credential = 0
        /\ runs = [c \in Commands |-> 0]
        /\ answers = {}
        /\ job = NoJob
        /\ hit = [c \in Commands |-> {}]

\* The message the consumer holds, and where it stands with it.
Cmd         == job.cmd
At(label)   == job.at = label
Goto(label) == job' = [job EXCEPT !.at = label]

\* Only some commands ask for a reply, and only some kinds have one.
Answered(c) == c \in Asks /\ Kind[c] \in {"update", "operation"}
Say(result) == job' = [job EXCEPT !.at = IF Answered(Cmd) THEN "reply" ELSE "ack",
                                  !.result = result]

\* A statement fails under the command in hand.
Faults == Cardinality(UNION {{c} \X hit[c] : c \in Commands})
HitOn(c, f) == /\ Faults < MaxFaults /\ f \notin hit[c]
               /\ hit' = [hit EXCEPT ![c] = @ \cup {f}]
Hit(f) == HitOn(Cmd, f)

-----------------------------------------------------------------------------
\* The portal sends the same envelope again, or the queue delivers it twice.
Again(c) ==
    /\ extra[c] > 0
    /\ extra' = [extra EXCEPT ![c] = @ - 1]
    /\ inbox' = [inbox EXCEPT ![c] = @ + 1]
    /\ UNCHANGED <<outbox, dead, processed, tenant, fields, credential, runs, answers, job, hit>>

\* A message, in any order; it stays on the queue until it is acked.  The
\* marker is inserted first, and any error of the insert counts as a conflict.
Guarded(c) == Kind[c] # "operation"

Held(c, label) == [NoJob EXCEPT !.at = label, !.cmd = c]
Duplicate(c) == IF Kind[c] = "update" /\ c \in Asks
                THEN [Held(c, "reply") EXCEPT !.result = "duplicate"]
                ELSE Held(c, "ack")

Receive(c) ==
    /\ At("idle") /\ inbox[c] > 0
    /\ \/ /\ c \notin processed
          /\ processed' = processed \cup {c}
          /\ job' = Held(c, IF Guarded(c) THEN "guard" ELSE "apply")
          /\ UNCHANGED hit
       \/ c \in processed /\ job' = Duplicate(c) /\ UNCHANGED <<processed, hit>>
       \/ c \notin processed /\ HitOn(c, "dedup") /\ job' = Duplicate(c) /\ UNCHANGED processed
    /\ UNCHANGED <<outbox, extra, inbox, dead, tenant, fields, credential, runs, answers>>

\* The stale guard.  Nothing rolls the marker back when it, or the salvage of
\* the credential of a stale command, fails.
FaultyStale(c) == tenant.here /\ Seq[c] = tenant.seq
Stale(c) == tenant.here /\ Seq[c] <= tenant.seq

FaultySalvaged(c) == FALSE
Salvaged(c) == Kind[c] = "update" /\ CredSeq[c] > 0

Guard ==
    /\ At("guard")
    /\ \/ ~Stale(Cmd) /\ Goto("apply") /\ UNCHANGED hit
       \/ Stale(Cmd) /\ Salvaged(Cmd) /\ UNCHANGED hit
          /\ job' = [job EXCEPT !.at = "check", !.salvage = TRUE]
       \/ Stale(Cmd) /\ ~Salvaged(Cmd) /\ Say("stale") /\ UNCHANGED hit
       \/ Hit("guard") /\ Goto("retry")
    /\ UNCHANGED <<outbox, extra, inbox, dead, processed, tenant, fields, credential, runs, answers>>

\* applyKnownCmd, the tenant fields or the operation.  A quota or a name for a
\* tenant that does not exist yet is refused, and comes back later.
Afterwards == IF Kind[Cmd] = "update" /\ CredSeq[Cmd] > 0 THEN "check" ELSE "advance"

Apply ==
    /\ At("apply")
    /\ \/ /\ Kind[Cmd] = "update"
          /\ fields' = [fields EXCEPT !["update"] = Seq[Cmd]]
          /\ tenant' = [tenant EXCEPT !.here = TRUE]
          /\ Goto(Afterwards) /\ UNCHANGED <<runs, hit>>
       \/ /\ Kind[Cmd] \in {"quota", "rename"} /\ tenant.here
          /\ fields' = [fields EXCEPT ![Kind[Cmd]] = Seq[Cmd]]
          /\ Goto(Afterwards) /\ UNCHANGED <<tenant, runs, hit>>
       \/ /\ Kind[Cmd] \in {"quota", "rename"} /\ ~tenant.here
          /\ Goto("undo") /\ UNCHANGED <<tenant, fields, runs, hit>>
       \/ /\ Kind[Cmd] = "operation"
          /\ runs' = [runs EXCEPT ![Cmd] = @ + 1]
          /\ Goto(Afterwards) /\ UNCHANGED <<tenant, fields, hit>>
       \/ Hit("apply") /\ Goto("undo") /\ UNCHANGED <<tenant, fields, runs>>
    /\ UNCHANGED <<outbox, extra, inbox, dead, processed, credential, answers>>

\* applyCredentialIfFresh: read, write and advance are three statements.
Failing == IF job.salvage THEN Hit("guard") /\ Goto("retry")
                          ELSE Hit("apply") /\ Goto("undo")

CheckCredential ==
    /\ At("check")
    /\ \/ /\ CredSeq[Cmd] > tenant.cred \/ ~tenant.here
          /\ Goto("write") /\ UNCHANGED hit
       \/ /\ CredSeq[Cmd] <= tenant.cred /\ tenant.here
          /\ (IF job.salvage THEN Say("stale") ELSE Goto("advance")) /\ UNCHANGED hit
       \/ Failing
    /\ UNCHANGED <<outbox, extra, inbox, dead, processed, tenant, fields, credential, runs, answers>>

WriteCredential ==
    /\ At("write")
    /\ \/ credential' = CredSeq[Cmd] /\ Goto("bump") /\ UNCHANGED hit
       \/ Failing /\ UNCHANGED credential
    /\ UNCHANGED <<outbox, extra, inbox, dead, processed, tenant, fields, runs, answers>>

BumpCredential ==
    /\ At("bump")
    /\ \/ /\ tenant' = [tenant EXCEPT !.cred = IF @ < CredSeq[Cmd] THEN CredSeq[Cmd] ELSE @]
          /\ (IF job.salvage THEN Say("salvaged") ELSE Goto("advance")) /\ UNCHANGED hit
       \/ Failing /\ UNCHANGED tenant
    /\ UNCHANGED <<outbox, extra, inbox, dead, processed, fields, credential, runs, answers>>

\* The high-water mark; an operation raises it too.  Failing here rolls the
\* marker back although the command has taken effect.
Advanced(c) == [tenant EXCEPT !.seq = IF tenant.here /\ @ < Seq[c] THEN Seq[c] ELSE @]

Advance ==
    /\ At("advance")
    /\ \/ tenant' = Advanced(Cmd) /\ Say("applied") /\ UNCHANGED hit
       \/ Hit("advance") /\ Goto("undo") /\ UNCHANGED tenant
    /\ UNCHANGED <<outbox, extra, inbox, dead, processed, fields, credential, runs, answers>>

\* emitReply: an append that fails is logged, and the command goes on.
EmitReply ==
    /\ At("reply") /\ Goto("ack")
    /\ \/ /\ \E e \in Events :
                /\ AppendEvent(e)
                /\ answers' = answers \cup {<<e, Cmd, job.result>>}
          /\ UNCHANGED hit
       \/ Hit("reply") /\ UNCHANGED <<outbox, answers>>
    /\ UNCHANGED <<extra, inbox, dead, processed, tenant, fields, credential, runs>>

\* The marker is deleted; a failure to do so is swallowed.
FaultyUnmarked(c) == processed
Unmarked(c) == processed \ {c}

Undo ==
    /\ At("undo") /\ Goto("retry")
    /\ \/ processed' = Unmarked(Cmd) /\ UNCHANGED hit
       \/ Hit("undo") /\ UNCHANGED processed
    /\ UNCHANGED <<outbox, extra, inbox, dead, tenant, fields, credential, runs, answers>>

\* handleCmdBatch: ack, or retry until the queue gives the message up.
Ack ==
    /\ At("ack") /\ job' = NoJob
    /\ inbox' = [inbox EXCEPT ![Cmd] = @ - 1]
    /\ UNCHANGED <<outbox, extra, dead, processed, tenant, fields, credential, runs, answers, hit>>

Retry ==
    /\ At("retry") /\ job' = NoJob
    /\ \/ UNCHANGED <<inbox, dead>>
       \/ inbox' = [inbox EXCEPT ![Cmd] = @ - 1] /\ dead' = dead \cup {Cmd}
    /\ UNCHANGED <<outbox, extra, processed, tenant, fields, credential, runs, answers, hit>>

\* The consumer's isolate disappears: the message is delivered again, the
\* marker stays.
Crash ==
    /\ ~At("idle") /\ Hit("crash") /\ job' = NoJob
    /\ UNCHANGED <<outbox, extra, inbox, dead, processed, tenant, fields, credential, runs, answers>>

Next ==
    \/ OutboxNext /\ UNCHANGED portal
    \/ \E c \in Commands : Again(c) \/ Receive(c)
    \/ Guard \/ Apply
    \/ CheckCredential \/ WriteCredential \/ BumpCredential
    \/ Advance \/ EmitReply \/ Undo \/ Ack \/ Retry \/ Crash

Spec == Init /\ [][Next]_vars

-----------------------------------------------------------------------------
\* Every value has its type.
TypeOK ==
    /\ OutboxTypeOK
    /\ extra \in [Commands -> Nat] /\ inbox \in [Commands -> Nat]
    /\ dead \in SUBSET Commands /\ processed \in SUBSET Commands
    /\ tenant \in [here : BOOLEAN, seq : Nat, cred : Nat]
    /\ fields \in [Field -> Nat] /\ credential \in Nat
    /\ runs \in [Commands -> Nat]
    /\ answers \in SUBSET (Events \X Commands \X Result)
    /\ job \in [at : {"idle", "guard", "apply", "check", "write", "bump", "advance",
                      "reply", "undo", "ack", "retry"},
                cmd : Commands, salvage : BOOLEAN, result : Result]
    /\ hit \in [Commands -> SUBSET Fault]

\* No message of c is left, and it was not given up.
Gone(c) == inbox[c] = 0 /\ c \notin dead

\* The faults that leave c marked as processed, or taken for it, although it
\* did not finish, so that its next message is acked as a duplicate:
\*   dedup  the insert of the marker failed for whatever reason: the code takes
\*          every error for a conflict, and acks the message at once;
\*   guard  the read of the guard, or a statement of the salvage, failed: both
\*          stand before the try whose handler deletes the marker;
\*   undo   deleting the marker failed, and the error was swallowed;
\*   crash  the consumer disappeared behind the marker.
\* The first three are plain errors of D1, which the code means to retry.
Forsaken(c) == hit[c] \cap {"dedup", "guard", "undo", "crash"} # {}

\* A tenant command whose messages are all acked has written its state, or a
\* newer command of the tenant had been applied when it came: whatever order
\* the queue chose, and whatever statement of the apply failed and was retried.
\* A forsaken command may be lost.
CommandNotLost ==
    \A c \in Commands :
        Guarded(c) /\ Gone(c) /\ ~Forsaken(c) =>
            tenant.seq > Seq[c] \/ (fields[Kind[c]] >= Seq[c] /\ tenant.seq = Seq[c])

\* A credential that left the queue is the stored one, or a newer one is,
\* although its command may have come late and its tenant fields have been
\* dropped.  That of a forsaken command may be lost, be it the newest.
NewestCredentialWins ==
    \A c \in Commands :
        Kind[c] = "update" /\ CredSeq[c] > 0 /\ Gone(c) /\ ~Forsaken(c) => credential >= CredSeq[c]

\* An operation that left the queue and was not forsaken has run, and its
\* answer was appended unless the append failed.  None runs twice, but one
\* whose command failed in the statement after it, the advance: that deletes
\* the marker of an operation that has taken effect, and it runs again.
OperationReported ==
    \A c \in Commands :
        Kind[c] = "operation" =>
            /\ runs[c] > 1 => "advance" \in hit[c]
            /\ Gone(c) /\ ~Forsaken(c) => runs[c] > 0
            /\ Gone(c) /\ ~Forsaken(c) /\ Answered(c) =>
                  "reply" \in hit[c] \/ \E e \in Events : <<e, c, "applied">> \in answers
=============================================================================
