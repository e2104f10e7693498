----------------------------- MODULE SyncOutbox -----------------------------
(***************************************************************************)
(* Events on their way from this application to the portal: the outbox     *)
(* rows (outbox.service.ts), the queue, the two publishers (the request    *)
(* that appended the row, and the sweeper of the cron tick), the dead      *)
(* letter queue with its write-back (sync-dlq.ts), and the operator's      *)
(* redrive.  Sending to the queue and marking the row are two steps.       *)
(*                                                                         *)
(* A definition named Faulty... is a mistake the one after it could easily *)
(* have been written with; nothing else refers to it.                      *)
(***************************************************************************)
EXTENDS Naturals, FiniteSets

CONSTANTS
    Events,         \* ids of outbox rows
    MaxCopies,      \* messages of one event on the queues at a time
    SlowPublisher   \* TRUE: a publisher may mark a row after the portal gave up on it

ASSUME OutboxBounds == MaxCopies \in Nat /\ SlowPublisher \in BOOLEAN

VARIABLES
    row,        \* sync_outbox.status, "none" before the row exists
    toSend,     \* rows each publisher is about to send
    toMark,     \* rows each publisher has sent and not marked yet
    queue,      \* messages of each event on the sync queue
    dlq,        \* messages of each event on the dead letter queue
    delivered,  \* events the portal has processed (it drops a second copy)
    unnoted     \* events whose dead message was acked although the write-back failed

outbox == <<row, toSend, toMark, queue, dlq, delivered, unnoted>>

-----------------------------------------------------------------------------
Publisher == {"inline", "sweep"}

OutboxInit ==
    /\ row = [e \in Events |-> "none"]
    /\ toSend = [p \in Publisher |-> {}] /\ toMark = [p \in Publisher |-> {}]
    /\ queue = [e \in Events |-> 0] /\ dlq = [e \in Events |-> 0]
    /\ delivered = {} /\ unnoted = {}

\* A row is inserted, and the inline publish is started for it.
AppendEvent(e) ==
    /\ row[e] = "none"
    /\ row' = [row EXCEPT ![e] = "pending"]
    /\ toSend' = [toSend EXCEPT !["inline"] = @ \cup {e}]
    /\ UNCHANGED <<toMark, queue, dlq, delivered, unnoted>>

\* A sweep lists rows that have been pending for a while.
Sweep(old) ==
    /\ toSend["sweep"] = {} /\ toMark["sweep"] = {}
    /\ old # {} /\ \A e \in old : row[e] = "pending"
    /\ toSend' = [toSend EXCEPT !["sweep"] = old]
    /\ UNCHANGED <<row, toMark, queue, dlq, delivered, unnoted>>

\* publishRow, first half.  A send that fails leaves the row pending.
Send(p, e) ==
    /\ e \in toSend[p]
    /\ toSend' = [toSend EXCEPT ![p] = @ \ {e}]
    /\ \/ /\ queue[e] + dlq[e] < MaxCopies
          /\ queue' = [queue EXCEPT ![e] = @ + 1]
          /\ toMark' = [toMark EXCEPT ![p] = @ \cup {e}]
          /\ UNCHANGED row
       \/ UNCHANGED <<queue, toMark, row>>
    /\ UNCHANGED <<dlq, delivered, unnoted>>

\* publishRow, second half: whatever the row says by now.
Mark(p, e) ==
    /\ e \in toMark[p]
    /\ row' = [row EXCEPT ![e] = "published"]
    /\ toMark' = [toMark EXCEPT ![p] = @ \ {e}]
    /\ UNCHANGED <<toSend, queue, dlq, delivered, unnoted>>

\* The isolate of a publisher disappears, or the mark fails.
Vanish(p) ==
    /\ toSend[p] \cup toMark[p] # {}
    /\ toSend' = [toSend EXCEPT ![p] = {}]
    /\ toMark' = [toMark EXCEPT ![p] = {}]
    /\ UNCHANGED <<row, queue, dlq, delivered, unnoted>>

\* The portal processes a message, or gives up on it after its retries.
Deliver(e) ==
    /\ queue[e] > 0
    /\ queue' = [queue EXCEPT ![e] = @ - 1]
    /\ delivered' = delivered \cup {e}
    /\ UNCHANGED <<row, toSend, toMark, dlq, unnoted>>

GiveUp(e) ==
    /\ queue[e] > 0
    /\ SlowPublisher \/ \A p \in Publisher : e \notin toMark[p]
    /\ queue' = [queue EXCEPT ![e] = @ - 1]
    /\ dlq' = [dlq EXCEPT ![e] = @ + 1]
    /\ UNCHANGED <<row, toSend, toMark, delivered, unnoted>>

\* handleSyncDlqBatch: the message is acked whether or not the row was written.
FaultyFailed(e) == IF row[e] = "pending" THEN "failed" ELSE row[e]
Failed(e) == "failed"

WriteBack(e) ==
    /\ dlq[e] > 0
    /\ dlq' = [dlq EXCEPT ![e] = @ - 1]
    /\ \/ row' = [row EXCEPT ![e] = Failed(e)] /\ UNCHANGED unnoted
       \/ unnoted' = unnoted \cup {e} /\ UNCHANGED row
    /\ UNCHANGED <<toSend, toMark, queue, delivered>>

\* The operator puts failed rows back.
Redrive(e) ==
    /\ row[e] = "failed"
    /\ row' = [row EXCEPT ![e] = "pending"]
    /\ UNCHANGED <<toSend, toMark, queue, dlq, delivered, unnoted>>

\* Everything but the append, which is part of somebody else's step.
OutboxNext ==
    \/ \E old \in SUBSET Events : Sweep(old)
    \/ \E p \in Publisher : Vanish(p) \/ \E e \in Events : Send(p, e) \/ Mark(p, e)
    \/ \E e \in Events : Deliver(e) \/ GiveUp(e) \/ WriteBack(e) \/ Redrive(e)

-----------------------------------------------------------------------------
OutboxTypeOK ==
    /\ row \in [Events -> {"none", "pending", "published", "failed"}]
    /\ toSend \in [Publisher -> SUBSET Events]
    /\ toMark \in [Publisher -> SUBSET Events]
    /\ queue \in [Events -> 0 .. MaxCopies]
    /\ dlq \in [Events -> 0 .. MaxCopies]
    /\ delivered \in SUBSET Events
    /\ unnoted \in SUBSET Events

\* An event that was appended and has not reached the portal is still to be
\* found: on a queue, or in a row the sweeper or the operator looks at.  The
\* exception is a dead message whose write-back failed: it is acked, and its
\* row says "published" for ever.
NoEventLost ==
    \A e \in Events \ (delivered \cup unnoted) :
        row[e] = "published" => queue[e] + dlq[e] > 0
=============================================================================
