# OpenInspection: a TLA+ model of its concurrent core

OpenInspection is a web service for property inspectors. It runs on Cloudflare
Workers with a D1 (SQLite) database, R2 files, queues, a cron trigger and two
kinds of Durable Object. Several people edit one report at the same time, online
and offline, while it is published, reopened, restored, imported into or deleted.
This project models the part of the code where those things meet.

Paths below are relative to `src/`. `PROJECT.json` gives, for each definition,
the lines it was translated from.

## 1. The system and its parts

### Results document of a report (modelled, except one verb)

`server/durable-objects/inspection-doc.ts` with `-ack`, `-d1`, `-import`.

* State. Memory: the Yjs document, whether it came from storage
  (`hadStoredState`), the identity, the memoized D1 hydration, a debounce timer,
  an update counter. Storage: `ydoc`, `identity`, `snapshots`, one alarm. D1: the
  report's `inspection_results` row.
* Operations. Socket upgrade, message, close; timer and alarm; the verbs
  `/snapshots`, `/restore`, `/restructure`, `/import`, `/resolve-pending`,
  `/followup`, `/flush`, `/lock`, `/unlock`, `/purge`, `/rename-legacy-keys`.
* Interactions. Routes call the verbs; every persist writes the projection to
  D1, where all the rest of the program reads it; the delete cascade purges it.
* Hard. One object runs one event at a time, but a handler that awaits D1 or a
  request body lets others in, and memory may be lost at any await. Storage, the
  acknowledgement and the D1 row are three effects of one persist.
* Correct when: what is acknowledged is stored; opening a report never loses what
  its row held; a restore can be undone; the row follows the document; a deleted
  report leaves nothing behind.

### Report lock, publish, versions (modelled, without the side effects of a publish)

`durable-objects/inspection-doc-lock.ts`, `api/inspections/publish.ts`,
`lib/middleware/publish-unchanged.ts`, `services/report-version.service.ts`,
`lib/inspection/report-lock*.ts`, all under `server/`.

* State. The report's status, the mark `locked-for-publish` in the object's
  storage, the numbered and hash-chained `report_versions`.
* Operations. Publish (flush, compare, flip the status, lock, freeze a version),
  "Edit and republish", retract, and a socket upgrade that carries what D1 said.
* Hard. A publish is seven awaited steps over D1 and the object; upgrades, edits,
  unlock calls and other publishes run between them, and the lock call may be lost.
* Correct when: a published document is marked; a version holds everything that
  was typed; versions form one chain; a reopened report takes edits again.

### Collaboration client (modelled, without the merge of arrays)

`packages/field-ui/src/collab/results-doc-connection.ts`.

* State. A local replica, its IndexedDB copy, one socket, a backoff timer.
* Operations. Load, connect, the two sync steps, an edit offline or online, the
  restore frame (drop the replica and its database, begin anew), lost socket,
  reload, online event, close because the report is published.
* Hard. The restore frame is handled across awaits while the socket lives on; a
  client that did not see it still holds what was replaced.
* Correct when: connected clients and the object agree, no edit is lost but those
  a restore takes, no client stays disconnected, what was replaced stays gone.

### Agreement signing and its audit chain (modelled, without sending and merging)

`services/agreement/signer-state.ts`, `api/bookings/agreement.ts`,
`lib/sign-effects.ts`, `cron/jobs/agreements.ts`, all under `server/`.

* State. The envelope's status, one row per signer, the audit entries.
* Operations. View, sign (claim the row, append the entry, confirm or release,
  roll the envelope forward), decline, resume after a failure, take a stale claim
  over, expire the envelope and then its signers.
* Hard. D1 has no transactions across these statements: each is a conditional
  update, and requests, a retry in a second tab and the expiry job interleave.
* Correct when: a signature that counts is in the audit chain; answers and outcome
  are given once and the outcome follows from the answers; nothing stays half-way.

### Portal synchronisation (modelled, without what an operation does)

`server/portal/`: `outbox.service.ts`, `sync-dlq.ts`, `cmd-consumer.ts`,
`cmd-batch.ts`, `cmd-reply.ts`, `apply-commands.ts`, `admin-credential.ts`.

* State. Outbox rows and queue messages one way; the other way a command queue,
  markers of processed commands, the high-water marks and fields of the tenant.
* Operations. Append, send, mark, dead letter, write back, redrive; deliver,
  mark processed, check staleness, salvage a credential, apply, advance, reply,
  roll back, retry.
* Hard. Delivery at least once and in any order; every statement may fail and the
  consumer may die between two.
* Correct when: nothing is lost on either way, the newest state wins, an answer is
  given.

### Booking and slot arbitration (modelled for the metered plan)

`services/booking/fulfill-booking.ts`, `slot-arbitration.ts`, `booking-admission.ts`.

* State. Inspections, their links to the inspector, time off, a usage counter.
* Operations. Admit, stamp, count, insert, link, judge, retract; cancel; time off.
* Hard. D1 has no row locks: every racer inserts, then looks, and losers retract.
* Correct when: whoever loses the slot loses it to somebody who holds it; two
  bookings do not both stand; a loser leaves nothing.

### Payment ledger and invoices (modelled for one order with one invoice)

`services/payment-ledger.service.ts`, `invoice-payments.service.ts`,
`invoice.service.ts`, `invoice/refund.ts`, `invoice/deposit-application.ts`,
`invoice-payment-gate.ts`, `api/stripe-webhook.ts`.

* State. Append-only payment rows, the figures cached on the invoice, and the
  payment status of the inspection that opens or locks the report.
* Operations. Deposit, card, offline payment, correction, refund, figures from
  QuickBooks, raise, void.
* Hard. Each is read, append, recompute, gate in separate statements, and the
  payment provider delivers again.
* Correct when: a deposit counts once, nothing is received or refunded beyond what
  there is, cache and gate follow the rows.

### Idempotency keys and the import of offline packages (modelled, without files and results)

`lib/idempotency/store.ts`, `lib/middleware/idempotency.ts`,
`services/offline-import.service.ts`, `services/offline-import-outbox.ts`,
`api/inspections/core.ts`, all under `server/`.

* State. One ledger row per key, with a deadline; one record per queued write an
  import applied; the inspection's row and the tombstone a deletion leaves.
* Operations. Claim, read a conflicting claim, take an expired one over, complete,
  release, sweep; validate a package, replay its creates, then its other writes,
  skipping what is recorded, and record what was answered; the routes themselves.
* Hard. The same write may be sent by the device, by an import, by a second import a
  minute or a year later; ledger, record and row are three statements, and each of
  the first two forgets after a while.
* Correct when: a write takes effect once, nothing is skipped that did not take
  effect, what was deleted stays deleted, a completion follows its updates.

### Parts that are listed and not modelled

| Part | State | What makes it hard | Correct when |
|---|---|---|---|
| Cron dispatcher and consumer (`server/cron`) | cursor rows, queue messages | overlapping sweeps, redelivery, hop limit | every page is swept |
| Legacy finding-key rename | one document | behind its own snapshot | no content is lost |
| QuickBooks synchronisation | tokens, links | external API | depends on an API that is not in the repository |
| Automations and messaging | log rows | claim, deliver, defer | a message is sent once |
| Media upload queue of the client | queue in IndexedDB | partial upload, reload | a photo is uploaded once |
| Video uploads | multipart ledger | R2 keeps the state | sweep leaves nothing open |
| Migration intake | staged rows | few actors | revert restores |
| Presence objects | cursors | nothing | nothing depends on them |
| Authentication, roles, tokens | per-request | no shared mutable state | |
| Compliance (retention, tenant purge) | catalogues of tables | long sequences | every table is named |
| Rendering, templates, marketplace, AI, MCP, UI | CRUD | pure I/O and formatting | |

The hazards that matter most, modelled or not, are in `PROJECT.json` at their lines.

## 2. The modules

| Module | What it is |
|---|---|
| `DurableDoc` | What a results document promises: content is merged, saved, acknowledged, replaced, lost back to the saved copy, destroyed. No timers, sockets or databases. |
| `ResultsDoc` | The Durable Object, its storage, its D1 row, hibernation, crashes, and the delete of its inspection. Instantiates `DurableDoc`. |
| `ResultsDoc_proofs` | Theorems about `ResultsDoc`. |
| `ReportLock` | The publish protocol: routes, lock mark, sockets, versions, unlock calls. |
| `ReportLock_proofs` | Theorems about `ReportLock`. |
| `ResultsDocConnection` | The clients of a results document and their sockets, against the object's side of them. |
| `ResultsDocConnection_proofs` | Theorems about `ResultsDocConnection`. |
| `AgreementOutcome` | What an agreement promises: each signer answers once, the outcome is decided once and as the answers justify, completion starts at most once. |
| `AgreementSigning` | Requests, claims, audit entries, roll-forward and expiry of one envelope. Instantiates `AgreementOutcome`. |
| `AgreementSigning_proofs` | Theorems about `AgreementSigning`. |
| `SyncOutbox` | Events on their way to the portal: rows, two publishers, queue, dead letters, redrive. |
| `PortalCommands` | Commands from the portal and their consumer; its replies leave through `SyncOutbox`, which it extends. |
| `PortalCommands_proofs` | Theorems about both. |
| `SlotArbitration`, `SlotArbitration_proofs` | The race of public bookings for one inspector's day. |
| `PaymentLedger`, `PaymentLedger_proofs` | The money of one order. |
| `IdempotencyKeys` | The ledger of keys; each operator is one statement. |
| `OfflineImport`, `OfflineImport_proofs` | Queued writes on their way into the server, by a device or by imports of packages. Extends `IdempotencyKeys`. |
| `MC...` | Model values for the configurations. |

### How `ResultsDoc` corresponds to the code

*Atomicity.* A handler that only awaits the object's own storage is one action:
the runtime's input gate holds back other events. A handler that awaits D1 or a
request body is cut there, and the waiting half is a record in `waiting`:
`Upgrade` then `Accept`; `RestructureRequest` then `RestructureApply`;
`ImportRequest`, `ImportBind` (the document is evaluated as an argument), then
`ImportApply` (the body has arrived); `PatchRequest` then `PatchApply`. The two
halves of hydration are `LoadRead` and `LoadApply`.

*Which document.* A restore swaps `this.doc`. `gen` numbers the documents, and a
waiting request remembers the one it was bound to, so that a patch applied to a
discarded document is visible as such. `/restructure` reads `this.doc` after its
await and so needs no binding.

*Persist.* `Persist(d, why, F, kept)` is the whole of `persist()` up to its D1
await: storage, acknowledgement, identity, and a record appended to `writes`.
D1's answer is `WriteLands`, `WriteFails` or, when the inspection is gone,
`Abandon`. `why` remembers who asked, because an alarm handler that threw is run
again and a write whose object died has nobody to abandon the document.

*Content.* A document is the set of finding keys it holds and the set of facts
recorded under them. A merge is a union. `Projection`, `LoadProjection`, `Seed`
and `Restructured` are what `projectResults`, `loadResultsProjection`,
`seedResultsDoc` and `restructure()` do to those sets; `Unprojected` facts
(repair prices) exist because a projection does not show everything.

*Ghosts.* `acked`, `imported`, `chosen` and `tally` are not in the code. They
record what people were told, which legacy content somebody dropped on purpose,
and how many of the bounded events have happened.

*Losing memory.* `Sleep` is hibernation: nothing pending, sockets survive.
`Crash` is every other loss: sockets and waiting requests go, storage stays, a
write already sent may still land, an interrupted alarm runs again.

*Deleting.* `DeleteRows`, `DeleteInspection` and `Purge` are the three stages of
`deleteInspectionCascade`. `inspection-doc-d1.ts:98-102` relies on D1 refusing a
results row for an inspection that is gone; `inspection-cascade.ts:12` says D1
does not enforce foreign keys. The model follows the first, as the code that
reacts to the refusal does.

### How `ReportLock` corresponds to the code

Each `await` of the publish route is a step of a per-request program counter:
`AskFlush`, `Check` (`answerUnchangedPublish`; `SkipCheck` for a publish that is not
compared, because it carries a translation or the comparison failed early), `Flip`
(`publishInspection` or the relock), `Lock` or `LoseLock`, `CloseSockets` (`lockDoc` after its flush),
then `Number`, `Freeze`, `Insert` (`snapshotOnPublish`: latest version, then
content, then insert). `Reopen` sets the status and leaves an unlock call under
way, which `Unlock` delivers or `LoseUnlock` drops. An upgrade is `Stamp`,
`ReadLock` (the route), then `LetIn` and `Accept`, or `Refuse` (the object).
The wall-clock comparison in `upgradeRefused` is reduced to its order:
`overtaken` says the mark was set after the stamp, so clocks are assumed to agree.
The content hash of a version is represented by the content. The object's memory
is not lost in this module; that is `ResultsDoc`'s subject.

A write that was sent lands (`WriteLands`) or is refused by D1 (`WriteFails`), and the
verb that waits for it then throws. The callers of the publish route swallow that
(`doc-lock-notify.ts:30-34`, `54-59`): a failed flush leaves the row as it is, a failed
lock call has set the mark and closes no socket, and the publish goes on in both cases.
`mine[p].lags` records that a publish goes on without the object having stored what it
holds: its own write was refused, it began with a row that was behind a document
without sockets, or it asked for no flush. A lock call that flushes clears it.

### How `ResultsDocConnection` corresponds to the code

A document is the set of what was merged into it: edits, and a base, a number a
restore raises because a restored projection is loaded as new content. `client[c]`
holds the replica (`doc`), the IndexedDB copy (`store`), whether that has loaded
(`ready`, the gate of lines 403-415), the socket and the backoff timer. `up[c]`
and `down[c]` are the frames of one socket in each direction, in order; they are
lost with it. The handling of a restore frame is cut at its awaits (`restoring`).
The object keeps a working and a durable document; how the one becomes the other
is `ResultsDoc`'s subject. Ghosts record what became of each edit: made, replaced
by a restore, dropped by a client that was restoring; and which clients missed a
restore, were cut while they handled one, or were sending an edit that the object
already held when a restore came (`again`).

### How `AgreementSigning` corresponds to the code

Each statement a request sends to D1 is an action, and `pc` says which is next:
`claimSignedBySigner` is `Claim` with its three outcomes, `auditLog.append` is
`Append`, then `confirm` or `release`, then `finishSignedBySigner` as read, compute,
conditional write. What a request has read is in `mine`. The code recognises its
own claim by drawing and time; the model by the request. A claim older than
`STALE_SIGNING_MS` is in `stale`. The expiry job is `queued` (envelopes are marked)
and then `cascading` (their signers). A request's isolate may die at any point.

### How `SyncOutbox` and `PortalCommands` correspond to the code

`publishRow` is `Send` then `Mark`; a message is consumed, given up to the dead
letter queue, and written back there as failed, with or without success.
`SlowPublisher` allows the mark to come after the queue has given up.
The consumer handles one message at a time (`max_concurrency` 1 in the wrangler
configuration), and `job` is the statement it has reached; each statement may fail
and the consumer may die before it. What a command writes is reduced to which
command wrote last. The operations are reduced to how often they ran. `hit[c]` records the
faults that command `c` met, and `Forsaken(c)` the four that leave it marked as
processed although it did not finish.

### How `SlotArbitration` corresponds to the code

`at[b]` is the next statement of a booking request: admitted on an advisory read,
stamped, usage counted, row inserted, link inserted, judged, and on a loss link and
row deleted and the usage given back. A booking is one inspection; siblings of a
multi-service booking are written, judged and retracted together. `clock` counts
the ticks of the clock that stamps `createdAt`. `CheckTimeOff` only reads; a booking
that it sends away is retracted by the same statements as one that lost (`Unlink`,
`Delete`, `Release`), and `LostTo` tells the two apart.

### How `PaymentLedger` corresponds to the code

A request is a sequence of statements: what it asks, the reads it computed on, the
append, `recomputeInvoicePaymentState` as read and write, and the gate
(`syncInspectionPaymentGate` as read and write, or the unlock of a paid invoice).
`req[r]` holds what it has read. `blind` becomes TRUE when a request writes on a
reading that is no longer true, or on none. All that is said of sums is about
executions in which that has not happened, but for `SettledOnce`, the first part of
`LedgerInBounds`, which holds in all; Section 4 says what happens when it has. A card
settlement enters what is outstanding when it is processed, as `markPaid` does, which
never looks at the amount the card was charged.

### How `IdempotencyKeys` and `OfflineImport` correspond to the code

`IdempotencyKeys` has no next-state relation of its own: `Claim`, `Verdict`, `Steal`,
`Complete`, `Release` and `SweepLedger` are the statements of the store, and
`OfflineImport` says what runs between them. `job[r].at` is the next statement of a
request. An import reads (`Look`, `Judge`: `validate`), reads the records once
(`Begin`: `applyOutbox`), and then takes its entries in order (`Head`): `Skip`,
`Block`, or under its key `ClaimEntry`, `ReadClaim`, `StealClaim`, `Route`, `Write`,
`Answer`, `Record`. `Fill` is what lies between the creates and the rest. A request
the device sends itself is the same without the records. `Route` is what a route
reads and decides, `Write` its statement; roles, locks and bodies that a route
refuses are a nondeterministic outcome. `status` has three values, "open" standing
for every status that is neither completed nor cancelled.

A fingerprint stands for its request, and so is the entry itself. Time passes in
days, the unit of every limit in this code, and only while no request is at work: a
request takes seconds, so a holder that lives is never taken over. What is taken over
is the claim of a request that died. `effects`, `held`, `torn`, `itself` and
`forgotten` are ghosts that record what took effect, how, and what is remembered of it.

Definitions called `Faulty...` are plausible mistakes of one line each. They
exist to demonstrate that a property notices them and are used by nothing else.

## 3. The runs

All instances of `ResultsDoc` have two finding keys, one legacy fact and a
periodic snapshot after every second update (the code: 20). One document with two
keys is enough because documents do not interact and keys are independent but for
being kept or removed by a template. Two clients matter only for "last one out".
Two writes in flight are enough to reorder; a ring of one or two entries (the code:
25) is full at once, which is the case of interest.

| Run | Instance | Shows |
|---|---|---|
| `doc_storage` | 2 clients, 1 edit, ring of 1, a restore, 1 crash, 1 D1 failure, writes out of order; about 2.2 M states | `TypeOK`; `AckedIsDurable`; `NoWipe`; `ImplementsDurableDoc`; `RestoreIsReversible` even on a full ring; `SeqsNeverReused` |
| `doc_import` | report published at first, repeated imports and follow-ups, ring of 2, 1 crash; about 0.8 M | `ImportIsDurable`; `ImportSnapshotPrecedes`: a retry never buries the state before the import |
| `doc_live` | fair, restructure, flush, delete under an open socket, 1 crash, 1 D1 failure | `D1CatchesUp`; `Reconnects`; `AbandonEmpties` |
| `lock_publish` | fair, 2 clients, 1 edit, 2 versions, refused writes, lost unlocks, retract and reopen; 538,809 states | `MarkedWhilePublished`; `VersionIsComplete`; `ReopenedLetsIn`: a stale mark heals |
| `lock_chain` | 2 publishers at once, 2 posted edits, lost locks, writes out of order; about 1.2 M | `ChainIntact` |
| `doc_sync` | 2 interchangeable clients, 1 edit, 1 restore, 1 mishap (lost socket, reload, crash, failed local deletion, or a publish); about 1.6 M | `TypeOK`; `Converged`; `EditsArrive`; `NeverStranded`; `ReplacedStaysGone` |
| `agreement_sign` | 2 signers, one of them in two tabs, either completion policy, 1 dead request, stale claims, expiry | `SignedIsRecorded`; `EnvelopeRolledForward`; `ExpiryReachedSigners`; `ImplementsAgreement` |
| `sync_portal` | two updates with a credential, an operation delivered twice, a quota sync, in any order; 1 fault of any kind, a plain D1 error at any statement or a dead consumer; 1 event; about 3.3 M | `CommandNotLost`; `NewestCredentialWins`; `OperationReported`; `NoEventLost` |
| `booking_slot` | 3 bookings, the middle one colliding with both others, 2 ticks, 1 time off, 1 request that dies or writes no link; about 0.9 M | `SomeoneKeepsTheSlot`; `DoubleOnlyIfLinkedLate`; `LosersLeaveNothing` |
| `payment_ledger` | three mixes of requests, two open at a time, 1 failed or repeated delivery, a card settled again after a correction or a refund among them; about 0.6 M | `TypeOK`; `DepositOnce`; `LedgerInBounds`; `InvoiceShowsLedger`; `ReportOpenWhilePaid` |
| `offline_import` | a package that creates, updates and completes, imported twice, a second package whose update has a key of the first, one write sent by the device itself, 4 days, 1 fault, 1 act of the office; about 1.6 M | `AppliedOnce`; `SkippedTookHold`; `DeletedStaysDeleted`; `CompletedWithUpdate` |

`TypeOK` is checked on three instances of different shape; every module's type
invariant is a theorem (Section 6).

In `offline_import` every limit is one day but the age of a record, which is two, as 400
days, 1 day and 420 days relate in the code. Four days are what it takes for a package
exported on day 2 to be imported ahead of that day and again on day 3, when the ledger
has forgotten the first import and only the records know of it, and to be refused as too
old on day 4, when the records are swept as well; the other package is dated later, so
that it is still importable when the first record of its key is gone. The two imports of
the first package are interchangeable (`Twins`): package, date and the actions they take
are the same, no property names a request, and no liveness is checked. Two requests are
at work at a time.

Deadlock checking is off where everything may come to rest, because the requests,
commands or bookings of the instance are finite: every run but those of
`ResultsDoc` and `lock_publish`. These two are checked for deadlock.

Two clients, two tabs and two signers are the smallest numbers at which the races of
the code exist (last two signers, take-over, one client restoring while another
edits); three bookings are needed for one that collides with two others which do
not collide with each other. One fault or mishap at a time, at every place it can
happen, covers the code's own error paths; combinations of two are covered by the
theorems, whose number of faults is unbounded.

### What the passing runs leave out, and why

Section 4 lists executions in which the code does not keep a promise. A passing
run excludes exactly that trigger, by a constant or in the premise of its property,
and keeps everything else:

* `EarlyCrash` FALSE: memory is not lost before the document was first stored;
* `Published` FALSE where `NoWipe` is checked: no socket is refused by a cold object;
* no `"cold restructure"` in `Verbs`: a restructure reaches a loaded object;
* `Sibling` empty: the inspection has one report;
* imports and restores are not in one instance, nor restores and `D1CatchesUp`;
* `Overlap` FALSE in `lock_publish`: no second publish, no disconnect and no
  undelivered unlock call during a publish. `lock_chain` has it TRUE. A flush that is
  in flight when the publish begins, and one that D1 refuses, are in both;
* `VersionIsComplete` exempts a publish that lags (Section 2, `mine[p].lags`), and no
  other: one whose flush came back, or whose lock call flushed, is held to it;
* `SlowPublisher` FALSE in `sync_portal`: a publisher marks its row before the
  queue gives the message up;
* `EditsArrive`, `NeverStranded` and `ReplacedStaysGone` exempt what the ghost
  record says of a client that was restoring, cut or not connected at a restore;
  `ReplacedStaysGone` says nothing after a crash of the object before it stored the
  restored version, and exempts replaced edits, not the base, when a client was sending
  one for a second time (`again`);
* `CommandNotLost`, `NewestCredentialWins` and `OperationReported` exempt the commands
  that one of four faults forsook (`Forsaken`): the insert of the marker failed, the
  guard or the salvage failed, the deletion of the marker failed, or the consumer died.
  Only the last is a crash; the others are plain errors of D1. A failure inside the
  `try` of the application is exempted nowhere but that an operation may then run twice;
* `SomeoneKeepsTheSlot` counts a link of a dead request as keeping the slot, and lets
  the one that others lost to retract for time off;
* `InvoiceShowsLedger`, `ReportOpenWhilePaid` and the second part of `LedgerInBounds`
  require `~blind`; its first part, `SettledOnce`, requires nothing;
* `AppliedOnce` exempts a write whose request broke off between the write and its
  record, a write of the device itself once the ledger has forgotten it, and an entry
  that was exported again so late that it outlives the record of its first import.

`D1CatchesUp` is checked with writes that land in order (`InOrder`); out of order,
the row lags until the next write, which is among the hazards. `doc_storage` and
`lock_chain` have `InOrder` FALSE. `RefusedClose` and `EditAgain` fire in
`doc_import`, where the report is published when the model starts.

### Bounds

Every counter is bounded by a named constant in a guard: `MaxWrites` (`Room`),
`MaxCrashes`, `MaxFails`, `MaxRestores`, `MaxCaptures` (`Count`), `MaxVersions`,
`MaxUnlocks`, `MaxMishaps`, `MaxDeaths`, `ClaimAttempts` (the code's own number),
`MaxCopies`, `MaxFaults`, `MaxClock`, `MaxOff`, `MaxOpen`, `MaxOffice`, `Days`.
`SnapshotCap` and `SnapshotEvery` are the code's own limits made small. `Edits` are
finite because an edit already present is not an update.

## 4. Where the code and its own words disagree

One run expects a violation; its finding quotes the sentence.

| Run | Property | What happens |
|---|---|---|
| `doc_refused_wipe` | `NoWipe` | A socket refused with 4409 closes before anything is loaded, and its close persists an empty document over the row. |

### Instances not kept as runs

The same models show more. A constant, or a premise of a property taken away,
brings each back.

Results document:

* *A crash that wipes.* `EarlyCrash = TRUE` violates `NoWipe`: memory is lost after
  the hydration was merged and before the first store; the alarm persists an empty
  document (`inspection-doc.ts:536`).
* *A cold restructure.* `Verbs = {"restructure", "cold restructure"}` and
  `NewTemplate = {k2}` violate `NoWipe`: `/restructure` does not hydrate, although
  the comment at `inspection-doc.ts:454-456` calls `/followup` "the one mutating
  path that can reach a DO with no prior state".
* *A sibling's row.* `Sibling = {sib}`: hydration selects the results row by
  inspection (`inspection-doc.ts:911`), so a second report's content may be
  imported, against `docs/concepts/collab-editing.md:46`.
* *An import into a discarded document.* `Verbs = {"import", "restore"}` violates
  `ImportIsDurable`: `/import` binds `this.doc` before its body has arrived
  (`inspection-doc.ts:437`); a restore swaps it; 200 is answered.
* *A restore nobody retries.* `Verbs = {"restore"}` and `MaxFails = 1` under
  `FairSpec` violate `D1CatchesUp`: a restore sets no alarm, so a failed D1 write
  stays failed until the next edit.
* *A purge that leaves something.* After `/purge` and hibernation the identity is
  unknown, so what a late edit stores is never abandoned (`inspection-doc.ts:535`).
* *A delete that fails half way.* In `doc_live`, a results row written between the
  two deletes makes the second one fail (`deletion = "failed"`); the retry reads no
  report ids any more, so the object is never purged (`deletion = "unnamed"`).
* *The alarm is not a second copy.* When memory is lost within the debounce, the
  alarm wakes an object rebuilt from storage, which has nothing of the edit.

Publish:

* *Stranded.* What is typed between the unchanged check and the lock is in the
  locked document and in no version (`publish-unchanged.ts:51`).
* *The last editor leaves.* Its flush is on its way, and the unchanged check and
  `lockDoc` wait for a write only when they find sockets (`inspection-doc.ts:374-380`,
  `inspection-doc-lock.ts:60`). A disconnect before or during a publish then leaves the
  version without the last edit, where the comment at `publish-unchanged.ts:31-32` says
  that the flush is there because "What the inspector typed in the last second may still
  be in the live document, not yet in the database this check reads". Without
  `~mine[p].lags`, `VersionIsComplete` is violated by a disconnect before the publish.
* *A flush that D1 refuses.* `persist()` throws (`inspection-doc.ts:583`),
  `doc-lock-notify.ts` catches and logs it, and the publish freezes the row as it is. Its
  own comments say so of a document that cannot be reached: "It never fails the request
  that triggered it" (`:5-7`) and "the caller then decides from what the database has"
  (`:17-19`); the second names a call that did not arrive, and the effect is the same for
  one that arrived and failed. The mark is set by then, so the sockets stay open and each
  is closed at its next message. The alarm may still bring the row up to date; the frozen
  version stays as it is until somebody publishes again.
* *Published without a look.* A publish with a translation skips the check and with it
  the flush (`publish-unchanged.ts:53`), and so does one whose comparison throws before
  it. What is then in no row is stored by the lock call, if it finds a socket and D1
  takes the write.
* *A late unlock.* Two publishers and `Overlap = TRUE` violate
  `MarkedWhilePublished`: an unlock call that arrives after the next publish deletes
  that publish's mark.
* *A lost lock call.* `setCollabDocLocks` never fails the request
  (`doc-lock-notify.ts:37-60`); with `LoseLocks = TRUE` a report is published and its
  document is not marked until the next publish.
* *A late HTTP write.* `PassGuard` before a publish and `Post` after it change a
  published report's document; the object does not look at its mark for HTTP verbs.

Client:

* *Offline during a restore.* A client that never saw the frame merges the replaced
  content back when it reconnects (`results-doc-connection.ts:363`).
* *The local copy survives.* When IndexedDB refuses the deletion, the replaced
  content is loaded and merged back (`:150-151`).
* *Replaced during the handshake.* An edit made on a socket just opened goes up as an
  update at once, and again in the answer to the object's state vector
  (`results-doc-connection.ts:351-365`). When a restore comes between the two, the answer
  merges the replaced edit back, although every client heard the restore. Without the
  premise `ghost.again = {}`, `ReplacedStaysGone` is violated.
* *Cut while restoring.* The close of a socket is ignored then (`:387`), and nothing
  reopens it until the network reports online.
* *Typed while restoring.* The forwarder is off (`:280`); the edit goes into the
  replica that is about to be dropped.

Agreement:

* *Completed, and nobody is told.* A decliner's or viewer's aggregate, computed
  before the last signature, may be the write that turns the envelope `signed`
  (`signer-state.ts:372-378`, `394-397`). The request that signed then finds it
  terminal and starts no completion, where `agreement.ts:486` says the effects fire
  "EXACTLY ONCE". They fire at most once, which is what `AgreementOutcome` says.

Portal:

* *A marker without a command.* A consumer that dies after the insert of the marker
  (`cmd-consumer.ts:91`) answers the redelivery with "duplicate".
* *Lost to a plain error.* `cmd-consumer.ts:48-49` says "Transient apply error: dedup
  marker rolled back, error rethrown → caller retries with backoff". Three D1 errors are
  not rolled back and retried. The `catch` at `:96` takes any failed insert for a
  conflict, where `:89` says "PK conflict = already applied (or already judged stale)":
  the message is answered "duplicate" and acked, and no marker stands. The read of the
  guard and the salvage of a credential (`:133-176`, `:150`) stand before the `try`, so
  their failure is retried against a marker that stays. And a failed deletion of the
  marker is swallowed (`:197`), with the same effect. In each the command is lost, be it
  the one with the newest credential, and its operation never runs. Without
  `~Forsaken(c)`, all three properties of `PortalCommands` are violated.
* *Twice.* An operation whose advance failed is rolled back and runs again. The comment
  at `cmd-consumer.ts:207-213` says of `report.correct`, which is not idempotent, "What
  bounds it to at-most-once is `processed_cmd_events` above", and that the rollback "is
  limited to the case where the apply threw — by which point `correctReport` has either
  published nothing or returned". The rollback also follows a failed advance (`:182-186`),
  after the operation took effect, and a second amendment is then published. `:225-231`
  says the same of the migrations, and the same holds.
* *An operation makes an update stale.* The comment at `cmd-consumer.ts:125-127`
  says that an exempted command "cannot make a genuinely stale tenant update look
  fresh". It advances the mark like any other when its number is the larger one,
  and an older update that is still on the queue is then dropped as superseded
  although nothing replaced it.
* *An old credential.* After a crash between the write of a credential and of its
  number (`admin-credential.ts:151-160`) an older one still passes as newer; and when a
  D1 error stops the salvage of a late command, its credential is not applied at all.
* *A late mark.* `SlowPublisher = TRUE` violates `NoEventLost`: `published` is written
  over `failed` (`outbox.service.ts:165`), and nobody redrives the row. A write-back
  that fails is acknowledged all the same (`sync-dlq.ts:44`).

Booking:

* *Two winners.* A booking stamped first is linked after a later one has been judged:
  each sees itself in front. The comment at `slot-arbitration.ts:19-23` says
  "Exactly one winner, no coordination".
* *No winner.* A booking loses to an earlier one, which is then held against time off
  added meanwhile and retracts too (`slot-arbitration.ts:97-98`): nobody keeps the slot,
  against "Exactly one winner" once more. A loser whose own window the time off leaves
  free was refused for nothing.
* *A slot kept by nobody.* A request that dies after its link was written and before its
  judgement (`fulfill-booking.ts:201`) leaves rows that refuse every later booking.
* *An invisible booking.* The link is written in a `try` that logs
  (`fulfill-booking.ts:187`); without it the booking sees nobody and nobody sees it.

Ledger, with `blind` TRUE but for the first two:

* *Below zero* (`blind` FALSE). A payment is refunded in full and then corrected
  downwards: `correctPayment` compares with the recorded amount only
  (`invoice-payments.service.ts:218`), the sum of the rows falls below zero, and the
  recompute caches it. `services/invoice/refund.ts:71-74` says of that column that its
  "whole contract is that it never is" negative.
* *Refunded and paid again* (`blind` FALSE). A card settlement delivered again after a
  refund, or after a correction downwards, finds the invoice unpaid and money outstanding
  and appends a receipt that nobody made; `markPaid` has no provider reference by which
  it could be recognised. `stripe-webhook.ts:161` says that "A redelivery appends nothing
  and therefore pushes nothing", `invoice-payments.service.ts:74-78` "Idempotency:
  webhooks redeliver. A paid invoice stays paid with its ORIGINAL timestamp — no double
  accounting": true of an invoice that is still paid. The net sum stays within the bill,
  so `InBounds` does not see it; `SettledOnce` says how far it goes: to what was taken
  back and no further.
* *Two at once.* Two `markPaid` calls, of two deliveries of one card among them, each
  read the same outstanding sum; two partial
  refunds each read the same received sum; two recomputes finish in the wrong order
  and leave the older sum in the cache.
* *The gate.* An unlock that overlaps a refund, or follows a void, leaves the report
  open. A deposit that equals the total leaves it locked.
* *A late deposit.* One that settles after the invoice was raised stays held.

Offline packages:

* *Applied again after the ledger forgot.* A write the device sent itself is known to
  the ledger only, which forgets after a week (`retention-manifest.ts`). When its
  answer was lost the entry stays in the queue; a package exported then and imported
  later applies it again, over whatever was edited since.
  `docs/operate/deploy.md` says of a queued change that it "is applied only once; a
  later edit made in the meantime is not overwritten by a repeat". Without the third
  exemption, `AppliedOnce` is violated.
* *Broken off.* The route wrote, and the request died before the answer was stored or
  the record inserted. Once the claim has expired the write is done again.
* *Exported again.* A record is kept 420 days from the day it was written, and a
  package may be imported for 400 days from the day it was exported. An entry that is
  still queued and exported again late enough outlives the record of its first import
  (`Outlives`); one exported again within that time does not.
* *A deletion meanwhile.* The import looks for tombstones once, before it writes, and
  its creates are told not to look (`create-support.ts:92`). An inspection that is
  deleted in between is created again.

## 5. Fairness

`ResultsDoc!FairSpec`. `Progress`: the runtime fires timers and alarms, D1
answers, and a handler whose awaited value has arrived resumes; these are
guarantees of the platform. Nobody owes an edit, a request, a disconnect, a crash,
a restore, or a failure. `DeleteProgress`: the delete route runs on to its end and
a user who was shown a failure tries again. `ClientProgress`: a client that is not
connected keeps calling `scheduleReconnect`, and `Sleep` is strongly fair because
the client's backoff grows to 30 s, past the idle time after which the runtime
drops the object. Without it an object whose first hydration failed would never be
dropped, and `Reconnects` would not hold.

`ReportLock!FairSpec`: an upgrade that was started is finished and writes land.
A client whose socket closed reconnects by itself, except after 4409
(`results-doc-connection.ts:63`); `Stamp` is then somebody opening the report
again, so `ReopenedLetsIn` speaks of an editor who does.
`Upgrading` is strongly fair only because `MaxWrites` may disable a refused
upgrade for a while; the code has no such limit.

The other modules state safety only. Their "in the end" properties (`Converged`,
`EditsArrive`, `EnvelopeRolledForward`, `ExpiryReachedSigners`,
`SomeoneKeepsTheSlot`, `LosersLeaveNothing`, `InvoiceShowsLedger`,
`ReportOpenWhilePaid`) speak of states in which nothing is on its way any more, and
assume no fairness.

## 6. What is proved

TLAPS checks these for every value of the constants, hence for any number of
editors, edits, keys, crashes, failures and publishers.

| Theorem | Module | States |
|---|---|---|
| `TypeCorrect` | `ResultsDoc_proofs` | `Spec => []TypeOK` |
| `AckedDurable` | `ResultsDoc_proofs` | `Spec => []AckedIsDurable` |
| `Refinement` | `ResultsDoc_proofs` | `Spec => ImplementsDurableDoc` |
| `NumbersAreFresh` | `ResultsDoc_proofs` | `Spec => SeqsNeverReused` |
| `RestoresCanBeUndone` | `ResultsDoc_proofs` | `Spec => RestoreIsReversible` |
| `ImportsCanBeUndone` | `ResultsDoc_proofs` | `NoRestore => (Spec => []ImportSnapshotPrecedes)` |
| `AnsweredImportsAreStored` | `ResultsDoc_proofs` | `NoRewrite => (Spec => []ImportIsDurable)` |
| `RowsAreNotWiped` | `ResultsDoc_proofs` | `Sheltered => (Spec => []NoWipe)` |
| `TypeCorrect` | `ResultsDocConnection_proofs` | `Spec => []TypeOK` |
| `ClientsConverge` | `ResultsDocConnection_proofs` | `Spec => []Converged` |
| `NothingIsLost` | `ResultsDocConnection_proofs` | `Spec => []EditsArrive` |
| `AlwaysReopens` | `ResultsDocConnection_proofs` | `Spec => []NeverStranded` |
| `RestoreReplaces` | `ResultsDocConnection_proofs` | `Spec => []ReplacedStaysGone` |
| `TypeCorrect` | `ReportLock_proofs` | `Spec => []TypeOK` |
| `VersionsFormOneChain` | `ReportLock_proofs` | `Spec => []ChainIntact` |
| `PublishedIsMarked` | `ReportLock_proofs` | `OneAtATime => (Spec => []MarkedWhilePublished)` |
| `VersionsAreComplete` | `ReportLock_proofs` | `OneAtATime /\ InOrder /\ Posted = {} => (Spec => VersionIsComplete)` |
| `TypeCorrect` | `AgreementSigning_proofs` | `Spec => []TypeOK` |
| `RecordedBeforeSigned` | `AgreementSigning_proofs` | `Spec => []SignedIsRecorded` |
| `Refinement` | `AgreementSigning_proofs` | `Spec => ImplementsAgreement` |
| `AgreementCloses` | `AgreementSigning_proofs` | `Spec => []EnvelopeRolledForward` |
| `ExpiryIsComplete` | `AgreementSigning_proofs` | `Spec => []ExpiryReachedSigners` |
| `TypeCorrect` | `PortalCommands_proofs` | `Spec => []TypeOK` |
| `NoCommandLost` | `PortalCommands_proofs` | `Spec => []CommandNotLost` |
| `NewestCredential` | `PortalCommands_proofs` | `Spec => []NewestCredentialWins` |
| `EventsAreKept` | `PortalCommands_proofs` | `~SlowPublisher => (Spec => []NoEventLost)` |
| `OperationsReported` | `PortalCommands_proofs` | `Spec => []OperationReported` |
| `TypeCorrect` | `SlotArbitration_proofs` | `Spec => []TypeOK` |
| `DoubleBookingOrder` | `SlotArbitration_proofs` | `Spec => []DoubleOnlyIfLinkedLate` |
| `SlotIsKept` | `SlotArbitration_proofs` | `Spec => []SomeoneKeepsTheSlot` |
| `NothingLeft` | `SlotArbitration_proofs` | `Spec => []LosersLeaveNothing` |
| `TypeCorrect` | `OfflineImport_proofs` | `Spec => []TypeOK` |
| `NothingDropped` | `OfflineImport_proofs` | `Spec => []SkippedTookHold` |
| `DeletionsStand` | `OfflineImport_proofs` | `Spec => DeletedStaysDeleted` |
| `CompletionFollows` | `OfflineImport_proofs` | `Spec => CompletedWithUpdate` |
| `OnceOnly` | `OfflineImport_proofs` | `Spec => []AppliedOnce` |
| `TypeCorrect` | `PaymentLedger_proofs` | `Spec => []TypeOK` |
| `OneRowPerDeposit` | `PaymentLedger_proofs` | `Spec => []DepositOnce` |
| `NeverOutOfBounds` | `PaymentLedger_proofs` | `Spec => []LedgerInBounds` |
| `InvoiceAgrees` | `PaymentLedger_proofs` | `Spec => []InvoiceShowsLedger` |
| `ReportFollowsInvoice` | `PaymentLedger_proofs` | `Spec => []ReportOpenWhilePaid` |

Assumptions: `FactsAreKeyed`, `FactsAreDisjoint`, `Limits` in `ResultsDoc`, `Bounds` and
`Names` in `ReportLock`, `Links` and `Tries` in `AgreementSigning`, `OutboxBounds` in
`SyncOutbox`, `Issued` in `PortalCommands`, `Calendar` in `SlotArbitration`, `Money` in
`PaymentLedger`, `LedgerBounds` in `IdempotencyKeys`, and `OutboxEntries`,
`PackageEntries` and `ImportBounds` in `OfflineImport`. They say that constants are of
their kinds; `Limits` also says the ring holds at least one entry and a periodic
snapshot is not taken on every single update, `Issued` that no two commands have one
sequence number, and `Calendar` that no two inspections have one id, `OutboxEntries`
that no two entries have one key and one inspection, and `PackageEntries` that a package
has each key once, which `OutboxSchema` enforces. `Names` keeps the publishers apart
from the object, which sends writes too. `Money` says besides that QuickBooks reports no
more received on an invoice than its total: `inbound-reconcile.ts:74` computes it as
total less balance. TLC evaluates them in every run.

Six theorems are conditional. Their hypotheses are constants of the model, the same
that the runs set. Each leaves out executions in which the property does not hold,
most of them described in Section 4, and TLC finds one for each part that is let in.
`Sheltered`: no socket refused by a cold object, no crash before the first store, no
sibling report, no restructure of a document that is not loaded. `NoRestore`: a restore
swaps the document under an import that waits for its body. `NoRewrite`: besides, a
restructure between the store of an import and D1's answer takes out what the answer
will vouch for. `OneAtATime`: `Overlap` and `LoseLocks` are FALSE. `InOrder`: without it, an older
projection that lands late may be what the version is frozen from. `Posted = {}`: nobody
writes past the sockets. `~SlowPublisher`: a row is marked before the queue gives its
message up.

**ResultsDoc.** `TypeOK` is not inductive: a capture's number is the maximum of
the ring plus one, and that it is larger than what is there needs the numbers to
increase along the ring. `Typed == TypeOK /\ Increasing(snaps)` is inductive.
`AckedIsDurable` alone is not inductive either, because a hibernation replaces the
working copy by the stored one and an import then saves the working copy. The
strengthening `Covered` says that what is acknowledged is in storage and what is
in storage is in the working copy. It survives because handlers only add content
to the document they hold, whichever document that is, and because the only steps
that take content away (restore, restructure, abandon, purge) move the copies
together or leave memory larger. Each step is shown to be `Durably`: it keeps
`Covered` and maps to a step or a stutter of `DurableDoc`; `AckedDurable` and
`Refinement` both follow. `NumbersAreFresh` is a step relation `KeptOrNew` between
the ring before and after, composed for steps that capture more than once.
`RestoresCanBeUndone` follows from what a capture puts last into the ring
(`CapturedLast`), for a ring that is full as well.

For imports, `Steady` says that there has been one document only, so that a waiting
import is bound to the one the object works on. Then an import captures only when it
brings something the document lacks (`Precedes`), and what a write that is on its way
will answer for is stored already (`Landing`); a crash takes the answer from its
writes, a delete empties the document but frees the object of the promise.

`Unwiped`, for `NoWipe`, follows the old row's content through its four places. The
row and every write under way hold it, so that the order of the writes does not
matter (`RowHolds`). The stored document holds it once there is one, and before that
nothing was ever sent (`StoredHolds`). What a hydration has read holds it
(`ReadHolds`). The working document holds it as soon as a timer, an alarm, a socket
or a request may persist it (`Live`), and equals the stored one unless its timer is
armed, so that a hibernation does not lose it (`DocHolds`).

**ReportLock.** `ChainIntact` needs to know what a publisher read earlier: either
there was no version, or the version it chains to is still the one of that number
(`ReadsAreVersions`). With the unique index (`Free`), the number a publisher
computed is free only if nobody else has inserted since, so it is the next one.
`TypeOK` needs the chain too, since `Latest` chooses the version of largest number
and its value is known to be a version only when there is a largest one. The
inductive invariant is `Chained == TypeOK /\ ChainIntact /\ ReadsAreVersions`.

For the mark, `Guarded` says that an upgrade which read the report before the flip,
and would clear the mark when it is let in, is overtaken by the lock call. It rests on
`Sole`: whoever publishes is alone and no unlock call is on its way. For the version,
`Stage` says how far each publish has come with storing the document: answered, then
carried by a write with nothing but the same document behind it (`Flushed`), then in
the row (`Stored`), from which it is frozen; all of it for a publish that does not lag. A write that D1
refuses keeps `Growing` (what is stored and on its way only grows, up to the document)
and lets only the publish that waits for it lag. That the document does not move meanwhile
needs the mark, so the two invariants are proved together. Both are false when
requests overlap.

**ResultsDocConnection.** The properties speak of the state in which everything has
arrived; the invariant says what is still on its way, client by client (`Part`).
`Queued`: content in a channel is contained in the document it comes from, or a
restore is behind it. `Synced`: whatever one side has and the other lacks is in an
update on its way, or asked for by a state vector on its way, or the client is about
to drop its content for a restore (`Reaches`, `Learns`). With both channels empty
this leaves no difference, which is `Converged`. `EditsArrive` needs `Kept` besides:
an edit that was not dropped is in some client's local copy. `ReplacedStaysGone`
needs `Based`: while every restore was heard, nobody who is through with it holds or
sends a base but the restored one; and for the replaced edits a second invariant on top,
`Clean`: as long as nobody was sending one twice when a restore came (`Pure`), no channel
carries a replaced edit up, nobody will answer a vector with one, and a client that holds
one has a restore frame ahead of it (`Tidy`). `NeverStranded` needs `Waits`. `Wired` says how a
socket, its channels and the loading of the local copy go together.

**AgreementSigning.** `SignedIsRecorded` needs to know what a request may still
write. The inductive invariant joins to it `Claimable` (a claim is tried only on an
answer that is still open, or on a claim judged stale), `Holding` (between claim and
confirmation a request loses the row only once its claim is stale), `Written` (its
entry is in the chain when it confirms), `Justified` (the aggregate a request
carries is still what the signers answered) and `Once` (completion). The refinement
maps the rows to the answers and the envelope to the outcome, and follows step by
step.

The two properties of the state at rest need to know who is still at work.
`Carried`: when the signers have agreed and the envelope is open, a request to sign is
reading or about to write "signed", unless one has died; it may be another than the
one that signed last. `Swept`: a signer who still waits under an expired envelope will
be reached by the job or by the request that puts the row back, which rests on
`Attended` (a claim that is not stale has somebody at work on it), `PutsBack` and
`GivesUp` (what a request puts back, and when it leaves a claim alone).

**PortalCommands.** The invariant has a part per queue. `CommandNotLost` and
`NewestCredentialWins` rest on what the consumer has in hand: at each label, a
command being applied is newer than all that were applied (`Newer`), a credential is
salvaged only of a command the tenant is past (`Salvaging`), the marks never run
ahead of what was written (`Backing`, `Password`), and a message is acknowledged and
a marker stays only for a settled command (`Acking`, `Markers`, `Emptied`). Settled means
that the tenant and its credential are past the command, or that a fault forsook it.
`EventsAreKept` needs that a message sent and not marked yet is still on the queue,
unless it was processed or its write-back failed (`MarkFollowsSend`).
`OperationReported` adds, per operation, where it stands (`Standing`: run twice only
after a failed advance, marked only when reported or in hand) and what holds while the
consumer has it in hand (`Handled`).

**SlotArbitration.** `Admission` and `Judgement` say of what each booking saw when it
was admitted and judged that it collides with none of the former and comes before
all of the latter, and `Seen` that stamps of what was seen are final.
`SomeoneKeepsTheSlot` needs `Stays`: whoever was seen by a judgement is linked, unless it
lost itself or time off covers it. That rests on `Unjudged` (nobody has seen its rivals
before it is judged) and on `Beaten`: a booking that retracts lost, or is covered. Among
the losers up to a given one, some one is the
earliest, because bookings are finitely many and `Earlier` is a strict order
(`SomeoneIsFirst`, from the well-foundedness of strict subsets of a finite set); what
it was behind is in the group and has not lost, hence it is linked or covered.
`LosersLeaveNothing` needs `Tables`, which gives rows and links by the stage of each
request but for dead ones, and `Count`: the counter is the number of bookings that
counted themselves together with some of the dead ones, whichever those are.

**OfflineImport.** `SkippedTookHold` needs to know where the truth of an entry may be
written down. `Truth` says that a completed row of the ledger, a record, and an answer
in the hands of a request are each of an entry that took hold. That a stored answer is
of the entry it is read for rests on the fingerprint (`Verdict`), and that completing a
row completes the right claim rests on `Locks`: whoever is between claim and answer
owns the row of its key, alone, in flight and not expired, because no day passes
meanwhile. For `DeletedStaysDeleted`, `Looked` says that a request about to create has
its inspection among those it found without a tombstone or found present.
`CompletedWithUpdate` needs `Ordered`: when an import has reached an entry, every
earlier update of the same half either took hold or is among its refusals.

`AppliedOnce` needs to know where an effect is remembered, and that one memory begins
before the other ends (`OnceInv`). `InLedger`: an entry that took effect is in the
ledger, or forgotten by it, or about to be answered. `OnRecord`: one that an import
applied is recorded, or about to be, or too old to be imported. `UpToDate`: what an
import at work still has to do, and did not find recorded when it began, was applied
today if at all, and the ledger sweeps nothing of today. `OfToday` and `Dated` relate
the day to the export and to the record, so that a record is not swept while a
package with its entry may still come.

**PaymentLedger.** The properties are about sums over sets of rows, and a sum is a
fold. `Folds` says what a fold over the subsets of a finite set computes, `FoldsAgree`
that only one function does, `FoldExists` that one does. Induction over finite sets is
carried out as an argument about a smallest counterexample (`SmallestSet`, from the
well-foundedness of strict subsets), which cites no theorem with an operator
parameter. From there: a sum of integers is an integer, adding, removing or billing a
row changes it by what the row says, and the sign of the rows gives the sign of the
sum (`TallyInt`, `TallyAdd`, `TallyRemove`, `TallyBill`, `TallySign`).

The invariant is `Base /\ DepositOnce /\ InBounds /\ Seen`, and on top of it `Once` for
`SettledOnce`, which must not rest on `~blind`. `Once` says that once a card has settled,
the receipts that are no repetition cover the total (`Firsts`), and that what a repeated
settlement is about to enter fits into what was taken back (`Due`): it is the total less
the net that was read, hence no more than what was taken back less what repetitions had
entered, and what others append afterwards only raises that bound. `Base` says that rows
are numbered by request and have the sign of their kind (`Numbered`, `Signed`), which
statement belongs to which request (`Paths`), and that the figure a request is about
to append fits what it has read (`Bearing`); with `~blind`, what it has read is still
true. `Seen` says of each way in which the invoice or the report may differ from the
ledger that some request is on its way that sees to it: `Caught` (the cached sum),
`LastPaid`, `Closing` and `Opening` (the report). At rest nobody is on its way.

Two qualifications came out of the proof. A ledger may receive more than was billed
when it was paid in advance, because raising an invoice claims the deposits it finds
whatever they add up to; and a deposit policy of 100 per cent
(`lib/billing/deposit-policy.ts:67`) makes deposits that cover the invoice, which no
statement opens the report for. `LedgerInBounds` and `ReportOpenWhilePaid` say so
(`Advance`).

### What is only model-checked

Liveness (`D1CatchesUp`, `Reconnects`, `AbandonEmpties`, `ReopenedLetsIn`): the
prover has no rules for fairness or ENABLED that would reach them. Every other
property of a passing run is stated by a theorem, six of them under the conditions
above. No definition is RECURSIVE; the only induction is the one over finite sets that
`PaymentLedger_proofs` and `SlotArbitration_proofs` carry out.

## 7. What is not modelled

*Results document and client.* Yjs itself: which of two concurrent scalar edits
survives, array order, and photo moves. A merge is a union, so the model says
nothing of lost concurrent values. `/rename-legacy-keys`. The inspector-signature
keys that other routes write into the results row (`inspection-doc-d1.ts:44-46`
accepts that a projection may overwrite one). An online event before the client's
store has loaded (`results-doc-connection.ts:222`). The close event of an old socket that
arrives after a new one was opened: sockets close at once in the model. Failures of the object's own
storage: the runtime resets the object then, which is `Crash`.

*Publish.* Multi-report publishes, amendments, PDFs, signatures and e-mail of a
published version. Clocks that disagree. An insert of a version that fails for another
reason than a number that is taken.

*Agreements.* `mergeSignersIntoEnvelope` (`envelope-legacy.ts:247-299`), sending and
reminders, link tokens, the default signer of a legacy envelope, the position
compare-and-swap and hashes of the audit chain, the steps inside the durable
completion workflow.

*Portal.* What an operation does, attempt counters and back-off delays, the portal's
own side beyond "processes an event once, asks at least once".

*Booking.* The capped free plan, whose overshoot `plan-quota/guard.ts:114-123`
accepts; routing, geocoding, and everything that follows a booking that won.

*Ledger.* The seed of an invoice that is older than the ledger, confirmed
overpayments, `markRefunded`, which no route calls, several invoices of one order,
and the push to QuickBooks. The amount a card was charged, which no statement reads.

*Idempotency keys and packages.* E-mail deduplication (the other user of the key
table; no caller passes a key), the package format, photos and results (the
object's side of these is in `ResultsDoc`), the rules by which roles, scopes and the lock
of a published report refuse a request (that they may refuse any is modelled), and the
media upload queue of the client.

*Not reached.* The parts in the table of Section 1. Most of the repository is
screens, report rendering, templates and CRUD without shared mutable state between
requests, where a state machine would say nothing that the code does not.

## 8. Plan

Done: `DurableDoc`, `ResultsDoc`, `ReportLock`, `ResultsDocConnection`,
`AgreementOutcome`, `AgreementSigning`, `SyncOutbox`, `PortalCommands`,
`SlotArbitration`, `PaymentLedger`, `IdempotencyKeys`, `OfflineImport`, their runs and
theorems.

Next, in this order:

1. The abstract promises on their own: `AckedIsSaved` of `DurableDoc`, and of
   `AgreementOutcome` that no outcome is changed, as theorems of those modules.
2. `CronSweep`: tick, page, cursor, hop limit, overlapping sweeps.
3. `mergeSignersIntoEnvelope` in `AgreementSigning`; `/rename-legacy-keys` in
   `ResultsDoc`.
