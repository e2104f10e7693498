----------------------------- MODULE ResultsDoc -----------------------------
(***************************************************************************)
(* The collaborative results document of one report: InspectionDocDO       *)
(* (server/durable-objects/inspection-doc.ts), its Durable Object storage  *)
(* and the report's inspection_results row in D1.                          *)
(*                                                                         *)
(* The object runs one event at a time.  A handler that only awaits the    *)
(* object's own storage is one step here, because the runtime's input gate *)
(* holds back every other event meanwhile.  A handler that awaits D1 or a  *)
(* request body is split at that await, so anything may run in between.    *)
(*                                                                         *)
(* A document is abstracted to the finding keys it holds and the set of    *)
(* facts (ratings, notes, photos ...) recorded under them.  How two Yjs    *)
(* replicas merge is not modelled here: a merge is the union of facts.     *)
(*                                                                         *)
(* A definition named Faulty... is a mistake the one after it could easily *)
(* have been written with; the checks use it in its place to show that a   *)
(* property would notice.  Nothing else refers to it.                      *)
(***************************************************************************)
EXTENDS Naturals, Sequences, FiniteSets

CONSTANTS
    Clients,        \* editors that may open a socket
    Edits,          \* facts editors and offline imports bring
    Legacy,         \* facts the report's D1 row held before the document was first opened
    Sibling,        \* facts in the row of another report of the same inspection ({}: it has none)
    Unprojected,    \* facts projectResults leaves out (repair prices)
    Keys,           \* finding keys
    KeyOf,          \* the finding key a fact is recorded under
    Template,       \* finding keys of the template when the model starts
    NewTemplate,    \* finding keys after the template was edited
    SnapshotCap,    \* SNAPSHOT_CAP
    SnapshotEvery,  \* SNAPSHOT_EVERY
    Verbs,          \* which HTTP verbs and outside events are called in this instance
    InOrder,        \* TRUE: D1 applies the object's writes in the order they were sent
    EarlyCrash,     \* TRUE: memory may also be lost before the document was first stored
    Published,      \* TRUE: the report is published when the model starts
    MaxCrashes, MaxFails, MaxRestores, MaxCaptures, MaxWrites

Fact == Legacy \cup Edits \cup Sibling

ASSUME FactsAreKeyed ==
    /\ KeyOf \in [Fact -> Keys]
    /\ Template \subseteq Keys /\ NewTemplate \subseteq Keys
ASSUME FactsAreDisjoint ==
    /\ Legacy \cap Edits = {} /\ Legacy \cap Sibling = {} /\ Edits \cap Sibling = {}
    /\ Unprojected \subseteq Edits
ASSUME Limits ==
    /\ SnapshotCap \in Nat \ {0} /\ SnapshotEvery \in Nat \ {0, 1}
    /\ {MaxCrashes, MaxFails, MaxRestores, MaxCaptures, MaxWrites} \subseteq Nat
    /\ {InOrder, EarlyCrash, Published} \subseteq BOOLEAN

VARIABLES
    \* the object's memory
    doc,        \* this.doc
    gen,        \* which Y.Doc this.doc is: a restore swaps in another one
    hadStored,  \* hadStoredState
    known,      \* tenantId, inspectionId and reportId are known
    load,       \* d1HydrationPromise: "no", "reading", "done", "failed"
    read,       \* what the hydration read from D1
    timer,      \* persistTimer is armed
    count,      \* updatesSinceSnapshot
    open,       \* accepted sockets
    waiting,    \* requests parked at an await
    \* the object's storage
    stored,     \* the 'ydoc' key exists
    ydoc,       \* what it decodes to
    ident,      \* the 'identity' key exists
    alarm,      \* the storage alarm is set
    snaps,      \* the 'snapshots' ring
    \* D1
    row,        \* the report's inspection_results.data
    hasRow,     \* the row exists
    template,   \* the finding keys of inspections.templateSnapshot
    published,  \* the report is published
    deletion,   \* how far a delete of the inspection has come
    writes,     \* projection writes in flight, oldest first
    \* what the properties speak about
    acked,      \* facts editors were acknowledged
    imported,   \* facts of imports that were answered 200
    chosen,     \* legacy facts somebody chose to drop
    tally       \* occurrences of the bounded events so far

memory  == <<doc, gen, hadStored, known, load, read, timer, count, open, waiting>>
storage == <<stored, ydoc, ident, alarm, snaps>>
tables  == <<row, hasRow, template, published, deletion>>
d1      == <<tables, writes>>
ghost   == <<acked, imported, chosen, tally>>
vars    == <<memory, storage, d1, ghost>>

-----------------------------------------------------------------------------
\* Documents and projections

Content == [keys : SUBSET Keys, facts : SUBSET Fact]
Empty   == [keys |-> {}, facts |-> {}]

KeysOf(F) == {KeyOf[f] : f \in F}

\* seedResultsDoc: keys that exist are left alone.
Seed(d, K) == [d EXCEPT !.keys = @ \cup K]

\* An edit or an applied update: getOrSeedItem, then the field.
Merge(d, F) == [keys |-> d.keys \cup KeysOf(F), facts |-> d.facts \cup F]

\* projectResults: keys are kept even when empty, some facts are not surfaced.
Projection(d) == [d EXCEPT !.facts = @ \ Unprojected]

\* loadResultsProjection: merges a projection into a document.
LoadProjection(d, p) == [keys |-> d.keys \cup p.keys, facts |-> d.facts \cup p.facts]

\* restructure: seed what the template has, remove what it has not.
Restructured(d, K) == [keys |-> K, facts |-> {f \in d.facts : KeyOf[f] \in K}]

\* The ring: a capture appends with the next sequence number and drops the
\* oldest entry over the cap.  "brings" records, for an import, the facts it
\* was taken ahead of.
SeqsOf(ring)  == {ring[i].seq : i \in 1..Len(ring)}
FaultySeqIsLength(ring) == Len(ring)
NextSeq(ring) == IF ring = <<>> THEN 0
                 ELSE 1 + CHOOSE m \in SeqsOf(ring) : \A s \in SeqsOf(ring) : s <= m

FaultyCaptureDropsNewest(ring, d, why, F) ==
    IF Len(ring) = SnapshotCap THEN ring
    ELSE Append(ring, [seq |-> NextSeq(ring), reason |-> why, projection |-> Projection(d), brings |-> F])

FaultyCaptureUncapped(ring, d, why, F) ==
    Append(ring, [seq |-> NextSeq(ring), reason |-> why, projection |-> Projection(d), brings |-> F])

Capture(ring, d, why, F) ==
    LET all == Append(ring, [seq |-> NextSeq(ring), reason |-> why,
                             projection |-> Projection(d), brings |-> F])
    IN  IF Len(all) > SnapshotCap THEN Tail(all) ELSE all

-----------------------------------------------------------------------------
\* What the handlers do to the document

\* onDocUpdate after n update events that left the document as d: broadcast,
\* schedulePersist, and the periodic snapshot.
FaultyUpdatedWithoutAlarm(n, d, ring) ==
    /\ timer' = (timer \/ n > 0) /\ UNCHANGED alarm
    /\ count' = (count + n) % SnapshotEvery
    /\ snaps' = IF count + n >= SnapshotEvery THEN Capture(ring, d, "periodic", {}) ELSE ring

Updated(n, d, ring) ==
    IF n = 0
    THEN UNCHANGED <<timer, alarm, count>> /\ snaps' = ring
    ELSE /\ timer' = TRUE
         /\ alarm' = TRUE
         /\ IF count + n >= SnapshotEvery
            THEN count' = count + n - SnapshotEvery /\ snaps' = Capture(ring, d, "periodic", {})
            ELSE count' = count + n /\ snaps' = ring

Changes(before, after) == IF before = after THEN 0 ELSE 1

\* AckTracker: the open sockets are told which state was stored, here the facts
\* of d.  (The frame's size cap and the skipping of a repeated frame only ever
\* acknowledge less.)
Acknowledged(d) == IF open' = {} THEN {} ELSE d.facts

\* persist() up to its D1 await: the document goes into storage, sockets that
\* asked for it are acknowledged, and the projection is sent to D1.
FaultyPersistAcksFirst(d, why, F, kept) ==
    /\ acked' = kept \cup Acknowledged(d)
    /\ writes' = Append(writes, [data |-> Projection(d), why |-> why, facts |-> F])
    /\ UNCHANGED <<stored, ydoc, ident>>

Persist(d, why, F, kept) ==
    /\ stored' = TRUE
    /\ ydoc'   = d
    /\ acked'  = kept \cup Acknowledged(d)
    /\ IF known
       THEN ident' = TRUE /\ writes' = Append(writes, [data |-> Projection(d), why |-> why, facts |-> F])
       ELSE UNCHANGED <<ident, writes>>

Room == Len(writes) < MaxWrites

\* The inspection's own row is gone.
Gone == deletion \in {"gone", "unnamed", "purged"}

\* The verb is one of those called in this instance.  authorizeCollab lets a
\* request through while the inspection and its report rows exist.
Called(v) == v \in Verbs /\ deletion = "no"

Count(event, max) == tally[event] < max /\ tally' = [tally EXCEPT ![event] = @ + 1]

\* hydrateFromD1Once: the first caller starts the read, later ones join it.
StartLoad == load' = IF load = "no" THEN "reading" ELSE load

Wait(w) == waiting' = waiting \cup {w}

-----------------------------------------------------------------------------
Init ==
    /\ doc = Empty /\ gen = 0 /\ hadStored = FALSE /\ known = FALSE
    /\ load = "no" /\ read = [row |-> Empty, keys |-> {}, got |-> FALSE]
    /\ timer = FALSE /\ count = 0 /\ open = {} /\ waiting = {}
    /\ stored = FALSE /\ ydoc = Empty /\ ident = FALSE /\ alarm = FALSE /\ snaps = <<>>
    /\ row = Merge(Empty, Legacy) /\ hasRow = TRUE /\ template = Template
    /\ published = Published /\ deletion = "no" /\ writes = <<>>
    /\ acked = {} /\ imported = {} /\ chosen = {}
    /\ tally = [e \in {"crash", "fail", "restore", "capture"} |-> 0]

-----------------------------------------------------------------------------
\* Opening a socket and loading the document

\* /ws up to the hydration await: identity is adopted and stored first.
Upgrade(c) ==
    /\ deletion = "no" /\ ~published
    /\ c \notin open /\ [kind |-> "ws", who |-> c, gen |-> 0] \notin waiting
    /\ known' = TRUE /\ ident' = TRUE
    /\ StartLoad
    /\ Wait([kind |-> "ws", who |-> c, gen |-> 0])
    /\ UNCHANGED <<doc, gen, hadStored, read, timer, count, open, stored, ydoc, alarm, snaps, d1, ghost>>

\* D1 answers the hydration's reads.  The results row is looked up by the
\* inspection alone, so a sibling report's row may be the one returned.
LoadRead ==
    /\ load = "reading" /\ ~read.got
    /\ \E r \in {row} \cup (IF Sibling = {} \/ Gone THEN {} ELSE {Merge(Empty, Sibling)}) :
          read' = [row |-> r, keys |-> template, got |-> TRUE]
    /\ UNCHANGED <<doc, gen, hadStored, known, load, timer, count, open, waiting, storage, d1, ghost>>

FaultyLoadSeedsOnly ==
    /\ load = "reading" /\ read.got
    /\ load' = "done"
    /\ doc' = Seed(doc, read.keys)
    /\ Updated(Changes(doc, doc'), doc', snaps)
    /\ UNCHANGED <<gen, hadStored, known, read, open, waiting, stored, ydoc, ident, d1, ghost>>

\* The rest of doHydrateFromD1: always seed; import the blob only when the
\* object had no stored document.
LoadApply ==
    LET seeded == Seed(doc, read.keys)
        loaded == IF hadStored THEN seeded ELSE LoadProjection(seeded, read.row)
    IN  /\ load = "reading" /\ read.got
        /\ load' = "done"
        /\ doc' = loaded
        /\ Updated(Changes(doc, seeded) + Changes(seeded, loaded), loaded, snaps)
        /\ UNCHANGED <<gen, hadStored, known, read, open, waiting, stored, ydoc, ident, d1, ghost>>

\* D1 refuses the read.  The rejected promise stays memoized.
LoadFail ==
    /\ load = "reading" /\ ~read.got
    /\ Count("fail", MaxFails)
    /\ load' = "failed"
    /\ UNCHANGED <<doc, gen, hadStored, known, read, timer, count, open, waiting, storage, d1,
                   acked, imported, chosen>>

\* captureSnapshotOnConnect: skipped when nothing changed since the newest one.
ConnectCapture ==
    IF snaps # <<>> /\ snaps[Len(snaps)].projection = Projection(doc)
    THEN snaps ELSE Capture(snaps, doc, "connect", {})

\* The rest of /ws: the connect snapshot, then the socket is accepted.
Accept(c) ==
    LET w == [kind |-> "ws", who |-> c, gen |-> 0]
    IN  /\ w \in waiting /\ load = "done"
        /\ waiting' = waiting \ {w}
        /\ open' = open \cup {c}
        /\ snaps' = ConnectCapture
        /\ UNCHANGED <<doc, gen, hadStored, known, load, read, timer, count, stored, ydoc, ident, alarm, d1, ghost>>

\* A request that awaits a failed hydration fails with it.
Reject(w) ==
    /\ w \in waiting /\ load = "failed" /\ w.kind # "import body"
    /\ waiting' = waiting \ {w}
    /\ UNCHANGED <<doc, gen, hadStored, known, load, read, timer, count, open, storage, d1, ghost>>

-----------------------------------------------------------------------------
\* Editing through a socket

\* webSocketMessage with a step2 or an update that brings f.
Message(c, f) ==
    /\ c \in open
    /\ f \notin doc.facts
    /\ doc' = Merge(doc, {f})
    /\ Updated(1, doc', snaps)
    /\ UNCHANGED <<gen, hadStored, known, load, read, open, waiting, stored, ydoc, ident, d1, ghost>>

\* webSocketClose / webSocketError: the last socket to go flushes.
Disconnect(c) ==
    /\ c \in open
    /\ open' = open \ {c}
    /\ IF open' = {}
       THEN /\ Room
            /\ timer' = FALSE
            /\ Persist(doc, "close", {}, acked)
       ELSE UNCHANGED <<timer, stored, ydoc, ident, acked, writes>>
    /\ UNCHANGED <<doc, gen, hadStored, known, load, read, count, waiting, alarm, snaps,
                   tables, imported, chosen, tally>>

\* A socket that was refused because the report is published is accepted and
\* closed before identity is adopted and before anything is loaded; its close
\* event runs the same last-disconnect flush.
RefusedClose ==
    /\ published /\ deletion = "no" /\ open = {} /\ Room
    /\ timer' = FALSE /\ UNCHANGED open
    /\ Persist(doc, "close", {}, acked)
    /\ UNCHANGED <<doc, gen, hadStored, known, load, read, count, waiting, alarm, snaps,
                   tables, imported, chosen, tally>>

\* "Edit and republish": the report takes edits again.
EditAgain ==
    /\ published /\ deletion = "no"
    /\ published' = FALSE
    /\ UNCHANGED <<memory, storage, row, hasRow, template, deletion, writes, ghost>>

-----------------------------------------------------------------------------
\* The triggers of persist()

Saving(why) ==
    /\ Room /\ UNCHANGED open
    /\ Persist(doc, why, {}, acked)
    /\ UNCHANGED <<doc, gen, hadStored, known, load, read, count, waiting, snaps,
                   tables, imported, chosen, tally>>

TimerFire == timer /\ timer' = FALSE /\ UNCHANGED alarm /\ Saving("timer")

\* alarm(): without an identity there is nothing to write for.
AlarmFire ==
    /\ alarm /\ alarm' = FALSE
    /\ IF known THEN Saving("alarm") /\ UNCHANGED timer
       ELSE UNCHANGED <<memory, stored, ydoc, ident, snaps, d1, ghost>>

\* /flush, asked for by a publish before it reads the row.
Flush == Called("flush") /\ open # {} /\ UNCHANGED <<timer, alarm>> /\ Saving("flush")

-----------------------------------------------------------------------------
\* D1's side of writeResultsProjection

DropWrite(i) == [j \in 1..(Len(writes) - 1) |-> IF j < i THEN writes[j] ELSE writes[j + 1]]

\* A results row refers to its inspection, so D1 refuses it once that is gone.
Insertable == ~Gone

\* The update lands, or the insert when the report has no row (any more).
WriteLands(i) ==
    /\ i \in 1..Len(writes) /\ (InOrder => i = 1)
    /\ Insertable
    /\ row' = writes[i].data /\ hasRow' = TRUE
    /\ imported' = imported \cup writes[i].facts
    /\ writes' = DropWrite(i)
    /\ UNCHANGED <<memory, storage, template, published, deletion, acked, chosen, tally>>

\* D1 fails the read of the meta keys or the write.  The runtime runs an alarm
\* whose handler threw again; nothing else retries by itself.
WriteFails(i) ==
    /\ i \in 1..Len(writes) /\ (InOrder => i = 1)
    /\ Count("fail", MaxFails)
    /\ alarm' = (alarm \/ writes[i].why = "alarm")
    /\ writes' = DropWrite(i)
    /\ UNCHANGED <<memory, stored, ydoc, ident, snaps, tables, acked, imported, chosen>>

FaultyWipeKeepsDocument ==
    /\ ident' = FALSE /\ alarm' = FALSE /\ snaps' = <<>>
    /\ UNCHANGED <<stored, ydoc, acked>>

Wipe == /\ stored' = FALSE /\ ydoc' = Empty /\ ident' = FALSE /\ alarm' = FALSE /\ snaps' = <<>>
        /\ acked' = {}

\* The inspection is gone: the write is refused and abandon() empties storage.
\* A write whose object died has nobody left to abandon.
Abandon(i) ==
    /\ i \in 1..Len(writes) /\ (InOrder => i = 1)
    /\ Gone
    /\ writes' = DropWrite(i)
    /\ IF writes[i].why = "orphan" THEN UNCHANGED <<timer, storage, acked>>
       ELSE timer' = FALSE /\ Wipe
    /\ UNCHANGED <<doc, gen, hadStored, known, load, read, count, open, waiting,
                   tables, imported, chosen, tally>>

-----------------------------------------------------------------------------
\* The HTTP verbs

\* POST /snapshots.  It does not load the document first.
TakeSnapshot ==
    /\ Called("snapshot") /\ Count("capture", MaxCaptures)
    /\ snaps' = Capture(snaps, doc, "manual", {})
    /\ UNCHANGED <<memory, stored, ydoc, ident, alarm, d1, acked, imported, chosen>>

\* POST /restore: the current state is captured, a fresh document is built
\* from the target and swapped in, and it is persisted.
Restore(i) ==
    /\ Called("restore") /\ Room /\ Count("restore", MaxRestores)
    /\ UNCHANGED open
    /\ i \in 1..Len(snaps)
    /\ LET target == snaps[i].projection
       IN  /\ snaps' = Capture(snaps, doc, "manual", {})
           /\ doc' = LoadProjection(Empty, target)
           /\ gen' = gen + 1
           /\ count' = 0
           /\ Persist(doc', "restore", {}, acked \cap target.facts)
           /\ imported' = imported \cap target.facts
           /\ chosen' = chosen \cup (Legacy \ target.facts)
    /\ UNCHANGED <<hadStored, known, load, read, timer, waiting, alarm, tables>>

\* The template of the inspection is edited: its own route, straight to D1.
EditTemplate ==
    /\ Called("restructure") /\ template # NewTemplate
    /\ template' = NewTemplate
    /\ UNCHANGED <<memory, storage, row, hasRow, published, deletion, writes, ghost>>

\* POST /restructure up to its D1 read.  It does not load the document first.
RestructureRequest ==
    /\ Called("restructure") /\ template = NewTemplate
    /\ "cold restructure" \in Verbs \/ load = "done"
    /\ known' = TRUE
    /\ Wait([kind |-> "restructure", who |-> template, gen |-> gen])
    /\ UNCHANGED <<doc, gen, hadStored, load, read, timer, count, open, storage, d1, ghost>>

\* The rest of it, on whatever this.doc is by then.
RestructureApply(w) ==
    LET next == Restructured(doc, w.who)
    IN  /\ w \in waiting /\ w.kind = "restructure" /\ Room /\ UNCHANGED open
        /\ waiting' = waiting \ {w}
        /\ doc' = next
        /\ Updated(Changes(doc, Seed(doc, w.who)) + Changes(Seed(doc, w.who), next), next, snaps)
        /\ Persist(next, "restructure", {}, acked \cap next.facts)
        /\ imported' = imported \cap next.facts
        /\ chosen' = chosen \cup {f \in Legacy : KeyOf[f] \notin w.who}
        /\ UNCHANGED <<gen, hadStored, known, load, read, tables, tally>>

\* POST /import up to the hydration await.
ImportRequest(f) ==
    /\ Called("import") /\ [kind |-> "import", who |-> f, gen |-> 0] \notin waiting
    /\ known' = TRUE
    /\ StartLoad
    /\ Wait([kind |-> "import", who |-> f, gen |-> 0])
    /\ UNCHANGED <<doc, gen, hadStored, read, timer, count, open, storage, d1, ghost>>

\* Loaded: this.doc is taken as an argument, and then the body is awaited.
ImportBind(w) ==
    /\ w \in waiting /\ w.kind = "import" /\ load = "done"
    /\ waiting' = (waiting \ {w}) \cup {[kind |-> "import body", who |-> w.who, gen |-> gen]}
    /\ UNCHANGED <<doc, gen, hadStored, known, load, read, timer, count, open, storage, d1, ghost>>

\* Whether the update changes the document it was bound to.  A document that
\* was swapped out is no longer tracked here: either answer is possible.
FaultyAlwaysChanges(w) == {TRUE}
Changed(w) == IF w.gen = gen THEN {w.who \notin doc.facts} ELSE BOOLEAN

\* applyImport on the document that was bound: an update that changes nothing
\* takes no snapshot; otherwise a snapshot, then the update.  Either way the
\* object persists this.doc, which need not be the document that was bound.
ImportApply(w) ==
    /\ w \in waiting /\ w.kind = "import body" /\ Room /\ UNCHANGED open
    /\ waiting' = waiting \ {w}
    /\ \E changed \in Changed(w) :
          LET next == IF w.gen = gen THEN Merge(doc, {w.who}) ELSE doc
              ring == IF changed THEN Capture(snaps, doc, "import", {w.who}) ELSE snaps
          IN  /\ doc' = next
              /\ Updated(Changes(doc, next), next, ring)
              /\ Persist(next, "import", {w.who}, acked)
    /\ UNCHANGED <<gen, hadStored, known, load, read, tables, imported, chosen, tally>>

\* POST /followup (and /resolve-pending): the document is bound before the
\* hydration await, then patched and persisted.  No snapshot is taken.
PatchRequest(f) ==
    /\ Called("followup") /\ \A w \in waiting : w.kind = "followup" => w.who # f
    /\ known' = TRUE
    /\ StartLoad
    /\ Wait([kind |-> "followup", who |-> f, gen |-> gen])
    /\ UNCHANGED <<doc, gen, hadStored, read, timer, count, open, storage, d1, ghost>>

PatchApply(w) ==
    LET next == IF w.gen = gen THEN Merge(doc, {w.who}) ELSE doc
    IN  /\ w \in waiting /\ w.kind = "followup" /\ load = "done" /\ Room /\ UNCHANGED open
        /\ waiting' = waiting \ {w}
        /\ doc' = next
        /\ Updated(Changes(doc, next), next, snaps)
        /\ Persist(next, "followup", {}, acked)
        /\ UNCHANGED <<gen, hadStored, known, load, read, tables, imported, chosen, tally>>

\* deleteInspectionCascade reads the report ids and removes every child row.
\* A retry after a failure finds no report any more, so it has no object to name.
DeleteRows ==
    /\ "delete" \in Verbs /\ deletion \in {"no", "failed"}
    /\ row' = Empty /\ hasRow' = FALSE
    /\ deletion' = IF deletion = "no" THEN "rows" ELSE "rows again"
    /\ UNCHANGED <<memory, storage, template, published, writes, ghost>>

\* Then the inspection itself.  A results row written meanwhile still refers
\* to it, so D1 refuses and the delete fails half way.
DeleteInspection ==
    /\ deletion \in {"rows", "rows again"}
    /\ IF hasRow
       THEN deletion' = "failed" /\ UNCHANGED template
       ELSE /\ deletion' = IF deletion = "rows" THEN "gone" ELSE "unnamed"
            /\ template' = {}
    /\ UNCHANGED <<memory, storage, row, hasRow, published, writes, ghost>>

\* Last, /purge: the object empties its storage.  Memory is left alone.
Purge ==
    /\ deletion = "gone" /\ deletion' = "purged"
    /\ Wipe
    /\ UNCHANGED <<memory, row, hasRow, template, published, writes, imported, chosen, tally>>

-----------------------------------------------------------------------------
\* Losing memory

FaultyReconstructFromD1 ==
    /\ doc' = LoadProjection(Empty, row) /\ hadStored' = stored /\ known' = ident
    /\ gen' = 0 /\ load' = "no" /\ read' = [row |-> Empty, keys |-> {}, got |-> FALSE]
    /\ timer' = FALSE /\ count' = 0

FaultyReconstructKeepsLoad ==
    /\ doc' = ydoc /\ hadStored' = stored /\ known' = ident
    /\ gen' = 0 /\ UNCHANGED <<load, read>> /\ timer' = FALSE /\ count' = 0

\* The constructor: hydrate() from storage, which is not an update.
Reconstruct ==
    /\ doc' = ydoc /\ hadStored' = stored /\ known' = ident
    /\ gen' = 0 /\ load' = "no" /\ read' = [row |-> Empty, keys |-> {}, got |-> FALSE]
    /\ timer' = FALSE /\ count' = 0

\* Hibernation: only when nothing is pending.  Sockets survive it.
Sleep ==
    /\ ~timer /\ waiting = {} /\ load # "reading"
    /\ \A i \in 1..Len(writes) : writes[i].why = "orphan"
    /\ Reconstruct
    /\ UNCHANGED <<open, waiting, storage, d1, ghost>>

\* A crash, a deploy or an eviction under way.  Sockets and parked requests are
\* gone, a write already sent to D1 may still land, an interrupted alarm is
\* run again.
Crash ==
    /\ EarlyCrash \/ stored \/ load = "no"
    /\ Count("crash", MaxCrashes)
    /\ Reconstruct
    /\ open' = {} /\ waiting' = {}
    /\ alarm' = (alarm \/ \E i \in 1..Len(writes) : writes[i].why = "alarm")
    /\ writes' = [i \in 1..Len(writes) |-> [writes[i] EXCEPT !.why = "orphan", !.facts = {}]]
    /\ UNCHANGED <<stored, ydoc, ident, snaps, tables, acked, imported, chosen>>

-----------------------------------------------------------------------------
Next ==
    \/ \E c \in Clients : Upgrade(c) \/ Accept(c) \/ Disconnect(c)
    \/ \E c \in Clients, f \in Edits : Message(c, f)
    \/ LoadRead \/ LoadApply \/ LoadFail \/ RefusedClose \/ EditAgain
    \/ \E w \in waiting : Reject(w) \/ RestructureApply(w) \/ ImportBind(w) \/ ImportApply(w) \/ PatchApply(w)
    \/ TimerFire \/ AlarmFire \/ Flush
    \/ \E i \in 1..Len(writes) : WriteLands(i) \/ WriteFails(i) \/ Abandon(i)
    \/ TakeSnapshot \/ EditTemplate \/ RestructureRequest
    \/ \E i \in 1..Len(snaps) : Restore(i)
    \/ \E f \in Edits : ImportRequest(f) \/ PatchRequest(f)
    \/ DeleteRows \/ DeleteInspection \/ Purge
    \/ Sleep \/ Crash

Spec == Init /\ [][Next]_vars
-----------------------------------------------------------------------------
\* Every variable holds a value of its kind.
Why    == {"close", "timer", "alarm", "flush", "restore", "restructure", "import", "followup", "orphan"}
Reason == {"connect", "periodic", "manual", "import"}
Load   == {"no", "reading", "done", "failed"}
Deletion == {"no", "rows", "rows again", "failed", "gone", "unnamed", "purged"}

Write    == [data : Content, why : Why, facts : SUBSET Edits]
Request  == [kind : {"ws"}, who : Clients, gen : {0}]
       \cup [kind : {"import", "import body", "followup"}, who : Edits, gen : Nat]
       \cup [kind : {"restructure"}, who : SUBSET Keys, gen : Nat]
Snapshot == [seq : Nat, reason : Reason, projection : Content, brings : SUBSET Edits]

MemoryOK ==
    /\ doc \in Content /\ gen \in Nat /\ hadStored \in BOOLEAN /\ known \in BOOLEAN
    /\ load \in Load
    /\ read \in [row : Content, keys : SUBSET Keys, got : BOOLEAN]
    /\ timer \in BOOLEAN /\ count \in 0..(SnapshotEvery - 1)
    /\ open \in SUBSET Clients /\ waiting \in SUBSET Request

StorageOK ==
    /\ stored \in BOOLEAN /\ ydoc \in Content /\ ident \in BOOLEAN /\ alarm \in BOOLEAN
    /\ snaps \in Seq(Snapshot) /\ Len(snaps) <= SnapshotCap

TablesOK ==
    /\ row \in Content /\ hasRow \in BOOLEAN
    /\ template \in SUBSET Keys /\ published \in BOOLEAN
    /\ deletion \in Deletion

WritesOK == writes \in Seq(Write) /\ Len(writes) <= MaxWrites

GhostOK ==
    /\ acked \in SUBSET Fact /\ imported \in SUBSET Fact /\ chosen \in SUBSET Legacy
    /\ tally \in [{"crash", "fail", "restore", "capture"} -> Nat]

TypeOK == MemoryOK /\ StorageOK /\ TablesOK /\ WritesOK /\ GhostOK

\* An ack frame says what the object's storage holds (inspection-doc-ack.ts):
\* whatever was ever acknowledged is in storage, across hibernation, crashes,
\* hydration and imports, until somebody restores or restructures it away.
AckedIsDurable == acked \subseteq ydoc.facts

\* NO-WIPE: what the report's row held before the document was first opened
\* stays in the row until somebody chooses to drop it (doHydrateFromD1).
NoWipe == deletion = "no" => Legacy \subseteq row.facts \cup chosen

\* A 200 from /import means the imported update is durable (importResponse).
ImportIsDurable == ~Gone => imported \subseteq ydoc.facts

\* A "before the import" snapshot really precedes the import: a retry of an
\* import never buries it under one that already holds the update.
ImportSnapshotPrecedes ==
    \A i \in 1..Len(snaps) :
        snaps[i].reason = "import" => ~(snaps[i].brings \subseteq snaps[i].projection.facts)

\* A sequence number names one snapshot for ever: numbers survive hibernation,
\* crashes and the ring's cap, and are never handed out twice.
SeqsNeverReused ==
    [][\A i \in 1..Len(snaps') :
          \/ \E j \in 1..Len(snaps) : snaps[j] = snaps'[i]
          \/ \A t \in SeqsOf(snaps) : snaps'[i].seq > t]_vars

\* A restore can itself be undone: the state it replaced is in the ring
\* afterwards, even when the ring was full.
RestoreIsReversible ==
    [][gen' > gen => \E i \in 1..Len(snaps') : snaps'[i].projection = Projection(doc)]_vars

-----------------------------------------------------------------------------
\* Fairness.  The runtime delivers timers, alarms and the answers of D1, and
\* resumes a handler whose awaited value has arrived.  It does not owe anybody
\* an edit, a request, a disconnect or a crash.
Progress ==
    /\ WF_vars(TimerFire) /\ WF_vars(AlarmFire)
    /\ WF_vars(LoadRead) /\ WF_vars(LoadApply)
    /\ WF_vars(\E i \in 1..Len(writes) : WriteLands(i) \/ Abandon(i))
    /\ WF_vars(\E w \in waiting : Reject(w) \/ RestructureApply(w) \/ ImportBind(w) \/ ImportApply(w) \/ PatchApply(w))
    /\ \A c \in Clients : WF_vars(Accept(c))

\* The delete route runs to its end, and a delete that failed is tried again.
DeleteProgress == WF_vars(DeleteRows /\ deletion # "no") /\ WF_vars(DeleteInspection) /\ WF_vars(Purge)

\* A client that is not connected keeps trying (scheduleReconnect), and its
\* backoff grows past the idle time after which the runtime drops the object.
ClientProgress == /\ \A c \in Clients : WF_vars(Upgrade(c))
                  /\ SF_vars(Sleep)

FairSpec == Spec /\ Progress /\ DeleteProgress /\ ClientProgress

\* Once edits stop, the report's row is the projection of the stored document:
\* debounce, alarm and last-disconnect flush together leave nothing behind.
D1CatchesUp == <>[](deletion = "no" /\ stored => row = Projection(ydoc))

\* What a late edit puts into the emptied storage together with the document's
\* identity is emptied again by the write that D1 refuses (abandon), unless a
\* crash or a failed call kept that answer from the object.
Undisturbed    == tally["crash"] = 0 /\ tally["fail"] = 0
AbandonEmpties == deletion # "unnamed" /\ Gone /\ stored /\ ident ~> ~stored \/ ~Undisturbed

\* A failed hydration does not lock an editor out for good.
Reconnects == \A c \in Clients : []<>(c \in open \/ Gone \/ published)

\* Refinement: for a live inspection this is the abstract durable document.
Durable == INSTANCE DurableDoc WITH merged <- doc.facts, saved <- ydoc.facts
ImplementsDurableDoc == Durable!Spec
=============================================================================
