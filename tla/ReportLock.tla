----------------------------- MODULE ReportLock -----------------------------
(***************************************************************************)
(* Publishing a report while people edit it: the publish route with its    *)
(* "nothing changed" check, the lock mark and the sockets of the report's  *)
(* results document (inspection-doc-lock.ts), "Edit and republish" and     *)
(* retract, and the chain of frozen versions (ReportVersionService).       *)
(*                                                                         *)
(* Every call from a route to the object or to D1 is a step of its own.    *)
(* The object's memory is not lost here (ResultsDoc has that), and content *)
(* is a set of edits.  Clocks are abstracted to the one comparison made    *)
(* with them: an upgrade is "overtaken" when the document was marked after *)
(* the route stamped the request.                                          *)
(*                                                                         *)
(* A definition named Faulty... is a mistake the one after it could easily *)
(* have been written with; nothing else refers to it.                      *)
(***************************************************************************)
EXTENDS Naturals, Sequences, FiniteSets

CONSTANTS
    Clients,        \* editors that may open a socket
    Typed,          \* edits that come through a socket
    Posted,         \* edits that come through an HTTP write (import, follow-up)
    Publishers,     \* people who may ask for a publish
    Overlap,        \* TRUE: requests, and sockets that go away, may overlap a publish
    InOrder,        \* TRUE: D1 applies the object's writes in the order they were sent
    LoseLocks,      \* TRUE: a lock call may fail to reach the object
    LoseUnlocks,    \* TRUE: an unlock call may fail to reach the object
    MaxVersions, MaxWrites, MaxUnlocks

Edit == Typed \cup Posted

ASSUME Bounds ==
    /\ {MaxVersions, MaxWrites, MaxUnlocks} \subseteq Nat
    /\ {Overlap, InOrder, LoseLocks, LoseUnlocks} \subseteq BOOLEAN

ASSUME Names == "object" \notin Publishers     \* who sends a write

VARIABLES
    status,     \* reportEditState: "draft", "published", "editing"
    row,        \* the report's inspection_results.data
    versions,   \* its report_versions rows
    writes,     \* the object's projection writes in flight to D1
    doc,        \* the object's document
    timer,      \* its debounce timer is armed
    mark,       \* the key 'locked-for-publish' exists
    open,       \* accepted sockets
    upgrades,   \* socket requests between route and object
    posts,      \* HTTP writes past the published-report guard
    unlocks,    \* unlock calls on their way
    pc,         \* where each publish request is
    mine        \* what each publish request has read

d1     == <<status, row, versions>>
object == <<writes, doc, timer, mark, open>>
calls  == <<upgrades, posts, unlocks>>
routes == <<pc, mine>>
vars   == <<d1, object, calls, routes>>

-----------------------------------------------------------------------------
None == [no |-> 0, data |-> {}, prev |-> {}]

Latest == IF versions = <<>> THEN None ELSE
          LET top == CHOOSE i \in 1..Len(versions) :
                        \A j \in 1..Len(versions) : versions[j].no <= versions[i].no
          IN  versions[top]

Running(p) == pc[p] # "idle"
Alone(p)   == \A q \in Publishers \ {p} : ~Running(q)
Quiet      == \A p \in Publishers : ~Running(p)

\* persist(), seen from here: the document is sent to D1.
Send(who) == /\ Len(writes) < MaxWrites
             /\ writes' = Append(writes, [data |-> doc', by |-> who])

Answered(who) == \A i \in 1..Len(writes) : writes[i].by # who

\* A socket went away: the last one flushes.
Leave(gone) ==
    /\ open' = open \ gone
    /\ IF gone \cap open # {} /\ open' = {}
       THEN Send("object") /\ timer' = FALSE
       ELSE UNCHANGED <<writes, timer>>

Goto(p, label) == pc' = [pc EXCEPT ![p] = label]

\* Where a publish goes on when its lock call has returned.
Locked(p) == IF mine[p].relock THEN "idle" ELSE "numbering"

-----------------------------------------------------------------------------
Init ==
    /\ status = "draft" /\ row = {} /\ versions = <<>>
    /\ writes = <<>> /\ doc = {} /\ timer = FALSE /\ mark = FALSE /\ open = {}
    /\ upgrades = {} /\ posts = {} /\ unlocks = 0
    /\ pc = [p \in Publishers |-> "idle"]
    /\ mine = [p \in Publishers |-> [relock |-> FALSE, prev |-> None, data |-> {}, sockets |-> {}, lags |-> FALSE]]

-----------------------------------------------------------------------------
\* Sockets

\* The collab route stamps the request (x-report-checked-at) ...
Stamp(c) ==
    /\ c \notin open /\ \A u \in upgrades : u.who # c
    /\ upgrades' = upgrades \cup {[who |-> c, at |-> "stamped", locked |-> FALSE, overtaken |-> FALSE]}
    /\ UNCHANGED <<d1, object, posts, unlocks, routes>>

\* ... and then reads D1 (isReportContentLocked).
ReadLock(u) ==
    /\ u \in upgrades /\ u.at = "stamped"
    /\ upgrades' = (upgrades \ {u}) \cup {[u EXCEPT !.at = "read", !.locked = (status = "published")]}
    /\ UNCHANGED <<d1, object, posts, unlocks, routes>>

FaultyRouteDecides(u) == u.locked

FaultyNeverHeals(u) == u.locked \/ mark

\* upgradeRefused: "locked" is believed, "not locked" only over an older mark.
Refused(u) == u.locked \/ (mark /\ u.overtaken)

\* The object lets the request in, which clears a stale mark ...
LetIn(u) ==
    /\ u \in upgrades /\ u.at = "read" /\ ~Refused(u)
    /\ mark' = FALSE
    /\ upgrades' = (upgrades \ {u}) \cup {[u EXCEPT !.at = "loading"]}
    /\ UNCHANGED <<d1, writes, doc, timer, open, posts, unlocks, routes>>

\* ... and accepts the socket once its document is loaded.
Accept(u) ==
    /\ u \in upgrades /\ u.at = "loading"
    /\ upgrades' = upgrades \ {u}
    /\ open' = open \cup {u.who}
    /\ UNCHANGED <<d1, writes, doc, timer, mark, posts, unlocks, routes>>

\* Or it closes the socket with 4409, whose close event flushes like any other.
Refuse(u) ==
    /\ u \in upgrades /\ u.at = "read" /\ Refused(u)
    /\ upgrades' = upgrades \ {u}
    /\ UNCHANGED doc
    /\ IF open = {} THEN Send("object") /\ timer' = FALSE ELSE UNCHANGED <<writes, timer>>
    /\ UNCHANGED <<d1, mark, open, posts, unlocks, routes>>

\* webSocketMessage: a marked document closes the socket instead.
Message(c, f) ==
    /\ c \in open /\ f \notin doc
    /\ IF mark
       THEN UNCHANGED doc /\ Leave({c})
       ELSE /\ doc' = doc \cup {f} /\ timer' = TRUE
            /\ UNCHANGED <<writes, open>>
    /\ UNCHANGED <<d1, mark, calls, routes>>

Disconnect(c) ==
    /\ c \in open /\ (Overlap \/ Quiet)
    /\ UNCHANGED doc
    /\ Leave({c})
    /\ UNCHANGED <<d1, mark, calls, routes>>

\* The debounced persist.
Save ==
    /\ timer /\ timer' = FALSE
    /\ UNCHANGED doc /\ Send("object")
    /\ UNCHANGED <<d1, mark, open, calls, routes>>

\* D1 is done with a write.
Ends(i) ==
    /\ i \in 1..Len(writes) /\ (InOrder => i = 1)
    /\ writes' = [j \in 1..(Len(writes) - 1) |-> IF j < i THEN writes[j] ELSE writes[j + 1]]
    /\ UNCHANGED <<status, versions, doc, mark, open, calls>>

WriteLands(i) ==
    /\ Ends(i)
    /\ row' = writes[i].data
    /\ UNCHANGED <<timer, routes>>

\* D1 refuses it: persist() throws.  The alarm may still be set and save again.
\* A publish goes on all the same: flushCollabDocs and setCollabDocLocks
\* swallow the failed call, and a lockDoc whose flush threw closes no socket.
WriteFails(i) ==
    /\ Ends(i) /\ UNCHANGED row
    /\ LET p == writes[i].by IN
       IF p = "object"
       THEN timer' \in {timer, TRUE} /\ UNCHANGED routes
       ELSE /\ UNCHANGED timer
            /\ mine' = [mine EXCEPT ![p].lags = TRUE]
            /\ IF pc[p] = "closing" THEN Goto(p, Locked(p)) ELSE UNCHANGED pc

-----------------------------------------------------------------------------
\* HTTP writes to the document

\* publishedReportLockGuard reads D1 before the route runs ...
PassGuard(f) ==
    /\ f \notin doc \cup posts /\ status # "published"
    /\ posts' = posts \cup {f}
    /\ UNCHANGED <<d1, object, upgrades, unlocks, routes>>

\* ... and the object, which does not look at its mark, merges and persists.
Post(f) ==
    /\ f \in posts /\ posts' = posts \ {f}
    /\ doc' = doc \cup {f} /\ timer' = TRUE
    /\ Send("object")
    /\ UNCHANGED <<d1, mark, open, upgrades, unlocks, routes>>

-----------------------------------------------------------------------------
\* Publishing

Asked(p) ==
    /\ pc[p] = "idle" /\ Len(versions) < MaxVersions
    /\ Overlap \/ (Alone(p) /\ unlocks = 0)

\* answerUnchangedPublish asks the object to store what its sockets sent.  With
\* no socket open it stores nothing, though a disconnect's flush may be in
\* flight, or have failed: "lags" remembers that the publish began behind.
AskFlush(p) ==
    /\ Asked(p)
    /\ UNCHANGED doc
    /\ IF open = {} THEN UNCHANGED writes ELSE Send(p)
    /\ mine' = [mine EXCEPT ![p].lags = (open = {} /\ row # doc)]
    /\ Goto(p, "flushing")
    /\ UNCHANGED <<d1, timer, mark, open, calls>>

\* A publish with a translation is never compared, and asks for no flush; nor
\* does one whose comparison fails before it asked.
SkipCheck(p) ==
    /\ Asked(p)
    /\ mine' = [mine EXCEPT ![p].relock = FALSE, ![p].lags = (row # doc)]
    /\ Goto(p, "flip")
    /\ UNCHANGED <<d1, object, calls>>

\* What a publish would freeze is what the latest version froze.  The snapshot
\* carries the order's status, so a retract in between breaks the match.
Unchanged == versions # <<>> /\ Latest.data = row /\ status # "draft"

\* A new summary, or a comparison that cannot be made, publishes anew as well.
Check(p) ==
    /\ pc[p] = "flushing" /\ Answered(p)
    /\ \E same \in {Unchanged, FALSE} : mine' = [mine EXCEPT ![p].relock = same]
    /\ Goto(p, "flip")
    /\ UNCHANGED <<d1, object, calls>>

\* relockUnchangedReport, or publishInspection's status updates.
Flip(p) ==
    /\ pc[p] = "flip"
    /\ status' = IF mine[p].relock /\ status = "draft" THEN "draft" ELSE "published"
    /\ Goto(p, "calling")
    /\ UNCHANGED <<row, versions, object, calls, mine>>

FaultyLockWithoutFlush(p) ==
    /\ pc[p] = "calling"
    /\ mark' = TRUE /\ UNCHANGED doc
    /\ upgrades' = {[u EXCEPT !.overtaken = TRUE] : u \in upgrades}
    /\ UNCHANGED <<timer, writes>> /\ open' = {}
    /\ Goto(p, Locked(p))
    /\ UNCHANGED <<d1, posts, unlocks, mine>>

\* lockDoc: mark, then flush if sockets are open.
Lock(p) ==
    /\ pc[p] = "calling"
    /\ mark' = TRUE /\ UNCHANGED doc
    /\ upgrades' = {[u EXCEPT !.overtaken = TRUE] : u \in upgrades}
    /\ IF open = {}
       THEN UNCHANGED writes /\ Goto(p, Locked(p)) /\ UNCHANGED mine
       ELSE /\ Send(p) /\ Goto(p, "closing")
            /\ mine' = [mine EXCEPT ![p].sockets = open, ![p].lags = FALSE]
    /\ UNCHANGED <<d1, timer, open, posts, unlocks>>

\* Then every socket that was open at the mark is closed.
CloseSockets(p) ==
    /\ pc[p] = "closing" /\ Answered(p)
    /\ UNCHANGED doc /\ Leave(mine[p].sockets)
    /\ Goto(p, Locked(p))
    /\ UNCHANGED <<d1, mark, calls, mine>>

\* setCollabDocLocks never fails the request.
LoseLock(p) ==
    /\ LoseLocks /\ pc[p] = "calling"
    /\ Goto(p, Locked(p))
    /\ UNCHANGED <<d1, object, calls, mine>>

\* snapshotOnPublish: the latest version gives the number and the hash to
\* chain to; the content is read after it; the insert comes last.
Number(p) ==
    /\ pc[p] = "numbering"
    /\ mine' = [mine EXCEPT ![p].prev = Latest]
    /\ Goto(p, "freezing")
    /\ UNCHANGED <<d1, object, calls>>

Freeze(p) ==
    /\ pc[p] = "freezing"
    /\ mine' = [mine EXCEPT ![p].data = row]
    /\ Goto(p, "inserting")
    /\ UNCHANGED <<d1, object, calls>>

\* uq_report_versions_report_version refuses a number that is taken; the retry
\* is the same row, so it is refused too, and the publish is answered anyway.
FaultyNoUniqueIndex(n) == TRUE
Free(n) == \A i \in 1..Len(versions) : versions[i].no # n

Insert(p) ==
    LET n == mine[p].prev.no + 1
    IN  /\ pc[p] = "inserting"
        /\ versions' = IF Free(n)
                       THEN Append(versions, [no |-> n, data |-> mine[p].data, prev |-> mine[p].prev.data])
                       ELSE versions
        /\ Goto(p, "idle")
        /\ UNCHANGED <<status, row, object, calls, mine>>

-----------------------------------------------------------------------------
\* Opening the report again

\* reopenReport and unpublishReport, up to the unlock call.
Reopen(to) ==
    /\ status = "published" \/ (status = "editing" /\ to = "draft")
    /\ Overlap \/ Quiet
    /\ unlocks < MaxUnlocks
    /\ status' = to /\ unlocks' = unlocks + 1
    /\ UNCHANGED <<row, versions, object, upgrades, posts, routes>>

EditAgain == Reopen("editing")
Retract   == Reopen("draft")

Unlock ==
    /\ unlocks > 0 /\ unlocks' = unlocks - 1
    /\ mark' = FALSE
    /\ UNCHANGED <<d1, writes, doc, timer, open, upgrades, posts, routes>>

LoseUnlock ==
    /\ LoseUnlocks /\ unlocks > 0 /\ unlocks' = unlocks - 1
    /\ UNCHANGED <<d1, object, upgrades, posts, routes>>

-----------------------------------------------------------------------------
Next ==
    \/ \E c \in Clients : Stamp(c) \/ Disconnect(c)
    \/ \E u \in upgrades : ReadLock(u) \/ LetIn(u) \/ Accept(u) \/ Refuse(u)
    \/ \E c \in Clients, f \in Typed : Message(c, f)
    \/ \E f \in Posted : PassGuard(f) \/ Post(f)
    \/ Save \/ \E i \in 1..Len(writes) : WriteLands(i) \/ WriteFails(i)
    \/ \E p \in Publishers :
          \/ AskFlush(p) \/ SkipCheck(p) \/ Check(p) \/ Flip(p) \/ Lock(p) \/ CloseSockets(p) \/ LoseLock(p)
          \/ Number(p) \/ Freeze(p) \/ Insert(p)
    \/ EditAgain \/ Retract \/ Unlock \/ LoseUnlock

Spec == Init /\ [][Next]_vars

Upgrading(c) ==
    \E u \in upgrades : u.who = c /\ (ReadLock(u) \/ LetIn(u) \/ Accept(u) \/ Refuse(u))

\* The runtime finishes every upgrade and every write that was started.  A
\* client reconnects by itself unless it was closed with 4409; then somebody
\* opens the report again.  Nobody owes the system an edit, a publish or a
\* disconnect.  Strong fairness only makes up for MaxWrites, which may stop a
\* refused upgrade for a while; the code has no such limit.
Fairness ==
    /\ \A c \in Clients : WF_vars(Stamp(c)) /\ SF_vars(Upgrading(c))
    /\ WF_vars(\E i \in 1..Len(writes) : WriteLands(i) \/ WriteFails(i))

FairSpec == Spec /\ Fairness
-----------------------------------------------------------------------------
\* Every variable holds a value of its kind, and a client has one upgrade at a time.
Version == [no : Nat, data : SUBSET Edit, prev : SUBSET Edit]
Upgrade == [who : Clients, at : {"stamped", "read", "loading"}, locked : BOOLEAN, overtaken : BOOLEAN]
Write   == [data : SUBSET Edit, by : Publishers \cup {"object"}]
Label   == {"idle", "flushing", "flip", "calling", "closing", "numbering", "freezing", "inserting"}
Mine    == [relock : BOOLEAN, prev : Version, data : SUBSET Edit, sockets : SUBSET Clients,
            lags : BOOLEAN]

ReportOK == status \in {"draft", "published", "editing"} /\ row \in SUBSET Edit /\ versions \in Seq(Version)
ObjectOK == /\ writes \in Seq(Write)
            /\ doc \in SUBSET Edit /\ timer \in BOOLEAN /\ mark \in BOOLEAN /\ open \in SUBSET Clients
CallsOK  == /\ upgrades \in SUBSET Upgrade /\ \A u, v \in upgrades : u.who = v.who => u = v
            /\ posts \in SUBSET Posted /\ unlocks \in Nat
RoutesOK == pc \in [Publishers -> Label] /\ mine \in [Publishers -> Mine]

TypeOK == ReportOK /\ ObjectOK /\ CallsOK /\ RoutesOK

\* The versions of a report form one chain: numbered without a gap or a repeat,
\* each carrying the hash of the one before it, whoever published at the same
\* time (what verifyByToken checks).
ChainIntact ==
    \A i \in 1..Len(versions) :
        /\ versions[i].no = i
        /\ versions[i].prev = IF i = 1 THEN {} ELSE versions[i - 1].data

\* While a report is published and its lock call was answered, its document is
\* marked: no upgrade that read D1 before the publish can clear the mark.
MarkedWhilePublished ==
    status = "published" /\ unlocks = 0 /\ (\A p \in Publishers : pc[p] # "calling") => mark

\* A version is complete: whatever the document held when the version was
\* stored is in it, typed a moment before the publish or not.  A publish that
\* lags is not covered: one whose own flush, or the lock call's, D1 refused,
\* and one that began while the row was behind a document without sockets (the
\* last disconnect's flush still in flight, or failed) or that asked for no
\* flush.  A lock call that stores what the sockets sent makes up for it.
VersionIsComplete ==
    [][\A p \in Publishers :
          pc[p] = "inserting" /\ versions' # versions /\ pc'[p] # pc[p] /\ ~mine[p].lags
              => doc \subseteq versions'[Len(versions')].data]_vars

\* An editor of a report that is open again gets in, even when the unlock call
\* never arrived: the stale mark heals itself.
ReopenedLetsIn == \A c \in Clients : []<>(c \in open \/ status = "published")
=============================================================================
