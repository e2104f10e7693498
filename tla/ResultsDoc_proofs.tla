-------------------------- MODULE ResultsDoc_proofs --------------------------
(***************************************************************************)
(* Theorems about ResultsDoc, for every value of its constants.            *)
(*                                                                         *)
(* The argument: handlers only ever add content to the document they hold, *)
(* so the working copy covers the stored one (Covered); what is            *)
(* acknowledged is taken from the document that is being stored, so it     *)
(* is stored (AckedIsDurable); a restore or a restructure moves all three. *)
(* The numbers in the snapshot ring increase, so the next number is the    *)
(* last one plus one and is larger than every number still in the ring.    *)
(*                                                                         *)
(* Imports and the old row are the subject of conditional theorems.  An    *)
(* import that answers, or that a snapshot was taken for, is bound to the  *)
(* document the object works on, as long as no restore swaps it (Steady,   *)
(* Landing).  The row and the writes on their way to it hold what the row  *)
(* held at first; so does the stored document once there is one, and the   *)
(* working one before anything may persist it (Unwiped).                   *)
(***************************************************************************)
EXTENDS ResultsDoc, SequenceTheorems, TLAPS

USE DEF Content

-----------------------------------------------------------------------------
\* Documents: what each operator yields, and what facts it holds.

LEMMA KeysOfFacts == ASSUME NEW F \in SUBSET Fact PROVE KeysOf(F) \subseteq Keys
BY FactsAreKeyed DEF KeysOf

LEMMA EmptyDocument == Empty \in Content /\ Empty.facts = {} /\ Empty.keys = {}
BY DEF Empty

LEMMA Merging == ASSUME NEW d \in Content, NEW F \in SUBSET Fact
                 PROVE  Merge(d, F) \in Content /\ Merge(d, F).facts = d.facts \cup F
BY KeysOfFacts DEF Merge

LEMMA Seeding == ASSUME NEW d \in Content, NEW K \in SUBSET Keys
                 PROVE  Seed(d, K) \in Content /\ Seed(d, K).facts = d.facts
BY DEF Seed

LEMMA Projecting == ASSUME NEW d \in Content
                    PROVE  Projection(d) \in Content
BY DEF Projection

LEMMA Loading == ASSUME NEW d \in Content, NEW p \in Content
                 PROVE  /\ LoadProjection(d, p) \in Content
                        /\ LoadProjection(d, p).facts = d.facts \cup p.facts
BY DEF LoadProjection

LEMMA Restructuring == ASSUME NEW d \in Content, NEW K \in SUBSET Keys
                       PROVE  Restructured(d, K) \in Content
BY DEF Restructured

-----------------------------------------------------------------------------
\* The snapshot ring

Ring == {r \in Seq(Snapshot) : Len(r) <= SnapshotCap}

\* Numbers increase along the ring.
Increasing(ring) == \A i, j \in 1..Len(ring) : i < j => ring[i].seq < ring[j].seq

\* Every entry of the new ring was in the old one or has a larger number than
\* all of it; and no number of the old ring is larger than all of the new one.
KeptOrNew(old, new) ==
    \A i \in 1..Len(new) :
        \/ \E j \in 1..Len(old) : old[j] = new[i]
        \/ \A s \in SeqsOf(old) : new[i].seq > s

Follows(old, new) == /\ KeptOrNew(old, new)
                     /\ \A s \in SeqsOf(old) : \E t \in SeqsOf(new) : s <= t

LEMMA SeqsAreNumbers == ASSUME NEW ring \in Seq(Snapshot) PROVE SeqsOf(ring) \subseteq Nat
<1>1. \A i \in 1..Len(ring) : ring[i] \in Snapshot
  OBVIOUS
<1> QED BY <1>1 DEF SeqsOf, Snapshot

\* The next number is larger than every number in the ring.
LEMMA NextIsLarger ==
    ASSUME NEW ring \in Seq(Snapshot), Increasing(ring)
    PROVE  NextSeq(ring) \in Nat /\ \A s \in SeqsOf(ring) : s < NextSeq(ring)
<1>1. CASE ring = <<>>
  BY <1>1 DEF NextSeq, SeqsOf
<1>2. CASE ring # <<>>
  <2> DEFINE last == ring[Len(ring)].seq
             greatest == CHOOSE m \in SeqsOf(ring) : \A s \in SeqsOf(ring) : s <= m
  <2>1. Len(ring) \in 1..Len(ring) /\ \A i \in 1..Len(ring) : ring[i] \in Snapshot
    BY <1>2
  <2>2. SeqsOf(ring) \subseteq Nat /\ last \in SeqsOf(ring)
    BY <2>1 DEF SeqsOf, Snapshot
  <2>3. \A s \in SeqsOf(ring) : s <= last
    BY <2>1, <2>2 DEF SeqsOf, Increasing, Snapshot
  <2>4. greatest \in SeqsOf(ring) /\ \A s \in SeqsOf(ring) : s <= greatest
    <3> HIDE DEF last
    <3> QED BY <2>2, <2>3
  <2>5. NextSeq(ring) = 1 + greatest
    BY <1>2 DEF NextSeq
  <2> HIDE DEF greatest
  <2> QED BY <2>2, <2>4, <2>5
<1> QED BY <1>1, <1>2

\* A capture keeps the ring within its cap and its numbers increasing; what it
\* keeps was there before, and the entry it adds has a number of its own.
LEMMA Capturing ==
    ASSUME NEW ring \in Ring, Increasing(ring),
           NEW d \in Content, NEW why \in Reason, NEW F \in SUBSET Edits
    PROVE  /\ Capture(ring, d, why, F) \in Ring
           /\ Increasing(Capture(ring, d, why, F))
           /\ Follows(ring, Capture(ring, d, why, F))
<1> DEFINE new == [seq |-> NextSeq(ring), reason |-> why, projection |-> Projection(d), brings |-> F]
           all == Append(ring, new)
           cut == Tail(all)
           n   == Len(ring)
<1>1. new \in Snapshot /\ \A s \in SeqsOf(ring) : new.seq > s
  <2>1. NextSeq(ring) \in Nat /\ \A s \in SeqsOf(ring) : s < NextSeq(ring)
    BY NextIsLarger DEF Ring
  <2>2. SeqsOf(ring) \subseteq Nat
    BY SeqsAreNumbers DEF Ring
  <2>3. new \in Snapshot
    BY <2>1, Projecting DEF Snapshot
  <2>4. new.seq = NextSeq(ring)
    OBVIOUS
  <2> HIDE DEF new
  <2> QED BY <2>1, <2>2, <2>3, <2>4
<1>2. /\ ring \in Seq(Snapshot) /\ n \in Nat /\ n <= SnapshotCap /\ SnapshotCap \in Nat \ {0}
      /\ \A i \in 1..n : ring[i].seq \in SeqsOf(ring)
  BY Limits DEF Ring, SeqsOf
<1> HIDE DEF new
<1>3. /\ all \in Seq(Snapshot) /\ Len(all) = n + 1
      /\ \A i \in 1..n : all[i] = ring[i]
      /\ all[n + 1] = new
  BY <1>1, <1>2
<1>4. Increasing(all)
  BY <1>1, <1>2, <1>3 DEF Increasing
<1>5. new.seq \in Nat /\ SeqsOf(ring) \subseteq Nat
  BY <1>1, SeqsAreNumbers DEF Ring, Snapshot
<1>6. CASE n + 1 > SnapshotCap
  <2>1. Capture(ring, d, why, F) = cut
    BY <1>3, <1>6 DEF Capture, new
  <2> HIDE DEF all
  <2>2. /\ cut \in Seq(Snapshot) /\ Len(cut) = n
        /\ \A i \in 1..n : cut[i] = all[i + 1]
    BY <1>2, <1>3
  <2>3. Increasing(cut)
    <3> SUFFICES ASSUME NEW a \in 1..n, NEW b \in 1..n, a < b
                 PROVE  cut[a].seq < cut[b].seq
      BY <2>2 DEF Increasing
    <3>1. a + 1 \in 1..Len(all) /\ b + 1 \in 1..Len(all) /\ a + 1 < b + 1
      BY <1>2, <1>3
    <3>2. all[a + 1].seq < all[b + 1].seq
      BY <1>4, <3>1 DEF Increasing
    <3> QED BY <2>2, <3>2
  <2>4. \A i \in 1..n : (\E j \in 1..n : ring[j] = cut[i]) \/ cut[i] = new
    <3> TAKE i \in 1..n
    <3>1. CASE i = n BY <3>1, <1>2, <1>3, <2>2
    <3>2. CASE i # n
      <4>1. i + 1 \in 1..n BY <3>2, <1>2
      <4> QED BY <4>1, <1>3, <2>2
    <3> QED BY <3>1, <3>2
  <2>5. cut \in Ring
    BY <1>2, <2>2 DEF Ring
  <2>6. KeptOrNew(ring, cut)
    BY <1>1, <2>2, <2>4 DEF KeptOrNew
  <2>7. Follows(ring, cut)
    <3>1. n \in 1..n /\ cut[n] = new
      BY <1>2, <1>3, <1>6, <2>2
    <3>2. new.seq \in SeqsOf(cut)
      BY <2>2, <3>1 DEF SeqsOf
    <3>3. \A s \in SeqsOf(ring) : s <= new.seq
      BY <1>1, <1>5
    <3> QED BY <2>6, <3>2, <3>3 DEF Follows
  <2> QED BY <2>1, <2>3, <2>5, <2>7
<1>7. CASE ~(n + 1 > SnapshotCap)
  <2>1. Capture(ring, d, why, F) = all
    BY <1>3, <1>7 DEF Capture, new
  <2> HIDE DEF all
  <2>2. all \in Ring
    BY <1>2, <1>3, <1>7 DEF Ring
  <2>3. KeptOrNew(ring, all)
    <3> SUFFICES ASSUME NEW i \in 1..(n + 1)
                 PROVE  (\E j \in 1..n : ring[j] = all[i]) \/ (\A s \in SeqsOf(ring) : all[i].seq > s)
      BY <1>3 DEF KeptOrNew
    <3>1. CASE i \in 1..n BY <3>1, <1>3
    <3>2. CASE i = n + 1  BY <3>2, <1>1, <1>3
    <3> QED BY <3>1, <3>2, <1>2
  <2>4. Follows(ring, all)
    <3>1. n + 1 \in 1..Len(all)
      BY <1>2, <1>3
    <3>2. new.seq \in SeqsOf(all)
      BY <1>3, <3>1 DEF SeqsOf
    <3>3. \A s \in SeqsOf(ring) : s <= new.seq
      BY <1>1, <1>5
    <3> QED BY <2>3, <3>2, <3>3 DEF Follows
  <2> QED BY <1>4, <2>1, <2>2, <2>4
<1> QED BY <1>6, <1>7
-----------------------------------------------------------------------------
\* Type correctness

Typed == TypeOK /\ Increasing(snaps)

\* What a parked request carries depends on the verb it came with.
LEMMA RequestKinds ==
    ASSUME MemoryOK, NEW w \in waiting
    PROVE  /\ w.kind \in {"import", "import body", "followup"} => w.who \in Edits
           /\ w.kind = "restructure" => w.who \in SUBSET Keys
BY DEF MemoryOK, Request

LEMMA TypedInit == Init => Typed
<1> SUFFICES ASSUME Init PROVE Typed
  OBVIOUS
<1>1. Merge(Empty, Legacy) \in Content /\ Empty \in Content
  BY EmptyDocument, Merging DEF Fact
<1>2. <<>> \in Seq(Snapshot) /\ <<>> \in Seq(Write)
  OBVIOUS
<1>a. Len(<<>>) <= SnapshotCap /\ Len(<<>>) <= MaxWrites
  BY Limits
<1>b. Published \in BOOLEAN
  BY Limits
<1>3. TypeOK
  <2>1. MemoryOK
    <3>1. read \in [row : Content, keys : SUBSET Keys, got : BOOLEAN]
      BY <1>1 DEF Init
    <3>2. count \in 0..(SnapshotEvery - 1)
      BY Limits DEF Init
    <3> QED BY <1>1, <3>1, <3>2 DEF Init, MemoryOK, Load
  <2>2. StorageOK
    BY <1>1, <1>2, <1>a DEF Init, StorageOK
  <2>3. TablesOK
    BY <1>1, <1>b, FactsAreKeyed DEF Init, TablesOK, Deletion
  <2>4. WritesOK
    BY <1>2, <1>a DEF Init, WritesOK
  <2>5. GhostOK
    BY DEF Init, GhostOK
  <2> QED BY <2>1, <2>2, <2>3, <2>4, <2>5 DEF TypeOK
<1>4. Increasing(snaps)
  BY <1>2 DEF Init, Increasing
<1> QED BY <1>3, <1>4 DEF Typed

\* What the shared halves of the handlers do to types.

LEMMA UpdatedTyped ==
    ASSUME Typed, NEW n \in {0, 1, 2}, NEW d \in Content, NEW ring \in Ring, Increasing(ring),
           Updated(n, d, ring)
    PROVE  /\ timer' \in BOOLEAN /\ alarm' \in BOOLEAN
           /\ count' \in 0..(SnapshotEvery - 1)
           /\ snaps' \in Ring /\ Increasing(snaps')
<1>1. timer \in BOOLEAN /\ alarm \in BOOLEAN /\ count \in 0..(SnapshotEvery - 1)
  BY DEF Typed, TypeOK, MemoryOK, StorageOK
<1>2. /\ Capture(ring, d, "periodic", {}) \in Ring
      /\ Increasing(Capture(ring, d, "periodic", {}))
  <2>1. "periodic" \in Reason
    BY DEF Reason
  <2>2. {} \in SUBSET Edits
    OBVIOUS
  <2> QED BY <2>1, <2>2, Capturing, Zenon
<1>3. timer' \in BOOLEAN /\ alarm' \in BOOLEAN
  BY <1>1 DEF Updated
<1>4. count' \in 0..(SnapshotEvery - 1)
  BY <1>1, Limits DEF Updated
<1>5. snaps' \in Ring /\ Increasing(snaps')
  BY <1>2 DEF Updated
<1> QED BY <1>3, <1>4, <1>5

LEMMA PersistTyped ==
    ASSUME Typed, NEW d \in Content, NEW why \in Why, NEW F \in SUBSET Edits,
           NEW kept \in SUBSET Fact, Room, Persist(d, why, F, kept)
    PROVE  /\ stored' \in BOOLEAN /\ ydoc' \in Content /\ ident' \in BOOLEAN
           /\ acked' \in SUBSET Fact
           /\ WritesOK'
<1>1. ident \in BOOLEAN /\ writes \in Seq(Write) /\ WritesOK
  BY DEF Typed, TypeOK, StorageOK, WritesOK
<1>2. stored' \in BOOLEAN /\ ydoc' \in Content /\ ident' \in BOOLEAN /\ acked' \in SUBSET Fact
  BY <1>1 DEF Persist, Acknowledged
<1>3. CASE UNCHANGED writes
  BY <1>1, <1>2, <1>3 DEF WritesOK
<1>4. CASE writes' = Append(writes, [data |-> Projection(d), why |-> why, facts |-> F])
  <2> DEFINE w == [data |-> Projection(d), why |-> why, facts |-> F]
  <2>1. w \in Write
    BY Projecting DEF Write
  <2> HIDE DEF w
  <2>2. writes' = Append(writes, w)
    BY <1>4 DEF w
  <2>3. Append(writes, w) \in Seq(Write) /\ Len(Append(writes, w)) = Len(writes) + 1
    BY <1>1, <2>1
  <2>4. Len(writes) \in Nat /\ Len(writes) < MaxWrites /\ MaxWrites \in Nat
    BY <1>1, Limits DEF Room
  <2> QED BY <1>2, <2>2, <2>3, <2>4 DEF WritesOK
<1> QED BY <1>2, <1>3, <1>4 DEF Persist

LEMMA DropWriteTyped ==
    ASSUME WritesOK, NEW i \in 1..Len(writes)
    PROVE  DropWrite(i) \in Seq(Write) /\ Len(DropWrite(i)) <= MaxWrites
<1>1. Len(writes) - 1 \in Nat /\ \A j \in 1..Len(writes) : writes[j] \in Write
  BY DEF WritesOK
<1>2. DropWrite(i) \in [1..(Len(writes) - 1) -> Write]
  BY <1>1 DEF DropWrite
<1>3. DropWrite(i) \in Seq(Write) /\ Len(DropWrite(i)) = Len(writes) - 1
  <2> HIDE DEF DropWrite
  <2> QED BY <1>1, <1>2
<1> QED BY <1>3, Limits DEF WritesOK

LEMMA RequestTypes ==
    /\ \A c \in Clients : [kind |-> "ws", who |-> c, gen |-> 0] \in Request
    /\ \A f \in Edits, g \in Nat : /\ [kind |-> "import", who |-> f, gen |-> g] \in Request
                                   /\ [kind |-> "import body", who |-> f, gen |-> g] \in Request
                                   /\ [kind |-> "followup", who |-> f, gen |-> g] \in Request
    /\ \A K \in SUBSET Keys, g \in Nat : [kind |-> "restructure", who |-> K, gen |-> g] \in Request
BY DEF Request

LEMMA WaitTyped ==
    ASSUME MemoryOK, NEW w \in Request PROVE /\ Wait(w) => waiting' \in SUBSET Request
                                             /\ waiting \ {w} \in SUBSET Request
BY DEF MemoryOK, Wait

LEMMA CountTyped ==
    ASSUME GhostOK, NEW event \in {"crash", "fail", "restore", "capture"}, NEW max, Count(event, max)
    PROVE  tally' \in [{"crash", "fail", "restore", "capture"} -> Nat]
BY DEF GhostOK, Count

\* A group of variables that a step leaves alone keeps its type.
LEMMA Unmoved ==
    /\ MemoryOK /\ UNCHANGED memory => MemoryOK'
    /\ StorageOK /\ UNCHANGED storage => StorageOK'
    /\ TablesOK /\ UNCHANGED tables => TablesOK'
    /\ WritesOK /\ UNCHANGED writes => WritesOK'
    /\ GhostOK /\ UNCHANGED ghost => GhostOK'
    /\ Increasing(snaps) /\ UNCHANGED snaps => Increasing(snaps')
<1>1. MemoryOK /\ UNCHANGED memory => MemoryOK'
  BY DEF MemoryOK, memory
<1>2. StorageOK /\ UNCHANGED storage => StorageOK'
  BY DEF StorageOK, storage
<1>3. TablesOK /\ UNCHANGED tables => TablesOK'
  BY DEF TablesOK, tables
<1>4. WritesOK /\ UNCHANGED writes => WritesOK'
  BY DEF WritesOK
<1>5. GhostOK /\ UNCHANGED ghost => GhostOK'
  BY DEF GhostOK, ghost
<1>6. Increasing(snaps) /\ UNCHANGED snaps => Increasing(snaps')
  BY DEF Increasing
<1> QED BY <1>1, <1>2, <1>3, <1>4, <1>5, <1>6

\* The sockets: Upgrade, Accept, Reject, Disconnect, RefusedClose, Message.
LEMMA SocketsTyped ==
    ASSUME Typed,
           \/ \E c \in Clients : Upgrade(c) \/ Accept(c) \/ Disconnect(c)
           \/ \E c \in Clients, f \in Edits : Message(c, f)
           \/ RefusedClose \/ \E w \in waiting : Reject(w)
    PROVE  Typed'
<1> USE DEF Typed, TypeOK
<1>1. ASSUME NEW c \in Clients, Upgrade(c) PROVE Typed'
  <2>1. waiting' \in SUBSET Request
    <3>1. [kind |-> "ws", who |-> c, gen |-> 0] \in Request
      BY RequestTypes
    <3> QED BY <1>1, <3>1, WaitTyped DEF Upgrade
  <2>2. load' \in Load
    BY <1>1 DEF MemoryOK, Upgrade, StartLoad, Load
  <2>3. MemoryOK'
    BY <1>1, <2>1, <2>2 DEF MemoryOK, Upgrade
  <2>4. StorageOK'
    BY <1>1 DEF StorageOK, Upgrade
  <2> QED BY <1>1, <2>3, <2>4, Unmoved DEF d1, Upgrade
<1>2. ASSUME NEW c \in Clients, Accept(c) PROVE Typed'
  <2>1. MemoryOK'
    BY <1>2 DEF MemoryOK, Accept
  <2>2. snaps' \in Ring /\ Increasing(snaps')
    <3>1. snaps \in Ring /\ doc \in Content /\ "connect" \in Reason
      BY DEF StorageOK, MemoryOK, Ring, Reason
    <3>2. Capture(snaps, doc, "connect", {}) \in Ring /\ Increasing(Capture(snaps, doc, "connect", {}))
      BY <3>1, Capturing
    <3> QED BY <1>2, <3>1, <3>2 DEF Accept, ConnectCapture
  <2>3. StorageOK'
    BY <1>2, <2>2 DEF StorageOK, Accept, Ring
  <2> QED BY <1>2, <2>1, <2>2, <2>3, Unmoved DEF d1, Accept
<1>3. ASSUME NEW c \in Clients, Disconnect(c) PROVE Typed'
  <2>1. MemoryOK'
    BY <1>3 DEF MemoryOK, Disconnect
  <2>2. StorageOK' /\ WritesOK' /\ acked' \in SUBSET Fact
    <3>1. CASE Room /\ Persist(doc, "close", {}, acked)
      BY <1>3, <3>1, PersistTyped DEF Disconnect, StorageOK, MemoryOK, GhostOK, Why
    <3>2. CASE UNCHANGED <<timer, stored, ydoc, ident, acked, writes>>
      BY <1>3, <3>2 DEF Disconnect, StorageOK, GhostOK, WritesOK
    <3> QED BY <1>3, <3>1, <3>2 DEF Disconnect
  <2>3. GhostOK'
    BY <1>3, <2>2 DEF GhostOK, Disconnect
  <2> QED BY <1>3, <2>1, <2>2, <2>3, Unmoved DEF Disconnect
<1>4. CASE RefusedClose
  <2>1. MemoryOK'
    BY <1>4 DEF MemoryOK, RefusedClose
  <2>2. StorageOK' /\ WritesOK' /\ acked' \in SUBSET Fact
    BY <1>4, PersistTyped DEF RefusedClose, StorageOK, MemoryOK, GhostOK, Why
  <2>3. GhostOK'
    BY <1>4, <2>2 DEF GhostOK, RefusedClose
  <2> QED BY <1>4, <2>1, <2>2, <2>3, Unmoved DEF RefusedClose
<1>5. ASSUME NEW c \in Clients, NEW f \in Edits, Message(c, f) PROVE Typed'
  <2>1. doc' \in Content /\ snaps \in Ring
    BY <1>5, Merging DEF Message, MemoryOK, StorageOK, Ring, Fact
  <2>2. /\ timer' \in BOOLEAN /\ alarm' \in BOOLEAN /\ count' \in 0..(SnapshotEvery - 1)
        /\ snaps' \in Ring /\ Increasing(snaps')
    BY <1>5, <2>1, UpdatedTyped DEF Message
  <2>3. MemoryOK'
    BY <1>5, <2>1, <2>2 DEF MemoryOK, Message
  <2>4. StorageOK'
    BY <1>5, <2>2 DEF StorageOK, Message, Ring
  <2> QED BY <1>5, <2>2, <2>3, <2>4, Unmoved DEF d1, Message
<1>6. ASSUME NEW w \in waiting, Reject(w) PROVE Typed'
  <2>1. MemoryOK'
    <3>1. waiting' \in SUBSET Request
      BY <1>6 DEF MemoryOK, Reject
    <3> QED BY <1>6, <3>1 DEF MemoryOK, Reject
  <2>2. UNCHANGED storage /\ UNCHANGED tables /\ UNCHANGED writes /\ UNCHANGED ghost
    BY <1>6 DEF d1, Reject
  <2>3. UNCHANGED snaps
    BY <2>2 DEF storage
  <2> QED BY <2>1, <2>2, <2>3, Unmoved
<1> QED BY <1>1, <1>2, <1>3, <1>4, <1>5, <1>6

\* Loading: LoadRead, LoadApply, LoadFail.
LEMMA LoadingTyped ==
    ASSUME Typed, LoadRead \/ LoadApply \/ LoadFail PROVE Typed'
<1> USE DEF Typed, TypeOK
<1>1. CASE LoadRead
  <2>1. Merge(Empty, Sibling) \in Content
    BY EmptyDocument, Merging DEF Fact
  <2>2. read' \in [row : Content, keys : SUBSET Keys, got : BOOLEAN]
    BY <1>1, <2>1 DEF LoadRead, MemoryOK, TablesOK
  <2>3. MemoryOK'
    BY <1>1, <2>2 DEF LoadRead, MemoryOK
  <2> QED BY <1>1, <2>3, Unmoved DEF LoadRead, d1, storage
<1>2. CASE LoadApply
  <2> DEFINE seeded == Seed(doc, read.keys)
             loaded == IF hadStored THEN seeded ELSE LoadProjection(seeded, read.row)
             n      == Changes(doc, seeded) + Changes(seeded, loaded)
  <2>1. seeded \in Content /\ loaded \in Content
    BY Seeding, Loading DEF MemoryOK
  <2>2. n \in {0, 1, 2} /\ snaps \in Ring
    BY DEF Changes, StorageOK, Ring
  <2>3. load' = "done" /\ doc' = loaded /\ Updated(n, loaded, snaps)
    BY <1>2 DEF LoadApply
  <2> HIDE DEF seeded, loaded, n
  <2>4. /\ timer' \in BOOLEAN /\ alarm' \in BOOLEAN /\ count' \in 0..(SnapshotEvery - 1)
        /\ snaps' \in Ring /\ Increasing(snaps')
    BY <2>1, <2>2, <2>3, UpdatedTyped
  <2>5. MemoryOK'
    BY <1>2, <2>1, <2>3, <2>4 DEF MemoryOK, LoadApply, Load
  <2>6. StorageOK'
    BY <1>2, <2>4 DEF StorageOK, LoadApply, Ring
  <2> QED BY <1>2, <2>4, <2>5, <2>6, Unmoved DEF d1, LoadApply
<1>3. CASE LoadFail
  <2>1. MemoryOK'
    BY <1>3 DEF MemoryOK, LoadFail, Load
  <2>2. GhostOK'
    BY <1>3, CountTyped DEF GhostOK, LoadFail
  <2> QED BY <1>3, <2>1, <2>2, Unmoved DEF LoadFail, d1, storage
<1> QED BY <1>1, <1>2, <1>3

\* The triggers of persist(): TimerFire, AlarmFire, Flush.
LEMMA SavingTyped ==
    ASSUME Typed, TimerFire \/ AlarmFire \/ Flush PROVE Typed'
<1> USE DEF Typed, TypeOK
<1>1. ASSUME NEW why \in Why, Saving(why), timer' \in BOOLEAN, alarm' \in BOOLEAN PROVE Typed'
  <2>1. MemoryOK'
    BY <1>1 DEF MemoryOK, Saving
  <2>2. StorageOK' /\ WritesOK' /\ acked' \in SUBSET Fact
    BY <1>1, PersistTyped DEF Saving, StorageOK, MemoryOK, GhostOK
  <2>3. GhostOK'
    BY <1>1, <2>2 DEF GhostOK, Saving
  <2> QED BY <1>1, <2>1, <2>2, <2>3, Unmoved DEF Saving
<1>2. CASE TimerFire
  <2>1. "timer" \in Why /\ timer' \in BOOLEAN /\ alarm' \in BOOLEAN
    BY <1>2 DEF TimerFire, Why, StorageOK
  <2> QED BY <1>1, <1>2, <2>1 DEF TimerFire
<1>3. CASE AlarmFire
  <2>1. CASE known
    <3>1. "alarm" \in Why /\ timer' \in BOOLEAN /\ alarm' \in BOOLEAN
      BY <1>3, <2>1 DEF AlarmFire, Why, MemoryOK
    <3> QED BY <1>1, <1>3, <2>1, <3>1 DEF AlarmFire
  <2>2. CASE ~known
    <3>1. StorageOK'
      BY <1>3, <2>2 DEF StorageOK, AlarmFire
    <3> QED BY <1>3, <2>2, <3>1, Unmoved DEF AlarmFire, d1
  <2> QED BY <2>1, <2>2
<1>4. CASE Flush
  <2>1. "flush" \in Why /\ timer' \in BOOLEAN /\ alarm' \in BOOLEAN
    BY <1>4 DEF Flush, Why, StorageOK, MemoryOK
  <2> QED BY <1>1, <1>4, <2>1 DEF Flush
<1> QED BY <1>2, <1>3, <1>4


\* D1's side, the delete, and the routes that only touch D1.
LEMMA TablesTyped ==
    ASSUME Typed,
           \/ \E i \in 1..Len(writes) : WriteLands(i) \/ WriteFails(i) \/ Abandon(i)
           \/ EditAgain \/ EditTemplate \/ DeleteRows \/ DeleteInspection \/ Purge
    PROVE  Typed'
<1> USE DEF Typed, TypeOK
<1>1. ASSUME NEW i \in 1..Len(writes), writes' = DropWrite(i) PROVE WritesOK'
  <2>1. DropWrite(i) \in Seq(Write) /\ Len(DropWrite(i)) <= MaxWrites
    BY DropWriteTyped
  <2> QED BY <1>1, <2>1 DEF WritesOK
<1>2. ASSUME NEW i \in 1..Len(writes), WriteLands(i) PROVE Typed'
  <2>1. writes[i] \in Write
    BY DEF WritesOK
  <2>2. row' \in Content /\ imported' \in SUBSET Fact
    BY <1>2, <2>1 DEF WriteLands, Write, Fact, GhostOK
  <2>3. TablesOK'
    BY <1>2, <2>2 DEF WriteLands, TablesOK
  <2>4. GhostOK'
    BY <1>2, <2>2 DEF WriteLands, GhostOK
  <2>5. WritesOK'
    BY <1>1, <1>2 DEF WriteLands
  <2> QED BY <1>2, <2>3, <2>4, <2>5, Unmoved DEF WriteLands, storage
<1>3. ASSUME NEW i \in 1..Len(writes), WriteFails(i) PROVE Typed'
  <2>1. StorageOK'
    <3>1. alarm' \in BOOLEAN
      BY <1>3 DEF WriteFails
    <3> QED BY <1>3, <3>1 DEF WriteFails, StorageOK
  <2>2. GhostOK'
    BY <1>3, CountTyped DEF GhostOK, WriteFails
  <2>3. WritesOK'
    BY <1>1, <1>3 DEF WriteFails
  <2> QED BY <1>3, <2>1, <2>2, <2>3, Unmoved DEF WriteFails
<1>4. Wipe => StorageOK' /\ Increasing(snaps') /\ acked' \in SUBSET Fact
  <2>1. <<>> \in Seq(Snapshot) /\ Len(<<>>) <= SnapshotCap /\ Increasing(<<>>)
    BY Limits DEF Increasing
  <2> QED BY <2>1, EmptyDocument DEF Wipe, StorageOK
<1>5. ASSUME NEW i \in 1..Len(writes), Abandon(i) PROVE Typed'
  <2>1. CASE UNCHANGED <<timer, storage, acked>>
    <3>1. MemoryOK'
      BY <1>5, <2>1 DEF Abandon, MemoryOK
    <3>2. GhostOK'
      BY <1>5, <2>1 DEF Abandon, GhostOK
    <3>3. WritesOK'
      BY <1>1, <1>5 DEF Abandon
    <3> QED BY <1>5, <2>1, <3>1, <3>2, <3>3, Unmoved DEF Abandon, storage
  <2>2. CASE timer' = FALSE /\ Wipe
    <3>1. MemoryOK'
      BY <1>5, <2>2 DEF Abandon, MemoryOK
    <3>2. GhostOK'
      BY <1>4, <1>5, <2>2 DEF Abandon, GhostOK
    <3>3. WritesOK'
      BY <1>1, <1>5 DEF Abandon
    <3> QED BY <1>4, <1>5, <2>2, <3>1, <3>2, <3>3, Unmoved DEF Abandon
  <2> QED BY <1>5, <2>1, <2>2 DEF Abandon
<1>6. CASE EditAgain
  <2>1. TablesOK'
    BY <1>6 DEF EditAgain, TablesOK
  <2> QED BY <1>6, <2>1, Unmoved DEF EditAgain, storage
<1>7. CASE EditTemplate
  <2>1. TablesOK'
    BY <1>7, FactsAreKeyed DEF EditTemplate, TablesOK
  <2> QED BY <1>7, <2>1, Unmoved DEF EditTemplate, storage
<1>8. CASE DeleteRows
  <2>1. TablesOK'
    <3>1. deletion' \in Deletion
      BY <1>8 DEF DeleteRows, Deletion
    <3> QED BY <1>8, <3>1, EmptyDocument DEF DeleteRows, TablesOK
  <2> QED BY <1>8, <2>1, Unmoved DEF DeleteRows, storage
<1>9. CASE DeleteInspection
  <2>1. TablesOK'
    <3>1. deletion' \in Deletion
      BY <1>9 DEF DeleteInspection, Deletion
    <3>2. template' \in SUBSET Keys
      BY <1>9 DEF DeleteInspection, TablesOK
    <3> QED BY <1>9, <3>1, <3>2 DEF DeleteInspection, TablesOK
  <2> QED BY <1>9, <2>1, Unmoved DEF DeleteInspection, storage
<1>10. CASE Purge
  <2>1. TablesOK'
    BY <1>10 DEF Purge, TablesOK, Deletion
  <2>2. GhostOK'
    BY <1>4, <1>10 DEF Purge, GhostOK
  <2> QED BY <1>4, <1>10, <2>1, <2>2, Unmoved DEF Purge
<1> QED BY <1>2, <1>3, <1>5, <1>6, <1>7, <1>8, <1>9, <1>10

\* Losing memory: Sleep and Crash.
LEMMA ReconstructTyped ==
    ASSUME Typed, Sleep \/ Crash PROVE Typed'
<1> USE DEF Typed, TypeOK
<1>1. ASSUME Reconstruct, open' \in SUBSET Clients, waiting' \in SUBSET Request PROVE MemoryOK'
  <2>1. read' \in [row : Content, keys : SUBSET Keys, got : BOOLEAN]
    BY <1>1, EmptyDocument DEF Reconstruct
  <2>2. count' \in 0..(SnapshotEvery - 1) /\ load' \in Load /\ gen' \in Nat
    BY <1>1, Limits DEF Reconstruct, Load
  <2> QED BY <1>1, <2>1, <2>2 DEF Reconstruct, StorageOK, MemoryOK
<1>2. CASE Sleep
  <2>1. MemoryOK'
    BY <1>1, <1>2 DEF Sleep, MemoryOK
  <2> QED BY <1>2, <2>1, Unmoved DEF Sleep, d1, storage
<1>3. CASE Crash
  <2>1. MemoryOK'
    BY <1>1, <1>3 DEF Crash
  <2>2. StorageOK'
    <3>1. alarm' \in BOOLEAN
      BY <1>3 DEF Crash
    <3> QED BY <1>3, <3>1 DEF Crash, StorageOK
  <2>3. GhostOK'
    BY <1>3, CountTyped DEF GhostOK, Crash
  <2>4. WritesOK'
    <3> DEFINE lost == [i \in 1..Len(writes) |-> [writes[i] EXCEPT !.why = "orphan", !.facts = {}]]
    <3>1. Len(writes) \in Nat /\ \A i \in 1..Len(writes) : writes[i] \in Write
      BY DEF WritesOK
    <3>2. lost \in [1..Len(writes) -> Write]
      BY <3>1 DEF Write, Why
    <3> HIDE DEF lost
    <3>3. lost \in Seq(Write) /\ Len(lost) = Len(writes)
      BY <3>1, <3>2
    <3>4. writes' = lost
      BY <1>3 DEF Crash, lost
    <3> QED BY <3>3, <3>4 DEF WritesOK
  <2> QED BY <1>3, <2>1, <2>2, <2>3, <2>4, Unmoved DEF Crash
<1> QED BY <1>2, <1>3


\* The HTTP verbs up to their await: they park a request.
LEMMA RequestsTyped ==
    ASSUME Typed,
           \/ RestructureRequest
           \/ \E f \in Edits : ImportRequest(f) \/ PatchRequest(f)
           \/ \E w \in waiting : ImportBind(w)
    PROVE  Typed'
<1> USE DEF Typed, TypeOK
<1>1. ASSUME StartLoad \/ UNCHANGED load PROVE load' \in Load
  BY <1>1 DEF MemoryOK, StartLoad, Load
<1>2. CASE RestructureRequest
  <2>1. [kind |-> "restructure", who |-> template, gen |-> gen] \in Request
    BY RequestTypes DEF MemoryOK, TablesOK
  <2>2. waiting' \in SUBSET Request
    BY <1>2, <2>1, WaitTyped DEF RestructureRequest
  <2>3. MemoryOK'
    BY <1>2, <2>2 DEF MemoryOK, RestructureRequest
  <2> QED BY <1>2, <2>3, Unmoved DEF RestructureRequest, d1, storage
<1>3. ASSUME NEW f \in Edits, ImportRequest(f) PROVE Typed'
  <2>1. [kind |-> "import", who |-> f, gen |-> 0] \in Request
    BY RequestTypes
  <2>2. waiting' \in SUBSET Request
    BY <1>3, <2>1, WaitTyped DEF ImportRequest
  <2>3. MemoryOK'
    BY <1>1, <1>3, <2>2 DEF MemoryOK, ImportRequest
  <2> QED BY <1>3, <2>3, Unmoved DEF ImportRequest, d1, storage
<1>4. ASSUME NEW f \in Edits, PatchRequest(f) PROVE Typed'
  <2>1. [kind |-> "followup", who |-> f, gen |-> gen] \in Request
    BY RequestTypes DEF MemoryOK
  <2>2. waiting' \in SUBSET Request
    BY <1>4, <2>1, WaitTyped DEF PatchRequest
  <2>3. MemoryOK'
    BY <1>1, <1>4, <2>2 DEF MemoryOK, PatchRequest
  <2> QED BY <1>4, <2>3, Unmoved DEF PatchRequest, d1, storage
<1>5. ASSUME NEW w \in waiting, ImportBind(w) PROVE Typed'
  <2>1. w.who \in Edits
    BY <1>5, RequestKinds DEF ImportBind
  <2>2. [kind |-> "import body", who |-> w.who, gen |-> gen] \in Request
    BY <2>1, RequestTypes DEF MemoryOK
  <2>3. waiting' \in SUBSET Request
    BY <1>5, <2>2 DEF ImportBind, MemoryOK
  <2>4. MemoryOK'
    BY <1>5, <2>3 DEF MemoryOK, ImportBind
  <2> QED BY <1>5, <2>4, Unmoved DEF ImportBind, d1, storage
<1> QED BY <1>2, <1>3, <1>4, <1>5

\* The rest of a verb: the document is replaced or merged into, and persisted.
LEMMA VerbsTyped ==
    ASSUME Typed,
           \/ \E i \in 1..Len(snaps) : Restore(i)
           \/ \E w \in waiting : RestructureApply(w) \/ ImportApply(w) \/ PatchApply(w)
           \/ TakeSnapshot
    PROVE  Typed'
<1> USE DEF Typed, TypeOK
<1>1. snaps \in Ring /\ {"manual", "import"} \subseteq Reason
      /\ {"restore", "restructure", "import", "followup"} \subseteq Why
  BY DEF StorageOK, Ring, Reason, Why
<1>2. /\ Capture(snaps, doc, "manual", {}) \in Ring
      /\ Increasing(Capture(snaps, doc, "manual", {}))
  BY <1>1, Capturing DEF MemoryOK
<1>3. CASE TakeSnapshot
  <2>1. StorageOK' /\ Increasing(snaps')
    BY <1>2, <1>3 DEF TakeSnapshot, StorageOK, Ring
  <2>2. GhostOK'
    BY <1>3, CountTyped DEF GhostOK, TakeSnapshot
  <2> QED BY <1>3, <2>1, <2>2, Unmoved DEF TakeSnapshot, d1
<1>4. ASSUME NEW i \in 1..Len(snaps), Restore(i) PROVE Typed'
  <2> DEFINE target == snaps[i].projection
             kept   == acked \cap target.facts
  <2>1. target \in Content
    <3>1. snaps[i] \in Snapshot
      BY DEF StorageOK
    <3> QED BY <3>1 DEF Snapshot
  <2>2. doc' \in Content /\ kept \in SUBSET Fact
    BY <1>4, <2>1, EmptyDocument, Loading DEF Restore, GhostOK
  <2>3. Room /\ Persist(doc', "restore", {}, kept) /\ snaps' = Capture(snaps, doc, "manual", {})
    BY <1>4 DEF Restore
  <2>4. /\ stored' \in BOOLEAN /\ ydoc' \in Content /\ ident' \in BOOLEAN
        /\ acked' \in SUBSET Fact
        /\ WritesOK'
    <3> HIDE DEF kept
    <3> QED BY <1>1, <2>2, <2>3, PersistTyped
  <2>5. MemoryOK'
    BY <1>4, <2>2, Limits DEF MemoryOK, Restore
  <2>6. StorageOK' /\ Increasing(snaps')
    BY <1>2, <1>4, <2>3, <2>4 DEF StorageOK, Restore, Ring
  <2>7. GhostOK'
    BY <1>4, <2>4, CountTyped DEF GhostOK, Restore
  <2> QED BY <1>4, <2>4, <2>5, <2>6, <2>7, Unmoved DEF Restore
<1>5. ASSUME NEW w \in waiting, NEW next \in Content, NEW ring \in Ring, Increasing(ring),
             NEW n \in {0, 1, 2}, NEW why \in Why, NEW F \in SUBSET Edits, NEW kept \in SUBSET Fact,
             Room, waiting' = waiting \ {w}, doc' = next,
             Updated(n, next, ring), Persist(next, why, F, kept),
             imported' \in SUBSET Fact, chosen' \in SUBSET Legacy,
             UNCHANGED <<open, gen, hadStored, known, load, read, tables, tally>>
      PROVE  Typed'
  <2>1. /\ timer' \in BOOLEAN /\ alarm' \in BOOLEAN /\ count' \in 0..(SnapshotEvery - 1)
        /\ snaps' \in Ring /\ Increasing(snaps')
    BY <1>5, UpdatedTyped
  <2>2. /\ stored' \in BOOLEAN /\ ydoc' \in Content /\ ident' \in BOOLEAN
        /\ acked' \in SUBSET Fact
        /\ WritesOK'
    BY <1>5, PersistTyped
  <2>3. MemoryOK'
    BY <1>5, <2>1 DEF MemoryOK
  <2>4. StorageOK'
    BY <2>1, <2>2 DEF StorageOK, Ring
  <2>5. GhostOK'
    BY <1>5, <2>2 DEF GhostOK
  <2> QED BY <1>5, <2>1, <2>2, <2>3, <2>4, <2>5, Unmoved
<1>6. ASSUME NEW w \in waiting, RestructureApply(w) PROVE Typed'
  <2> DEFINE next == Restructured(doc, w.who)
             n    == Changes(doc, Seed(doc, w.who)) + Changes(Seed(doc, w.who), next)
             kept == acked \cap next.facts
  <2>1. w.who \in SUBSET Keys
    BY <1>6, RequestKinds DEF RestructureApply
  <2>2. next \in Content
    BY <2>1, Restructuring DEF MemoryOK
  <2>3. n \in {0, 1, 2}
    BY DEF Changes
  <2>4. kept \in SUBSET Fact /\ imported' \in SUBSET Fact /\ chosen' \in SUBSET Legacy
    BY <1>6 DEF RestructureApply, GhostOK
  <2>5. /\ Room /\ waiting' = waiting \ {w} /\ doc' = next
        /\ Updated(n, next, snaps) /\ Persist(next, "restructure", {}, kept)
        /\ UNCHANGED <<open, gen, hadStored, known, load, read, tables, tally>>
    BY <1>6 DEF RestructureApply
  <2> HIDE DEF next, n, kept
  <2> QED BY <1>1, <1>5, <2>2, <2>3, <2>4, <2>5
<1>7. ASSUME NEW w \in waiting, ImportApply(w) PROVE Typed'
  <2> DEFINE next == IF w.gen = gen THEN Merge(doc, {w.who}) ELSE doc
             n    == Changes(doc, next)
  <2>1. w.who \in Edits
    BY <1>7, RequestKinds DEF ImportApply
  <2>2. next \in Content
    BY <2>1, Merging DEF MemoryOK, Fact
  <2>3. n \in {0, 1, 2}
    BY DEF Changes
  <2>4. PICK changed \in Changed(w) :
            /\ Updated(n, next, IF changed THEN Capture(snaps, doc, "import", {w.who}) ELSE snaps)
            /\ doc' = next /\ Persist(next, "import", {w.who}, acked)
    BY <1>7 DEF ImportApply
  <2> DEFINE ring == IF changed THEN Capture(snaps, doc, "import", {w.who}) ELSE snaps
  <2>5. ring \in Ring /\ Increasing(ring)
    BY <1>1, <2>1, Capturing DEF MemoryOK
  <2>6. Room /\ waiting' = waiting \ {w} /\ imported' \in SUBSET Fact /\ chosen' \in SUBSET Legacy
        /\ UNCHANGED <<open, gen, hadStored, known, load, read, tables, tally>>
    BY <1>7 DEF ImportApply, GhostOK
  <2>7. {w.who} \in SUBSET Edits /\ acked \in SUBSET Fact
    BY <2>1 DEF GhostOK
  <2>8. Updated(n, next, ring)
    BY <2>4
  <2> HIDE DEF next, n, ring
  <2> QED BY <1>1, <1>5, <2>2, <2>3, <2>4, <2>5, <2>6, <2>7, <2>8
<1>8. ASSUME NEW w \in waiting, PatchApply(w) PROVE Typed'
  <2> DEFINE next == IF w.gen = gen THEN Merge(doc, {w.who}) ELSE doc
             n    == Changes(doc, next)
  <2>1. w.who \in Edits
    BY <1>8, RequestKinds DEF PatchApply
  <2>2. next \in Content
    BY <2>1, Merging DEF MemoryOK, Fact
  <2>3. n \in {0, 1, 2}
    BY DEF Changes
  <2>4. /\ Room /\ waiting' = waiting \ {w} /\ doc' = next
        /\ Updated(n, next, snaps) /\ Persist(next, "followup", {}, acked)
        /\ UNCHANGED <<open, gen, hadStored, known, load, read, tables, tally>>
    BY <1>8 DEF PatchApply
  <2>5. acked \in SUBSET Fact /\ imported' \in SUBSET Fact /\ chosen' \in SUBSET Legacy
    BY <1>8 DEF PatchApply, GhostOK
  <2> HIDE DEF next, n
  <2> QED BY <1>1, <1>5, <2>2, <2>3, <2>4, <2>5
<1> QED BY <1>3, <1>4, <1>6, <1>7, <1>8


LEMMA TypedStep == Typed /\ [Next]_vars => Typed'
<1> SUFFICES ASSUME Typed, [Next]_vars PROVE Typed'
  OBVIOUS
<1>1. CASE UNCHANGED vars
  BY <1>1, Unmoved DEF Typed, TypeOK, vars, d1, storage
<1>2. CASE \/ \E c \in Clients : Upgrade(c) \/ Accept(c) \/ Disconnect(c)
           \/ \E c \in Clients, f \in Edits : Message(c, f)
           \/ RefusedClose \/ \E w \in waiting : Reject(w)
  BY <1>2, SocketsTyped
<1>3. CASE LoadRead \/ LoadApply \/ LoadFail
  BY <1>3, LoadingTyped
<1>4. CASE TimerFire \/ AlarmFire \/ Flush
  BY <1>4, SavingTyped
<1>5. CASE \/ \E i \in 1..Len(writes) : WriteLands(i) \/ WriteFails(i) \/ Abandon(i)
           \/ EditAgain \/ EditTemplate \/ DeleteRows \/ DeleteInspection \/ Purge
  BY <1>5, TablesTyped
<1>6. CASE Sleep \/ Crash
  BY <1>6, ReconstructTyped
<1>7. CASE \/ RestructureRequest
           \/ \E f \in Edits : ImportRequest(f) \/ PatchRequest(f)
           \/ \E w \in waiting : ImportBind(w)
  BY <1>7, RequestsTyped
<1>8. CASE \/ \E i \in 1..Len(snaps) : Restore(i)
           \/ \E w \in waiting : RestructureApply(w) \/ ImportApply(w) \/ PatchApply(w)
           \/ TakeSnapshot
  BY <1>8, VerbsTyped
<1> QED BY <1>1, <1>2, <1>3, <1>4, <1>5, <1>6, <1>7, <1>8 DEF Next

\* Every variable of the document, of its storage and of the report's row keeps
\* its type: the ring of snapshots (inspection-doc.ts, captureSnapshot) never
\* outgrows its cap, the update counter stays below SNAPSHOT_EVERY.
THEOREM TypeCorrect == Spec => []TypeOK
<1>1. Typed => TypeOK
  BY DEF Typed
<1> QED BY <1>1, TypedInit, TypedStep, PTL DEF Spec


-----------------------------------------------------------------------------
\* Durability

\* The working copy covers what is stored, and what is stored covers what was
\* acknowledged.
Covered == acked \subseteq ydoc.facts /\ ydoc.facts \subseteq doc.facts

\* What a step does to the three sets: it keeps them nested, and it is a step
\* (or a stutter) of the abstract document.
Durably == Covered' /\ [Durable!Next]_(Durable!vars)

LEMMA GrowingIsDurable ==
    ASSUME Typed, Covered, doc' \in Content, doc.facts \subseteq doc'.facts, UNCHANGED <<ydoc, acked>>
    PROVE  Durably
<1>1. Covered'
  BY DEF Covered
<1>2. Durable!Merge(doc'.facts) /\ doc'.facts \in SUBSET Fact
  BY DEF Durable!Merge
<1> QED BY <1>1, <1>2 DEF Durably, Durable!Next

LEMMA SavingIsDurable ==
    ASSUME Typed, Covered, NEW d \in Content, doc' = d, doc.facts \subseteq d.facts,
           NEW why, NEW F, Persist(d, why, F, acked)
    PROVE  Durably
<1>1. ydoc' = d /\ acked \subseteq acked' /\ acked' \subseteq acked \cup d.facts
  BY DEF Persist, Acknowledged
<1>2. Covered'
  BY <1>1 DEF Covered
<1>3. Durable!Save(d.facts) /\ d.facts \in SUBSET Fact
  BY <1>1 DEF Durable!Save
<1> QED BY <1>2, <1>3 DEF Durably, Durable!Next

LEMMA ReplacingIsDurable ==
    ASSUME NEW d \in Content, doc' = d, NEW why, NEW F, NEW kept, kept \subseteq d.facts,
           Persist(d, why, F, kept)
    PROVE  Durably
<1>1. ydoc' = d /\ acked' \subseteq d.facts
  BY DEF Persist, Acknowledged
<1>2. Covered'
  BY <1>1 DEF Covered
<1>3. Durable!Replace(d.facts) /\ d.facts \in SUBSET Fact
  BY <1>1 DEF Durable!Replace
<1> QED BY <1>2, <1>3 DEF Durably, Durable!Next

LEMMA ReloadingIsDurable ==
    ASSUME Covered, doc' = ydoc, UNCHANGED <<ydoc, acked>> PROVE Durably
BY DEF Covered, Durably, Durable!Next, Durable!Crash

LEMMA WipingIsDurable ==
    ASSUME Wipe, UNCHANGED doc PROVE Durably
<1>1. ydoc'.facts = {} /\ acked' = {}
  BY EmptyDocument DEF Wipe
<1> QED BY <1>1 DEF Covered, Durably, Durable!Next, Durable!Destroy

LEMMA DurableStep == Typed /\ Covered /\ [Next]_vars => Durably
<1> SUFFICES ASSUME Typed, Covered, [Next]_vars PROVE Durably
  OBVIOUS
<1>1. /\ doc \in Content /\ doc' \in Content
      /\ acked \subseteq doc.facts
  BY TypedStep DEF Typed, TypeOK, MemoryOK, Covered
<1>2. ASSUME UNCHANGED <<doc, ydoc, acked>> PROVE Durably
  BY <1>1, <1>2, GrowingIsDurable
<1>3. ASSUME NEW why, UNCHANGED doc, Persist(doc, why, {}, acked) PROVE Durably
  BY <1>1, <1>3, SavingIsDurable
<1>4. CASE \/ UNCHANGED vars
           \/ \E c \in Clients : Upgrade(c) \/ Accept(c)
           \/ LoadRead \/ LoadFail \/ EditAgain
           \/ \E w \in waiting : Reject(w) \/ ImportBind(w)
           \/ \E i \in 1..Len(writes) : WriteLands(i) \/ WriteFails(i)
           \/ TakeSnapshot \/ EditTemplate \/ RestructureRequest
           \/ \E f \in Edits : ImportRequest(f) \/ PatchRequest(f)
           \/ DeleteRows \/ DeleteInspection
  <2>1. UNCHANGED <<doc, ydoc, acked>>
    BY <1>4 DEF vars, memory, storage, ghost, Upgrade, Accept, LoadRead, LoadFail, EditAgain, Reject,
                ImportBind, WriteLands, WriteFails, TakeSnapshot, EditTemplate, RestructureRequest,
                ImportRequest, PatchRequest, DeleteRows, DeleteInspection
  <2> QED BY <1>2, <2>1
<1>5. ASSUME NEW c \in Clients, Disconnect(c) PROVE Durably
  BY <1>2, <1>3, <1>5 DEF Disconnect
<1>6. CASE RefusedClose
  BY <1>3, <1>6 DEF RefusedClose
<1>7. CASE TimerFire \/ AlarmFire \/ Flush
  BY <1>2, <1>3, <1>7 DEF TimerFire, AlarmFire, Flush, Saving, memory, ghost
<1>8. ASSUME NEW c \in Clients, NEW f \in Edits, Message(c, f) PROVE Durably
  <2>1. doc.facts \subseteq doc'.facts /\ UNCHANGED <<ydoc, acked>>
    BY <1>1, <1>8, Merging DEF Message, ghost, Fact
  <2> QED BY <1>1, <2>1, GrowingIsDurable
<1>9. CASE LoadApply
  <2>1. doc.facts \subseteq doc'.facts
    BY <1>1, <1>9, Seeding, Loading DEF LoadApply, Typed, TypeOK, MemoryOK
  <2> QED BY <1>1, <1>9, <2>1, GrowingIsDurable DEF LoadApply, ghost
<1>10. ASSUME NEW w \in waiting, RestructureApply(w) PROVE Durably
  <2>1. \E why, F, kept : kept \subseteq doc'.facts /\ Persist(doc', why, F, kept)
    BY <1>10 DEF RestructureApply
  <2> QED BY <1>1, <2>1, ReplacingIsDurable
<1>11. ASSUME NEW i \in 1..Len(snaps), Restore(i) PROVE Durably
  <2>1. snaps[i].projection \in Content
    <3>1. snaps[i] \in Snapshot
      BY DEF Typed, TypeOK, StorageOK
    <3> QED BY <3>1 DEF Snapshot
  <2>2. doc'.facts = snaps[i].projection.facts
    <3>1. doc' = LoadProjection(Empty, snaps[i].projection)
      BY <1>11 DEF Restore
    <3>2. LoadProjection(Empty, snaps[i].projection).facts = Empty.facts \cup snaps[i].projection.facts
      BY <2>1, EmptyDocument, Loading
    <3> QED BY <3>1, <3>2, EmptyDocument
  <2>3. \E why, F, kept : kept \subseteq doc'.facts /\ Persist(doc', why, F, kept)
    BY <1>11, <2>2 DEF Restore
  <2> QED BY <1>1, <2>3, ReplacingIsDurable
<1>12. ASSUME NEW w \in waiting, ImportApply(w) \/ PatchApply(w) PROVE Durably
  <2>1. w.who \in Edits
    BY <1>12, RequestKinds DEF ImportApply, PatchApply, Typed, TypeOK
  <2>2. doc.facts \subseteq doc'.facts
    <3>1. doc' = doc \/ doc' = Merge(doc, {w.who})
      BY <1>12 DEF ImportApply, PatchApply
    <3>2. Merge(doc, {w.who}).facts = doc.facts \cup {w.who}
      BY <1>1, <2>1, Merging DEF Fact
    <3> QED BY <3>1, <3>2
  <2>3. \E why, F : Persist(doc', why, F, acked)
    BY <1>12 DEF ImportApply, PatchApply
  <2> QED BY <1>1, <2>2, <2>3, SavingIsDurable
<1>13. CASE Sleep \/ Crash
  BY <1>13, ReloadingIsDurable DEF Sleep, Crash, Reconstruct, storage, ghost
<1>14. CASE Purge \/ \E i \in 1..Len(writes) : Abandon(i)
  BY <1>2, <1>14, WipingIsDurable DEF Purge, Abandon, memory, storage
<1> QED BY <1>4, <1>5, <1>6, <1>7, <1>8, <1>9, <1>10, <1>11, <1>12, <1>13, <1>14 DEF Next


LEMMA CoveredInit == Init => Covered /\ Durable!Init
BY EmptyDocument DEF Init, Covered, Durable!Init

\* What was acknowledged is in storage, whatever is lost, restored, imported or
\* restructured (inspection-doc-ack.ts: an ack names only what persist() has
\* put into storage).
THEOREM AckedDurable == Spec => []AckedIsDurable
<1>1. Typed /\ Covered /\ [Next]_vars => Covered'
  BY DurableStep DEF Durably
<1>2. Covered => AckedIsDurable
  BY DEF Covered, AckedIsDurable
<1> QED BY <1>1, <1>2, TypedInit, TypedStep, CoveredInit, PTL DEF Spec

\* The object, its timers, alarms, requests and crashes implement the abstract
\* durable document: nothing merged goes away except by a crash back to the
\* stored copy, a replacement by a person, or a delete.
THEOREM Refinement == Spec => ImplementsDurableDoc
<1>1. Typed /\ Covered /\ [Next]_vars => Covered' /\ [Durable!Next]_(Durable!vars)
  BY DurableStep DEF Durably
<1> QED BY <1>1, TypedInit, TypedStep, CoveredInit, PTL DEF Spec, Durable!Spec, ImplementsDurableDoc


-----------------------------------------------------------------------------
\* Snapshot numbers

LEMMA FollowsItself == ASSUME NEW ring \in Ring PROVE Follows(ring, ring)
<1>1. SeqsOf(ring) \subseteq Nat
  BY SeqsAreNumbers DEF Ring
<1>2. \A s \in SeqsOf(ring) : s <= s
  BY <1>1
<1> QED BY <1>2 DEF Follows, KeptOrNew

LEMMA FollowsOn ==
    ASSUME NEW a \in Ring, NEW b \in Ring, NEW c \in Ring, Follows(a, b), Follows(b, c)
    PROVE  Follows(a, c)
<1>1. SeqsOf(a) \subseteq Nat /\ SeqsOf(b) \subseteq Nat /\ SeqsOf(c) \subseteq Nat
  BY SeqsAreNumbers DEF Ring
<1>2. \A s \in SeqsOf(a) : \E t \in SeqsOf(c) : s <= t
  <2> TAKE s \in SeqsOf(a)
  <2>1. PICK u \in SeqsOf(b) : s <= u
    BY DEF Follows
  <2>2. PICK t \in SeqsOf(c) : u <= t
    BY DEF Follows
  <2>3. s <= t
    BY <1>1, <2>1, <2>2
  <2> QED BY <2>3
<1>3. KeptOrNew(a, c)
  <2> SUFFICES ASSUME NEW i \in 1..Len(c)
               PROVE  \/ \E j \in 1..Len(a) : a[j] = c[i]
                      \/ \A s \in SeqsOf(a) : c[i].seq > s
    BY DEF KeptOrNew
  <2>1. CASE \E j \in 1..Len(b) : b[j] = c[i]
    BY <2>1 DEF Follows, KeptOrNew
  <2>2. CASE \A u \in SeqsOf(b) : c[i].seq > u
    <3>1. c[i].seq \in Nat
      BY <1>1 DEF SeqsOf
    <3>2. ASSUME NEW s \in SeqsOf(a) PROVE c[i].seq > s
      <4>1. PICK u \in SeqsOf(b) : s <= u
        BY DEF Follows
      <4> QED BY <1>1, <2>2, <3>1, <4>1
    <3> QED BY <3>2
  <2> QED BY <2>1, <2>2 DEF Follows, KeptOrNew
<1> QED BY <1>2, <1>3 DEF Follows


\* The periodic snapshot of an update follows whatever ring the update found.
LEMMA UpdatedFollows ==
    ASSUME NEW n, NEW d \in Content, NEW ring \in Ring, Increasing(ring), Updated(n, d, ring)
    PROVE  Follows(ring, snaps')
<1>1. "periodic" \in Reason /\ {} \in SUBSET Edits
  BY DEF Reason
<1>2. Follows(ring, Capture(ring, d, "periodic", {}))
  BY <1>1, Capturing
<1> QED BY <1>2, FollowsItself DEF Updated

LEMMA NumbersStep == Typed /\ [Next]_vars => KeptOrNew(snaps, snaps')
<1> SUFFICES ASSUME Typed, [Next]_vars PROVE KeptOrNew(snaps, snaps')
  OBVIOUS
<1>1. /\ doc \in Content /\ doc' \in Content
      /\ snaps \in Ring /\ snaps' \in Ring /\ Increasing(snaps)
      /\ {"connect", "manual", "import"} \subseteq Reason
  BY TypedStep DEF Typed, TypeOK, MemoryOK, StorageOK, Ring, Reason
<1>2. ASSUME UNCHANGED snaps PROVE KeptOrNew(snaps, snaps')
  BY <1>1, <1>2, FollowsItself DEF Follows
<1>3. ASSUME NEW why \in {"connect", "manual", "import"}, NEW F \in SUBSET Edits
      PROVE  LET ring == Capture(snaps, doc, why, F)
             IN  ring \in Ring /\ Increasing(ring) /\ Follows(snaps, ring)
  BY <1>1, <1>3, Capturing
<1>4. ASSUME NEW n, Updated(n, doc', snaps) PROVE KeptOrNew(snaps, snaps')
  BY <1>1, <1>4, UpdatedFollows DEF Follows
<1>5. CASE \/ UNCHANGED vars
           \/ \E c \in Clients : Upgrade(c) \/ Disconnect(c)
           \/ LoadRead \/ LoadFail \/ RefusedClose \/ EditAgain
           \/ \E w \in waiting : Reject(w) \/ ImportBind(w)
           \/ TimerFire \/ AlarmFire \/ Flush
           \/ \E i \in 1..Len(writes) : WriteLands(i) \/ WriteFails(i)
           \/ EditTemplate \/ RestructureRequest
           \/ \E f \in Edits : ImportRequest(f) \/ PatchRequest(f)
           \/ DeleteRows \/ DeleteInspection \/ Sleep \/ Crash
  <2>1. UNCHANGED snaps
    BY <1>5 DEF vars, storage, Upgrade, Disconnect, LoadRead, LoadFail, RefusedClose, EditAgain, Reject,
                ImportBind, TimerFire, AlarmFire, Flush, Saving, WriteLands, WriteFails, EditTemplate,
                RestructureRequest, ImportRequest, PatchRequest, DeleteRows, DeleteInspection, Sleep, Crash
  <2> QED BY <1>2, <2>1
<1>6. ASSUME NEW c \in Clients, Accept(c) PROVE KeptOrNew(snaps, snaps')
  <2>1. UNCHANGED snaps \/ snaps' = Capture(snaps, doc, "connect", {})
    BY <1>6 DEF Accept, ConnectCapture
  <2> QED BY <1>2, <1>3, <2>1 DEF Follows
<1>7. CASE TakeSnapshot \/ \E i \in 1..Len(snaps) : Restore(i)
  <2>1. snaps' = Capture(snaps, doc, "manual", {})
    BY <1>7 DEF TakeSnapshot, Restore
  <2> QED BY <1>3, <2>1 DEF Follows
<1>8. CASE \/ \E c \in Clients, f \in Edits : Message(c, f)
           \/ LoadApply
           \/ \E w \in waiting : RestructureApply(w) \/ PatchApply(w)
  <2>1. \E n : Updated(n, doc', snaps)
    BY <1>8 DEF Message, LoadApply, RestructureApply, PatchApply
  <2> QED BY <1>4, <2>1
<1>9. ASSUME NEW w \in waiting, ImportApply(w) PROVE KeptOrNew(snaps, snaps')
  <2>1. {w.who} \in SUBSET Edits
    BY <1>9, RequestKinds DEF ImportApply, Typed, TypeOK
  <2>2. \E n : Updated(n, doc', snaps) \/ Updated(n, doc', Capture(snaps, doc, "import", {w.who}))
    BY <1>9 DEF ImportApply
  <2>3. ASSUME NEW n, Updated(n, doc', Capture(snaps, doc, "import", {w.who}))
        PROVE  KeptOrNew(snaps, snaps')
    <3> DEFINE ring == Capture(snaps, doc, "import", {w.who})
    <3>1. ring \in Ring /\ Increasing(ring) /\ Follows(snaps, ring)
      BY <1>3, <2>1
    <3>2. Follows(ring, snaps')
      BY <1>1, <2>3, <3>1, UpdatedFollows
    <3> HIDE DEF ring
    <3> QED BY <1>1, <3>1, <3>2, FollowsOn DEF Follows
  <2> QED BY <1>4, <2>2, <2>3
<1>10. CASE Purge \/ \E i \in 1..Len(writes) : Abandon(i)
  <2>1. UNCHANGED snaps \/ snaps' = <<>>
    BY <1>10 DEF Purge, Abandon, Wipe, storage
  <2>2. KeptOrNew(snaps, <<>>)
    BY DEF KeptOrNew
  <2> QED BY <1>2, <2>1, <2>2
<1> QED BY <1>5, <1>6, <1>7, <1>8, <1>9, <1>10 DEF Next

\* The number a snapshot is listed and restored by is never handed out twice
\* (nextSeq), however often the ring wraps, the object sleeps or crashes.
THEOREM NumbersAreFresh == Spec => SeqsNeverReused
<1>1. KeptOrNew(snaps, snaps') =>
          \A i \in 1..Len(snaps') :
              \/ \E j \in 1..Len(snaps) : snaps[j] = snaps'[i]
              \/ \A t \in SeqsOf(snaps) : snaps'[i].seq > t
  BY DEF KeptOrNew
<1> QED BY <1>1, NumbersStep, TypedInit, TypedStep, PTL DEF Spec, SeqsNeverReused

-----------------------------------------------------------------------------
\* A restore can be undone

\* What was captured is the last entry of the ring, however full it was.
LEMMA CapturedLast ==
    ASSUME NEW ring \in Ring, NEW d \in Content, NEW why \in Reason, NEW F \in SUBSET Edits,
           Increasing(ring)
    PROVE  LET after == Capture(ring, d, why, F)
           IN  \E i \in 1..Len(after) : after[i].projection = Projection(d)
<1> DEFINE new == [seq |-> NextSeq(ring), reason |-> why, projection |-> Projection(d), brings |-> F]
           all == Append(ring, new)
<1>1. new \in Snapshot /\ new.projection = Projection(d)
  BY NextIsLarger, Projecting DEF Ring, Snapshot
<1>2. Capture(ring, d, why, F) = IF Len(all) > SnapshotCap THEN Tail(all) ELSE all
  BY DEF Capture
<1> HIDE DEF new
<1>3. all \in Seq(Snapshot) /\ Len(all) = Len(ring) + 1 /\ all[Len(all)] = new /\ Len(ring) \in Nat
  BY <1>1 DEF Ring
<1> HIDE DEF all
<1>4. CASE Len(all) > SnapshotCap
  <2>1. Len(ring) \in 1..Len(Tail(all)) /\ Tail(all)[Len(ring)] = new
    BY <1>3, <1>4, Limits
  <2> QED BY <1>1, <1>2, <1>4, <2>1
<1>5. CASE ~(Len(all) > SnapshotCap)
  BY <1>1, <1>2, <1>3, <1>5
<1> QED BY <1>4, <1>5

\* Only a restore gives the object another document.
LEMMA OtherDocument ==
    ASSUME Typed, [Next]_vars, gen' # gen
    PROVE  gen' = 0 \/ \E i \in 1..Len(snaps) : Restore(i)
<1>1. CASE \/ \E c \in Clients : Upgrade(c) \/ Accept(c) \/ Disconnect(c)
           \/ \E c \in Clients, f \in Edits : Message(c, f)
           \/ LoadRead \/ LoadApply \/ LoadFail \/ RefusedClose \/ EditAgain
           \/ \E w \in waiting : Reject(w) \/ RestructureApply(w) \/ ImportBind(w) \/ ImportApply(w) \/ PatchApply(w)
           \/ TimerFire \/ AlarmFire \/ Flush
           \/ \E i \in 1..Len(writes) : WriteLands(i) \/ WriteFails(i) \/ Abandon(i)
           \/ TakeSnapshot \/ EditTemplate \/ RestructureRequest
           \/ \E f \in Edits : ImportRequest(f) \/ PatchRequest(f)
           \/ DeleteRows \/ DeleteInspection \/ Purge
           \/ UNCHANGED vars
  BY <1>1 DEF vars, memory, Upgrade, Accept, Disconnect, Message, LoadRead, LoadApply, LoadFail, RefusedClose,
     EditAgain, Reject, RestructureApply, ImportBind, ImportApply, PatchApply, TimerFire, AlarmFire, Flush,
     Saving, WriteLands, WriteFails, Abandon, TakeSnapshot, EditTemplate, RestructureRequest, ImportRequest,
     PatchRequest, DeleteRows, DeleteInspection, Purge
<1>2. CASE Sleep \/ Crash
  BY <1>2 DEF Sleep, Crash, Reconstruct
<1> QED BY <1>1, <1>2 DEF Next

\* The state a restore replaces is in the ring afterwards (inspection-doc.ts,
\* restore: it captures before it swaps), so that the restore can be undone.
THEOREM RestoresCanBeUndone == Spec => RestoreIsReversible
<1> DEFINE InRing == \E i \in 1..Len(snaps') : snaps'[i].projection = Projection(doc)
<1>1. ASSUME Typed, [Next]_vars, gen' > gen PROVE InRing
  <2>1. doc \in Content /\ snaps \in Ring /\ Increasing(snaps) /\ gen \in Nat
    BY <1>1 DEF Typed, TypeOK, MemoryOK, StorageOK, Ring
  <2>2. PICK i \in 1..Len(snaps) : Restore(i)
    BY <1>1, <2>1, OtherDocument
  <2>3. snaps' = Capture(snaps, doc, "manual", {})
    BY <2>2 DEF Restore
  <2>4. "manual" \in Reason /\ {} \in SUBSET Edits
    BY DEF Reason
  <2> QED BY <2>1, <2>3, <2>4, CapturedLast
<1>2. Typed /\ [Next]_vars => [gen' > gen => InRing]_vars
  BY <1>1
<1> QED BY <1>2, TypedInit, TypedStep, PTL DEF Spec, RestoreIsReversible

-----------------------------------------------------------------------------
\* Imports, where nobody restores

\* A request is bound to the only document there is.
NoRestore == "restore" \notin Verbs
Steady == gen = 0 /\ \A w \in waiting : w.gen = 0

LEMMA SteadyStep == NoRestore /\ Typed /\ Steady /\ [Next]_vars => Steady'
<1> SUFFICES ASSUME NoRestore, Typed, Steady, [Next]_vars PROVE Steady'
  OBVIOUS
<1>1. gen' = 0
  BY OtherDocument DEF Steady, NoRestore, Restore, Called
<1>2. ASSUME waiting' \subseteq waiting PROVE Steady'
  BY <1>1, <1>2 DEF Steady
<1>3. ASSUME NEW w, waiting' \subseteq waiting \cup {w}, w.gen = 0 PROVE Steady'
  BY <1>1, <1>3 DEF Steady
<1>4. CASE \/ \E c \in Clients : Accept(c) \/ Disconnect(c)
           \/ \E c \in Clients, f \in Edits : Message(c, f)
           \/ LoadRead \/ LoadApply \/ LoadFail \/ RefusedClose \/ EditAgain
           \/ \E w \in waiting : Reject(w) \/ RestructureApply(w) \/ ImportApply(w) \/ PatchApply(w)
           \/ TimerFire \/ AlarmFire \/ Flush
           \/ \E i \in 1..Len(writes) : WriteLands(i) \/ WriteFails(i) \/ Abandon(i)
           \/ TakeSnapshot \/ EditTemplate
           \/ DeleteRows \/ DeleteInspection \/ Purge \/ Sleep \/ Crash
           \/ UNCHANGED vars
  <2>1. waiting' \subseteq waiting
    BY <1>4 DEF vars, memory, Accept, Disconnect, Message, LoadRead, LoadApply, LoadFail, RefusedClose,
       EditAgain, Reject, RestructureApply, ImportApply, PatchApply, TimerFire, AlarmFire, Flush,
       Saving, WriteLands, WriteFails, Abandon, TakeSnapshot, EditTemplate,
       DeleteRows, DeleteInspection, Purge, Sleep, Crash
  <2> QED BY <1>2, <2>1
<1>5. ASSUME NEW c \in Clients, Upgrade(c) PROVE Steady'
  BY <1>3, <1>5 DEF Upgrade, Wait
<1>6. ASSUME NEW w \in waiting, ImportBind(w) PROVE Steady'
  <2>1. waiting' \subseteq waiting \cup {[kind |-> "import body", who |-> w.who, gen |-> gen]}
    BY <1>6 DEF ImportBind
  <2>2. [kind |-> "import body", who |-> w.who, gen |-> gen].gen = 0
    BY DEF Steady
  <2> QED BY <1>3, <2>1, <2>2
<1>7. CASE RestructureRequest
  <2>1. waiting' \subseteq waiting \cup {[kind |-> "restructure", who |-> template, gen |-> gen]}
    BY <1>7 DEF RestructureRequest, Wait
  <2>2. [kind |-> "restructure", who |-> template, gen |-> gen].gen = 0
    BY DEF Steady
  <2> QED BY <1>3, <2>1, <2>2
<1>8. ASSUME NEW f \in Edits, ImportRequest(f) \/ PatchRequest(f) PROVE Steady'
  <2>1. \/ waiting' \subseteq waiting \cup {[kind |-> "import", who |-> f, gen |-> 0]}
        \/ waiting' \subseteq waiting \cup {[kind |-> "followup", who |-> f, gen |-> gen]}
    BY <1>8 DEF ImportRequest, PatchRequest, Wait
  <2>2. /\ [kind |-> "import", who |-> f, gen |-> 0].gen = 0
        /\ [kind |-> "followup", who |-> f, gen |-> gen].gen = 0
    BY DEF Steady
  <2> QED BY <1>3, <2>1, <2>2
<1>9. ASSUME NEW i, Restore(i) PROVE FALSE
  BY <1>9 DEF Restore, Called, NoRestore
<1> QED BY <1>4, <1>5, <1>6, <1>7, <1>8, <1>9 DEF Next

LEMMA SteadyInit == Init => Steady
BY DEF Init, Steady

\* An entry captured for an import lacks what the import brings.
Precedes(ring) ==
    \A i \in 1..Len(ring) : ring[i].reason = "import" => ~(ring[i].brings \subseteq ring[i].projection.facts)

LEMMA CapturePrecedes ==
    ASSUME NEW ring \in Ring, Increasing(ring), Precedes(ring),
           NEW d \in Content, NEW why \in Reason, NEW F \in SUBSET Edits,
           why = "import" => ~(F \subseteq d.facts)
    PROVE  Precedes(Capture(ring, d, why, F))
<1> DEFINE new == [seq |-> NextSeq(ring), reason |-> why, projection |-> Projection(d), brings |-> F]
           all == Append(ring, new)
<1>1. /\ new \in Snapshot /\ new.reason = why /\ new.brings = F
      /\ new.projection.facts \subseteq d.facts
  BY NextIsLarger, Projecting DEF Ring, Snapshot, Projection
<1>2. Capture(ring, d, why, F) = IF Len(all) > SnapshotCap THEN Tail(all) ELSE all
  BY DEF Capture
<1> HIDE DEF new
<1>3. /\ all \in Seq(Snapshot) /\ Len(all) = Len(ring) + 1 /\ Len(ring) \in Nat
      /\ all[Len(ring) + 1] = new /\ \A i \in 1..Len(ring) : all[i] = ring[i]
  BY <1>1 DEF Ring
<1> HIDE DEF all
<1>4. Precedes(all)
  BY <1>1, <1>3 DEF Precedes
<1>5. Len(all) > SnapshotCap => Precedes(Tail(all))
  <2> SUFFICES ASSUME Len(all) > SnapshotCap, NEW i \in 1..Len(Tail(all)), Tail(all)[i].reason = "import"
               PROVE  ~(Tail(all)[i].brings \subseteq Tail(all)[i].projection.facts)
    BY DEF Precedes
  <2>1. i + 1 \in 1..Len(all) /\ Tail(all)[i] = all[i + 1]
    BY <1>3
  <2> QED BY <1>4, <2>1 DEF Precedes
<1> QED BY <1>2, <1>4, <1>5

LEMMA UpdatedPrecedes ==
    ASSUME NEW n, NEW d \in Content, NEW ring \in Ring, Increasing(ring), Precedes(ring), Updated(n, d, ring)
    PROVE  Precedes(snaps')
<1>1. "periodic" \in Reason /\ {} \in SUBSET Edits
  BY DEF Reason
<1>2. Precedes(Capture(ring, d, "periodic", {}))
  BY <1>1, CapturePrecedes
<1> QED BY <1>2 DEF Updated

LEMMA PrecedesStep == Typed /\ Steady /\ Precedes(snaps) /\ [Next]_vars => Precedes(snaps')
<1> SUFFICES ASSUME Typed, Steady, Precedes(snaps), [Next]_vars PROVE Precedes(snaps')
  OBVIOUS
<1>1. /\ doc \in Content /\ doc' \in Content
      /\ snaps \in Ring /\ Increasing(snaps)
      /\ {"connect", "manual", "import"} \subseteq Reason
  BY TypedStep DEF Typed, TypeOK, MemoryOK, StorageOK, Ring, Reason
<1>2. ASSUME NEW why \in {"connect", "manual"}, snaps' = Capture(snaps, doc, why, {})
      PROVE  Precedes(snaps')
  BY <1>1, <1>2, CapturePrecedes
<1>3. CASE \/ UNCHANGED vars
           \/ \E c \in Clients : Upgrade(c) \/ Disconnect(c)
           \/ LoadRead \/ LoadFail \/ RefusedClose \/ EditAgain
           \/ \E w \in waiting : Reject(w) \/ ImportBind(w)
           \/ TimerFire \/ AlarmFire \/ Flush
           \/ \E i \in 1..Len(writes) : WriteLands(i) \/ WriteFails(i)
           \/ EditTemplate \/ RestructureRequest
           \/ \E f \in Edits : ImportRequest(f) \/ PatchRequest(f)
           \/ DeleteRows \/ DeleteInspection \/ Sleep \/ Crash
  <2>1. UNCHANGED snaps
    BY <1>3 DEF vars, storage, Upgrade, Disconnect, LoadRead, LoadFail, RefusedClose, EditAgain, Reject,
                ImportBind, TimerFire, AlarmFire, Flush, Saving, WriteLands, WriteFails, EditTemplate,
                RestructureRequest, ImportRequest, PatchRequest, DeleteRows, DeleteInspection, Sleep, Crash
  <2> QED BY <2>1
<1>4. ASSUME NEW c \in Clients, Accept(c) PROVE Precedes(snaps')
  BY <1>2, <1>4 DEF Accept, ConnectCapture
<1>5. CASE TakeSnapshot \/ \E i \in 1..Len(snaps) : Restore(i)
  BY <1>2, <1>5 DEF TakeSnapshot, Restore
<1>6. CASE \/ \E c \in Clients, f \in Edits : Message(c, f)
           \/ LoadApply
           \/ \E w \in waiting : RestructureApply(w) \/ PatchApply(w)
  <2>1. \E n : Updated(n, doc', snaps)
    BY <1>6 DEF Message, LoadApply, RestructureApply, PatchApply
  <2> QED BY <1>1, <2>1, UpdatedPrecedes
<1>7. ASSUME NEW w \in waiting, ImportApply(w) PROVE Precedes(snaps')
  <2>1. {w.who} \in SUBSET Edits
    BY <1>7, RequestKinds DEF ImportApply, Typed, TypeOK
  <2>2. Changed(w) = {w.who \notin doc.facts}
    BY DEF Changed, Steady
  <2>3. \/ \E n : Updated(n, doc', snaps)
        \/ w.who \notin doc.facts /\ \E n : Updated(n, doc', Capture(snaps, doc, "import", {w.who}))
    BY <1>7, <2>2 DEF ImportApply
  <2>4. ASSUME NEW n, w.who \notin doc.facts, Updated(n, doc', Capture(snaps, doc, "import", {w.who}))
        PROVE  Precedes(snaps')
    <3> DEFINE ring == Capture(snaps, doc, "import", {w.who})
    <3>1. ring \in Ring /\ Increasing(ring)
      BY <1>1, <2>1, Capturing
    <3>2. Precedes(ring)
      BY <1>1, <2>1, <2>4, CapturePrecedes
    <3>3. Updated(n, doc', ring)
      BY <2>4
    <3> HIDE DEF ring
    <3> QED BY <1>1, <3>1, <3>2, <3>3, UpdatedPrecedes
  <2> QED BY <1>1, <2>3, <2>4, UpdatedPrecedes
<1>8. CASE Purge \/ \E i \in 1..Len(writes) : Abandon(i)
  BY <1>8 DEF Purge, Abandon, Wipe, storage, Precedes
<1> QED BY <1>3, <1>4, <1>5, <1>6, <1>7, <1>8 DEF Next

\* The snapshot that undoes an import holds the state before it
\* (inspection-doc-import.ts, applyImport: no snapshot when nothing changes),
\* for any number of imports and retries.  Where restores are called as well the
\* code gives no such promise: the document may be swapped under the import.
THEOREM ImportsCanBeUndone == ASSUME NoRestore PROVE Spec => []ImportSnapshotPrecedes
<1>1. Init => Precedes(snaps)
  BY DEF Init, Precedes
<1>2. Typed /\ Steady /\ [Next]_vars => Steady'
  BY SteadyStep
<1>3. Precedes(snaps) <=> ImportSnapshotPrecedes
  BY DEF Precedes, ImportSnapshotPrecedes
<1>4. Typed /\ Steady /\ ImportSnapshotPrecedes /\ [Next]_vars => ImportSnapshotPrecedes'
  BY PrecedesStep DEF Precedes, ImportSnapshotPrecedes
<1>5. Init => ImportSnapshotPrecedes
  BY <1>1, <1>3
<1> QED BY <1>2, <1>4, <1>5, TypedInit, TypedStep, SteadyInit, PTL DEF Spec

\* Writes on their way to D1.

\* No write is new, and none answers for more than it did.
NoneAdded ==
    \A i \in 1..Len(writes') : \E k \in 1..Len(writes) :
        writes'[i].data = writes[k].data /\ writes'[i].facts \subseteq writes[k].facts

LEMMA DropAdds == ASSUME WritesOK, NEW i \in 1..Len(writes), writes' = DropWrite(i) PROVE NoneAdded
<1>1. Len(writes) - 1 \in Nat /\ \A j \in 1..Len(writes) : writes[j] \in Write
  BY DEF WritesOK
<1>2. DropWrite(i) \in [1..(Len(writes) - 1) -> Write]
  BY <1>1 DEF DropWrite
<1>3. Len(DropWrite(i)) = Len(writes) - 1
  <2> HIDE DEF DropWrite
  <2> QED BY <1>1, <1>2
<1>4. ASSUME NEW j \in 1..(Len(writes) - 1) PROVE \E k \in 1..Len(writes) : DropWrite(i)[j] = writes[k]
  BY <1>1 DEF DropWrite
<1> HIDE DEF DropWrite
<1> QED BY <1>3, <1>4 DEF NoneAdded

\* What a crash leaves of them.
Lost == [i \in 1..Len(writes) |-> [writes[i] EXCEPT !.why = "orphan", !.facts = {}]]

LEMMA CrashAdds == ASSUME WritesOK, writes' = Lost PROVE NoneAdded
<1>1. Len(writes) \in Nat /\ \A i \in 1..Len(writes) : writes[i] \in Write
  BY DEF WritesOK
<1>2. Lost \in [1..Len(writes) -> Write]
  BY <1>1 DEF Write, Why, Lost
<1>3. \A i \in 1..Len(writes) : Lost[i].data = writes[i].data /\ Lost[i].facts = {}
  BY <1>1 DEF Write, Lost
<1>4. Len(Lost) = Len(writes)
  BY <1>1, <1>2
<1> QED BY <1>3, <1>4 DEF NoneAdded

LEMMA SameAdds == ASSUME UNCHANGED writes PROVE NoneAdded
BY DEF NoneAdded

\* A persist adds at most the one it sends.
LEMMA PersistAdds ==
    ASSUME WritesOK, NEW d \in Content, NEW why, NEW F, NEW kept, Persist(d, why, F, kept)
    PROVE  \A i \in 1..Len(writes') :
              \/ \E k \in 1..Len(writes) : writes'[i] = writes[k]
              \/ writes'[i].data = Projection(d) /\ writes'[i].facts = F
<1> DEFINE w == [data |-> Projection(d), why |-> why, facts |-> F]
<1>1. w.data = Projection(d) /\ w.facts = F
  OBVIOUS
<1> HIDE DEF w
<1>2. writes \in Seq(Write) /\ (UNCHANGED writes \/ writes' = Append(writes, w))
  BY DEF Persist, WritesOK, w
<1> QED BY <1>1, <1>2

\* Nobody takes out what an import brought.
NoRewrite == NoRestore /\ "restructure" \notin Verbs
Intact == \A w \in waiting : w.kind # "restructure"

\* What an import is answered for, now or when its write lands, is stored.
Landed == /\ imported \subseteq ydoc.facts
          /\ \A i \in 1..Len(writes) : writes[i].facts \subseteq ydoc.facts
Landing == ~Gone => Landed

LEMMA IntactStep == NoRewrite /\ Intact /\ [Next]_vars => Intact'
<1> SUFFICES ASSUME NoRewrite, Intact, [Next]_vars PROVE Intact'
  OBVIOUS
<1>1. ASSUME waiting' \subseteq waiting PROVE Intact'
  BY <1>1 DEF Intact
<1>2. ASSUME NEW w, waiting' \subseteq waiting \cup {w}, w.kind # "restructure" PROVE Intact'
  BY <1>2 DEF Intact
<1>3. CASE \/ \E c \in Clients : Accept(c) \/ Disconnect(c)
           \/ \E c \in Clients, f \in Edits : Message(c, f)
           \/ LoadRead \/ LoadApply \/ LoadFail \/ RefusedClose \/ EditAgain
           \/ \E w \in waiting : Reject(w) \/ RestructureApply(w) \/ ImportApply(w) \/ PatchApply(w)
           \/ TimerFire \/ AlarmFire \/ Flush
           \/ \E i \in 1..Len(writes) : WriteLands(i) \/ WriteFails(i) \/ Abandon(i)
           \/ TakeSnapshot \/ EditTemplate
           \/ \E i \in 1..Len(snaps) : Restore(i)
           \/ DeleteRows \/ DeleteInspection \/ Purge \/ Sleep \/ Crash
           \/ UNCHANGED vars
  <2>1. waiting' \subseteq waiting
    BY <1>3 DEF vars, memory, Accept, Disconnect, Message, LoadRead, LoadApply, LoadFail, RefusedClose,
       EditAgain, Reject, RestructureApply, ImportApply, PatchApply, TimerFire, AlarmFire, Flush,
       Saving, WriteLands, WriteFails, Abandon, TakeSnapshot, EditTemplate, Restore,
       DeleteRows, DeleteInspection, Purge, Sleep, Crash
  <2> QED BY <1>1, <2>1
<1>4. ASSUME NEW c \in Clients, Upgrade(c) PROVE Intact'
  <2>1. [kind |-> "ws", who |-> c, gen |-> 0].kind # "restructure"
    OBVIOUS
  <2> QED BY <1>2, <1>4, <2>1 DEF Upgrade, Wait
<1>5. ASSUME NEW w \in waiting, ImportBind(w) PROVE Intact'
  <2>1. waiting' \subseteq waiting \cup {[kind |-> "import body", who |-> w.who, gen |-> gen]}
    BY <1>5 DEF ImportBind
  <2>2. [kind |-> "import body", who |-> w.who, gen |-> gen].kind # "restructure"
    OBVIOUS
  <2> QED BY <1>2, <2>1, <2>2
<1>6. ASSUME NEW f \in Edits, ImportRequest(f) \/ PatchRequest(f) PROVE Intact'
  <2>1. \/ waiting' \subseteq waiting \cup {[kind |-> "import", who |-> f, gen |-> 0]}
        \/ waiting' \subseteq waiting \cup {[kind |-> "followup", who |-> f, gen |-> gen]}
    BY <1>6 DEF ImportRequest, PatchRequest, Wait
  <2>2. /\ [kind |-> "import", who |-> f, gen |-> 0].kind # "restructure"
        /\ [kind |-> "followup", who |-> f, gen |-> gen].kind # "restructure"
    OBVIOUS
  <2> QED BY <1>2, <2>1, <2>2
<1>7. ~RestructureRequest
  BY DEF RestructureRequest, Called, NoRewrite
<1> QED BY <1>3, <1>4, <1>5, <1>6, <1>7 DEF Next

\* A delete is not taken back.
LEMMA GoneStays == Gone /\ [Next]_vars => Gone'
<1> SUFFICES ASSUME Gone, [Next]_vars PROVE Gone'
  OBVIOUS
<1>1. CASE DeleteRows \/ DeleteInspection \/ Purge
  BY <1>1 DEF DeleteRows, DeleteInspection, Purge, Gone
<1>2. CASE ~(DeleteRows \/ DeleteInspection \/ Purge)
  <2>1. UNCHANGED deletion
    BY <1>2 DEF Next, vars, tables, d1, Upgrade, Accept, Disconnect, Message, LoadRead, LoadApply, LoadFail,
       RefusedClose, EditAgain, Reject, RestructureApply, ImportBind, ImportApply, PatchApply, TimerFire,
       AlarmFire, Flush, Saving, WriteLands, WriteFails, Abandon, TakeSnapshot, EditTemplate,
       RestructureRequest, Restore, ImportRequest, PatchRequest, Sleep, Crash
  <2> QED BY <2>1 DEF Gone
<1> QED BY <1>1, <1>2

LEMMA LandingStep ==
    NoRewrite /\ Typed /\ Covered /\ Steady /\ Intact /\ Landing /\ [Next]_vars => Landing'
<1> SUFFICES ASSUME NoRewrite, Typed, Covered, Steady, Intact, Landing, [Next]_vars, ~Gone'
             PROVE  Landed'
  BY DEF Landing
<1>0. /\ ~Gone /\ WritesOK /\ doc \in Content /\ doc' \in Content
      /\ imported \subseteq ydoc.facts /\ \A i \in 1..Len(writes) : writes[i].facts \subseteq ydoc.facts
      /\ ydoc.facts \subseteq doc.facts
  BY GoneStays, TypedStep DEF Landing, Landed, Covered, Typed, TypeOK, MemoryOK
<1>1. ASSUME UNCHANGED <<ydoc, imported>>, NoneAdded PROVE Landed'
  BY <1>0, <1>1 DEF NoneAdded, Landed
<1>2. ASSUME NEW why, NEW F, NEW kept, Persist(doc', why, F, kept), UNCHANGED imported,
             doc.facts \subseteq doc'.facts, F \subseteq doc'.facts
      PROVE  Landed'
  <2>1. ydoc' = doc'
    BY <1>2 DEF Persist
  <2>2. \A i \in 1..Len(writes') : \/ \E k \in 1..Len(writes) : writes'[i] = writes[k]
                                   \/ writes'[i].data = Projection(doc') /\ writes'[i].facts = F
    BY <1>0, <1>2, PersistAdds
  <2> QED BY <1>0, <1>2, <2>1, <2>2 DEF Landed
<1>3. ASSUME NEW why, Saving(why) PROVE Landed'
  BY <1>2, <1>3 DEF Saving
<1>4. CASE \/ UNCHANGED vars
           \/ \E c \in Clients : Upgrade(c) \/ Accept(c)
           \/ \E c \in Clients, f \in Edits : Message(c, f)
           \/ LoadRead \/ LoadApply \/ LoadFail \/ EditAgain
           \/ \E w \in waiting : Reject(w) \/ ImportBind(w)
           \/ TakeSnapshot \/ EditTemplate
           \/ \E f \in Edits : ImportRequest(f) \/ PatchRequest(f)
           \/ DeleteRows \/ DeleteInspection \/ Sleep
  <2>1. UNCHANGED <<ydoc, imported, writes>>
    BY <1>4 DEF vars, storage, d1, ghost, Upgrade, Accept, Message, LoadRead, LoadApply, LoadFail, EditAgain,
       Reject, ImportBind, TakeSnapshot, EditTemplate, ImportRequest, PatchRequest, DeleteRows,
       DeleteInspection, Sleep
  <2> QED BY <1>1, <2>1, SameAdds
<1>5. ASSUME NEW c \in Clients, Disconnect(c) PROVE Landed'
  <2>1. CASE Persist(doc, "close", {}, acked)
    BY <1>2, <1>5, <2>1 DEF Disconnect
  <2>2. CASE UNCHANGED <<ydoc, writes>>
    BY <1>1, <1>5, <2>2, SameAdds DEF Disconnect
  <2> QED BY <1>5, <2>1, <2>2 DEF Disconnect
<1>6. CASE RefusedClose
  BY <1>2, <1>6 DEF RefusedClose
<1>7. CASE TimerFire \/ AlarmFire \/ Flush
  <2>1. CASE \E why : Saving(why)
    BY <1>3, <2>1
  <2>2. CASE UNCHANGED <<ydoc, writes, imported>>
    BY <1>1, <2>2, SameAdds
  <2> QED BY <1>7, <2>1, <2>2 DEF TimerFire, AlarmFire, Flush, d1, ghost
<1>8. ASSUME NEW i \in 1..Len(writes), WriteLands(i) PROVE Landed'
  <2>1. /\ UNCHANGED ydoc /\ imported' = imported \cup writes[i].facts /\ writes' = DropWrite(i)
    BY <1>8 DEF WriteLands, storage
  <2>2. NoneAdded
    BY <1>0, <2>1, DropAdds
  <2> QED BY <1>0, <2>1, <2>2 DEF NoneAdded, Landed
<1>9. ASSUME NEW i \in 1..Len(writes), WriteFails(i) PROVE Landed'
  <2>1. UNCHANGED <<ydoc, imported>> /\ writes' = DropWrite(i)
    BY <1>9 DEF WriteFails
  <2> QED BY <1>0, <1>1, <2>1, DropAdds
<1>10. CASE Crash
  BY <1>0, <1>1, <1>10, CrashAdds DEF Crash, Lost
<1>11. ASSUME NEW w \in waiting, ImportApply(w) \/ PatchApply(w) PROVE Landed'
  <2>1. w.who \in Edits /\ w.gen = gen
    BY <1>11, RequestKinds DEF ImportApply, PatchApply, Typed, TypeOK, Steady
  <2>2. doc' = Merge(doc, {w.who}) /\ UNCHANGED imported
    BY <1>11, <2>1 DEF ImportApply, PatchApply
  <2>3. Merge(doc, {w.who}).facts = doc.facts \cup {w.who}
    BY <1>0, <2>1, Merging DEF Fact
  <2>4. \E why, F : F \subseteq {w.who} /\ Persist(doc', why, F, acked)
    BY <1>11, <2>2, <2>1 DEF ImportApply, PatchApply
  <2> QED BY <1>2, <2>2, <2>3, <2>4
<1>12. (\A i \in 1..Len(snaps) : ~Restore(i)) /\ ~RestructureRequest /\ (\A w \in waiting : ~RestructureApply(w))
  BY DEF Restore, RestructureRequest, RestructureApply, Called, NoRewrite, NoRestore, Intact
<1>13. ~Purge /\ \A i \in 1..Len(writes) : ~Abandon(i)
  BY <1>0 DEF Purge, Abandon, Gone
<1> QED BY <1>4, <1>5, <1>6, <1>7, <1>8, <1>9, <1>10, <1>11, <1>12, <1>13 DEF Next

LEMMA LandingInit == Init => Intact /\ Landing
<1> SUFFICES ASSUME Init PROVE Intact /\ Landing
  OBVIOUS
<1>1. waiting = {} /\ imported = {} /\ writes = <<>>
  BY DEF Init
<1> QED BY <1>1 DEF Intact, Landing, Landed

\* An import that was answered 200 is in the stored document (importResponse),
\* whatever else the object does meanwhile, sleeps and crashes included.  A
\* restructure may take it out again; a restore while the import is on its way
\* swaps the document under it, and then the code breaks its word.
THEOREM AnsweredImportsAreStored == ASSUME NoRewrite PROVE Spec => []ImportIsDurable
<1>1. Typed /\ Covered /\ [Next]_vars => Covered'
  BY DurableStep DEF Durably
<1>2. Typed /\ Steady /\ [Next]_vars => Steady'
  BY SteadyStep DEF NoRewrite
<1>3. Intact /\ [Next]_vars => Intact'
  BY IntactStep
<1>4. Typed /\ Covered /\ Steady /\ Intact /\ Landing /\ [Next]_vars => Landing'
  BY LandingStep
<1>5. Landing => ImportIsDurable
  BY DEF Landing, Landed, ImportIsDurable
<1> QED BY <1>1, <1>2, <1>3, <1>4, <1>5, TypedInit, TypedStep, CoveredInit, SteadyInit, LandingInit, PTL DEF Spec

-----------------------------------------------------------------------------
\* No wipe

\* The four ways in which the code does wipe a row are left out: a socket that
\* is refused (Published), a crash before the first store (EarlyCrash), a
\* sibling's row (Sibling), and a restructure of a document that is not loaded.
Sheltered == ~Published /\ ~EarlyCrash /\ Sibling = {} /\ "cold restructure" \notin Verbs

\* F holds all of the old row that nobody chose to drop.
Holds(F) == Legacy \subseteq F \cup chosen

\* Requests that will write to the document they find.
Parked == \E w \in waiting : w.kind \in {"restructure", "import body"}
\* Something may persist the document, or already has its own version of it.
Live == timer \/ alarm \/ open # {} \/ Parked

\* The row, and what is on its way there.
RowHolds == Holds(row.facts) /\ \A i \in 1..Len(writes) : Holds(writes[i].data.facts)
\* The stored document; nothing was sent or reloaded before it was stored.
StoredHolds ==
    /\ writes # <<>> \/ hadStored => stored
    /\ IF stored THEN Holds(ydoc.facts) ELSE ydoc = Empty
\* What a hydration has read.
ReadHolds ==
    /\ load = "no" => ~read.got
    /\ load = "reading" /\ read.got => Holds(read.row.facts)
\* The working document, as soon as anybody may persist it; where it has neither
\* been stored nor loaded, that is because nothing was there to be held.
\* Whatever is not stored has its timer armed.
DocHolds ==
    /\ Live \/ stored \/ load = "done" => Holds(doc.facts)
    /\ Live /\ ~stored /\ load # "done" => Holds({})
    /\ timer \/ doc = ydoc
    /\ Parked => load = "done"

Unwiped == deletion = "no" => ~published /\ RowHolds /\ StoredHolds /\ ReadHolds /\ DocHolds

LEMMA UnwipedInit == Sheltered /\ Init => Unwiped
<1> SUFFICES ASSUME Sheltered, Init PROVE Unwiped
  OBVIOUS
<1>1. Merge(Empty, Legacy).facts = Legacy
  <2>1. Empty.facts = {} /\ Merge(Empty, Legacy).facts = Empty.facts \cup Legacy
    BY DEF Empty, Merge
  <2> QED BY <2>1
<1>2. RowHolds
  BY <1>1 DEF Init, RowHolds, Holds
<1>3. StoredHolds /\ ReadHolds
  <2>1. read.got = FALSE
    BY DEF Init
  <2> QED BY <2>1 DEF Init, StoredHolds, ReadHolds
<1>4. DocHolds
  BY DEF Init, DocHolds, Live, Parked
<1> QED BY <1>2, <1>3, <1>4 DEF Unwiped, Sheltered, Init

\* An inspection that is not being deleted never was.
LEMMA NoIsFirst == ASSUME [Next]_vars, deletion' = "no" PROVE deletion = "no"
<1>1. ~DeleteRows /\ ~DeleteInspection /\ ~Purge
  BY DEF DeleteRows, DeleteInspection, Purge
<1>2. UNCHANGED deletion
  BY <1>1 DEF Next, vars, tables, d1, Upgrade, Accept, Disconnect, Message, LoadRead, LoadApply, LoadFail,
     RefusedClose, EditAgain, Reject, RestructureApply, ImportBind, ImportApply, PatchApply, TimerFire,
     AlarmFire, Flush, Saving, WriteLands, WriteFails, Abandon, TakeSnapshot, EditTemplate,
     RestructureRequest, Restore, ImportRequest, PatchRequest, Sleep, Crash
<1> QED BY <1>2

\* Steps that store nothing and write to no document.
LEMMA QuietKeeps ==
    ASSUME Unwiped, deletion = "no", deletion' = "no",
           UNCHANGED <<doc, ydoc, stored, row, writes, chosen, hadStored, timer, alarm, published>>,
           load' = "done" <=> load = "done",
           open' # {} => open # {} \/ load = "done",
           Parked' => Parked \/ load = "done",
           ReadHolds'
    PROVE  Unwiped'
<1>1. RowHolds'
  BY DEF Unwiped, RowHolds, Holds
<1>2. StoredHolds'
  BY DEF Unwiped, StoredHolds, Holds
<1>3. DocHolds'
  BY DEF Unwiped, DocHolds, Live, Holds
<1> QED BY <1>1, <1>2, <1>3 DEF Unwiped

\* What every persist leaves.
LEMMA SavedKeeps ==
    ASSUME Typed, Unwiped, deletion = "no", deletion' = "no",
           NEW why, NEW F, NEW kept, Persist(doc', why, F, kept), doc' \in Content,
           UNCHANGED <<row, hadStored, load, read, published>>,
           chosen \subseteq chosen', Legacy \subseteq doc'.facts \cup chosen', Parked' => Parked
    PROVE  Unwiped'
<1>1. ydoc' = doc' /\ stored'
  BY DEF Persist
<1>2. Legacy \subseteq Projection(doc').facts \cup chosen'
  <2>1. Projection(doc').facts = doc'.facts \ Unprojected
    BY DEF Projection, Content
  <2> QED BY <2>1, FactsAreDisjoint
<1>3. \A i \in 1..Len(writes') : \/ \E k \in 1..Len(writes) : writes'[i] = writes[k]
                                 \/ writes'[i].data = Projection(doc') /\ writes'[i].facts = F
  BY PersistAdds DEF Typed, TypeOK
<1>4. RowHolds'
  BY <1>2, <1>3 DEF Unwiped, RowHolds, Holds
<1>5. StoredHolds'
  BY <1>1 DEF StoredHolds, Holds
<1>6. ReadHolds'
  BY DEF Unwiped, ReadHolds, Holds
<1>7. DocHolds'
  BY <1>1 DEF Unwiped, DocHolds, Holds
<1> QED BY <1>4, <1>5, <1>6, <1>7 DEF Unwiped

\* A document that only grows, with its timer armed.
LEMMA GrownKeeps ==
    ASSUME Unwiped, deletion = "no", deletion' = "no", timer', doc.facts \subseteq doc'.facts, Holds(doc.facts),
           Live, load # "done" => load' # "done",
           UNCHANGED <<ydoc, stored, row, writes, chosen, hadStored, published, load, read, open, waiting>>
    PROVE  Unwiped'
<1>1. RowHolds' /\ StoredHolds' /\ ReadHolds'
  BY DEF Unwiped, RowHolds, StoredHolds, ReadHolds, Holds
<1>2. DocHolds'
  BY DEF Unwiped, DocHolds, Live, Parked, Holds
<1> QED BY <1>1, <1>2 DEF Unwiped

LEMMA UnwipedStep == Sheltered /\ Typed /\ Covered /\ Unwiped /\ [Next]_vars => Unwiped'
<1> SUFFICES ASSUME Sheltered, Typed, Covered, Unwiped, [Next]_vars, deletion' = "no" PROVE Unwiped'
  BY DEF Unwiped
<1>0. /\ deletion = "no" /\ ~published /\ RowHolds /\ StoredHolds /\ ReadHolds /\ DocHolds
      /\ doc \in Content /\ doc' \in Content /\ WritesOK /\ ydoc.facts \subseteq doc.facts
  BY NoIsFirst, TypedStep DEF Unwiped, Typed, TypeOK, MemoryOK, Covered
<1>1. CASE UNCHANGED vars
  <2>1. UNCHANGED <<doc, ydoc, stored, row, writes, chosen, hadStored, timer, alarm, published, load, read, open, waiting>>
    BY <1>1 DEF vars, memory, storage, d1, tables, ghost
  <2> QED BY <1>0, <2>1, QuietKeeps DEF ReadHolds, Holds, Parked
<1>2. CASE TakeSnapshot \/ EditTemplate
  <2>1. UNCHANGED <<doc, ydoc, stored, row, writes, chosen, hadStored, timer, alarm, published, load, read, open, waiting>>
    BY <1>2 DEF TakeSnapshot, EditTemplate, memory, storage, d1, tables, ghost
  <2> QED BY <1>0, <2>1, QuietKeeps DEF ReadHolds, Holds, Parked
<1>3. ASSUME NEW c \in Clients, Upgrade(c) PROVE Unwiped'
  <2>1. /\ UNCHANGED <<doc, ydoc, stored, row, writes, chosen, hadStored, timer, alarm, published, read, open>>
        /\ StartLoad
        /\ waiting' = waiting \cup {[kind |-> "ws", who |-> c, gen |-> 0]}
    BY <1>3 DEF Upgrade, Wait, d1, tables, ghost
  <2>2. [kind |-> "ws", who |-> c, gen |-> 0].kind = "ws"
    OBVIOUS
  <2>3. Parked' => Parked
    BY <2>1, <2>2 DEF Parked
  <2>4. ReadHolds' /\ (load' = "done" <=> load = "done")
    BY <1>0, <2>1 DEF ReadHolds, Holds, StartLoad
  <2> QED BY <1>0, <2>1, <2>3, <2>4, QuietKeeps
<1>4. ASSUME NEW f \in Edits, ImportRequest(f) \/ PatchRequest(f) PROVE Unwiped'
  <2>1. /\ UNCHANGED <<doc, ydoc, stored, row, writes, chosen, hadStored, timer, alarm, published, read, open>>
        /\ StartLoad
        /\ \/ waiting' = waiting \cup {[kind |-> "import", who |-> f, gen |-> 0]}
           \/ waiting' = waiting \cup {[kind |-> "followup", who |-> f, gen |-> gen]}
    BY <1>4 DEF ImportRequest, PatchRequest, Wait, storage, d1, tables, ghost
  <2>2. /\ [kind |-> "import", who |-> f, gen |-> 0].kind = "import"
        /\ [kind |-> "followup", who |-> f, gen |-> gen].kind = "followup"
    OBVIOUS
  <2>3. Parked' => Parked
    BY <2>1, <2>2 DEF Parked
  <2>4. ReadHolds' /\ (load' = "done" <=> load = "done")
    BY <1>0, <2>1 DEF ReadHolds, Holds, StartLoad
  <2> QED BY <1>0, <2>1, <2>3, <2>4, QuietKeeps
<1>5. ASSUME NEW c \in Clients, Accept(c) PROVE Unwiped'
  <2>1. /\ UNCHANGED <<doc, ydoc, stored, row, writes, chosen, hadStored, timer, alarm, published, load, read>>
        /\ load = "done" /\ waiting' \subseteq waiting
    BY <1>5 DEF Accept, d1, tables, ghost
  <2> QED BY <1>0, <2>1, QuietKeeps DEF ReadHolds, Holds, Parked
<1>6. ASSUME NEW w \in waiting, Reject(w) \/ ImportBind(w) PROVE Unwiped'
  <2>1. /\ UNCHANGED <<doc, ydoc, stored, row, writes, chosen, hadStored, timer, alarm, published, load, read, open>>
        /\ waiting' \subseteq waiting \/ load = "done"
    BY <1>6 DEF Reject, ImportBind, storage, d1, tables, ghost
  <2>2. Parked' => Parked \/ load = "done"
    BY <2>1 DEF Parked
  <2> QED BY <1>0, <2>1, <2>2, QuietKeeps DEF ReadHolds, Holds
<1>7. CASE RestructureRequest
  <2>1. /\ UNCHANGED <<doc, ydoc, stored, row, writes, chosen, hadStored, timer, alarm, published, load, read, open>>
        /\ load = "done"
    BY <1>7 DEF RestructureRequest, storage, d1, tables, ghost, Sheltered
  <2> QED BY <1>0, <2>1, QuietKeeps DEF ReadHolds, Holds
<1>8. CASE LoadRead \/ LoadFail
  <2>1. /\ UNCHANGED <<doc, ydoc, stored, row, writes, chosen, hadStored, timer, alarm, published, open, waiting>>
        /\ load = "reading" /\ load' # "no" /\ load' # "done"
    BY <1>8 DEF LoadRead, LoadFail, storage, d1, tables, ghost
  <2>2. ReadHolds'
    <3>1. CASE LoadFail
      BY <3>1 DEF LoadFail, ReadHolds
    <3>2. CASE LoadRead
      <4>1. read' = [row |-> row, keys |-> template, got |-> TRUE] /\ load' = load
        BY <3>2 DEF LoadRead, Sheltered
      <4>2. [row |-> row, keys |-> template, got |-> TRUE].row = row
        OBVIOUS
      <4> QED BY <1>0, <2>1, <4>1, <4>2 DEF ReadHolds, RowHolds, Holds
    <3> QED BY <1>8, <3>1, <3>2
  <2>3. Parked' => Parked
    BY <2>1 DEF Parked
  <2> QED BY <1>0, <2>1, <2>2, <2>3, QuietKeeps
<1>9. CASE LoadApply
  <2> DEFINE seeded == Seed(doc, read.keys)
             loaded == IF hadStored THEN seeded ELSE LoadProjection(seeded, read.row)
  <2>1. /\ UNCHANGED <<ydoc, stored, row, writes, chosen, hadStored, published, read, open, waiting>>
        /\ load = "reading" /\ read.got /\ load' = "done" /\ doc' = loaded
        /\ Updated(Changes(doc, seeded) + Changes(seeded, loaded), loaded, snaps)
    BY <1>9 DEF LoadApply, d1, tables, ghost
  <2>2. /\ seeded \in Content /\ seeded.facts = doc.facts
        /\ LoadProjection(seeded, read.row).facts = doc.facts \cup read.row.facts
    <3>1. read.row \in Content /\ read.keys \in SUBSET Keys
      BY DEF Typed, TypeOK, MemoryOK
    <3> QED BY <1>0, <3>1, Seeding, Loading
  <2>3. Legacy \subseteq doc'.facts \cup chosen'
    <3>1. CASE hadStored
      BY <1>0, <2>1, <2>2, <3>1 DEF StoredHolds, Holds
    <3>2. CASE ~hadStored
      BY <1>0, <2>1, <2>2, <3>2 DEF ReadHolds, Holds
    <3> QED BY <3>1, <3>2
  <2>4. timer' \/ (doc' = doc /\ UNCHANGED <<timer, alarm>>)
    <3> HIDE DEF loaded, seeded
    <3>1. CASE doc = seeded /\ seeded = loaded
      BY <2>1, <3>1 DEF Updated, Changes
    <3>2. CASE ~(doc = seeded /\ seeded = loaded)
      BY <2>1, <3>2 DEF Updated, Changes
    <3> QED BY <3>1, <3>2
  <2> HIDE DEF loaded, seeded
  <2>5. RowHolds' /\ StoredHolds' /\ ReadHolds'
    BY <1>0, <2>1 DEF RowHolds, StoredHolds, ReadHolds, Holds
  <2>6. DocHolds'
    BY <1>0, <2>1, <2>3, <2>4 DEF DocHolds, Holds
  <2> QED BY <1>0, <2>1, <2>5, <2>6 DEF Unwiped
<1>10. ASSUME NEW c \in Clients, NEW f \in Edits, Message(c, f) PROVE Unwiped'
  <2>1. /\ UNCHANGED <<ydoc, stored, row, writes, chosen, hadStored, published, load, read, open, waiting>>
        /\ timer' /\ open # {} /\ doc' = Merge(doc, {f})
    BY <1>10 DEF Message, Updated, d1, tables, ghost
  <2>2. doc.facts \subseteq doc'.facts
    BY <1>0, <2>1, Merging DEF Fact
  <2> QED BY <1>0, <2>1, <2>2, GrownKeeps DEF DocHolds, Live
\* Who persists the document as it is.
<1>11. ASSUME NEW why, Persist(doc, why, {}, acked), Live, Parked' => Parked,
              UNCHANGED <<doc, row, hadStored, load, read, published, chosen>>
       PROVE  Unwiped'
  BY <1>0, <1>11, SavedKeeps DEF DocHolds, Holds
<1>12. ASSUME NEW c \in Clients, Disconnect(c) PROVE Unwiped'
  <2>1. /\ UNCHANGED <<doc, row, hadStored, load, read, published, chosen, waiting, alarm, deletion>>
        /\ open # {} /\ open' \subseteq open
    BY <1>12 DEF Disconnect, tables
  <2>2. CASE open' = {}
    BY <1>11, <1>12, <2>1, <2>2 DEF Disconnect, Live, Parked
  <2>3. CASE open' # {}
    <3>1. UNCHANGED <<timer, stored, ydoc, writes>>
      BY <1>12, <2>3 DEF Disconnect
    <3> QED BY <1>0, <2>1, <3>1, QuietKeeps DEF ReadHolds, Holds, Parked
  <2> QED BY <2>2, <2>3
<1>13. CASE TimerFire \/ AlarmFire \/ Flush
  <2>1. ASSUME NEW why, Saving(why), Live PROVE Unwiped'
    BY <1>11, <2>1 DEF Saving, tables, Parked
  <2>2. CASE alarm /\ ~alarm' /\ UNCHANGED <<memory, stored, ydoc, d1, ghost>>
    <3>1. /\ UNCHANGED <<doc, ydoc, stored, row, writes, chosen, hadStored, timer, published, load, read, open, waiting>>
      BY <2>2 DEF memory, d1, tables, ghost
    <3>2. RowHolds' /\ StoredHolds' /\ ReadHolds'
      BY <1>0, <3>1 DEF RowHolds, StoredHolds, ReadHolds, Holds
    <3>3. DocHolds'
      <4>1. Holds(doc.facts) /\ (~stored /\ load # "done" => Holds({}))
        BY <1>0, <2>2 DEF DocHolds, Live
      <4>2. Parked' = Parked
        BY <3>1 DEF Parked
      <4> QED BY <1>0, <3>1, <4>1, <4>2 DEF DocHolds, Holds
    <3> QED BY <1>0, <3>1, <3>2, <3>3 DEF Unwiped
  <2> QED BY <1>13, <2>1, <2>2 DEF TimerFire, AlarmFire, Flush, Live
<1>14. ASSUME NEW w \in waiting, ImportApply(w) \/ PatchApply(w) PROVE Unwiped'
  <2>1. w.who \in Edits
    BY <1>14, RequestKinds DEF ImportApply, PatchApply, Typed, TypeOK
  <2>2. /\ doc' = doc \/ doc' = Merge(doc, {w.who})
        /\ \E why, F : Persist(doc', why, F, acked)
        /\ UNCHANGED <<row, hadStored, load, read, published, chosen>>
        /\ waiting' \subseteq waiting
        /\ w.kind = "import body" \/ load = "done"
    BY <1>14 DEF ImportApply, PatchApply, tables
  <2>3. doc.facts \subseteq doc'.facts
    <3>1. Merge(doc, {w.who}).facts = doc.facts \cup {w.who}
      BY <1>0, <2>1, Merging DEF Fact
    <3> QED BY <2>2, <3>1
  <2>4. Holds(doc.facts)
    BY <1>0, <2>2 DEF DocHolds, Live, Parked
  <2>5. Legacy \subseteq doc'.facts \cup chosen' /\ (Parked' => Parked)
    BY <2>2, <2>3, <2>4 DEF Holds, Parked
  <2> QED BY <1>0, <2>2, <2>5, SavedKeeps
<1>15. ASSUME NEW w \in waiting, RestructureApply(w) PROVE Unwiped'
  <2>1. w.who \in SUBSET Keys /\ w.kind = "restructure"
    BY <1>15, RequestKinds DEF RestructureApply, Typed, TypeOK
  <2>2. /\ doc' = Restructured(doc, w.who)
        /\ \E why, F, kept : Persist(doc', why, F, kept)
        /\ UNCHANGED <<row, hadStored, load, read, published>>
        /\ waiting' \subseteq waiting
        /\ chosen' = chosen \cup {f \in Legacy : KeyOf[f] \notin w.who}
    BY <1>15 DEF RestructureApply, tables
  <2>3. Holds(doc.facts)
    BY <1>0, <2>1 DEF DocHolds, Live, Parked
  <2>4. Legacy \subseteq doc'.facts \cup chosen'
    BY <2>2, <2>3 DEF Holds, Restructured
  <2> QED BY <1>0, <2>2, <2>4, SavedKeeps DEF Parked
<1>16. ASSUME NEW i \in 1..Len(snaps), Restore(i) PROVE Unwiped'
  <2> DEFINE target == snaps[i].projection
  <2>1. target \in Content
    <3>1. snaps[i] \in Snapshot
      BY DEF Typed, TypeOK, StorageOK
    <3> QED BY <3>1 DEF Snapshot
  <2>2. /\ doc' = LoadProjection(Empty, target)
        /\ \E why, F, kept : Persist(doc', why, F, kept)
        /\ UNCHANGED <<row, hadStored, load, read, published, waiting>>
        /\ chosen' = chosen \cup (Legacy \ target.facts)
    BY <1>16 DEF Restore, tables
  <2>3. doc'.facts = target.facts
    <3>1. LoadProjection(Empty, target).facts = Empty.facts \cup target.facts
      BY <2>1, EmptyDocument, Loading
    <3>2. Empty.facts = {}
      BY DEF Empty
    <3> QED BY <2>2, <3>1, <3>2
  <2> HIDE DEF target
  <2>4. Legacy \subseteq doc'.facts \cup chosen'
    BY <2>2, <2>3 DEF Holds
  <2> QED BY <1>0, <2>2, <2>4, SavedKeeps DEF Parked
<1>17. ASSUME NEW i \in 1..Len(writes), WriteLands(i) \/ WriteFails(i) PROVE Unwiped'
  <2>1. /\ UNCHANGED <<doc, ydoc, stored, chosen, hadStored, timer, published, load, read, open, waiting>>
        /\ writes' = DropWrite(i) /\ (row' = row \/ row' = writes[i].data)
    BY <1>17 DEF WriteLands, WriteFails, memory, storage, tables
  <2>2. NoneAdded
    BY <1>0, <2>1, DropAdds
  <2>3. stored
    BY <1>0 DEF StoredHolds, WritesOK
  <2>4. RowHolds'
    BY <1>0, <2>1, <2>2 DEF RowHolds, NoneAdded, Holds
  <2>5. StoredHolds' /\ ReadHolds' /\ DocHolds'
    BY <1>0, <2>1, <2>3 DEF StoredHolds, ReadHolds, DocHolds, Parked, Holds
  <2> QED BY <1>0, <2>1, <2>4, <2>5 DEF Unwiped
<1>18. CASE Sleep
  <2>1. /\ UNCHANGED <<ydoc, stored, row, writes, chosen, alarm, published, open, waiting>> /\ ~timer /\ ~timer'
        /\ doc' = ydoc /\ hadStored' = stored /\ load' = "no" /\ ~read'.got
    BY <1>18 DEF Sleep, Reconstruct, storage, d1, tables, ghost
  <2>2. doc' = doc
    BY <1>0, <2>1 DEF DocHolds
  <2>3. RowHolds' /\ StoredHolds' /\ ReadHolds'
    BY <1>0, <2>1 DEF RowHolds, StoredHolds, ReadHolds, Holds
  <2>4. ~Parked'
    BY <1>18 DEF Sleep, Parked
  <2>5. DocHolds'
    BY <1>0, <2>1, <2>2, <2>4, EmptyDocument DEF StoredHolds, DocHolds, Live, Holds
  <2> QED BY <1>0, <2>1, <2>3, <2>5 DEF Unwiped
<1>19. CASE Crash
  <2>1. /\ UNCHANGED <<ydoc, stored, row, chosen, published>> /\ ~timer' /\ open' = {} /\ waiting' = {}
        /\ doc' = ydoc /\ hadStored' = stored /\ load' = "no" /\ ~read'.got
        /\ stored \/ load = "no"
        /\ writes' = Lost
        /\ alarm' = (alarm \/ \E i \in 1..Len(writes) : writes[i].why = "alarm")
    BY <1>19 DEF Crash, Reconstruct, tables, Sheltered, Lost
  <2>2. NoneAdded
    BY <1>0, <2>1, CrashAdds
  <2>3. writes = <<>> => writes' = <<>>
    BY <2>1 DEF Lost
  <2>4. RowHolds'
    BY <1>0, <2>1, <2>2 DEF RowHolds, NoneAdded, Holds
  <2>5. StoredHolds' /\ ReadHolds'
    BY <1>0, <2>1, <2>3 DEF StoredHolds, ReadHolds, Holds
  <2>6. ~Parked'
    BY <2>1 DEF Parked
  <2>7. DocHolds'
    <3>1. CASE stored
      BY <1>0, <2>1, <2>6, <3>1 DEF StoredHolds, DocHolds, Holds
    <3>2. CASE ~stored
      <4>1. alarm' = alarm
        BY <1>0, <2>1, <3>2 DEF StoredHolds, WritesOK, Typed, TypeOK, StorageOK
      <4> QED BY <1>0, <2>1, <2>6, <3>2, <4>1, EmptyDocument DEF StoredHolds, DocHolds, Live, Holds
    <3> QED BY <3>1, <3>2
  <2> QED BY <1>0, <2>1, <2>4, <2>5, <2>7 DEF Unwiped
<1>20. ~RefusedClose /\ ~EditAgain /\ ~DeleteRows /\ ~DeleteInspection /\ ~Purge /\ \A i \in 1..Len(writes) : ~Abandon(i)
  BY <1>0 DEF RefusedClose, EditAgain, DeleteRows, DeleteInspection, Purge, Abandon, Gone
<1> QED BY <1>1, <1>2, <1>3, <1>4, <1>5, <1>6, <1>7, <1>8, <1>9, <1>10, <1>12, <1>13, <1>14, <1>15, <1>16,
           <1>17, <1>18, <1>19, <1>20 DEF Next

\* What the row held before the document was first opened stays in it
\* (doHydrateFromD1, hadStoredState), for any order in which D1 applies the
\* writes, any restores, imports, failures and crashes, but for the four ways
\* that Sheltered leaves out.
THEOREM RowsAreNotWiped == ASSUME Sheltered PROVE Spec => []NoWipe
<1>1. Typed /\ Covered /\ [Next]_vars => Covered'
  BY DurableStep DEF Durably
<1>2. Typed /\ Covered /\ Unwiped /\ [Next]_vars => Unwiped'
  BY UnwipedStep
<1>3. Init => Unwiped
  BY UnwipedInit
<1>4. Unwiped => NoWipe
  BY DEF Unwiped, RowHolds, Holds, NoWipe
<1> QED BY <1>1, <1>2, <1>3, <1>4, TypedInit, TypedStep, CoveredInit, PTL DEF Spec

=============================================================================
