-------------------------- MODULE ReportLock_proofs --------------------------
(***************************************************************************)
(* Theorems about ReportLock.  For every value of its constants: types,    *)
(* and that the versions of a report form one chain however many people    *)
(* publish it at the same time.  For publishes that do not overlap other   *)
(* requests: a published report stays marked, and a version misses nothing *)
(* the document held.                                                      *)
(*                                                                         *)
(* The argument for the chain: a publish chains to a version it read, that *)
(* version never changes, and the unique index accepts the insert only if  *)
(* the number after it is still free, so only if it is still the latest.   *)
(* For the mark: an upgrade that could clear it read D1 before the flip,   *)
(* and the lock call overtakes it.  For the version: while the mark is     *)
(* there the document does not change, the publish's write carries it      *)
(* unless D1 refuses it, and the writes behind that one carry the same.    *)
(***************************************************************************)
EXTENDS ReportLock, SequenceTheorems, TLAPS

-----------------------------------------------------------------------------
\* Types

LEMMA NoVersion == None \in Version
BY DEF None, Version

LEMMA TypeInit == Init => TypeOK
<1> SUFFICES ASSUME Init PROVE TypeOK
  OBVIOUS
<1>1. <<>> \in Seq(Version) /\ <<>> \in Seq(Write)
  OBVIOUS
<1>2. ReportOK /\ ObjectOK /\ CallsOK
  BY <1>1 DEF Init, ReportOK, ObjectOK, CallsOK
<1>3. RoutesOK
  <2>1. [relock |-> FALSE, prev |-> None, data |-> {}, sockets |-> {}, lags |-> FALSE] \in Mine
    BY NoVersion DEF Mine
  <2> QED BY <2>1 DEF Init, RoutesOK, Label
<1> QED BY <1>2, <1>3 DEF TypeOK

\* Groups of variables that a step leaves alone keep their types.
LEMMA Unmoved ==
    /\ ReportOK /\ UNCHANGED d1 => ReportOK'
    /\ ObjectOK /\ UNCHANGED object => ObjectOK'
    /\ CallsOK /\ UNCHANGED calls => CallsOK'
    /\ RoutesOK /\ UNCHANGED routes => RoutesOK'
<1>1. ReportOK /\ UNCHANGED d1 => ReportOK'
  BY DEF ReportOK, d1
<1>2. ObjectOK /\ UNCHANGED object => ObjectOK'
  BY DEF ObjectOK, object
<1>3. CallsOK /\ UNCHANGED calls => CallsOK'
  BY DEF CallsOK, calls
<1>4. RoutesOK /\ UNCHANGED routes => RoutesOK'
  BY DEF RoutesOK, routes
<1> QED BY <1>1, <1>2, <1>3, <1>4

LEMMA SendTyped ==
    ASSUME ObjectOK, doc' \in SUBSET Edit, NEW who \in Publishers \cup {"object"},
           Send(who) \/ UNCHANGED writes
    PROVE  writes' \in Seq(Write)
<1>1. [data |-> doc', by |-> who] \in Write
  BY DEF Write
<1>2. writes \in Seq(Write)
  BY DEF ObjectOK
<1>3. CASE Send(who)
  <2> DEFINE w == [data |-> doc', by |-> who]
  <2>1. writes' = Append(writes, w)
    BY <1>3 DEF Send
  <2> HIDE DEF w
  <2> QED BY <1>1, <1>2, <2>1 DEF w
<1>4. CASE UNCHANGED writes
  BY <1>2, <1>4
<1> QED BY <1>3, <1>4

LEMMA LeaveTyped ==
    ASSUME ObjectOK, doc' \in SUBSET Edit, NEW gone, Leave(gone)
    PROVE  writes' \in Seq(Write) /\ timer' \in BOOLEAN /\ open' \in SUBSET Clients
<1>1. timer' \in BOOLEAN /\ open' \in SUBSET Clients
  BY DEF Leave, ObjectOK
<1>2. Send("object") \/ UNCHANGED writes
  BY DEF Leave
<1> QED BY <1>1, <1>2, SendTyped

\* Sockets and their upgrades.
LEMMA UpgradesTyped ==
    ASSUME TypeOK,
           \/ \E c \in Clients : Stamp(c)
           \/ \E u \in upgrades : ReadLock(u) \/ LetIn(u) \/ Accept(u) \/ Refuse(u)
    PROVE  TypeOK'
<1> USE DEF TypeOK
<1>1. ASSUME NEW c \in Clients, Stamp(c) PROVE TypeOK'
  <2> DEFINE v == [who |-> c, at |-> "stamped", locked |-> FALSE, overtaken |-> FALSE]
  <2>1. v \in Upgrade /\ v.who = c
    BY DEF Upgrade
  <2>2. /\ upgrades' = upgrades \cup {v} /\ UNCHANGED <<posts, unlocks>>
        /\ \A u \in upgrades : u.who # c
    BY <1>1 DEF Stamp
  <2> HIDE DEF v
  <2>3. CallsOK'
    BY <2>1, <2>2 DEF CallsOK
  <2> QED BY <1>1, <2>3, Unmoved DEF Stamp
<1>2. ASSUME NEW u \in upgrades, ReadLock(u) PROVE TypeOK'
  <2> DEFINE v == [u EXCEPT !.at = "read", !.locked = (status = "published")]
  <2>1. v \in Upgrade /\ v.who = u.who
    BY DEF Upgrade, CallsOK
  <2>2. upgrades' = (upgrades \ {u}) \cup {v} /\ UNCHANGED <<posts, unlocks>>
    BY <1>2 DEF ReadLock
  <2> HIDE DEF v
  <2>3. CallsOK'
    BY <2>1, <2>2 DEF CallsOK
  <2> QED BY <1>2, <2>3, Unmoved DEF ReadLock
<1>3. ASSUME NEW u \in upgrades, LetIn(u) PROVE TypeOK'
  <2> DEFINE v == [u EXCEPT !.at = "loading"]
  <2>1. v \in Upgrade /\ v.who = u.who
    BY DEF Upgrade, CallsOK
  <2>2. upgrades' = (upgrades \ {u}) \cup {v} /\ UNCHANGED <<posts, unlocks>>
    BY <1>3 DEF LetIn
  <2> HIDE DEF v
  <2>3. CallsOK'
    BY <2>1, <2>2 DEF CallsOK
  <2>4. ObjectOK'
    BY <1>3 DEF LetIn, ObjectOK
  <2> QED BY <1>3, <2>3, <2>4, Unmoved DEF LetIn
<1>4. ASSUME NEW u \in upgrades, Accept(u) PROVE TypeOK'
  <2>1. u.who \in Clients
    BY DEF CallsOK, Upgrade
  <2>2. CallsOK'
    BY <1>4 DEF Accept, CallsOK
  <2>3. ObjectOK'
    BY <1>4, <2>1 DEF Accept, ObjectOK
  <2> QED BY <1>4, <2>2, <2>3, Unmoved DEF Accept
<1>5. ASSUME NEW u \in upgrades, Refuse(u) PROVE TypeOK'
  <2>1. CallsOK'
    BY <1>5 DEF Refuse, CallsOK
  <2>2. doc' \in SUBSET Edit /\ (Send("object") \/ UNCHANGED writes)
    BY <1>5 DEF Refuse, ObjectOK
  <2>3. writes' \in Seq(Write)
    BY <2>2, SendTyped
  <2>4. ObjectOK'
    BY <1>5, <2>3 DEF Refuse, ObjectOK
  <2> QED BY <1>5, <2>1, <2>4, Unmoved DEF Refuse
<1> QED BY <1>1, <1>2, <1>3, <1>4, <1>5

\* Edits, disconnects, the object's saves and the HTTP writes.
LEMMA EditsTyped ==
    ASSUME TypeOK,
           \/ \E c \in Clients, f \in Typed : Message(c, f)
           \/ \E c \in Clients : Disconnect(c)
           \/ \E f \in Posted : PassGuard(f) \/ Post(f)
           \/ Save
           \/ \E i \in 1..Len(writes) : WriteLands(i) \/ WriteFails(i)
    PROVE  TypeOK'
<1> USE DEF TypeOK
<1>1. ASSUME NEW c \in Clients, NEW f \in Typed, Message(c, f) PROVE TypeOK'
  <2>1. doc' \in SUBSET Edit
    BY <1>1 DEF Message, ObjectOK, Edit
  <2>2. ObjectOK'
    BY <1>1, <2>1, LeaveTyped DEF Message, ObjectOK
  <2> QED BY <1>1, <2>2, Unmoved DEF Message
<1>2. ASSUME NEW c \in Clients, Disconnect(c) PROVE TypeOK'
  <2>1. doc' \in SUBSET Edit
    BY <1>2 DEF Disconnect, ObjectOK
  <2>2. ObjectOK'
    BY <1>2, <2>1, LeaveTyped DEF Disconnect, ObjectOK
  <2> QED BY <1>2, <2>2, Unmoved DEF Disconnect
<1>3. ASSUME NEW f \in Posted, PassGuard(f) PROVE TypeOK'
  <2>1. CallsOK'
    BY <1>3 DEF PassGuard, CallsOK
  <2> QED BY <1>3, <2>1, Unmoved DEF PassGuard
<1>4. ASSUME NEW f \in Posted, Post(f) PROVE TypeOK'
  <2>1. CallsOK'
    BY <1>4 DEF Post, CallsOK
  <2>2. doc' \in SUBSET Edit
    BY <1>4 DEF Post, ObjectOK, Edit
  <2>3. writes' \in Seq(Write)
    BY <1>4, <2>2, SendTyped DEF Post
  <2>4. ObjectOK'
    BY <1>4, <2>2, <2>3 DEF Post, ObjectOK
  <2> QED BY <1>4, <2>1, <2>4, Unmoved DEF Post
<1>5. CASE Save
  <2>1. doc' \in SUBSET Edit
    BY <1>5 DEF Save, ObjectOK
  <2>2. writes' \in Seq(Write)
    BY <1>5, <2>1, SendTyped DEF Save
  <2>3. ObjectOK'
    BY <1>5, <2>1, <2>2 DEF Save, ObjectOK
  <2> QED BY <1>5, <2>3, Unmoved DEF Save
<1>9. \A i \in 1..Len(writes) : writes[i] \in Write /\ writes[i].data \in SUBSET Edit
                                  /\ writes[i].by \in Publishers \cup {"object"}
  <2>1. \A i \in 1..Len(writes) : writes[i] \in Write
    BY DEF ObjectOK
  <2> QED BY <2>1 DEF Write
<1>6. ASSUME NEW i \in 1..Len(writes), Ends(i) PROVE writes' \in Seq(Write) /\ CallsOK'
  <2> DEFINE rest == [j \in 1..(Len(writes) - 1) |-> IF j < i THEN writes[j] ELSE writes[j + 1]]
  <2>1. Len(writes) - 1 \in Nat /\ \A j \in 1..Len(writes) : writes[j] \in Write
    BY DEF ObjectOK
  <2>2. rest \in [1..(Len(writes) - 1) -> Write]
    BY <2>1
  <2>3. writes' = rest
    BY <1>6 DEF Ends
  <2> HIDE DEF rest
  <2>4. writes' \in Seq(Write)
    BY <2>1, <2>2, <2>3
  <2> QED BY <1>6, <2>4, Unmoved DEF Ends
<1>7. ASSUME NEW i \in 1..Len(writes), WriteLands(i) PROVE TypeOK'
  <2>1. writes' \in Seq(Write) /\ CallsOK'
    BY <1>6, <1>7 DEF WriteLands
  <2>2. ObjectOK'
    BY <1>7, <2>1 DEF WriteLands, Ends, ObjectOK
  <2>3. row' \in SUBSET Edit
    BY <1>7, <1>9 DEF WriteLands
  <2>4. ReportOK'
    BY <1>7, <2>3 DEF WriteLands, Ends, ReportOK
  <2> QED BY <1>7, <2>1, <2>2, <2>4, Unmoved DEF WriteLands
<1>8. ASSUME NEW i \in 1..Len(writes), WriteFails(i) PROVE TypeOK'
  <2>1. writes' \in Seq(Write) /\ CallsOK'
    BY <1>6, <1>8 DEF WriteFails
  <2>2. timer' \in BOOLEAN
    BY <1>8 DEF WriteFails, ObjectOK
  <2>3. ObjectOK' /\ ReportOK'
    BY <1>8, <2>1, <2>2 DEF WriteFails, Ends, ObjectOK, ReportOK
  <2>4. RoutesOK'
    <3> DEFINE p == writes[i].by
    <3>1. CASE p = "object"
      BY <1>8, <3>1, Unmoved DEF WriteFails
    <3>2. CASE p # "object"
      <4>1. /\ mine' = [mine EXCEPT ![p].lags = TRUE]
            /\ pc' = [pc EXCEPT ![p] = Locked(p)] \/ pc' = pc
        BY <1>8, <3>2 DEF WriteFails, Goto
      <4>2. Locked(p) \in Label
        BY DEF Locked, Label
      <4> HIDE DEF p
      <4>3. mine' \in [Publishers -> Mine]
        BY <4>1 DEF RoutesOK, Mine
      <4>4. pc' \in [Publishers -> Label]
        BY <4>1, <4>2 DEF RoutesOK
      <4> QED BY <4>3, <4>4 DEF RoutesOK
    <3> QED BY <3>1, <3>2
  <2> QED BY <2>1, <2>3, <2>4
<1> QED BY <1>1, <1>2, <1>3, <1>4, <1>5, <1>7, <1>8

\* With the versions numbered by their place, the latest is the last one.
LEMMA LatestIsLast ==
    ASSUME ReportOK, ChainIntact
    PROVE  /\ versions = <<>> => Latest = None
           /\ versions # <<>> => /\ Len(versions) \in 1..Len(versions)
                                 /\ Latest = versions[Len(versions)]
           /\ Latest.no = Len(versions) /\ Latest \in Version
<1>1. CASE versions = <<>>
  BY <1>1, NoVersion DEF Latest, None
<1>2. CASE versions # <<>>
  <2> DEFINE n == Len(versions)
             Top(i) == \A j \in 1..n : versions[j].no <= versions[i].no
  <2>1. n \in 1..n /\ n \in Nat /\ \A i \in 1..n : versions[i] \in Version
    BY <1>2 DEF ReportOK
  <2>2. \A i \in 1..n : versions[i].no = i
    BY DEF ChainIntact
  <2>3. Top(n) /\ \A i \in 1..n : Top(i) => i = n
    BY <2>1, <2>2
  <2>4. Latest = versions[CHOOSE i \in 1..n : Top(i)]
    BY <1>2 DEF Latest
  <2> HIDE DEF Top, n
  <2>5. (CHOOSE i \in 1..n : Top(i)) = n
    BY <2>1, <2>3
  <2> QED BY <1>2, <2>1, <2>2, <2>4, <2>5 DEF n
<1> QED BY <1>1, <1>2

\* Publishing: the requests, the lock call, and the calls that open it again.
LEMMA PublishTyped ==
    ASSUME TypeOK, ChainIntact,
           \/ \E p \in Publishers :
                 \/ AskFlush(p) \/ SkipCheck(p) \/ Check(p) \/ Flip(p) \/ Lock(p) \/ CloseSockets(p) \/ LoseLock(p)
                 \/ Number(p) \/ Freeze(p) \/ Insert(p)
           \/ EditAgain \/ Retract \/ Unlock \/ LoseUnlock
    PROVE  TypeOK'
<1> USE DEF TypeOK
<1>1. ASSUME NEW p \in Publishers, NEW label \in Label, Goto(p, label) PROVE pc' \in [Publishers -> Label]
  BY <1>1 DEF Goto, RoutesOK
<1>2. {"idle", "flushing", "flip", "calling", "closing", "numbering", "freezing", "inserting"} \subseteq Label
      /\ \A p \in Publishers : Locked(p) \in Label
  BY DEF Label, Locked
<1>3. Latest \in Version
  BY LatestIsLast
<1>4. ASSUME NEW p \in Publishers, AskFlush(p) PROVE TypeOK'
  <2>1. doc' \in SUBSET Edit /\ (Send(p) \/ UNCHANGED writes)
    BY <1>4 DEF AskFlush, ObjectOK
  <2>2. ObjectOK'
    BY <1>4, <2>1, SendTyped DEF AskFlush, ObjectOK
  <2>3. mine' \in [Publishers -> Mine]
    BY <1>4 DEF AskFlush, RoutesOK, Mine
  <2>4. RoutesOK'
    BY <1>1, <1>2, <1>4, <2>3 DEF AskFlush, RoutesOK
  <2> QED BY <1>4, <2>2, <2>4, Unmoved DEF AskFlush
<1>5. ASSUME NEW p \in Publishers, Check(p) PROVE TypeOK'
  <2>1. PICK same \in BOOLEAN : mine' = [mine EXCEPT ![p].relock = same]
    BY <1>5 DEF Check, Unchanged
  <2>2. mine' \in [Publishers -> Mine]
    BY <2>1 DEF RoutesOK, Mine
  <2>3. RoutesOK'
    BY <1>1, <1>2, <1>5, <2>2 DEF Check, RoutesOK
  <2> QED BY <1>5, <2>3, Unmoved DEF Check
<1>6. ASSUME NEW p \in Publishers, Flip(p) PROVE TypeOK'
  <2>1. ReportOK'
    BY <1>6 DEF Flip, ReportOK
  <2>2. RoutesOK'
    BY <1>1, <1>2, <1>6 DEF Flip, RoutesOK
  <2> QED BY <1>6, <2>1, <2>2, Unmoved DEF Flip
<1>7. ASSUME NEW p \in Publishers, Lock(p) PROVE TypeOK'
  <2> DEFINE late(u) == [u EXCEPT !.overtaken = TRUE]
  <2>1. \A u \in upgrades : late(u) \in Upgrade /\ late(u).who = u.who
    BY DEF CallsOK, Upgrade
  <2>2. upgrades' = {late(u) : u \in upgrades} /\ UNCHANGED <<posts, unlocks>>
    BY <1>7 DEF Lock
  <2> HIDE DEF late
  <2>3. CallsOK'
    BY <2>1, <2>2 DEF CallsOK
  <2>4. doc' \in SUBSET Edit /\ (Send(p) \/ UNCHANGED writes)
    BY <1>7 DEF Lock, ObjectOK
  <2>5. ObjectOK'
    BY <1>7, <2>4, SendTyped DEF Lock, ObjectOK
  <2>6. pc' \in [Publishers -> Label]
    BY <1>1, <1>2, <1>7 DEF Lock
  <2>7. mine' \in [Publishers -> Mine]
    BY <1>7 DEF Lock, RoutesOK, ObjectOK, Mine
  <2>8. RoutesOK'
    BY <2>6, <2>7 DEF RoutesOK
  <2> QED BY <1>7, <2>3, <2>5, <2>8, Unmoved DEF Lock
<1>8. ASSUME NEW p \in Publishers, CloseSockets(p) PROVE TypeOK'
  <2>1. doc' \in SUBSET Edit
    BY <1>8 DEF CloseSockets, ObjectOK
  <2>2. ObjectOK'
    BY <1>8, <2>1, LeaveTyped DEF CloseSockets, ObjectOK
  <2>3. RoutesOK'
    BY <1>1, <1>2, <1>8 DEF CloseSockets, RoutesOK
  <2> QED BY <1>8, <2>2, <2>3, Unmoved DEF CloseSockets
<1>9. ASSUME NEW p \in Publishers, LoseLock(p) PROVE TypeOK'
  <2>1. RoutesOK'
    BY <1>1, <1>2, <1>9 DEF LoseLock, RoutesOK
  <2> QED BY <1>9, <2>1, Unmoved DEF LoseLock
<1>10. ASSUME NEW p \in Publishers, Number(p) PROVE TypeOK'
  <2>1. mine' \in [Publishers -> Mine]
    BY <1>3, <1>10 DEF Number, RoutesOK, Mine
  <2>2. RoutesOK'
    BY <1>1, <1>2, <1>10, <2>1 DEF Number, RoutesOK
  <2> QED BY <1>10, <2>2, Unmoved DEF Number
<1>11. ASSUME NEW p \in Publishers, Freeze(p) PROVE TypeOK'
  <2>1. mine' \in [Publishers -> Mine]
    BY <1>11 DEF Freeze, RoutesOK, ReportOK, Mine
  <2>2. RoutesOK'
    BY <1>1, <1>2, <1>11, <2>1 DEF Freeze, RoutesOK
  <2> QED BY <1>11, <2>2, Unmoved DEF Freeze
<1>12. ASSUME NEW p \in Publishers, Insert(p) PROVE TypeOK'
  <2> DEFINE new == [no |-> mine[p].prev.no + 1, data |-> mine[p].data, prev |-> mine[p].prev.data]
  <2>1. new \in Version
    BY DEF RoutesOK, Mine, Version
  <2>2. versions' = Append(versions, new) \/ UNCHANGED versions
    BY <1>12 DEF Insert
  <2> HIDE DEF new
  <2>3. versions' \in Seq(Version)
    BY <2>1, <2>2 DEF ReportOK
  <2>4. ReportOK'
    BY <1>12, <2>3 DEF Insert, ReportOK
  <2>5. RoutesOK'
    BY <1>1, <1>2, <1>12 DEF Insert, RoutesOK
  <2> QED BY <1>12, <2>4, <2>5, Unmoved DEF Insert
<1>13. CASE EditAgain \/ Retract
  <2>1. ReportOK' /\ CallsOK'
    BY <1>13 DEF EditAgain, Retract, Reopen, ReportOK, CallsOK
  <2> QED BY <1>13, <2>1, Unmoved DEF EditAgain, Retract, Reopen
<1>14. CASE Unlock
  <2>1. CallsOK'
    BY <1>14 DEF Unlock, CallsOK
  <2>2. ObjectOK'
    BY <1>14 DEF Unlock, ObjectOK
  <2> QED BY <1>14, <2>1, <2>2, Unmoved DEF Unlock
<1>15. CASE LoseUnlock
  <2>1. CallsOK'
    BY <1>15 DEF LoseUnlock, CallsOK
  <2> QED BY <1>15, <2>1, Unmoved DEF LoseUnlock
<1>16. ASSUME NEW p \in Publishers, SkipCheck(p) PROVE TypeOK'
  <2>1. mine' \in [Publishers -> Mine]
    BY <1>16 DEF SkipCheck, RoutesOK, Mine
  <2>2. RoutesOK'
    BY <1>1, <1>2, <1>16, <2>1 DEF SkipCheck, RoutesOK
  <2> QED BY <1>16, <2>2, Unmoved DEF SkipCheck
<1> QED BY <1>4, <1>5, <1>6, <1>7, <1>8, <1>9, <1>10, <1>11, <1>12, <1>13, <1>14, <1>15, <1>16

LEMMA TypeStep == TypeOK /\ ChainIntact /\ [Next]_vars => TypeOK'
<1> SUFFICES ASSUME TypeOK, ChainIntact, [Next]_vars PROVE TypeOK'
  OBVIOUS
<1>1. CASE UNCHANGED vars
  BY <1>1, Unmoved DEF TypeOK, vars
<1>2. CASE Next
  BY <1>2, UpgradesTyped, EditsTyped, PublishTyped DEF Next
<1> QED BY <1>1, <1>2

-----------------------------------------------------------------------------
\* The chain

\* What a publish has read to chain to is a version that is still there.
ReadsAreVersions ==
    \A p \in Publishers :
        pc[p] \in {"freezing", "inserting"} =>
            \/ mine[p].prev = None
            \/ \E i \in 1..Len(versions) : mine[p].prev = versions[i]

Chained == TypeOK /\ ChainIntact /\ ReadsAreVersions

LEMMA ChainInit == Init => Chained
<1> SUFFICES ASSUME Init PROVE Chained
  OBVIOUS
<1>1. ChainIntact /\ ReadsAreVersions
  BY DEF Init, ChainIntact, ReadsAreVersions
<1> QED BY <1>1, TypeInit DEF Chained

\* Appending the successor of a version that is still the last keeps the chain.
LEMMA Appending ==
    ASSUME Chained, NEW p \in Publishers, pc[p] = "inserting", Free(mine[p].prev.no + 1),
           versions' = Append(versions, [no |-> mine[p].prev.no + 1, data |-> mine[p].data,
                                         prev |-> mine[p].prev.data])
    PROVE  ChainIntact'
<1> DEFINE n   == Len(versions)
           new == [no |-> mine[p].prev.no + 1, data |-> mine[p].data, prev |-> mine[p].prev.data]
<1>1. /\ versions \in Seq(Version) /\ n \in Nat /\ new \in Version
      /\ \A i \in 1..n : versions[i].no = i /\ versions[i] \in Version
      /\ \A i \in 1..n : versions[i].prev = IF i = 1 THEN {} ELSE versions[i - 1].data
  <2>1. versions \in Seq(Version) /\ mine[p] \in Mine
    BY DEF Chained, TypeOK, ReportOK, RoutesOK
  <2>2. new \in Version
    BY <2>1 DEF Mine, Version
  <2> QED BY <2>1, <2>2 DEF Chained, ChainIntact
<1>2. mine[p].prev = None \/ \E i \in 1..n : mine[p].prev = versions[i]
  BY DEF Chained, ReadsAreVersions
<1>3. mine[p].prev = IF n = 0 THEN None ELSE versions[n]
  <2>1. CASE mine[p].prev = None
    <3>1. n = 0
      BY <1>1, <2>1 DEF Free, None
    <3> QED BY <2>1, <3>1
  <2>2. ASSUME NEW i \in 1..n, mine[p].prev = versions[i] PROVE n # 0 /\ mine[p].prev = versions[n]
    <3>1. mine[p].prev.no + 1 = i + 1
      BY <1>1, <2>2
    <3>2. ~(i + 1 \in 1..n)
      BY <1>1, <3>1 DEF Free
    <3>3. i = n
      BY <1>1, <3>2
    <3> QED BY <1>1, <2>2, <3>3
  <2> QED BY <1>2, <2>1, <2>2
<1>4. new.no = n + 1 /\ new.prev = IF n = 0 THEN {} ELSE versions[n].data
  <2>1. CASE n = 0
    BY <1>3, <2>1 DEF None
  <2>2. CASE n # 0
    <3>1. n \in 1..n
      BY <1>1, <2>2
    <3> QED BY <1>1, <1>3, <2>2, <3>1
  <2> QED BY <2>1, <2>2
<1>5. versions' = Append(versions, new)
  OBVIOUS
<1> HIDE DEF new
<1>6. /\ Len(versions') = n + 1 /\ versions'[n + 1] = new
      /\ \A i \in 1..n : versions'[i] = versions[i]
  BY <1>1, <1>5
<1>7. ASSUME NEW i \in 1..(n + 1)
      PROVE  versions'[i].no = i /\ versions'[i].prev = IF i = 1 THEN {} ELSE versions'[i - 1].data
  <2>1. CASE i = n + 1
    <3>1. i = 1 <=> n = 0
      BY <1>1, <2>1
    <3>2. n # 0 => versions'[i - 1] = versions[n]
      BY <1>1, <1>6, <2>1
    <3> QED BY <1>4, <1>6, <2>1, <3>1, <3>2
  <2>2. CASE i # n + 1
    <3>1. i \in 1..n /\ (i # 1 => i - 1 \in 1..n)
      BY <1>1, <2>2
    <3> QED BY <1>1, <1>6, <3>1
  <2> QED BY <2>1, <2>2
<1> HIDE DEF n
<1> QED BY <1>6, <1>7 DEF ChainIntact

LEMMA ChainStep == Chained /\ [Next]_vars => Chained'
<1> SUFFICES ASSUME Chained, [Next]_vars PROVE Chained'
  OBVIOUS
<1>1. TypeOK'
  BY TypeStep DEF Chained
<1>2. ASSUME UNCHANGED versions,
             \A p \in Publishers : pc'[p] \in {"freezing", "inserting"} =>
                 pc[p] \in {"freezing", "inserting"} /\ mine'[p].prev = mine[p].prev
      PROVE  Chained'
  <2>1. ChainIntact'
    BY <1>2 DEF Chained, ChainIntact
  <2>2. ReadsAreVersions'
    BY <1>2 DEF Chained, ReadsAreVersions
  <2> QED BY <1>1, <2>1, <2>2 DEF Chained
<1>3. ASSUME UNCHANGED <<versions, pc, mine>> PROVE Chained'
  BY <1>2, <1>3
<1>4. CASE \/ UNCHANGED vars
           \/ \E c \in Clients : Stamp(c) \/ Disconnect(c)
           \/ \E u \in upgrades : ReadLock(u) \/ LetIn(u) \/ Accept(u) \/ Refuse(u)
           \/ \E c \in Clients, f \in Typed : Message(c, f)
           \/ \E f \in Posted : PassGuard(f) \/ Post(f)
           \/ Save \/ \E i \in 1..Len(writes) : WriteLands(i)
           \/ EditAgain \/ Retract \/ Unlock \/ LoseUnlock
  <2>1. UNCHANGED <<versions, pc, mine>>
    BY <1>4 DEF vars, d1, routes, Stamp, Disconnect, ReadLock, LetIn, Accept, Refuse, Message, PassGuard,
                Post, Save, WriteLands, Ends, EditAgain, Retract, Reopen, Unlock, LoseUnlock
  <2> QED BY <1>3, <2>1
<1>5. pc \in [Publishers -> Label] /\ mine \in [Publishers -> Mine]
  BY DEF Chained, TypeOK, RoutesOK
<1>9. ASSUME NEW i \in 1..Len(writes), WriteFails(i) PROVE Chained'
  <2> DEFINE p == writes[i].by
  <2>1. UNCHANGED versions
    BY <1>9 DEF WriteFails, Ends
  <2>2. CASE p = "object"
    BY <1>3, <1>9, <2>1, <2>2 DEF WriteFails, routes
  <2>3. CASE p # "object"
    <3>1. /\ mine' = [mine EXCEPT ![p].lags = TRUE]
          /\ pc' = [pc EXCEPT ![p] = Locked(p)] \/ pc' = pc
          /\ Locked(p) \in {"idle", "numbering"}
      BY <1>9, <2>3 DEF WriteFails, Goto, Locked
    <3> HIDE DEF p
    <3>2. \A q \in Publishers : mine'[q].prev = mine[q].prev
      BY <1>5, <3>1 DEF Mine
    <3>3. \A q \in Publishers : pc'[q] \in {"freezing", "inserting"} => pc'[q] = pc[q]
      BY <1>5, <3>1
    <3> QED BY <1>2, <2>1, <3>2, <3>3
  <2> QED BY <2>2, <2>3
<1>6. ASSUME NEW p \in Publishers,
             AskFlush(p) \/ SkipCheck(p) \/ Check(p) \/ Flip(p) \/ Lock(p) \/ CloseSockets(p) \/ LoseLock(p) \/ Freeze(p)
      PROVE  Chained'
  <2>1. UNCHANGED versions
    BY <1>6 DEF d1, AskFlush, SkipCheck, Check, Flip, Lock, CloseSockets, LoseLock, Freeze
  <2>2. pc' = [pc EXCEPT ![p] = pc'[p]]
        /\ (pc'[p] \in {"freezing", "inserting"} => pc[p] = "freezing")
    BY <1>5, <1>6 DEF Goto, Locked, AskFlush, SkipCheck, Check, Flip, Lock, CloseSockets, LoseLock, Freeze
  <2>3. \A q \in Publishers : mine'[q].prev = mine[q].prev
    BY <1>5, <1>6 DEF Mine, AskFlush, SkipCheck, Check, Flip, Lock, CloseSockets, LoseLock, Freeze
  <2> QED BY <1>2, <1>5, <2>1, <2>2, <2>3
<1>7. ASSUME NEW p \in Publishers, Number(p) PROVE Chained'
  <2>1. UNCHANGED versions /\ mine' = [mine EXCEPT ![p].prev = Latest] /\ pc' = [pc EXCEPT ![p] = "freezing"]
    BY <1>7 DEF d1, Number, Goto
  <2>2. Latest = None \/ \E i \in 1..Len(versions) : Latest = versions[i]
    BY LatestIsLast DEF Chained, TypeOK
  <2>3. ReadsAreVersions'
    <3> SUFFICES ASSUME NEW q \in Publishers, pc'[q] \in {"freezing", "inserting"}
                 PROVE  mine'[q].prev = None \/ \E i \in 1..Len(versions) : mine'[q].prev = versions[i]
      BY <2>1 DEF ReadsAreVersions
    <3>1. CASE q = p
      BY <1>5, <2>1, <2>2, <3>1 DEF Mine
    <3>2. CASE q # p
      BY <1>5, <2>1, <3>2 DEF Chained, ReadsAreVersions
    <3> QED BY <3>1, <3>2
  <2>4. ChainIntact'
    BY <2>1 DEF Chained, ChainIntact
  <2> QED BY <1>1, <2>3, <2>4 DEF Chained
<1>8. ASSUME NEW p \in Publishers, Insert(p) PROVE Chained'
  <2> DEFINE new == [no |-> mine[p].prev.no + 1, data |-> mine[p].data, prev |-> mine[p].prev.data]
  <2>1. pc[p] = "inserting" /\ pc' = [pc EXCEPT ![p] = "idle"] /\ UNCHANGED mine
    BY <1>8 DEF Insert, Goto
  <2>2. CASE UNCHANGED versions
    BY <1>2, <1>5, <2>1, <2>2
  <2>3. CASE Free(mine[p].prev.no + 1) /\ versions' = Append(versions, new)
    <3>1. ChainIntact'
      BY <2>1, <2>3, Appending
    <3>2. new \in Version /\ versions \in Seq(Version)
      BY <1>5 DEF Mine, Version, Chained, TypeOK, ReportOK
    <3> HIDE DEF new
    <3>3. /\ Len(versions') = Len(versions) + 1 /\ Len(versions) \in Nat
          /\ \A i \in 1..Len(versions) : versions'[i] = versions[i]
      BY <2>3, <3>2
    <3>4. ReadsAreVersions'
      <4> SUFFICES ASSUME NEW q \in Publishers, pc'[q] \in {"freezing", "inserting"}
                   PROVE  mine[q].prev = None \/ \E i \in 1..Len(versions') : mine[q].prev = versions'[i]
        BY <2>1 DEF ReadsAreVersions
      <4>1. pc[q] \in {"freezing", "inserting"}
        BY <1>5, <2>1
      <4>2. mine[q].prev = None \/ \E i \in 1..Len(versions) : mine[q].prev = versions[i]
        BY <4>1 DEF Chained, ReadsAreVersions
      <4> QED BY <3>3, <4>2
    <3> QED BY <1>1, <3>1, <3>4 DEF Chained
  <2> QED BY <1>8, <2>2, <2>3 DEF Insert
<1> QED BY <1>4, <1>6, <1>7, <1>8, <1>9 DEF Next

\* Every variable of the report, its document, the calls on their way and the
\* publish requests keeps its type, and a client never has two upgrades.
THEOREM TypeCorrect == Spec => []TypeOK
<1>1. Chained => TypeOK
  BY DEF Chained
<1> QED BY <1>1, ChainInit, ChainStep, PTL DEF Spec

\* The versions of a report form one chain, as verifyByToken checks it, however
\* many people publish, retract and reopen the report at the same time, and
\* however the object's writes are ordered.
THEOREM VersionsFormOneChain == Spec => []ChainIntact
<1>1. Chained => ChainIntact
  BY DEF Chained
<1> QED BY <1>1, ChainInit, ChainStep, PTL DEF Spec

-----------------------------------------------------------------------------
(* One publish at a time: the mark, and what a version holds.  The routes  *)
(* do not enforce it, and without it both properties fail: an unlock call  *)
(* that the next publish overtakes clears that publish's mark, and the     *)
(* flush of a last socket that leaves during a publish may land after the  *)
(* version was frozen.                                                     *)

OneAtATime == Overlap = FALSE /\ LoseLocks = FALSE

\* A request that runs runs alone, and no unlock call is on its way; what was
\* found unchanged is not a draft; the report is published from the flip on.
Sole ==
    /\ \A p \in Publishers : Running(p) => unlocks = 0 /\ Alone(p)
    /\ status = "published" => unlocks = 0
    /\ \A p \in Publishers :
          /\ pc[p] \in {"calling", "closing"} /\ ~mine[p].relock => status = "published"
          /\ pc[p] \in {"numbering", "freezing", "inserting"} => status = "published" /\ ~mine[p].relock

Calling == \E p \in Publishers : pc[p] = "calling"

\* A published document is marked, and an upgrade that could clear the mark
\* has yet to be overtaken by the lock call.
Guarded ==
    status = "published" /\ ~Calling =>
        mark /\ \A u \in upgrades : u.at = "read" => u.locked \/ u.overtaken

\* What is stored and what is on its way only grow, up to the document.
Growing ==
    /\ row \subseteq doc
    /\ \A i \in 1..Len(writes) : row \subseteq writes[i].data /\ writes[i].data \subseteq doc
    /\ \A i, j \in 1..Len(writes) : i <= j => writes[i].data \subseteq writes[j].data

AllDoc == \A i \in 1..Len(writes) : writes[i].data = doc
Stored == row = doc /\ AllDoc

\* A publish has one write in flight.
Single(p) == \A i, j \in 1..Len(writes) : writes[i].by = p /\ writes[j].by = p => i = j

\* The write of a publish, or what followed it, carries the document.
Flushed(p) ==
    \/ Stored
    \/ \E k \in 1..Len(writes) : writes[k].by = p /\ \A j \in k..Len(writes) : writes[j].data = doc

\* How far a publish has come with storing the document.
Stage(p) ==
    /\ Single(p)
    /\ pc[p] \notin {"flushing", "closing"} => Answered(p)
    /\ pc[p] \in {"flushing", "flip", "calling"} /\ (mark \/ open = {}) /\ ~mine[p].lags => Flushed(p)
    /\ pc[p] = "closing" /\ ~mine[p].relock => Flushed(p)
    /\ pc[p] \in {"numbering", "freezing", "inserting"} /\ ~mine[p].lags => Stored
    /\ pc[p] = "inserting" /\ ~mine[p].lags => mine[p].data = doc

LEMMA SoleInit == Init => Sole /\ Guarded /\ Growing /\ \A p \in Publishers : Stage(p)
<1> SUFFICES ASSUME Init PROVE Sole /\ Guarded /\ Growing /\ \A p \in Publishers : Stage(p)
  OBVIOUS
<1>1. Sole /\ Guarded
  BY DEF Init, Sole, Guarded, Running
<1>2. Growing /\ \A p \in Publishers : Stage(p)
  BY DEF Init, Growing, Stage, Single, Answered
<1> QED BY <1>1, <1>2

LEMMA GrowingIsStored == ASSUME Growing, row = doc PROVE Stored
BY DEF Growing, Stored, AllDoc

LEMMA SoleStep ==
    ASSUME OneAtATime, TypeOK, Sole, [Next]_vars
    PROVE  Sole'
<1>1. pc \in [Publishers -> Label] /\ mine \in [Publishers -> Mine] /\ unlocks \in Nat
  BY DEF TypeOK, RoutesOK, CallsOK
<1>2. CASE UNCHANGED <<pc, mine, status, unlocks>>
  BY <1>2 DEF Sole, Running, Alone
<1>3. CASE \/ UNCHANGED vars
           \/ \E c \in Clients : Stamp(c) \/ Disconnect(c)
           \/ \E u \in upgrades : ReadLock(u) \/ LetIn(u) \/ Accept(u) \/ Refuse(u)
           \/ \E c \in Clients, f \in Typed : Message(c, f)
           \/ \E f \in Posted : PassGuard(f) \/ Post(f)
           \/ Save \/ \E i \in 1..Len(writes) : WriteLands(i)
  <2>1. UNCHANGED <<pc, mine, status, unlocks>>
    BY <1>3 DEF vars, d1, calls, routes, Stamp, Disconnect, ReadLock, LetIn, Accept, Refuse, Message,
                PassGuard, Post, Save, WriteLands, Ends
  <2> QED BY <1>2, <2>1
<1>4. CASE EditAgain \/ Retract
  <2>1. Quiet /\ status' # "published" /\ UNCHANGED <<pc, mine>>
    BY <1>4 DEF EditAgain, Retract, Reopen, OneAtATime, routes
  <2> QED BY <2>1 DEF Sole, Quiet, Running, Alone
<1>5. CASE Unlock \/ LoseUnlock
  <2>1. unlocks # 0 /\ UNCHANGED <<pc, mine, status>>
    BY <1>1, <1>5 DEF Unlock, LoseUnlock, routes, d1
  <2>2. \A p \in Publishers : ~Running(p)
    BY <2>1 DEF Sole
  <2>3. status # "published"
    BY <2>1 DEF Sole
  <2> QED BY <2>1, <2>2, <2>3 DEF Sole, Running, Alone
\* A request moves on: the others stay idle.
<1>6. ASSUME NEW p \in Publishers, UNCHANGED unlocks, unlocks = 0, Alone(p),
             \A q \in Publishers \ {p} : pc'[q] = pc[q],
             status' = "published" \/ status' = status,
             pc'[p] \in {"calling", "closing"} /\ ~mine'[p].relock => status' = "published",
             pc'[p] \in {"numbering", "freezing", "inserting"} =>
                 status' = "published" /\ ~mine'[p].relock
      PROVE  Sole'
  <2>1. \A q \in Publishers \ {p} : pc'[q] = "idle"
    BY <1>6 DEF Alone, Running
  <2>2. \A q \in Publishers : Running(q)' => unlocks' = 0 /\ Alone(q)'
    BY <1>6, <2>1 DEF Running, Alone
  <2> QED BY <1>6, <2>1, <2>2 DEF Sole
<1>7. ASSUME NEW p \in Publishers, AskFlush(p) \/ SkipCheck(p) PROVE Sole'
  <2>1. /\ pc' = [pc EXCEPT ![p] = "flushing"] \/ pc' = [pc EXCEPT ![p] = "flip"]
        /\ UNCHANGED <<status, unlocks>> /\ unlocks = 0 /\ Alone(p)
    BY <1>7 DEF AskFlush, SkipCheck, Asked, Goto, OneAtATime, d1, calls
  <2> QED BY <1>1, <1>6, <2>1
<1>8. ASSUME NEW p \in Publishers, Running(p) PROVE unlocks = 0 /\ Alone(p)
  BY <1>8 DEF Sole
<1>9. ASSUME NEW p \in Publishers, Check(p) PROVE Sole'
  <2>1. /\ pc' = [pc EXCEPT ![p] = "flip"] /\ UNCHANGED <<status, unlocks>> /\ Running(p)
    BY <1>9 DEF Check, Goto, d1, calls, Running
  <2> QED BY <1>1, <1>6, <1>8, <2>1
<1>10. ASSUME NEW p \in Publishers, Flip(p) PROVE Sole'
  <2>1. /\ pc' = [pc EXCEPT ![p] = "calling"] /\ UNCHANGED <<mine, unlocks>> /\ Running(p)
        /\ status' = IF mine[p].relock /\ status = "draft" THEN "draft" ELSE "published"
    BY <1>10 DEF Flip, Goto, calls, Running
  <2>2. ~mine[p].relock => status' = "published"
    BY <2>1
  <2>3. pc'[p] = "calling"
    BY <1>1, <2>1
  <2>4. \A q \in Publishers \ {p} : pc'[q] = pc[q]
    BY <1>1, <2>1
  <2>5. status' = "published" \/ status' = status
    BY <2>1
  <2> QED BY <1>6, <1>8, <2>1, <2>2, <2>3, <2>4, <2>5
<1>11. ASSUME NEW p \in Publishers, Lock(p) PROVE Sole'
  <2>1. /\ pc' = [pc EXCEPT ![p] = pc'[p]] /\ UNCHANGED <<status, unlocks>> /\ Running(p)
        /\ mine'[p].relock = mine[p].relock /\ pc[p] = "calling"
        /\ pc'[p] = "closing" \/ pc'[p] = Locked(p)
    <3>1. mine'[p].relock = mine[p].relock
      BY <1>1, <1>11 DEF Lock, Mine
    <3>2. pc' = [pc EXCEPT ![p] = "closing"] \/ pc' = [pc EXCEPT ![p] = Locked(p)]
      BY <1>11 DEF Lock, Goto
    <3>3. UNCHANGED <<status, unlocks>> /\ Running(p) /\ pc[p] = "calling"
      BY <1>11 DEF Lock, d1, Running
    <3> QED BY <1>1, <3>1, <3>2, <3>3
  <2>2. ~mine[p].relock => status = "published"
    BY <2>1 DEF Sole
  <2>3. \A q \in Publishers \ {p} : pc'[q] = pc[q]
    BY <1>1, <2>1
  <2> QED BY <1>6, <1>8, <2>1, <2>2, <2>3 DEF Locked
<1>12. ASSUME NEW p \in Publishers, CloseSockets(p) PROVE Sole'
  <2>1. /\ pc' = [pc EXCEPT ![p] = Locked(p)] /\ UNCHANGED <<status, unlocks, mine>>
        /\ Running(p) /\ pc[p] = "closing"
    BY <1>12 DEF CloseSockets, Goto, d1, calls, Running
  <2>2. ~mine[p].relock => status = "published"
    BY <2>1 DEF Sole
  <2> QED BY <1>1, <1>6, <1>8, <2>1, <2>2 DEF Locked
<1>13. ASSUME NEW p \in Publishers, LoseLock(p) PROVE Sole'
  BY <1>13 DEF LoseLock, OneAtATime
<1>14. ASSUME NEW p \in Publishers, Number(p) \/ Freeze(p) \/ Insert(p) PROVE Sole'
  <2>1. /\ pc' = [pc EXCEPT ![p] = pc'[p]] /\ UNCHANGED <<status, unlocks>> /\ Running(p)
        /\ mine'[p].relock = mine[p].relock /\ pc[p] \in {"numbering", "freezing", "inserting"}
        /\ pc'[p] \in {"freezing", "inserting", "idle"}
    <3>1. mine'[p].relock = mine[p].relock
      BY <1>1, <1>14 DEF Number, Freeze, Insert, Mine
    <3>2. \/ pc' = [pc EXCEPT ![p] = "freezing"] \/ pc' = [pc EXCEPT ![p] = "inserting"]
          \/ pc' = [pc EXCEPT ![p] = "idle"]
      BY <1>14 DEF Number, Freeze, Insert, Goto
    <3>3. /\ UNCHANGED <<status, unlocks>> /\ Running(p)
          /\ pc[p] \in {"numbering", "freezing", "inserting"}
      BY <1>14 DEF Number, Freeze, Insert, d1, calls, Running
    <3> QED BY <1>1, <3>1, <3>2, <3>3
  <2>2. status = "published" /\ ~mine[p].relock
    BY <2>1 DEF Sole
  <2>3. \A q \in Publishers \ {p} : pc'[q] = pc[q]
    BY <1>1, <2>1
  <2> QED BY <1>6, <1>8, <2>1, <2>2, <2>3
<1>15. ASSUME NEW i \in 1..Len(writes), WriteFails(i) PROVE Sole'
  <2> DEFINE p == writes[i].by
  <2>4. writes[i] \in Write
    BY DEF TypeOK, ObjectOK
  <2>1. p \in Publishers \cup {"object"} /\ UNCHANGED <<status, unlocks>>
    BY <1>15, <2>4 DEF WriteFails, Ends, calls, Write
  <2>2. CASE p = "object"
    BY <1>2, <1>15, <2>1, <2>2 DEF WriteFails, routes
  <2>3. CASE p # "object"
    <3>1. /\ mine' = [mine EXCEPT ![p].lags = TRUE]
          /\ IF pc[p] = "closing" THEN pc' = [pc EXCEPT ![p] = Locked(p)] ELSE pc' = pc
      BY <1>15, <2>3 DEF WriteFails, Goto
    <3> HIDE DEF p
    <3>2. p \in Publishers /\ \A q \in Publishers : mine'[q].relock = mine[q].relock
      BY <1>1, <2>1, <2>3, <3>1 DEF Mine
    <3>3. CASE pc[p] # "closing"
      BY <2>1, <3>1, <3>2, <3>3 DEF Sole, Running, Alone
    <3>4. CASE pc[p] = "closing"
      <4>1. Running(p) /\ (~mine[p].relock => status = "published")
        BY <3>2, <3>4 DEF Sole, Running
      <4> QED BY <1>1, <1>6, <1>8, <2>1, <3>1, <3>2, <3>4, <4>1 DEF Locked
    <3> QED BY <3>3, <3>4
  <2> QED BY <2>2, <2>3
<1> QED BY <1>3, <1>4, <1>5, <1>7, <1>9, <1>10, <1>11, <1>12, <1>13, <1>14, <1>15 DEF Next

LEMMA GuardedStep ==
    ASSUME OneAtATime, TypeOK, Sole, Guarded, [Next]_vars
    PROVE  Guarded'
<1>1. /\ pc \in [Publishers -> Label] /\ unlocks \in Nat /\ upgrades \in SUBSET Upgrade
  BY DEF TypeOK, RoutesOK, CallsOK
\* Nothing clears the mark, and no upgrade is added that could.
<1>2. ASSUME status' = "published" => status = "published", Calling => Calling',
             mark => mark',
             \A v \in upgrades' : v.at = "read" => v \in upgrades \/ v.locked \/ v.overtaken
      PROVE  Guarded'
  BY <1>2 DEF Guarded
<1>3. ASSUME UNCHANGED <<status, pc, mark, upgrades>> PROVE Guarded'
  BY <1>2, <1>3 DEF Calling
<1>4. CASE \/ UNCHANGED vars
           \/ \E c \in Clients : Disconnect(c)
           \/ \E c \in Clients, f \in Typed : Message(c, f)
           \/ \E f \in Posted : PassGuard(f) \/ Post(f)
           \/ Save \/ \E i \in 1..Len(writes) : WriteLands(i)
           \/ LoseUnlock
  <2>1. UNCHANGED <<status, pc, mark, upgrades>>
    BY <1>4 DEF vars, d1, object, calls, routes, Disconnect, Message, PassGuard, Post, Save,
                WriteLands, Ends, LoseUnlock
  <2> QED BY <1>3, <2>1
<1>5. ASSUME NEW c \in Clients, Stamp(c) PROVE Guarded'
  <2>1. /\ UNCHANGED <<status, pc, mark>>
        /\ upgrades' = upgrades \cup
               {[who |-> c, at |-> "stamped", locked |-> FALSE, overtaken |-> FALSE]}
    BY <1>5 DEF Stamp, d1, object, routes
  <2> QED BY <1>2, <2>1 DEF Calling
<1>6. ASSUME NEW u \in upgrades, ReadLock(u) PROVE Guarded'
  <2> DEFINE v == [u EXCEPT !.at = "read", !.locked = (status = "published")]
  <2>1. UNCHANGED <<status, pc, mark>> /\ upgrades' = (upgrades \ {u}) \cup {v}
    BY <1>6 DEF ReadLock, d1, object, routes
  <2>2. v.locked = (status = "published")
    BY <1>1 DEF Upgrade
  <2> HIDE DEF v
  <2> QED BY <2>1, <2>2 DEF Guarded, Calling
<1>7. ASSUME NEW u \in upgrades, LetIn(u) PROVE Guarded'
  <2> DEFINE v == [u EXCEPT !.at = "loading"]
  <2>1. /\ UNCHANGED <<status, pc>> /\ upgrades' = (upgrades \ {u}) \cup {v}
        /\ u.at = "read" /\ ~u.locked /\ ~(mark /\ u.overtaken)
    BY <1>7 DEF LetIn, Refused, d1, routes
  <2> HIDE DEF v
  <2> QED BY <2>1 DEF Guarded, Calling
<1>8. ASSUME NEW u \in upgrades, Accept(u) \/ Refuse(u) PROVE Guarded'
  <2>1. UNCHANGED <<status, pc, mark>> /\ upgrades' = upgrades \ {u}
    BY <1>8 DEF Accept, Refuse, d1, routes
  <2> QED BY <1>2, <2>1 DEF Calling
<1>9. CASE EditAgain \/ Retract
  BY <1>9 DEF EditAgain, Retract, Reopen, Guarded
<1>10. CASE Unlock
  <2>1. status # "published" /\ status' = status
    BY <1>1, <1>10 DEF Unlock, Sole, d1
  <2> QED BY <2>1 DEF Guarded
<1>11. ASSUME NEW p \in Publishers,
              \/ AskFlush(p) \/ SkipCheck(p) \/ Check(p)
              \/ CloseSockets(p) \/ Number(p) \/ Freeze(p) \/ Insert(p)
       PROVE  Guarded'
  <2>1. /\ UNCHANGED <<status, mark, upgrades>> /\ pc[p] # "calling"
        /\ pc' = [pc EXCEPT ![p] = pc'[p]]
    BY <1>1, <1>11 DEF AskFlush, SkipCheck, Asked, Check, CloseSockets, Number, Freeze, Insert, Goto, d1, object, calls
  <2>2. Calling => Calling'
    BY <1>1, <2>1 DEF Calling
  <2> QED BY <1>2, <2>1, <2>2
<1>12. ASSUME NEW p \in Publishers, Flip(p) PROVE Guarded'
  <2>1. Calling'
    BY <1>1, <1>12 DEF Flip, Goto, Calling
  <2> QED BY <2>1 DEF Guarded
<1>13. ASSUME NEW p \in Publishers, Lock(p) PROVE Guarded'
  <2> DEFINE late(u) == [u EXCEPT !.overtaken = TRUE]
  <2>1. mark' /\ upgrades' = {late(u) : u \in upgrades}
    BY <1>13 DEF Lock
  <2>2. \A u \in upgrades : late(u).overtaken
    BY <1>1 DEF Upgrade
  <2> HIDE DEF late
  <2> QED BY <2>1, <2>2 DEF Guarded
<1>14. ASSUME NEW p \in Publishers, LoseLock(p) PROVE Guarded'
  BY <1>14 DEF LoseLock, OneAtATime
<1>15. ASSUME NEW i \in 1..Len(writes), WriteFails(i) PROVE Guarded'
  <2>1. UNCHANGED <<status, mark, upgrades>>
    BY <1>15 DEF WriteFails, Ends, calls
  <2>2. Calling => Calling'
    BY <1>1, <1>15 DEF WriteFails, Goto, routes, Calling
  <2> QED BY <1>2, <2>1, <2>2
<1> QED BY <1>4, <1>5, <1>6, <1>7, <1>8, <1>9, <1>10, <1>11, <1>12, <1>13, <1>14, <1>15 DEF Next

\* What a write that carries the document adds to the writes in flight.
LEMMA Sending ==
    ASSUME ObjectOK, UNCHANGED <<doc, row>>, NEW who \in Publishers \cup {"object"}, Send(who)
    PROVE  /\ Growing => Growing'
           /\ AllDoc => AllDoc'
           /\ \A p \in Publishers : Single(p) /\ (p = who => Answered(p)) => Single(p)'
           /\ \A p \in Publishers : p # who /\ Answered(p) => Answered(p)'
           /\ \A p \in Publishers : Flushed(p) => Flushed(p)'
           /\ who \in Publishers => Flushed(who)'
<1> DEFINE w == [data |-> doc', by |-> who]
           n == Len(writes)
<1>1. w \in Write /\ w.data = doc /\ w.by = who /\ writes \in Seq(Write)
  BY DEF ObjectOK, Write
<1>2. writes' = Append(writes, w)
  BY DEF Send
<1> HIDE DEF w
<1>3. /\ n \in Nat /\ Len(writes') = n + 1 /\ writes'[n + 1] = w
      /\ \A i \in 1..n : writes'[i] = writes[i]
  BY <1>1, <1>2
<1>4. \A i \in 1..(n + 1) : i \in 1..n \/ i = n + 1
  BY <1>3
<1>5. AllDoc => AllDoc'
  BY <1>1, <1>3, <1>4 DEF AllDoc
<1>6. ASSUME NEW p \in Publishers, p # who, Answered(p) PROVE Answered(p)'
  BY <1>1, <1>3, <1>4, <1>6 DEF Answered
<1>7. ASSUME NEW p \in Publishers, Flushed(p) PROVE Flushed(p)'
  <2>1. CASE Stored
    <3>1. Stored'
      BY <1>5, <2>1 DEF Stored
    <3> QED BY <3>1 DEF Flushed
  <2>2. ASSUME NEW k \in 1..n, writes[k].by = p, \A j \in k..n : writes[j].data = doc
        PROVE  Flushed(p)'
    <3>1. k \in 1..(n + 1) /\ writes'[k].by = p
      BY <1>3, <2>2
    <3>2. ASSUME NEW j \in k..(n + 1) PROVE writes'[j].data = doc
      <4>1. (j \in 1..n /\ j \in k..n) \/ j = n + 1
        BY <1>3, <2>2, <3>2
      <4> QED BY <1>1, <1>3, <2>2, <4>1
    <3> QED BY <1>3, <3>1, <3>2 DEF Flushed
  <2> QED BY <1>7, <2>1, <2>2 DEF Flushed
<1>8. who \in Publishers => Flushed(who)'
  <2>1. n + 1 \in 1..(n + 1) /\ \A j \in (n + 1)..(n + 1) : j = n + 1
    BY <1>3
  <2> QED BY <1>1, <1>3, <2>1 DEF Flushed
<1>9. Growing => Growing'
  BY <1>1, <1>3, <1>4 DEF Growing
<1>10. ASSUME NEW p \in Publishers, Single(p), p = who => Answered(p) PROVE Single(p)'
  BY <1>1, <1>3, <1>4, <1>10 DEF Single, Answered
<1> QED BY <1>5, <1>6, <1>7, <1>8, <1>9, <1>10

\* The first write ends.
LEMMA Ending ==
    ASSUME ObjectOK, InOrder, NEW i \in 1..Len(writes), Ends(i)
    PROVE  /\ i = 1 /\ Len(writes) \in Nat \ {0} /\ Len(writes') = Len(writes) - 1
           /\ \A j \in 1..(Len(writes) - 1) : writes'[j] = writes[j + 1] /\ j + 1 \in 1..Len(writes)
           /\ \A p \in Publishers : Answered(p) => Answered(p)'
           /\ \A p \in Publishers : Single(p) => Single(p)'
           /\ \A p \in Publishers : Single(p) /\ writes[1].by = p => Answered(p)'
<1> DEFINE n == Len(writes)
<1>1. n \in Nat \ {0} /\ i = 1 /\ i \in 1..n
      /\ writes' = [j \in 1..(n - 1) |-> IF j < 1 THEN writes[j] ELSE writes[j + 1]]
  BY DEF Ends, ObjectOK
<1>2. \A j \in 1..(n - 1) : writes'[j] = writes[j + 1] /\ j + 1 \in 1..n
  BY <1>1
<1>3. Len(writes') = n - 1
  <2>1. n - 1 \in Nat /\ DOMAIN writes' = 1..(n - 1)
    BY <1>1
  <2> QED BY <1>1, <1>2, <2>1
<1>4. ASSUME NEW p \in Publishers, Answered(p) PROVE Answered(p)'
  BY <1>2, <1>3, <1>4 DEF Answered
<1>5. ASSUME NEW p \in Publishers, Single(p) PROVE Single(p)'
  <2> SUFFICES ASSUME NEW j \in 1..(n - 1), NEW k \in 1..(n - 1),
                      writes'[j].by = p, writes'[k].by = p
               PROVE  j = k
    BY <1>3 DEF Single
  <2>1. j + 1 = k + 1
    BY <1>2, <1>5 DEF Single
  <2> QED BY <2>1
<1>6. ASSUME NEW p \in Publishers, Single(p), writes[1].by = p PROVE Answered(p)'
  <2> SUFFICES ASSUME NEW j \in 1..(n - 1), writes'[j].by = p PROVE FALSE
    BY <1>3 DEF Answered
  <2>1. j + 1 = 1
    BY <1>1, <1>2, <1>6 DEF Single
  <2> QED BY <1>1, <2>1
<1> QED BY <1>1, <1>2, <1>3, <1>4, <1>5, <1>6

\* A write ends that is not the publish's own, or that lands.
LEMMA StillFlushed ==
    ASSUME ObjectOK, InOrder, UNCHANGED doc, NEW i \in 1..Len(writes), Ends(i),
           NEW p \in Publishers, Flushed(p), Stored => Stored',
           row' = writes[i].data \/ writes[i].by # p
    PROVE  Flushed(p)'
<1> DEFINE n == Len(writes)
<1>1. /\ i = 1 /\ n \in Nat \ {0} /\ Len(writes') = n - 1
      /\ \A j \in 1..(n - 1) : writes'[j] = writes[j + 1] /\ j + 1 \in 1..n
  BY Ending
<1>2. CASE Stored
  BY <1>2 DEF Flushed
<1>3. ASSUME NEW k \in 1..n, writes[k].by = p, \A j \in k..n : writes[j].data = doc
      PROVE  Flushed(p)'
  <2>1. CASE k = 1
    <3>1. \A j \in 1..n : j \in k..n
      BY <1>1, <2>1
    <3>2. row' = doc /\ \A j \in 1..(n - 1) : writes'[j].data = doc
      BY <1>1, <1>3, <2>1, <3>1
    <3> QED BY <1>1, <3>2 DEF Flushed, Stored, AllDoc
  <2>2. CASE k # 1
    <3>1. k - 1 \in 1..(n - 1) /\ (k - 1) + 1 = k
      BY <1>1, <2>2
    <3>2. \A j \in (k - 1)..(n - 1) : j \in 1..(n - 1) /\ j + 1 \in k..n
      BY <1>1, <2>2
    <3>3. writes'[k - 1].by = p /\ \A j \in (k - 1)..(n - 1) : writes'[j].data = doc
      BY <1>1, <1>3, <3>1, <3>2
    <3> QED BY <1>1, <3>1, <3>3 DEF Flushed
  <2> QED BY <2>1, <2>2
<1> QED BY <1>2, <1>3 DEF Flushed

\* The first write lands, or fails.
LEMMA Landing ==
    ASSUME ObjectOK, InOrder, NEW i \in 1..Len(writes), WriteLands(i)
    PROVE  (Growing => Growing') /\ (Stored => Stored')
<1>1. /\ i = 1 /\ Len(writes) \in Nat \ {0} /\ Len(writes') = Len(writes) - 1
      /\ \A j \in 1..(Len(writes) - 1) : writes'[j] = writes[j + 1] /\ j + 1 \in 1..Len(writes)
      /\ row' = writes[1].data /\ UNCHANGED doc /\ 1 \in 1..Len(writes)
  BY Ending DEF WriteLands, Ends
<1>2. Stored => Stored'
  BY <1>1 DEF Stored, AllDoc
<1>3. ASSUME Growing PROVE Growing'
  <2>1. row' \subseteq doc /\ \A j \in 1..Len(writes) : row' \subseteq writes[j].data
    <3>1. \A j \in 1..Len(writes) : 1 <= j
      OBVIOUS
    <3> QED BY <1>1, <1>3, <3>1 DEF Growing
  <2>2. \A j \in 1..(Len(writes) - 1) : row' \subseteq writes'[j].data /\ writes'[j].data \subseteq doc
    BY <1>1, <1>3, <2>1 DEF Growing
  <2>3. \A j, k \in 1..(Len(writes) - 1) : j <= k => writes'[j].data \subseteq writes'[k].data
    <3> SUFFICES ASSUME NEW j \in 1..(Len(writes) - 1), NEW k \in 1..(Len(writes) - 1), j <= k
                 PROVE  writes'[j].data \subseteq writes'[k].data
      OBVIOUS
    <3>1. j + 1 <= k + 1
      OBVIOUS
    <3> QED BY <1>1, <1>3, <3>1 DEF Growing
  <2> QED BY <1>1, <2>1, <2>2, <2>3 DEF Growing
<1> QED BY <1>2, <1>3

LEMMA Failing ==
    ASSUME ObjectOK, InOrder, NEW i \in 1..Len(writes), WriteFails(i)
    PROVE  (Growing => Growing') /\ (Stored => Stored')
<1>1. /\ i = 1 /\ Len(writes) \in Nat \ {0} /\ Len(writes') = Len(writes) - 1
      /\ \A j \in 1..(Len(writes) - 1) : writes'[j] = writes[j + 1] /\ j + 1 \in 1..Len(writes)
      /\ UNCHANGED <<row, doc>>
  BY Ending DEF WriteFails, Ends
<1>2. Stored => Stored'
  BY <1>1 DEF Stored, AllDoc
<1>3. ASSUME Growing PROVE Growing'
  <2>1. \A j, k \in 1..(Len(writes) - 1) : j <= k => writes'[j].data \subseteq writes'[k].data
    <3> SUFFICES ASSUME NEW j \in 1..(Len(writes) - 1), NEW k \in 1..(Len(writes) - 1), j <= k
                 PROVE  writes'[j].data \subseteq writes'[k].data
      OBVIOUS
    <3>1. j + 1 <= k + 1
      OBVIOUS
    <3> QED BY <1>1, <1>3, <3>1 DEF Growing
  <2> QED BY <1>1, <1>3, <2>1 DEF Growing
<1> QED BY <1>2, <1>3

\* A publish whose write was answered has stored the document.
LEMMA AnsweredFlush ==
    ASSUME NEW p \in Publishers, Flushed(p), Answered(p)
    PROVE  Stored
BY DEF Flushed, Answered

Alert(p) == pc[p] \in {"flushing", "flip", "calling"} /\ (mark \/ open = {})

\* A publish keeps its stage while what was stored, or sent, stays so.
LEMMA StageStays ==
    ASSUME NEW p \in Publishers, Stage(p), UNCHANGED <<pc, mine, doc>>,
           Alert(p)' => Alert(p), Single(p) => Single(p)',
           Answered(p) => Answered(p)', Flushed(p) => Flushed(p)', Stored => Stored'
    PROVE  Stage(p)'
BY DEF Stage, Alert

\* A request at these labels has its document marked.
LEMMA MarkHolds ==
    ASSUME Sole, Guarded, NEW p \in Publishers,
           \/ pc[p] = "closing" /\ ~mine[p].relock
           \/ pc[p] \in {"numbering", "freezing", "inserting"}
    PROVE  mark
<1>1. status = "published" /\ Alone(p)
  BY DEF Sole, Running
<1>2. ~Calling
  BY <1>1 DEF Calling, Alone, Running
<1> QED BY <1>1, <1>2 DEF Guarded

Safe == TypeOK /\ Sole /\ Guarded /\ Growing /\ \A p \in Publishers : Stage(p)

\* The document and what is stored of it stay: only sockets come and go.
LEMMA SocketsComplete ==
    ASSUME Safe, UNCHANGED <<pc, mine, doc, row, writes>>,
           open' = {} => open = {},
           \A p \in Publishers : Alert(p)' => Alert(p)
    PROVE  Growing' /\ \A p \in Publishers : Stage(p)'
<1>1. Growing'
  BY DEF Safe, Growing
<1>2. ASSUME NEW p \in Publishers PROVE Stage(p)'
  BY StageStays DEF Safe, Single, Answered, Flushed, Stored, AllDoc
<1> QED BY <1>1, <1>2

\* The object sends its document.
LEMMA SendComplete ==
    ASSUME Safe, UNCHANGED <<pc, mine, doc, row>>, Send("object"),
           \A p \in Publishers : Alert(p)' => Alert(p)
    PROVE  Growing' /\ \A p \in Publishers : Stage(p)'
<1>1. ObjectOK /\ "object" \in Publishers \cup {"object"}
  BY DEF Safe, TypeOK
<1>2. Growing'
  BY <1>1, Sending DEF Safe
<1>3. ASSUME NEW p \in Publishers PROVE Stage(p)'
  <2>1. p # "object"
    BY Names
  <2>5. Single(p) => Single(p)'
    BY <1>1, <2>1, Sending
  <2>2. Answered(p) => Answered(p)'
    BY <1>1, <2>1, Sending
  <2>3. Flushed(p) => Flushed(p)'
    BY <1>1, Sending
  <2>4. Stored => Stored'
    BY <1>1, Sending DEF Stored
  <2> QED BY <2>2, <2>3, <2>4, <2>5, StageStays DEF Safe
<1> QED BY <1>2, <1>3

LEMMA SocketStepsComplete ==
    ASSUME Safe, OneAtATime,
           \/ UNCHANGED vars
           \/ \E c \in Clients : Stamp(c) \/ Disconnect(c)
           \/ \E u \in upgrades : ReadLock(u) \/ LetIn(u) \/ Accept(u) \/ Refuse(u)
           \/ \E c \in Clients, f \in Typed : Message(c, f)
           \/ Save \/ EditAgain \/ Retract \/ Unlock \/ LoseUnlock
    PROVE  Growing' /\ \A p \in Publishers : Stage(p)'
<1>1. ASSUME UNCHANGED <<pc, mine, doc, row, writes>>, open' = {} => open = {},
             mark' => mark
      PROVE  Growing' /\ \A p \in Publishers : Stage(p)'
  <2>1. \A p \in Publishers : Alert(p)' => Alert(p)
    BY <1>1 DEF Alert
  <2> QED BY <1>1, <2>1, SocketsComplete
<1>2. CASE UNCHANGED vars \/ EditAgain \/ Retract \/ Unlock \/ LoseUnlock \/ \E c \in Clients : Stamp(c)
  <2>1. UNCHANGED <<pc, mine, doc, row, writes, open>> /\ (mark' => mark)
    BY <1>2 DEF vars, EditAgain, Retract, Reopen, Unlock, LoseUnlock, Stamp, d1, object, routes
  <2> QED BY <1>1, <2>1
<1>3. ASSUME NEW u \in upgrades, ReadLock(u) \/ LetIn(u) \/ Accept(u)
      PROVE  Growing' /\ \A p \in Publishers : Stage(p)'
  <2>1. UNCHANGED <<pc, mine, doc, row, writes>> /\ open \subseteq open' /\ (mark' => mark)
    <3>1. CASE ReadLock(u)
      BY <3>1 DEF ReadLock, d1, object, routes
    <3>2. CASE LetIn(u)
      BY <3>2 DEF LetIn, d1, routes
    <3>3. CASE Accept(u)
      BY <3>3 DEF Accept, d1, routes
    <3> QED BY <1>3, <3>1, <3>2, <3>3
  <2> QED BY <1>1, <2>1
<1>4. ASSUME NEW u \in upgrades, Refuse(u)
      PROVE  Growing' /\ \A p \in Publishers : Stage(p)'
  <2>1. CASE open = {}
    <3>1. UNCHANGED <<pc, mine, doc, row, mark, open>> /\ Send("object")
      BY <1>4, <2>1 DEF Refuse, d1, routes
    <3>2. \A p \in Publishers : Alert(p)' => Alert(p)
      BY <3>1 DEF Alert
    <3> QED BY <3>1, <3>2, SendComplete
  <2>2. CASE open # {}
    BY <1>1, <1>4, <2>2 DEF Refuse, d1, routes
  <2> QED BY <2>1, <2>2
<1>5. CASE Save
  <2>1. UNCHANGED <<pc, mine, doc, row, mark, open>> /\ Send("object")
    BY <1>5 DEF Save, d1, routes
  <2>2. \A p \in Publishers : Alert(p)' => Alert(p)
    BY <2>1 DEF Alert
  <2> QED BY <2>1, <2>2, SendComplete
\* The last socket to leave flushes.
<1>6. ASSUME NEW c \in open, Leave({c}), UNCHANGED <<pc, mine, doc, row, mark>>,
             mark \/ \A p \in Publishers : pc[p] = "idle"
      PROVE  Growing' /\ \A p \in Publishers : Stage(p)'
  <2>1. \A p \in Publishers : Alert(p)' => Alert(p)
    BY <1>6 DEF Alert
  <2>2. CASE open' = {}
    <3>1. Send("object")
      BY <1>6, <2>2 DEF Leave
    <3> QED BY <1>6, <2>1, <3>1, SendComplete
  <2>3. CASE open' # {}
    <3>1. UNCHANGED writes
      BY <1>6, <2>3 DEF Leave
    <3> QED BY <1>6, <2>1, <2>3, <3>1, SocketsComplete
  <2> QED BY <2>2, <2>3
<1>7. ASSUME NEW c \in Clients, Disconnect(c)
      PROVE  Growing' /\ \A p \in Publishers : Stage(p)'
  <2>1. Quiet /\ c \in open /\ Leave({c}) /\ UNCHANGED <<pc, mine, doc, row, mark>>
    BY <1>7 DEF Disconnect, OneAtATime, d1, routes
  <2> QED BY <1>6, <2>1 DEF Quiet, Running
<1>8. ASSUME NEW c \in Clients, NEW f \in Typed, Message(c, f)
      PROVE  Growing' /\ \A p \in Publishers : Stage(p)'
  <2>1. c \in open /\ UNCHANGED <<pc, mine, row, mark>>
    BY <1>8 DEF Message, d1, routes
  <2>2. CASE mark
    BY <1>6, <1>8, <2>1, <2>2 DEF Message
  <2>3. CASE ~mark
    <3>1. open' = open /\ open # {}
      BY <1>8, <2>1, <2>3 DEF Message
    <3>2. Growing'
      BY <1>8, <2>1, <2>3 DEF Message, Safe, Growing
    <3>3. ASSUME NEW p \in Publishers PROVE Stage(p)'
      <4>1. ~(pc[p] = "closing" /\ ~mine[p].relock) /\ pc[p] \notin {"numbering", "freezing", "inserting"}
        BY <2>3, MarkHolds DEF Safe
      <4>2. (Answered(p) => Answered(p)') /\ (Single(p) => Single(p)')
        BY <1>8, <2>3 DEF Message, Answered, Single
      <4> QED BY <2>1, <2>3, <3>1, <4>1, <4>2 DEF Stage, Safe
    <3> QED BY <3>2, <3>3
  <2> QED BY <2>2, <2>3
<1> QED BY <1>2, <1>3, <1>4, <1>5, <1>7, <1>8

\* A request moves on: the others are idle.
LEMMA PublishComplete ==
    ASSUME Safe, OneAtATime, NEW p \in Publishers,
           \/ AskFlush(p) \/ SkipCheck(p) \/ Check(p) \/ Flip(p) \/ Lock(p) \/ CloseSockets(p) \/ LoseLock(p)
           \/ Number(p) \/ Freeze(p) \/ Insert(p)
    PROVE  Growing' /\ \A q \in Publishers : Stage(q)'
<1>1. /\ pc \in [Publishers -> Label] /\ mine \in [Publishers -> Mine] /\ ObjectOK
      /\ writes \in Seq(Write) /\ Growing /\ \A q \in Publishers : Stage(q)
      /\ p \in Publishers \cup {"object"} /\ \A q \in Publishers : q # "object"
  BY Names DEF Safe, TypeOK, RoutesOK, ObjectOK
\* The others keep what little an idle request has.
<1>2. ASSUME Alone(p), \A q \in Publishers \ {p} : pc'[q] = pc[q], NEW q \in Publishers \ {p},
             \/ UNCHANGED writes
             \/ UNCHANGED <<doc, row>> /\ (Send(p) \/ Send("object"))
      PROVE  Stage(q)'
  <2>1. Single(q) /\ Answered(q) /\ pc[q] = "idle"
    BY <1>1, <1>2 DEF Alone, Running, Stage
  <2>2. Single(q)' /\ Answered(q)'
    <3>1. CASE UNCHANGED writes
      BY <2>1, <3>1 DEF Single, Answered
    <3>2. ASSUME NEW who \in {p, "object"}, Send(who), UNCHANGED <<doc, row>>
          PROVE  Single(q)' /\ Answered(q)'
      BY <1>1, <2>1, <3>2, Sending
    <3> QED BY <1>2, <3>1, <3>2
  <2> QED BY <1>2, <2>1, <2>2 DEF Stage
<1>3. Running(p) => Alone(p)
  BY DEF Safe, Sole
<1>14. ASSUME UNCHANGED <<row, doc, writes>>
       PROVE  /\ Growing' /\ (Single(p) => Single(p)') /\ (Answered(p) => Answered(p)')
              /\ (Flushed(p) => Flushed(p)') /\ (Stored => Stored')
  BY <1>1, <1>14 DEF Growing, Single, Answered, Flushed, Stored, AllDoc
<1>4. CASE AskFlush(p)
  <2>1. /\ Alone(p) /\ pc[p] = "idle" /\ UNCHANGED <<row, doc, open, mark>>
        /\ pc' = [pc EXCEPT ![p] = "flushing"]
        /\ mine' = [mine EXCEPT ![p].lags = (open = {} /\ row # doc)]
        /\ IF open = {} THEN UNCHANGED writes ELSE Send(p)
    BY <1>4 DEF AskFlush, Asked, OneAtATime, Goto, d1
  <2>2. Single(p) /\ Answered(p)
    BY <1>1, <2>1 DEF Stage
  <2>3. Growing' /\ Single(p)' /\ (~mine'[p].lags => Flushed(p)')
    <3>1. CASE open = {}
      <4>1. ~mine'[p].lags => row = doc
        BY <1>1, <2>1, <3>1 DEF Mine
      <4>2. ~mine'[p].lags => Flushed(p)
        BY <1>1, <4>1, GrowingIsStored DEF Flushed
      <4> QED BY <1>14, <2>1, <2>2, <3>1, <4>2
    <3>2. CASE open # {}
      BY <1>1, <2>1, <2>2, <3>2, Sending
    <3> QED BY <3>1, <3>2
  <2>4. Stage(p)'
    BY <1>1, <2>1, <2>3 DEF Stage
  <2>5. ASSUME NEW q \in Publishers \ {p} PROVE Stage(q)'
    BY <1>1, <1>2, <2>1
  <2> QED BY <2>3, <2>4, <2>5
<1>13. CASE SkipCheck(p)
  <2>1. /\ Alone(p) /\ pc[p] = "idle" /\ UNCHANGED <<row, doc, open, mark, writes>>
        /\ pc' = [pc EXCEPT ![p] = "flip"]
        /\ mine' = [mine EXCEPT ![p].relock = FALSE, ![p].lags = (row # doc)]
    BY <1>13 DEF SkipCheck, Asked, OneAtATime, Goto, d1, object
  <2>2. Single(p) /\ Answered(p)
    BY <1>1, <2>1 DEF Stage
  <2>3. ~mine'[p].lags => row = doc
    BY <1>1, <2>1 DEF Mine
  <2>4. ~mine'[p].lags => Flushed(p)
    BY <1>1, <2>3, GrowingIsStored DEF Flushed
  <2>5. Stage(p)'
    BY <1>1, <1>14, <2>1, <2>2, <2>4 DEF Stage
  <2> QED BY <1>1, <1>2, <1>14, <2>1, <2>5
<1>5. CASE Check(p)
  <2>1. /\ pc[p] = "flushing" /\ Answered(p) /\ UNCHANGED <<row, doc, open, mark, writes>>
        /\ pc' = [pc EXCEPT ![p] = "flip"] /\ mine'[p].lags = mine[p].lags
    BY <1>1, <1>5 DEF Check, Goto, d1, object, Mine
  <2>2. Stage(p)'
    BY <1>1, <1>14, <2>1 DEF Stage
  <2> QED BY <1>1, <1>2, <1>3, <1>14, <2>1, <2>2 DEF Running
<1>6. CASE Flip(p)
  <2>1. /\ pc[p] = "flip" /\ UNCHANGED <<row, doc, open, mark, writes, mine>>
        /\ pc' = [pc EXCEPT ![p] = "calling"]
    BY <1>6 DEF Flip, Goto, object
  <2>2. Stage(p)'
    BY <1>1, <1>14, <2>1 DEF Stage
  <2> QED BY <1>1, <1>2, <1>3, <1>14, <2>1, <2>2 DEF Running
<1>7. CASE Lock(p)
  <2>1. pc[p] = "calling" /\ UNCHANGED <<row, doc, open>> /\ Answered(p) /\ Single(p)
    BY <1>1, <1>7 DEF Lock, d1, Stage
  <2>2. CASE open = {}
    <3>1. UNCHANGED <<writes, mine>> /\ pc' = [pc EXCEPT ![p] = Locked(p)]
      BY <1>7, <2>2 DEF Lock, Goto
    <3>2. ~mine[p].lags => Stored
      BY <1>1, <2>1, <2>2, AnsweredFlush DEF Stage
    <3>3. Stage(p)'
      BY <1>1, <1>14, <2>1, <3>1, <3>2 DEF Stage, Locked
    <3> QED BY <1>1, <1>2, <1>3, <1>14, <2>1, <3>1, <3>3 DEF Running
  <2>3. CASE open # {}
    <3>1. Send(p) /\ pc' = [pc EXCEPT ![p] = "closing"]
      BY <1>7, <2>3 DEF Lock, Goto
    <3>2. Growing' /\ Flushed(p)' /\ Single(p)'
      BY <1>1, <2>1, <3>1, Sending
    <3>3. Stage(p)'
      BY <1>1, <3>1, <3>2 DEF Stage
    <3> QED BY <1>1, <1>2, <1>3, <2>1, <3>1, <3>2, <3>3 DEF Running
  <2> QED BY <2>2, <2>3
<1>8. CASE CloseSockets(p)
  <2>1. /\ pc[p] = "closing" /\ Answered(p) /\ UNCHANGED <<row, doc, mine>>
        /\ pc' = [pc EXCEPT ![p] = Locked(p)]
        /\ UNCHANGED writes \/ Send("object")
    BY <1>8 DEF CloseSockets, Leave, Goto, d1
  <2>2. Growing' /\ Single(p)' /\ Answered(p)' /\ (Stored => Stored')
    <3>1. CASE Send("object")
      BY <1>1, <2>1, <3>1, Sending DEF Stored, Stage
    <3>2. CASE UNCHANGED writes
      BY <1>1, <1>14, <2>1, <3>2 DEF Stage
    <3> QED BY <2>1, <3>1, <3>2
  <2>3. ~mine[p].relock => Stored'
    BY <1>1, <2>1, <2>2, AnsweredFlush DEF Stage
  <2>4. Stage(p)'
    BY <1>1, <2>1, <2>2, <2>3 DEF Stage, Locked
  <2>5. ASSUME NEW q \in Publishers \ {p} PROVE Stage(q)'
    BY <1>1, <1>2, <1>3, <2>1 DEF Running
  <2> QED BY <2>2, <2>4, <2>5
<1>9. CASE LoseLock(p)
  BY <1>9 DEF LoseLock, OneAtATime
<1>10. CASE Number(p)
  <2>1. /\ pc[p] = "numbering" /\ UNCHANGED <<row, doc, open, writes>>
        /\ pc' = [pc EXCEPT ![p] = "freezing"] /\ mine'[p].lags = mine[p].lags
    BY <1>1, <1>10 DEF Number, Goto, d1, object, Mine
  <2>2. Stage(p)'
    BY <1>1, <1>14, <2>1 DEF Stage
  <2> QED BY <1>1, <1>2, <1>3, <1>14, <2>1, <2>2 DEF Running
<1>11. CASE Freeze(p)
  <2>1. /\ pc[p] = "freezing" /\ UNCHANGED <<row, doc, open, writes>>
        /\ pc' = [pc EXCEPT ![p] = "inserting"] /\ mine' = [mine EXCEPT ![p].data = row]
    BY <1>11 DEF Freeze, Goto, d1, object
  <2>2. mine'[p].data = row /\ mine'[p].lags = mine[p].lags
    BY <1>1, <2>1 DEF Mine
  <2>3. ~mine[p].lags => Stored
    BY <1>1, <2>1 DEF Stage
  <2>4. Stage(p)'
    BY <1>1, <1>14, <2>1, <2>2, <2>3 DEF Stage, Stored
  <2> QED BY <1>1, <1>2, <1>3, <1>14, <2>1, <2>4 DEF Running
<1>12. CASE Insert(p)
  <2>1. /\ pc[p] = "inserting" /\ UNCHANGED <<row, doc, open, writes>>
        /\ pc' = [pc EXCEPT ![p] = "idle"]
    BY <1>12 DEF Insert, Goto, object
  <2>2. Stage(p)'
    BY <1>1, <1>14, <2>1 DEF Stage
  <2> QED BY <1>1, <1>2, <1>3, <1>14, <2>1, <2>2 DEF Running
<1> QED BY <1>4, <1>5, <1>6, <1>7, <1>8, <1>9, <1>10, <1>11, <1>12, <1>13

LEMMA CompleteStep ==
    ASSUME Safe, OneAtATime, Posted = {}, InOrder, [Next]_vars
    PROVE  Growing' /\ \A p \in Publishers : Stage(p)'
<1>1. ASSUME NEW f \in Posted PROVE FALSE
  BY <1>1
<1>2. ASSUME NEW i \in 1..Len(writes), WriteLands(i)
      PROVE  Growing' /\ \A p \in Publishers : Stage(p)'
  <2>1. ObjectOK /\ Ends(i) /\ UNCHANGED <<pc, mine, doc, open, mark>> /\ row' = writes[i].data
    BY <1>2 DEF Safe, TypeOK, WriteLands, Ends, routes
  <2>2. Growing' /\ (Stored => Stored')
    BY <1>2, <2>1, Landing DEF Safe
  <2>3. ASSUME NEW p \in Publishers PROVE Stage(p)'
    <3>1. (Answered(p) => Answered(p)') /\ (Single(p) => Single(p)')
      BY <2>1, Ending
    <3>2. Flushed(p) => Flushed(p)'
      BY <2>1, <2>2, StillFlushed
    <3>3. Alert(p)' => Alert(p)
      BY <2>1 DEF Alert
    <3> QED BY <2>1, <2>2, <3>1, <3>2, <3>3, StageStays DEF Safe
  <2> QED BY <2>2, <2>3
\* A publish whose write fails lags; its lock call goes on without closing.
<1>4. ASSUME NEW i \in 1..Len(writes), WriteFails(i)
      PROVE  Growing' /\ \A p \in Publishers : Stage(p)'
  <2>1. /\ ObjectOK /\ Ends(i) /\ UNCHANGED <<doc, row, open, mark>> /\ i = 1
        /\ pc \in [Publishers -> Label] /\ mine \in [Publishers -> Mine]
    <3>1. ObjectOK /\ pc \in [Publishers -> Label] /\ mine \in [Publishers -> Mine]
      BY DEF Safe, TypeOK, RoutesOK
    <3>2. Ends(i) /\ UNCHANGED <<doc, row, open, mark>>
      BY <1>4 DEF WriteFails, Ends
    <3> QED BY <3>1, <3>2, Ending
  <2>2. Growing' /\ (Stored => Stored')
    BY <1>4, <2>1, Failing DEF Safe
  <2>3. ASSUME NEW p \in Publishers, writes[i].by # p PROVE Stage(p)'
    <3>1. pc'[p] = pc[p] /\ mine'[p] = mine[p]
      BY <1>4, <2>1, <2>3 DEF WriteFails, Goto, routes
    <3>2. (Answered(p) => Answered(p)') /\ (Single(p) => Single(p)')
      BY <2>1, Ending
    <3>3. Flushed(p) => Flushed(p)'
      BY <2>1, <2>2, <2>3, StillFlushed
    <3> QED BY <2>1, <2>2, <3>1, <3>2, <3>3 DEF Stage, Safe
  <2>4. ASSUME NEW p \in Publishers, writes[i].by = p PROVE Stage(p)'
    <3>1. p # "object"
      BY Names
    <3>2. /\ mine' = [mine EXCEPT ![p].lags = TRUE]
          /\ IF pc[p] = "closing" THEN pc' = [pc EXCEPT ![p] = Locked(p)] ELSE pc' = pc
      BY <1>4, <2>4, <3>1 DEF WriteFails, Goto
    <3>3. mine'[p].lags /\ (pc[p] = "closing" => pc'[p] \in {"idle", "numbering"})
          /\ (pc[p] # "closing" => pc'[p] = pc[p])
      BY <2>1, <3>2 DEF Mine, Locked
    <3>4. Single(p)' /\ Answered(p)'
      BY <2>1, <2>4, Ending DEF Safe, Stage
    <3> QED BY <3>3, <3>4 DEF Stage
  <2> QED BY <2>2, <2>3, <2>4
<1>3. \/ \/ UNCHANGED vars
         \/ \E c \in Clients : Stamp(c) \/ Disconnect(c)
         \/ \E u \in upgrades : ReadLock(u) \/ LetIn(u) \/ Accept(u) \/ Refuse(u)
         \/ \E c \in Clients, f \in Typed : Message(c, f)
         \/ Save \/ EditAgain \/ Retract \/ Unlock \/ LoseUnlock
      \/ \E i \in 1..Len(writes) : WriteLands(i) \/ WriteFails(i)
      \/ \E p \in Publishers :
            \/ AskFlush(p) \/ SkipCheck(p) \/ Check(p) \/ Flip(p) \/ Lock(p) \/ CloseSockets(p) \/ LoseLock(p)
            \/ Number(p) \/ Freeze(p) \/ Insert(p)
  BY <1>1 DEF Next
<1> QED BY <1>2, <1>3, <1>4, SocketStepsComplete, PublishComplete

\* MarkedWhilePublished, for any number of clients, publishers, edits and
\* versions, when publishes, reopens and unlock calls do not overlap and a
\* lock call reaches the object.
THEOREM PublishedIsMarked ==
    ASSUME OneAtATime
    PROVE  Spec => []MarkedWhilePublished
<1> DEFINE Inv == Chained /\ Sole /\ Guarded
<1>1. Init => Inv
  BY ChainInit, SoleInit
<1>2. Inv /\ [Next]_vars => Inv'
  BY ChainStep, SoleStep, GuardedStep DEF Chained
<1>3. Inv => MarkedWhilePublished
  BY DEF Guarded, Calling, MarkedWhilePublished
<1> QED BY <1>1, <1>2, <1>3, PTL DEF Spec

\* VersionIsComplete, for any number of them too, when D1 applies the object's
\* writes in order and nobody writes past the sockets: lockDoc and the answered
\* flush leave nothing behind that the version would miss, unless the publish
\* lags (D1 refused its write, or it began behind and no later flush made up).
THEOREM VersionsAreComplete ==
    ASSUME OneAtATime, InOrder, Posted = {}
    PROVE  Spec => VersionIsComplete
<1> DEFINE Inv == Chained /\ Safe
<1>1. Init => Inv
  BY ChainInit, SoleInit DEF Chained, Safe
<1>2. Inv /\ [Next]_vars => Inv'
  BY ChainStep, SoleStep, GuardedStep, CompleteStep DEF Chained, Safe
<1>3. ASSUME Inv, [Next]_vars, NEW p \in Publishers,
             pc[p] = "inserting", versions' # versions, pc'[p] # pc[p], ~mine[p].lags
      PROVE  doc \subseteq versions'[Len(versions')].data
  <2> DEFINE new == [no |-> mine[p].prev.no + 1, data |-> mine[p].data, prev |-> mine[p].prev.data]
  <2>1. PICK q \in Publishers : Insert(q)
    BY <1>3 DEF Next, vars, d1, object, calls, routes, Stamp, Disconnect, ReadLock, LetIn, Accept, Refuse, Message,
                PassGuard, Post, Save, WriteLands, WriteFails, Ends, EditAgain, Retract, Reopen, Unlock, LoseUnlock,
                AskFlush, SkipCheck, Check, Flip, Lock, CloseSockets, LoseLock, Number, Freeze
  <2>2. q = p
    BY <1>3, <2>1 DEF Insert, Goto, Safe, TypeOK, RoutesOK
  <2>3. versions' = Append(versions, new)
    BY <1>3, <2>1, <2>2 DEF Insert
  <2>4. versions \in Seq(Version) /\ mine[p] \in Mine /\ mine[p].data = doc
    BY <1>3 DEF Safe, TypeOK, ReportOK, RoutesOK, Stage
  <2>5. new \in Version /\ new.data = doc
    BY <2>4 DEF Mine, Version
  <2> HIDE DEF new
  <2>6. versions'[Len(versions')] = new
    BY <2>3, <2>4, <2>5
  <2> QED BY <2>5, <2>6
<1>4. Inv /\ [Next]_vars =>
          [\A p \in Publishers :
              pc[p] = "inserting" /\ versions' # versions /\ pc'[p] # pc[p] /\ ~mine[p].lags
                  => doc \subseteq versions'[Len(versions')].data]_vars
  BY <1>3
<1> QED BY <1>1, <1>2, <1>4, PTL DEF Spec, VersionIsComplete
=============================================================================
