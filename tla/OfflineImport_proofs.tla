------------------------ MODULE OfflineImport_proofs ------------------------
(***************************************************************************)
(* Theorems about OfflineImport, for any outboxes, packages and bounds:    *)
(* types, that a skipped entry took hold, that a deleted inspection stays  *)
(* deleted unless a request had looked before, that a completion follows   *)
(* its updates, and that an entry takes effect once.                       *)
(*                                                                         *)
(* What a stored answer says is true of the row because the row of the key *)
(* is the lock of the request that works under it: nobody else can put an  *)
(* answer there, and the claim of a working request is too young to be     *)
(* taken over or swept.  The other two follow from what an import has      *)
(* looked at, and from the order in which it goes through its entries.     *)
(*                                                                         *)
(* Once needs both memories: the record keeps an entry from the packages   *)
(* that are imported later; what was applied after an import had read the  *)
(* records is in the ledger still, which sweeps no answer of the day, and  *)
(* an import is over within the day.                                       *)
(***************************************************************************)
EXTENDS OfflineImport, TLAPS

-----------------------------------------------------------------------------
\* The inductive invariant

Engaged(r) == job[r].at \in {"conflict", "steal", "route", "write", "answer", "record"}
AtWork(r)  == job[r].at = "turn" \/ Engaged(r)
Holding(r) == job[r].at \in {"route", "write", "answer"}

\* Who does what, and the entry at hand is one of those left of the half.
DutyOf(r) ==
    /\ Engaged(r) => job[r].on \in job[r].left
    /\ r \in Imports => job[r].part # "itself" /\ (AtWork(r) => job[r].left \subseteq Half(r, job[r].part))
    /\ r \in Directs => /\ job[r].at \notin {"look", "judge", "begin", "fill", "record"}
                        /\ AtWork(r) => job[r].part = "itself"
Duty == \A r \in Requests : DutyOf(r)

\* Who works under a key has its row, and is the only one.
Locks ==
    /\ \A r \in Requests : Holding(r) => ledger[KeyOf[job[r].on]] = ClaimOf(job[r].on)
    /\ \A r, q \in Requests : Holding(r) /\ Holding(q) /\ r # q => KeyOf[job[r].on] # KeyOf[job[q].on]

\* What is kept about an entry is true of it.
RowsTrue    == \A k \in Keys : ledger[k].state = "done" => ledger[k].print \in Entries /\ TookHold(ledger[k].print)
RecordsTrue == \A e \in Entries : recorded[e] # 0 => TookHold(e)
JobTrue(r)  ==
    /\ \A e \in job[r].already : TookHold(e)
    /\ job[r].at = "record" \/ (job[r].at = "answer" /\ job[r].how = "ok") => TookHold(job[r].on)
    /\ job[r].at = "write" /\ Op[job[r].on] # "create" =>
          Exists(Target[job[r].on]) \/ Target[job[r].on] \in tombs
Truth == RowsTrue /\ RecordsTrue /\ \A r \in Requests : JobTrue(r)

\* Whoever creates has looked.
LookedOf(r) ==
    /\ r \in Imports /\ (job[r].at = "begin" \/ AtWork(r)) /\ job[r].part = "creates" =>
          \A e \in Package[r] : Op[e] = "create" => Target[e] \in job[r].clear \cup job[r].seen
    /\ r \in Directs /\ job[r].at = "write" /\ Op[job[r].on] = "create" =>
          Target[job[r].on] \in job[r].clear
Looked == \A r \in Requests : LookedOf(r)

\* Updates that are behind took hold or were refused.
OrderedOf(r) ==
    /\ AtWork(r) /\ job[r].part = "rest" =>
          \A u \in Half(r, "rest") \ job[r].left :
              Op[u] = "update" => TookHold(u) \/ Target[u] \in job[r].refused
    /\ Engaged(r) =>
          /\ \A f \in job[r].left : Place[job[r].on] <= Place[f]
          /\ Op[job[r].on] = "complete" => Target[job[r].on] \notin job[r].refused
Ordered == \A r \in Imports : OrderedOf(r)

IInv == TypeOK /\ Duty /\ Locks /\ Truth /\ Looked /\ Ordered

-----------------------------------------------------------------------------
\* Types

LEMMA Facts ==
    /\ \A e \in Entries : Target[e] \in Inspections /\ KeyOf[e] \in Keys /\ Place[e] \in Nat
    /\ \A e \in Entries : Op[e] \in {"create", "update", "complete"}
    /\ \A r \in Imports : Package[r] \subseteq Entries /\ Exported[r] \in Nat
    /\ \A d \in Directs : Sent[d] \subseteq Entries
    /\ Imports \cap Directs = {} /\ Requests = Imports \cup Directs
    /\ Prints = Entries /\ "none" \notin Entries
BY OutboxEntries, PackageEntries DEF Inspections, Requests

LEMMA Init_IInv == Init => IInv
<1> SUFFICES ASSUME Init PROVE IInv
  OBVIOUS
<1> USE DEF Init, LedgerInit
<1>1. TypeOK
  BY Facts, LedgerBounds, ImportBounds DEF TypeOK, Row, Unused, Job, Idle, At
<1>2. Duty /\ Locks /\ Looked /\ Ordered
  BY Facts DEF Duty, DutyOf, Locks, Looked, LookedOf, Ordered, OrderedOf, Requests,
     Engaged, AtWork, Holding, Idle
<1>3. Truth
  BY Facts DEF Truth, RowsTrue, RecordsTrue, JobTrue, Idle, Unused
<1> QED  BY <1>1, <1>2, <1>3 DEF IInv

\* The fields of a job, one at a time.
LEMMA JobFields ==
    ASSUME NEW j \in Job
    PROVE  /\ j.at \in At /\ j.on \in Entries \cup {"none"} /\ j.part \in {"creates", "rest", "itself"}
           /\ j.left \subseteq Entries /\ j.already \subseteq Entries
           /\ j.refused \subseteq Inspections /\ j.seen \subseteq Inspections /\ j.clear \subseteq Inspections
           /\ j.how \in {"ok", "replayed", "refused", "failed"}
           /\ \A at \in At : [j EXCEPT !.at = at] \in Job
           /\ \A at \in At, e \in Entries : [j EXCEPT !.at = at, !.on = e] \in Job
BY DEF Job

LEMMA IdleJob == Idle \in Job /\ Over \in Job
BY DEF Job, Idle, Over, At

\* What a request becomes in the middle of a half.
LEMMA JobMoves ==
    ASSUME TypeOK, NEW r \in Requests, NEW e \in Entries
    PROVE  /\ Passed(r, e) \in Job
           /\ AfterRefusal(r, e) \in Job
           /\ \A how \in {"ok", "replayed"} : AfterSuccess(r, how) \in Job
<1>1. job[r] \in Job
  BY DEF TypeOK
<1>2. Passed(r, e) \in Job
  BY <1>1 DEF Passed, Job, At
<1>3. AfterRefusal(r, e) \in Job
  <2>1. \A R \in SUBSET Inspections : [Passed(r, e) EXCEPT !.refused = Passed(r, e).refused \cup R] \in Job
    BY <1>2 DEF Job
  <2> QED  BY <2>1, IdleJob, Facts DEF AfterRefusal
<1>4. ASSUME NEW how \in {"ok", "replayed"} PROVE AfterSuccess(r, how) \in Job
  <2>1. [job[r] EXCEPT !.at = "record", !.how = how] \in Job
    BY <1>1 DEF Job, At
  <2> QED  BY <2>1, IdleJob DEF AfterSuccess
<1> QED  BY <1>2, <1>3, <1>4

LEMMA Becomes ==
    ASSUME TypeOK, NEW r \in Requests, NEW j \in Job, Become(r, j)
    PROVE  /\ job' \in [Requests -> Job] /\ job'[r] = j
           /\ \A q \in Requests : q # r => job'[q] = job[q]
BY DEF TypeOK, Become

LEMMA LedgerMoves ==
    ASSUME TypeOK, NEW k \in Keys, NEW p \in Prints
    PROVE  /\ ClaimOf(p) \in Row /\ Unused \in Row
           /\ Claim(k, p) \/ Steal(k, p) \/ Complete(k) \/ Release(k) \/ SweepLedger => ledger' \in [Keys -> Row]
<1>1. ClaimOf(p) \in Row /\ Unused \in Row
  BY LedgerBounds DEF TypeOK, ClaimOf, Unused, Row
<1>2. ledger[k] \in Row /\ \A s \in {"none", "done"} : [ledger[k] EXCEPT !.state = s] \in Row
  BY DEF TypeOK, Row
<1> QED  BY <1>1, <1>2 DEF TypeOK, Claim, Steal, Complete, Release, SweepLedger

LEMMA StartMoves ==
    ASSUME TypeOK, NEW r \in Requests
    PROVE  /\ \A at \in At : [job[r] EXCEPT !.at = at] \in Job
           /\ \A at \in At, e \in Entries : [job[r] EXCEPT !.at = at, !.on = e] \in Job
           /\ \A how \in {"ok", "refused", "failed"} : [job[r] EXCEPT !.at = "answer", !.how = how] \in Job
           /\ \A e \in Entries : [job[r] EXCEPT !.at = "turn", !.part = "itself", !.left = {e}] \in Job
           /\ \A I \in SUBSET Inspections :
                 /\ [job[r] EXCEPT !.at = "judge", !.seen = I] \in Job
                 /\ [job[r] EXCEPT !.at = "begin", !.clear = I] \in Job
                 /\ [job[r] EXCEPT !.at = "write", !.clear = I] \in Job
           /\ \A E, F \in SUBSET Entries : [job[r] EXCEPT !.at = "turn", !.left = E, !.already = F] \in Job
           /\ [Idle EXCEPT !.at = "begin", !.part = "rest"] \in Job
<1>1. job[r] \in Job
  BY DEF TypeOK
<1>2. [Idle EXCEPT !.at = "begin", !.part = "rest"] \in Job
  BY DEF Idle, Job, At
<1>3. \A at \in At, e \in Entries : [job[r] EXCEPT !.at = at, !.on = e] \in Job
  BY <1>1, JobFields
<1>4. \A how \in {"ok", "refused", "failed"} : [job[r] EXCEPT !.at = "answer", !.how = how] \in Job
  BY <1>1 DEF Job, At
<1>5. \A e \in Entries : [job[r] EXCEPT !.at = "turn", !.part = "itself", !.left = {e}] \in Job
  BY <1>1 DEF Job, At
<1>6. ASSUME NEW I \in SUBSET Inspections
      PROVE  /\ [job[r] EXCEPT !.at = "judge", !.seen = I] \in Job
             /\ [job[r] EXCEPT !.at = "begin", !.clear = I] \in Job
             /\ [job[r] EXCEPT !.at = "write", !.clear = I] \in Job
  BY <1>1 DEF Job, At
<1>7. \A E, F \in SUBSET Entries : [job[r] EXCEPT !.at = "turn", !.left = E, !.already = F] \in Job
  BY <1>1 DEF Job, At
<1> QED  BY <1>1, <1>2, <1>3, <1>4, <1>5, <1>6, <1>7, JobFields

\* Any step of a request leaves the jobs typed and those of the others alone.
RequestStep(r) ==
    \/ StartDirect(r) \/ StartImport(r) \/ Look(r) \/ Judge(r) \/ Begin(r) \/ Fill(r)
    \/ ReadClaim(r) \/ StealClaim(r) \/ Route(r) \/ Write(r) \/ Answer(r) \/ Record(r)
    \/ EndHalf(r) \/ Die(r)
    \/ \E e \in Entries : Skip(r, e) \/ Block(r, e) \/ ClaimEntry(r, e)

LEMMA OneBecomes ==
    ASSUME TypeOK, Duty, NEW r \in Requests, RequestStep(r)
    PROVE  \E j \in Job : Become(r, j)
<1>0. job[r] \in Job /\ (Engaged(r) => job[r].on \in Entries)
  BY DEF Duty, DutyOf, TypeOK, Job
<1>1. CASE StartDirect(r)
  BY <1>1, StartMoves, Facts DEF StartDirect
<1>2. CASE StartImport(r)
  BY <1>2, StartMoves DEF StartImport, Step, At
<1>3. CASE Look(r)
  BY <1>3, StartMoves, IdleJob DEF Look, Stop, Present
<1>4. CASE Judge(r)
  BY <1>4, StartMoves, IdleJob DEF Judge, Stop
<1>5. ASSUME Begin(r), r \in Imports PROVE \E j \in Job : Become(r, j)
  BY <1>5, StartMoves, Facts DEF Begin, Half
<1>6. CASE Fill(r)
  BY <1>6, StartMoves, IdleJob DEF Fill, Stop
<1>7. CASE ReadClaim(r)
  BY <1>0, <1>7, StartMoves, JobMoves, IdleJob DEF ReadClaim, Stop, Step, At, Engaged
<1>8. CASE StealClaim(r)
  BY <1>8, StartMoves, IdleJob DEF StealClaim, Stop, Step, At
<1>9. CASE Route(r)
  <2>1. \A at \in At : Step(r, at) => \E j \in Job : Become(r, j)
    BY StartMoves DEF Step
  <2>2. \A how \in {"ok", "refused", "failed"} : Decided(r, how) => \E j \in Job : Become(r, j)
    BY StartMoves DEF Decided
  <2>3. ASSUME NEW e \in Entries, RouteCreate(r, e) PROVE \E j \in Job : Become(r, j)
    <3>1. (IF r \in Directs THEN Inspections \ tombs ELSE job[r].clear) \in SUBSET Inspections
      BY <1>0, JobFields
    <3> QED  BY <2>2, <2>3, <3>1, StartMoves DEF RouteCreate
  <2> QED  BY <1>0, <1>9, <2>1, <2>2, <2>3 DEF Route, RouteUpdate, RouteComplete, Engaged, At
<1>10. CASE Write(r)
  BY <1>10, StartMoves DEF Write, FailsAfter, Decided
<1>11. CASE Answer(r)
  BY <1>0, <1>11, JobMoves, IdleJob DEF Answer, Stop, Engaged
<1>12. CASE Record(r)
  BY <1>0, <1>12, JobMoves DEF Record, Engaged
<1>13. CASE EndHalf(r)
  BY <1>13, StartMoves, IdleJob DEF EndHalf, Stop, Step, At
<1>14. CASE Die(r)
  BY <1>14, IdleJob DEF Die, Stop
<1>15. ASSUME NEW e \in Entries, Skip(r, e) \/ Block(r, e) \/ ClaimEntry(r, e) PROVE \E j \in Job : Become(r, j)
  BY <1>15, StartMoves, JobMoves DEF Skip, Block, ClaimEntry, At
<1>16. CASE Begin(r)
  BY <1>5, <1>16 DEF Begin, Duty, DutyOf, Requests
<1> QED  BY <1>1, <1>2, <1>3, <1>4, <1>6, <1>7, <1>8, <1>9, <1>10, <1>11, <1>12, <1>13, <1>14, <1>15, <1>16 DEF RequestStep

LEMMA JobsTyped ==
    ASSUME TypeOK, Duty, NEW r \in Requests, RequestStep(r)
    PROVE  job' \in [Requests -> Job] /\ \A q \in Requests : q # r => job'[q] = job[q]
BY OneBecomes, Becomes

\* The next-state relation by who takes the step.
LEMMA NextCases ==
    ASSUME [Next]_vars
    PROVE  \/ \E r \in Requests : RequestStep(r)
           \/ Tick \/ Forget \/ (\E i \in Inspections : Office(i) \/ DeleteRow(i))
           \/ UNCHANGED vars
BY DEF Next, RequestStep

LEMMA TypeStep == TypeOK /\ Duty /\ Truth /\ [Next]_vars => TypeOK'
<1> SUFFICES ASSUME TypeOK, Duty, Truth, [Next]_vars PROVE TypeOK'
  OBVIOUS
<1> USE DEF rows, history
<1>1. ASSUME NEW r \in Requests, RequestStep(r) PROVE TypeOK'
  <2> USE JobsTyped, <1>1
  <2>0. Engaged(r) => job[r].on \in Entries
    BY DEF Duty, DutyOf, TypeOK, Job
  <2>1. CASE StartDirect(r) \/ StartImport(r) \/ Look(r) \/ Judge(r) \/ Begin(r) \/ Fill(r)
    BY <2>1 DEF StartDirect, StartImport, Look, Judge, Begin, Fill, TypeOK
  <2>2. CASE ReadClaim(r)
    BY <2>2 DEF ReadClaim, TypeOK
  <2>3. CASE StealClaim(r)
    BY <2>0, <2>3, LedgerMoves, Facts DEF StealClaim, Engaged, TypeOK
  <2>4. CASE Route(r)
    <3>1. held' \in SUBSET Entries
      BY <2>0, <2>4 DEF Route, RouteCreate, RouteUpdate, RouteComplete, Engaged, TypeOK
    <3> QED  BY <2>4, <3>1 DEF Route, TypeOK
  <2>5. CASE Write(r)
    <3> DEFINE e == job[r].on
    <3>0. e \in Entries
      BY <2>0, <2>5 DEF Write, Engaged
    <3>1. status' \in [Inspections -> {"none", "open", "completed", "cancelled"}]
      BY <2>5 DEF Write, WriteRow, TypeOK
    <3>2. effects' \in [Entries -> 0..2]
      <4>1. effects[e] < 2 => effects[e] + 1 \in 0..2
        BY <3>0 DEF TypeOK
      <4> QED  BY <2>5, <4>1 DEF Write, TypeOK
    <3>3. itself' \in SUBSET Entries /\ held' \in SUBSET Entries
      BY <2>5, <3>0 DEF Write, TypeOK
    <3>4. torn' \in SUBSET Entries /\ spent' \in [faults : 0..MaxFaults, office : 0..MaxOffice]
      BY <2>5, <3>0, ImportBounds DEF Write, FailsAfter, TypeOK
    <3> QED  BY <2>5, <3>1, <3>2, <3>3, <3>4 DEF Write, TypeOK
  <2>6. CASE Answer(r)
    BY <2>0, <2>6, LedgerMoves, Facts DEF Answer, Engaged, TypeOK
  <2>7. CASE Record(r)
    <3>1. recorded' \in [Entries -> 0..Days]
      <4>1. today \in 0..Days
        BY LedgerBounds DEF TypeOK
      <4>2. recorded' = [recorded EXCEPT ![job[r].on] = IF recorded[job[r].on] = 0 THEN today ELSE recorded[job[r].on]]
        BY <2>7 DEF Record
      <4> QED  BY <4>1, <4>2 DEF TypeOK
    <3> QED  BY <2>7, <3>1 DEF Record, TypeOK
  <2>8. CASE EndHalf(r)
    BY <2>8, LedgerBounds DEF EndHalf, TypeOK
  <2>9. CASE Die(r)
    <3>1. spent' \in [faults : 0..MaxFaults, office : 0..MaxOffice]
      BY <2>9, ImportBounds DEF Die, TypeOK
    <3>2. torn' \in SUBSET Entries
      BY <2>0, <2>9 DEF Die, Engaged, TypeOK
    <3> QED  BY <2>9, <3>1, <3>2 DEF Die, TypeOK
  <2>10. CASE \E e \in Entries : Skip(r, e) \/ Block(r, e) \/ ClaimEntry(r, e)
    BY <2>10, LedgerMoves, Facts DEF Skip, Block, ClaimEntry, TypeOK
  <2> QED  BY <1>1, <2>1, <2>2, <2>3, <2>4, <2>5, <2>6, <2>7, <2>8, <2>9, <2>10 DEF RequestStep
<1>2. CASE Tick
  BY <1>2, LedgerBounds DEF Tick, TypeOK
<1>3. CASE Forget
  <2>1. ledger' \in [Keys -> Row]
    <3>1. Unused \in Row
      BY LedgerBounds DEF Unused, Row
    <3> QED  BY <1>3, <3>1 DEF Forget, SweepLedger, TypeOK
  <2>2. forgotten' \in SUBSET Entries
    <3>1. \A k \in Keys : ledger[k].state = "done" => ledger[k].print \in Entries
      BY DEF Truth, RowsTrue
    <3> QED  BY <1>3, <3>1 DEF Forget, Swept, TypeOK
  <2> QED  BY <1>3, <2>1, <2>2 DEF Forget, TypeOK
<1>4. ASSUME NEW i \in Inspections, Office(i) \/ DeleteRow(i) PROVE TypeOK'
  <2>1. spent' \in [faults : 0..MaxFaults, office : 0..MaxOffice]
    BY <1>4, ImportBounds DEF Office, DeleteRow, TypeOK
  <2>2. status' \in [Inspections -> {"none", "open", "completed", "cancelled"}] /\ tombs' \in SUBSET Inspections
    BY <1>4 DEF Office, DeleteRow, TypeOK
  <2> QED  BY <1>4, <2>1, <2>2 DEF Office, DeleteRow, TypeOK
<1>5. CASE UNCHANGED vars
  BY <1>5 DEF vars, TypeOK
<1> QED  BY <1>1, <1>2, <1>3, <1>4, <1>5, NextCases

-----------------------------------------------------------------------------
\* Duty

LEMMA DutyStep ==
    ASSUME TypeOK, Duty, NEW r \in Requests, RequestStep(r)
    PROVE  DutyOf(r)'
<1>0. job[r] \in Job /\ DutyOf(r) /\ job \in [Requests -> Job]
  BY DEF Duty, TypeOK
<1>1. CASE job'[r] = Over
  BY <1>1 DEF DutyOf, Engaged, AtWork, Over, Idle
<1>2. CASE StartDirect(r)
  <2>1. PICK e \in Entries : Become(r, [job[r] EXCEPT !.at = "turn", !.part = "itself", !.left = {e}])
    BY <1>2, Facts DEF StartDirect
  <2>2. job'[r] = [job[r] EXCEPT !.at = "turn", !.part = "itself", !.left = {e}]
    BY <2>1, <1>0 DEF Become
  <2>3. job'[r].at = "turn" /\ job'[r].part = "itself" /\ job'[r].left = {e}
    BY <2>2, <1>0 DEF Job
  <2> QED  BY <1>2, <2>3, Facts DEF StartDirect, DutyOf, Engaged, AtWork
<1>3. CASE StartImport(r)
  BY <1>0, <1>3, Facts DEF StartImport, Step, Become, DutyOf, Engaged, AtWork, At, Job
<1>4. CASE Look(r)
  <2>1. CASE Become(r, [job[r] EXCEPT !.at = "judge", !.seen = Present])
    BY <1>0, <1>4, <2>1, Facts DEF Look, Become, DutyOf, Engaged, AtWork, Job
  <2> QED  BY <1>0, <1>1, <1>4, <2>1 DEF Look, Stop, Become
<1>5. CASE Judge(r)
  <2>1. CASE Become(r, [job[r] EXCEPT !.at = "begin", !.clear = Inspections \ tombs])
    BY <1>0, <1>5, <2>1, Facts DEF Judge, Become, DutyOf, Engaged, AtWork, Job
  <2> QED  BY <1>0, <1>1, <1>5, <2>1 DEF Judge, Stop, Become
<1>6. CASE Begin(r)
  BY <1>0, <1>6, Facts DEF Begin, Become, DutyOf, Engaged, AtWork, Job
<1>7. CASE Fill(r)
  <2>1. CASE Become(r, [Idle EXCEPT !.at = "begin", !.part = "rest"])
    BY <1>0, <1>7, <2>1, Facts DEF Fill, Become, DutyOf, Engaged, AtWork, Job, Idle
  <2> QED  BY <1>0, <1>1, <1>7, <2>1 DEF Fill, Stop, Become
<1>8. ASSUME NEW e \in Entries, Become(r, Passed(r, e)), AtWork(r) PROVE DutyOf(r)'
  BY <1>0, <1>8, Facts DEF Passed, Become, DutyOf, Engaged, AtWork, Job
<1>9. ASSUME NEW e \in Entries, Become(r, AfterRefusal(r, e)), AtWork(r) PROVE DutyOf(r)'
  <2>1. job'[r] = AfterRefusal(r, e)
    BY <1>0, <1>9 DEF Become
  <2>2. CASE job[r].part = "rest"
    BY <1>0, <1>9, <2>1, <2>2, Facts DEF AfterRefusal, Passed, DutyOf, Engaged, AtWork,
       Job
  <2> QED  BY <1>1, <2>1, <2>2 DEF AfterRefusal
<1>10. ASSUME NEW how \in {"ok", "replayed"}, Become(r, AfterSuccess(r, how)), Engaged(r) PROVE DutyOf(r)'
  <2>1. job'[r] = AfterSuccess(r, how)
    BY <1>0, <1>10 DEF Become
  <2>2. CASE r \in Imports
    BY <1>0, <1>10, <2>1, <2>2, Facts DEF AfterSuccess, DutyOf, Engaged, AtWork, Job
  <2> QED  BY <1>1, <2>1, <2>2 DEF AfterSuccess
<1>11. ASSUME NEW at \in {"steal", "route", "write"}, Step(r, at), Engaged(r) PROVE DutyOf(r)'
  BY <1>0, <1>11, Facts DEF Step, Become, DutyOf, Engaged, AtWork, At, Job
<1>12. ASSUME NEW how \in {"ok", "refused", "failed"}, Decided(r, how), Engaged(r) PROVE DutyOf(r)'
  BY <1>0, <1>12, Facts DEF Decided, Become, DutyOf, Engaged, AtWork, At, Job
<1>13. Engaged(r) => job[r].on \in Entries
  BY <1>0 DEF DutyOf, Job
<1>14. CASE ReadClaim(r)
  BY <1>0, <1>1, <1>9, <1>10, <1>11, <1>13, <1>14 DEF ReadClaim, Stop, Become, Engaged,
     AtWork
<1>15. CASE StealClaim(r)
  BY <1>0, <1>1, <1>11, <1>15 DEF StealClaim, Stop, Become, Engaged
<1>16. CASE Route(r)
  <2>1. ASSUME NEW e \in Entries, RouteCreate(r, e) PROVE DutyOf(r)'
    <3>1. CASE job'[r] = [job[r] EXCEPT !.at = "write", !.clear = IF r \in Directs THEN Inspections \ tombs ELSE job[r].clear]
      BY <1>0, <1>16, <3>1, Facts DEF Route, DutyOf, Engaged, AtWork, Job
    <3> QED  BY <1>0, <1>12, <1>16, <2>1, <3>1 DEF Route, RouteCreate, Become, Engaged
  <2> QED  BY <1>11, <1>12, <1>13, <1>16, <2>1 DEF Route, RouteUpdate, RouteComplete, Engaged
<1>17. CASE Write(r)
  BY <1>12, <1>17 DEF Write, FailsAfter, Engaged
<1>18. CASE Answer(r)
  BY <1>0, <1>1, <1>9, <1>10, <1>13, <1>18 DEF Answer, Stop, Become, Engaged, AtWork
<1>19. CASE Record(r)
  BY <1>8, <1>13, <1>19 DEF Record, Engaged, AtWork
<1>20. CASE EndHalf(r)
  BY <1>0, <1>1, <1>20, Facts DEF EndHalf, Step, Stop, Become, DutyOf, Engaged, AtWork,
     At, Job
<1>21. CASE Die(r)
  BY <1>0, <1>1, <1>21 DEF Die, Stop, Become
<1>22. ASSUME NEW e \in Entries, Skip(r, e) \/ Block(r, e) PROVE DutyOf(r)'
  BY <1>8, <1>22 DEF Skip, Block, Head, AtWork
<1>23. ASSUME NEW e \in Entries, ClaimEntry(r, e) PROVE DutyOf(r)'
  <2>1. \E at \in {"route", "conflict"} : job'[r] = [job[r] EXCEPT !.at = at, !.on = e]
    BY <1>0, <1>23 DEF ClaimEntry, Become
  <2> QED  BY <1>0, <1>23, <2>1, Facts DEF ClaimEntry, Head, DutyOf, Engaged, AtWork, Job
<1> QED
  BY <1>2, <1>3, <1>4, <1>5, <1>6, <1>7, <1>14, <1>15, <1>16, <1>17, <1>18, <1>19, <1>20,
     <1>21, <1>22, <1>23
     DEF RequestStep

-----------------------------------------------------------------------------
\* Locks

\* A holder lets its row go, with an answer in it or without a trace.
Drops(r) ==
    /\ Holding(r) /\ ~Holding(r)'
    /\ \/ job[r].at = "answer" /\ job[r].how = "ok" /\ Complete(KeyOf[job[r].on])
       \/ Release(KeyOf[job[r].on])

\* What a step does to the ledger, and whether its request then holds a row.
LEMMA LockMoves ==
    ASSUME TypeOK, Duty, NEW r \in Requests, RequestStep(r)
    PROVE  /\ today' = today
           /\ \/ UNCHANGED ledger /\ (Holding(r)' => Holding(r) /\ job'[r].on = job[r].on)
              \/ \E e \in Entries : job'[r].on = e /\ (Claim(KeyOf[e], e) \/ Steal(KeyOf[e], e))
              \/ Drops(r)
<1> DEFINE Lock == \/ UNCHANGED ledger /\ (Holding(r)' => Holding(r) /\ job'[r].on = job[r].on)
                   \/ \E e \in Entries : job'[r].on = e /\ (Claim(KeyOf[e], e) \/ Steal(KeyOf[e], e))
                   \/ Drops(r)
<1>0. job[r] \in Job /\ job \in [Requests -> Job] /\ (Engaged(r) => job[r].on \in Entries)
  BY DEF Duty, DutyOf, TypeOK, Job
<1>1. today' = today
  BY DEF RequestStep, StartDirect, StartImport, Look, Judge, Begin, Fill, ReadClaim,
     StealClaim, Route, Write,
         Answer, Record, EndHalf, Die, Skip, Block, ClaimEntry
<1>4. ASSUME NEW e \in Entries, Become(r, Passed(r, e)) PROVE ~Holding(r)'
  BY <1>0, <1>4 DEF Passed, Become, Holding, Job
<1>5. ASSUME NEW e \in Entries, Become(r, AfterRefusal(r, e)) PROVE ~Holding(r)'
  <2>1. job'[r] = AfterRefusal(r, e)
    BY <1>0, <1>5 DEF Become
  <2>2. CASE job[r].part = "rest"
    BY <1>0, <2>1, <2>2 DEF AfterRefusal, Passed, Holding, Job
  <2>3. CASE job[r].part # "rest"
    BY <2>1, <2>3 DEF AfterRefusal, Holding, Over, Idle
  <2> QED  BY <2>2, <2>3
<1>6. ASSUME NEW how \in {"ok", "replayed"}, Become(r, AfterSuccess(r, how)) PROVE ~Holding(r)'
  <2>1. job'[r] = AfterSuccess(r, how)
    BY <1>0, <1>6 DEF Become
  <2>2. CASE r \in Imports
    BY <1>0, <2>1, <2>2 DEF AfterSuccess, Holding, Job
  <2>3. CASE r \notin Imports
    BY <2>1, <2>3 DEF AfterSuccess, Holding, Over, Idle
  <2> QED  BY <2>2, <2>3
<1>7. Stop(r) => ~Holding(r)'
  BY <1>0 DEF Stop, Become, Holding, Over, Idle
<1>8. CASE StartDirect(r)
  <2>1. PICK e \in Entries : Become(r, [job[r] EXCEPT !.at = "turn", !.part = "itself", !.left = {e}])
    BY <1>8, Facts DEF StartDirect
  <2> QED  BY <1>0, <1>8, <2>1 DEF StartDirect, Become, Holding, Job
<1>9. CASE StartImport(r)
  BY <1>0, <1>9 DEF StartImport, Step, Become, Holding, Job
<1>10. CASE Look(r)
  <2>1. CASE Become(r, [job[r] EXCEPT !.at = "judge", !.seen = Present])
    BY <1>0, <1>10, <2>1 DEF Look, Become, Holding, Job
  <2> QED  BY <1>7, <1>10, <2>1 DEF Look
<1>11. CASE Judge(r)
  <2>1. CASE Become(r, [job[r] EXCEPT !.at = "begin", !.clear = Inspections \ tombs])
    BY <1>0, <1>11, <2>1 DEF Judge, Become, Holding, Job
  <2> QED  BY <1>7, <1>11, <2>1 DEF Judge
<1>12. CASE Begin(r)
  BY <1>0, <1>12 DEF Begin, Become, Holding, Job
<1>13. CASE Fill(r)
  <2>1. CASE Become(r, [Idle EXCEPT !.at = "begin", !.part = "rest"])
    BY <1>0, <1>13, <2>1 DEF Fill, Become, Holding, Idle
  <2> QED  BY <1>7, <1>13, <2>1 DEF Fill
<1>14. CASE ReadClaim(r)
  <2>1. CASE Step(r, "steal")
    BY <1>0, <1>14, <2>1 DEF ReadClaim, Step, Become, Holding, Job
  <2> QED  BY <1>0, <1>5, <1>6, <1>7, <1>14, <2>1 DEF ReadClaim, Engaged
<1>15. CASE StealClaim(r)
  <2>1. CASE Step(r, "route") /\ Steal(KeyOf[job[r].on], job[r].on)
    BY <1>0, <1>15, <2>1 DEF StealClaim, Step, Become, Engaged, Job
  <2> QED  BY <1>7, <1>15, <2>1 DEF StealClaim
<1>16. CASE Route(r)
  <2>1. job'[r].on = job[r].on
    <3>1. \A at : Step(r, at) => job'[r].on = job[r].on
      BY <1>0 DEF Step, Become, Job
    <3>2. \A how : Decided(r, how) => job'[r].on = job[r].on
      BY <1>0 DEF Decided, Become, Job
    <3>3. ASSUME NEW e, RouteCreate(r, e) PROVE job'[r].on = job[r].on
      BY <1>0, <3>2, <3>3, ZenonT(40) DEF RouteCreate, Become, Job
    <3> QED  BY <1>16, <3>1, <3>2, <3>3 DEF Route, RouteUpdate, RouteComplete
  <2> QED  BY <1>16, <2>1 DEF Route, Holding
<1>17. CASE Write(r)
  <2>1. \E how : Become(r, [job[r] EXCEPT !.at = "answer", !.how = how])
    BY <1>17 DEF Write, FailsAfter, Decided
  <2>2. job'[r].on = job[r].on
    BY <1>0, <2>1 DEF Become, Job
  <2> QED  BY <1>17, <2>2 DEF Write, Holding
<1>18. CASE Answer(r)
  BY <1>0, <1>5, <1>6, <1>7, <1>18 DEF Answer, Engaged, Holding, Drops
<1>19. CASE Record(r)
  BY <1>0, <1>4, <1>19 DEF Record, Engaged
<1>20. CASE EndHalf(r)
  <2>1. CASE Step(r, "fill")
    BY <1>0, <1>20, <2>1 DEF EndHalf, Step, Become, Holding, Job
  <2> QED  BY <1>7, <1>20, <2>1 DEF EndHalf
<1>21. CASE Die(r)
  BY <1>7, <1>21 DEF Die
<1>22. ASSUME NEW e \in Entries, Skip(r, e) \/ Block(r, e) PROVE Lock
  BY <1>4, <1>22 DEF Skip, Block
<1>23. ASSUME NEW e \in Entries, ClaimEntry(r, e) PROVE Lock
  <2>1. CASE Claim(KeyOf[e], e) /\ Become(r, [job[r] EXCEPT !.at = "route", !.on = e])
    BY <1>0, <2>1 DEF Become, Job
  <2>2. CASE UNCHANGED ledger /\ Become(r, [job[r] EXCEPT !.at = "conflict", !.on = e])
    BY <1>0, <2>2 DEF Become, Holding, Job
  <2> QED  BY <1>23, <2>1, <2>2 DEF ClaimEntry
<1> QED
  BY <1>1, <1>8, <1>9, <1>10, <1>11, <1>12, <1>13, <1>14, <1>15, <1>16, <1>17, <1>18,
     <1>19, <1>20, <1>21,
     <1>22, <1>23 DEF RequestStep

LEMMA LockStep == IInv /\ [Next]_vars => Locks'
<1> SUFFICES ASSUME IInv, [Next]_vars PROVE Locks'
  OBVIOUS
<1>0. TypeOK /\ Duty /\ Locks /\ \A q \in Requests : Holding(q) => job[q].on \in Entries /\ KeyOf[job[q].on] \in Keys
  BY Facts DEF IInv, Duty, DutyOf, Engaged, Holding, TypeOK, Job
\* The row of a holder is of today.
<1>1. ASSUME NEW q \in Requests, Holding(q)
      PROVE  LET k == KeyOf[job[q].on] IN ledger[k] # Unused /\ ~Expired(k) /\ k \notin Swept
  <2> DEFINE k == KeyOf[job[q].on]
  <2>1. ledger[k] = ClaimOf(job[q].on)
    BY <1>0, <1>1 DEF Locks
  <2>2. ledger[k].state = "in_flight" /\ ledger[k].born = today
    BY <2>1 DEF ClaimOf
  <2>3. today \in Nat /\ ~(today + ClaimDays <= today) /\ ~(today + LedgerDays < today)
    BY <1>0, LedgerBounds DEF TypeOK
  <2>4. ledger[k] # Unused
    BY <2>2 DEF Unused
  <2> QED  BY <2>2, <2>3, <2>4 DEF Expired, Swept
<1>2. ASSUME NEW r \in Requests, RequestStep(r) PROVE Locks'
  <2>0. today' = today /\ \A q \in Requests : q # r => job'[q] = job[q]
    BY <1>0, <1>2, JobsTyped, LockMoves
  <2>1. CASE UNCHANGED ledger /\ (Holding(r)' => Holding(r) /\ job'[r].on = job[r].on)
    BY <1>0, <2>0, <2>1 DEF Locks, Holding, ClaimOf
  <2>2. ASSUME NEW e \in Entries, job'[r].on = e, Claim(KeyOf[e], e) \/ Steal(KeyOf[e], e) PROVE Locks'
    <3>1. \A q \in Requests : Holding(q) => KeyOf[job[q].on] # KeyOf[e]
      BY <1>1, <2>2 DEF Claim, Steal, Stealable
    <3>2. ledger' = [ledger EXCEPT ![KeyOf[e]] = ClaimOf(e)] /\ ledger \in [Keys -> Row] /\ KeyOf[e] \in Keys
      BY <1>0, <2>2, Facts DEF Claim, Steal, TypeOK
    <3> QED  BY <1>0, <2>0, <2>2, <3>1, <3>2 DEF Locks, Holding, ClaimOf
  <2>3. CASE Drops(r)
    <3>1. \A k \in Keys : k # KeyOf[job[r].on] => ledger'[k] = ledger[k]
      BY <1>0, <2>3 DEF Drops, Complete, Release, TypeOK
    <3>2. \A q \in Requests : Holding(q)' => Holding(q) /\ job'[q].on = job[q].on /\ KeyOf[job[q].on] # KeyOf[job[r].on]
      BY <1>0, <2>0, <2>3 DEF Drops, Locks, Holding
    <3> QED  BY <1>0, <2>0, <3>1, <3>2 DEF Locks, ClaimOf
  <2> QED  BY <1>0, <1>2, <2>1, <2>2, <2>3, LockMoves
<1>3. CASE Tick
  BY <1>3 DEF Tick, Resting, Locks, Holding
<1>4. CASE Forget
  BY <1>0, <1>1, <1>4 DEF Forget, SweepLedger, Locks, Holding, ClaimOf
<1>5. CASE (\E i \in Inspections : Office(i) \/ DeleteRow(i)) \/ UNCHANGED vars
  BY <1>0, <1>5 DEF Office, DeleteRow, vars, Locks, Holding, ClaimOf
<1> QED  BY <1>2, <1>3, <1>4, <1>5, NextCases

-----------------------------------------------------------------------------
\* Truth

\* What held stays so, or its inspection is marked as deleted.
LEMMA TruthGrows ==
    ASSUME TypeOK, Duty, [Next]_vars
    PROVE  /\ held \subseteq held' /\ tombs \subseteq tombs'
           /\ \A e : TookHold(e) => TookHold(e)'
           /\ \A i \in Inspections : Exists(i) => Exists(i)' \/ i \in tombs'
<1> USE DEF rows, history
<1>1. ASSUME NEW r \in Requests, RequestStep(r)
      PROVE  held \subseteq held' /\ tombs \subseteq tombs' /\ \A i \in Inspections : Exists(i) => Exists(i)'
  <2>1. CASE Write(r)
    <3>1. \A i \in Inspections : Exists(i) => Exists(i)'
      BY <2>1 DEF Write, WriteRow, Exists, TypeOK
    <3> QED  BY <2>1, <3>1 DEF Write
  <2>2. CASE Route(r)
    BY <2>2 DEF Route, RouteCreate, RouteUpdate, RouteComplete, Exists
  <2>3. CASE ~Write(r) /\ ~Route(r)
    BY <1>1, <2>3 DEF RequestStep, StartDirect, StartImport, Look, Judge, Begin, Fill, ReadClaim, StealClaim,
         Answer, Record, EndHalf, Die, Skip, Block, ClaimEntry, Exists
  <2> QED  BY <2>1, <2>2, <2>3
<1>2. CASE Tick \/ Forget \/ UNCHANGED vars
  BY <1>2 DEF Tick, Forget, vars, Exists, TookHold
<1>3. ASSUME NEW i \in Inspections, Office(i) \/ DeleteRow(i)
      PROVE  /\ held \subseteq held' /\ tombs \subseteq tombs'
             /\ \A j \in Inspections : Exists(j) => Exists(j)' \/ j \in tombs'
  <2>1. CASE Office(i)
    BY <2>1 DEF Office, Exists, TypeOK
  <2>2. CASE DeleteRow(i)
    BY <2>2 DEF DeleteRow, Exists, TypeOK
  <2> QED  BY <1>3, <2>1, <2>2
<1>4. held \subseteq held' /\ tombs \subseteq tombs' /\ \A i \in Inspections : Exists(i) => Exists(i)' \/ i \in tombs'
  BY <1>1, <1>2, <1>3, NextCases
<1> QED  BY <1>4 DEF TookHold

\* A stored answer is given to the request it was stored for, and to no other.
LEMMA VerdictDone ==
    ASSUME NEW k \in Keys, NEW p \in Prints, Verdict(k, p) = "done"
    PROVE  ledger[k].state = "done" /\ ledger[k].print = p
<1>1. CASE ledger[k] = Unused
  BY <1>1 DEF Verdict
<1>2. CASE ledger[k] # Unused /\ ledger[k].print # p
  BY <1>2 DEF Verdict
<1>3. CASE ledger[k] # Unused /\ ledger[k].print = p /\ ledger[k].state # "done"
  BY <1>3 DEF Verdict
<1> QED  BY <1>1, <1>2, <1>3

\* The request that takes the step.
LEMMA OwnTruth ==
    ASSUME IInv, NEW r \in Requests, RequestStep(r)
    PROVE  JobTrue(r)'
<1> USE DEF rows, history
<1>0. job[r] \in Job /\ job \in [Requests -> Job] /\ JobTrue(r) /\ (Engaged(r) => job[r].on \in Entries)
  BY DEF IInv, Truth, Duty, DutyOf, TypeOK, Job
<1>a. TypeOK /\ Duty /\ Locks /\ RowsTrue /\ RecordsTrue
  BY DEF IInv, Truth
<1>b. [Next]_vars
  BY DEF RequestStep, Next
<1>1. \A e : TookHold(e) => TookHold(e)'
  BY <1>a, <1>b, TruthGrows
\* Nothing new is said.
<1>2. ASSUME job'[r].already \subseteq job[r].already, job'[r].at \notin {"record", "answer", "write"}
      PROVE  JobTrue(r)'
  BY <1>0, <1>1, <1>2 DEF JobTrue
<1>3. CASE job'[r] = Over
  BY <1>3, <1>2 DEF Over, Idle
<1>4. Stop(r) => JobTrue(r)'
  BY <1>0, <1>3 DEF Stop, Become
<1>5. \A at \in {"look", "steal", "route", "fill"} : Step(r, at) => JobTrue(r)'
  BY <1>0, <1>2 DEF Step, Become, Job
<1>6. ASSUME NEW e \in Entries, Become(r, Passed(r, e)) PROVE JobTrue(r)'
  BY <1>0, <1>2, <1>6 DEF Passed, Become, Job
<1>7. ASSUME NEW e \in Entries, Become(r, AfterRefusal(r, e)) PROVE JobTrue(r)'
  <2>1. job'[r] = AfterRefusal(r, e)
    BY <1>0, <1>7 DEF Become
  <2>2. CASE job[r].part = "rest"
    BY <1>0, <1>2, <2>1, <2>2 DEF AfterRefusal, Passed, Job
  <2> QED  BY <1>3, <2>1, <2>2 DEF AfterRefusal
<1>8. ASSUME NEW how \in {"ok", "replayed"}, Become(r, AfterSuccess(r, how)), TookHold(job[r].on) PROVE JobTrue(r)'
  <2>1. job'[r] = AfterSuccess(r, how)
    BY <1>0, <1>8 DEF Become
  <2>2. CASE r \in Imports
    BY <1>0, <1>1, <1>8, <2>1, <2>2 DEF AfterSuccess, JobTrue, Job
  <2> QED  BY <1>3, <2>1, <2>2 DEF AfterSuccess
<1>9. ASSUME NEW how \in {"ok", "refused", "failed"}, Decided(r, how), 
             how = "ok" => job[r].on \in held' \/ Target[job[r].on] \in tombs'
      PROVE  JobTrue(r)'
  <2>1. job'[r] = [job[r] EXCEPT !.at = "answer", !.how = how]
    BY <1>0, <1>9 DEF Decided, Become
  <2>2. /\ job'[r].at = "answer" /\ job'[r].how = how /\ job'[r].already = job[r].already
        /\ job'[r].on = job[r].on
    BY <1>0, <2>1 DEF Job
  <2> QED  BY <1>0, <1>1, <1>9, <2>2 DEF JobTrue, TookHold
<1>10. CASE StartDirect(r)
  <2>1. PICK e \in Entries : Become(r, [job[r] EXCEPT !.at = "turn", !.part = "itself", !.left = {e}])
    BY <1>10, Facts DEF StartDirect
  <2> QED  BY <1>0, <1>2, <2>1 DEF Become, Job
<1>11. CASE Look(r)
  <2>1. CASE Become(r, [job[r] EXCEPT !.at = "judge", !.seen = Present])
    BY <1>0, <1>2, <2>1 DEF Become, Job
  <2> QED  BY <1>4, <1>11, <2>1 DEF Look
<1>12. CASE Judge(r)
  <2>1. CASE Become(r, [job[r] EXCEPT !.at = "begin", !.clear = Inspections \ tombs])
    BY <1>0, <1>2, <2>1 DEF Become, Job
  <2> QED  BY <1>4, <1>12, <2>1 DEF Judge
<1>13. CASE Begin(r)
  <2>1. Half(r, job[r].part) \subseteq Entries
    BY <1>a, <1>13, Facts DEF Begin, Duty, DutyOf, Half
  <2>2. /\ job'[r].at = "turn"
        /\ job'[r].already = {e \in Half(r, job[r].part) : recorded[e] # 0}
    BY <1>0, <1>13 DEF Begin, Become, Job
  <2> QED  BY <1>1, <1>a, <2>1, <2>2 DEF JobTrue, RecordsTrue
<1>14. CASE Fill(r)
  <2>1. CASE Become(r, [Idle EXCEPT !.at = "begin", !.part = "rest"])
    BY <1>0, <1>2, <2>1 DEF Become, Idle
  <2> QED  BY <1>4, <1>14, <2>1 DEF Fill
<1>15. CASE ReadClaim(r)
  <2>1. job[r].on \in Entries /\ KeyOf[job[r].on] \in Keys
    BY <1>0, <1>15, Facts DEF ReadClaim, Engaged
  <2>2. Verdict(KeyOf[job[r].on], job[r].on) = "done" => TookHold(job[r].on)
    BY <1>a, <2>1, VerdictDone, Facts DEF RowsTrue
  <2> QED  BY <1>4, <1>5, <1>7, <1>8, <1>15, <2>1, <2>2 DEF ReadClaim
<1>16. CASE StealClaim(r)
  BY <1>4, <1>5, <1>16 DEF StealClaim
<1>17. CASE Route(r)
  <2>0. job[r].on \in Entries /\ Target[job[r].on] \in Inspections
    BY <1>0, <1>17, Facts DEF Route, Engaged
  <2>1. CASE \E how \in {"refused", "failed"} : Decided(r, how)
    BY <1>9, <2>1
  <2>2. CASE Decided(r, "ok") /\ job[r].on \in held'
    BY <1>9, <2>2
  <2>3. CASE Step(r, "write") /\ Exists(Target[job[r].on])
    <3>1. job'[r] = [job[r] EXCEPT !.at = "write"]
      BY <1>0, <2>3 DEF Step, Become
    <3>2. job'[r].at = "write" /\ job'[r].already = job[r].already /\ job'[r].on = job[r].on
      BY <1>0, <3>1 DEF Job
    <3> QED  BY <1>0, <1>1, <1>a, <1>b, <2>0, <2>3, <3>2, TruthGrows DEF JobTrue
  <2>4. CASE /\ Op[job[r].on] = "create"
             /\ Become(r, [job[r] EXCEPT !.at = "write",
                                         !.clear = IF r \in Directs THEN Inspections \ tombs ELSE job[r].clear])
    <3>1. job'[r].at = "write" /\ job'[r].already = job[r].already /\ job'[r].on = job[r].on
      BY <1>0, <2>4 DEF Become, Job
    <3> QED  BY <1>0, <1>1, <2>4, <3>1 DEF JobTrue
  <2>5. CASE RouteCreate(r, job[r].on)
    BY <2>1, <2>2, <2>4, <2>5 DEF RouteCreate
  <2>6. CASE RouteUpdate(r, job[r].on) \/ RouteComplete(r, job[r].on)
    BY <2>1, <2>2, <2>3, <2>6 DEF RouteUpdate, RouteComplete, Exists
  <2> QED  BY <1>17, <2>1, <2>5, <2>6 DEF Route
<1>18. CASE Write(r)
  <2>1. job[r].on \in held' \/ Target[job[r].on] \in tombs'
    BY <1>0, <1>18, Facts DEF Write, JobTrue, TakesHold, Engaged
  <2> QED  BY <1>9, <1>18, <2>1 DEF Write, FailsAfter
<1>19. CASE Answer(r)
  BY <1>0, <1>4, <1>7, <1>8, <1>19 DEF Answer, JobTrue, Engaged
<1>20. CASE Record(r)
  BY <1>0, <1>6, <1>20 DEF Record, Engaged
<1>21. CASE EndHalf(r)
  BY <1>4, <1>5, <1>21 DEF EndHalf
<1>22. CASE Die(r) \/ StartImport(r)
  BY <1>4, <1>5, <1>22 DEF Die, StartImport
<1>23. ASSUME NEW e \in Entries, Skip(r, e) \/ Block(r, e) PROVE JobTrue(r)'
  BY <1>6, <1>23 DEF Skip, Block
<1>24. ASSUME NEW e \in Entries, ClaimEntry(r, e) PROVE JobTrue(r)'
  <2>1. \E at \in {"route", "conflict"} : job'[r] = [job[r] EXCEPT !.at = at, !.on = e]
    BY <1>0, <1>24 DEF ClaimEntry, Become
  <2> QED  BY <1>0, <1>2, <2>1 DEF Job
<1> QED
  BY <1>10, <1>11, <1>12, <1>13, <1>14, <1>15, <1>16, <1>17, <1>18, <1>19, <1>20, <1>21,
     <1>22, <1>23, <1>24
     DEF RequestStep

LEMMA TruthStep == IInv /\ [Next]_vars => Truth'
<1> SUFFICES ASSUME IInv, [Next]_vars PROVE Truth'
  OBVIOUS
<1>0. TypeOK /\ Duty /\ Locks /\ RowsTrue /\ RecordsTrue /\ \A q \in Requests : JobTrue(q)
  BY DEF IInv, Truth
<1>1. /\ \A e : TookHold(e) => TookHold(e)'
      /\ tombs \subseteq tombs' /\ \A i \in Inspections : Exists(i) => Exists(i)' \/ i \in tombs'
  BY <1>0, TruthGrows
\* Whose job stays the same.
<1>2. ASSUME NEW q \in Requests, job'[q] = job[q] PROVE JobTrue(q)'
  <2>1. job[q].at = "write" => Target[job[q].on] \in Inspections
    BY <1>0, Facts DEF Duty, DutyOf, Engaged, TypeOK, Job
  <2> QED  BY <1>0, <1>1, <1>2, <2>1 DEF JobTrue
<1>3. ASSUME NEW r \in Requests, RequestStep(r) PROVE Truth'
  <2>1. \A q \in Requests : JobTrue(q)'
    <3>1. JobTrue(r)'
      BY <1>3, OwnTruth
    <3>2. \A q \in Requests : q # r => job'[q] = job[q]
      BY <1>0, <1>3, JobsTyped
    <3> QED  BY <1>2, <3>1, <3>2
  <2>2. RowsTrue'
    <3>0. Holding(r) => job[r].on \in Entries /\ KeyOf[job[r].on] \in Keys
      BY <1>0, Facts DEF Duty, DutyOf, Engaged, Holding, TypeOK, Job
    <3>1. CASE UNCHANGED ledger
      BY <1>0, <1>1, <3>1 DEF RowsTrue
    <3>2. ASSUME NEW e \in Entries, Claim(KeyOf[e], e) \/ Steal(KeyOf[e], e) PROVE RowsTrue'
      BY <1>0, <1>1, <3>2, Facts DEF RowsTrue, Claim, Steal, ClaimOf, TypeOK
    <3>3. CASE Drops(r) /\ Release(KeyOf[job[r].on])
      BY <1>0, <1>1, <3>3 DEF RowsTrue, Release, Unused, TypeOK
    <3>4. CASE Drops(r) /\ job[r].at = "answer" /\ job[r].how = "ok" /\ Complete(KeyOf[job[r].on])
      <4>1. ledger[KeyOf[job[r].on]].print = job[r].on
        <5>1. ledger[KeyOf[job[r].on]] = ClaimOf(job[r].on)
          BY <1>0, <3>4 DEF Locks, Drops
        <5> QED  BY <5>1 DEF ClaimOf
      <4>2. TookHold(job[r].on)
        BY <1>0, <3>4 DEF JobTrue
      <4>3. \A k \in Keys : /\ ledger'[k].print = ledger[k].print
                            /\ k # KeyOf[job[r].on] => ledger'[k] = ledger[k]
        BY <1>0, <3>4 DEF Complete, TypeOK, Row
      <4> QED  BY <1>0, <1>1, <3>0, <3>4, <4>1, <4>2, <4>3 DEF RowsTrue, Drops
    <3> QED  BY <1>0, <1>3, <3>1, <3>2, <3>3, <3>4, LockMoves DEF Drops
  <2>3. RecordsTrue'
    <3>1. CASE Record(r)
      BY <1>0, <1>1, <3>1 DEF Record, RecordsTrue, JobTrue, TypeOK
    <3>2. CASE EndHalf(r)
      BY <1>0, <1>1, <3>2 DEF EndHalf, RecordsTrue
    <3>3. CASE ~Record(r) /\ ~EndHalf(r)
      <4>1. recorded' = recorded
        BY <1>3, <3>3 DEF RequestStep, StartDirect, StartImport, Look, Judge, Begin, Fill, ReadClaim, StealClaim,
             Route, Write, Answer, Die, Skip, Block, ClaimEntry
      <4> QED  BY <1>0, <1>1, <4>1 DEF RecordsTrue
    <3> QED  BY <3>1, <3>2, <3>3
  <2> QED  BY <2>1, <2>2, <2>3 DEF Truth
<1>4. CASE Tick \/ Forget \/ (\E i \in Inspections : Office(i) \/ DeleteRow(i)) \/ UNCHANGED vars
  <2>1. job' = job /\ recorded' = recorded
    BY <1>4 DEF Tick, Forget, Office, DeleteRow, vars
  <2>2. RowsTrue'
    <3>1. CASE Forget
      BY <1>0, <1>1, <3>1 DEF Forget, SweepLedger, RowsTrue, Unused
    <3>2. CASE ~Forget
      <4>1. ledger' = ledger
        BY <1>4, <3>2 DEF Tick, Office, DeleteRow, vars
      <4> QED  BY <1>0, <1>1, <4>1 DEF RowsTrue
    <3> QED  BY <3>1, <3>2
  <2> QED  BY <1>0, <1>1, <1>2, <2>1, <2>2 DEF Truth, RecordsTrue
<1> QED  BY <1>3, <1>4, NextCases

-----------------------------------------------------------------------------
\* Looked and Ordered

\* What a request that is at work does to its job, for both.
LEMMA WorkMoves ==
    ASSUME TypeOK, Duty, NEW r \in Requests, RequestStep(r), AtWork(r)'
    PROVE  \/ Begin(r)
           \/ StartDirect(r)
           \/ \E e \in Entries : ClaimEntry(r, e)
           \/ \E e \in Entries : Become(r, Passed(r, e)) /\ (Skip(r, e) \/ Block(r, e) \/ (Record(r) /\ e = job[r].on))
           \/ Engaged(r) /\ job[r].part = "rest" /\ Become(r, AfterRefusal(r, job[r].on))
           \/ Route(r) /\ job[r].on \in Entries /\ Become(r, [job[r] EXCEPT !.at = "write",
                    !.clear = IF r \in Directs THEN Inspections \ tombs ELSE job[r].clear]) /\ RouteCreate(r, job[r].on)
           \/ /\ Engaged(r) /\ Engaged(r)'
              /\ \E at, how : job'[r] = [job[r] EXCEPT !.at = at, !.how = how]
              /\ job'[r].at = "write" => Op[job[r].on] # "create"
<1>0. job[r] \in Job /\ job \in [Requests -> Job] /\ (Engaged(r) => job[r].on \in Entries)
  BY DEF Duty, DutyOf, TypeOK, Job
<1>1. job'[r] # Over
  BY DEF Over, Idle, AtWork, Engaged
<1>2. ~Stop(r)
  BY <1>0, <1>1 DEF Stop, Become
<1>3. ASSUME NEW at \in {"steal", "route"}, Step(r, at), Engaged(r)
      PROVE  /\ Engaged(r)' /\ \E a, how : job'[r] = [job[r] EXCEPT !.at = a, !.how = how]
             /\ job'[r].at # "write"
  <2>1. job'[r] = [job[r] EXCEPT !.at = at]
    BY <1>0, <1>3 DEF Step, Become
  <2>2. job'[r] = [job[r] EXCEPT !.at = at, !.how = job[r].how]
    BY <1>0, <2>1 DEF Job
  <2>3. job'[r].at = at
    BY <1>0, <2>1 DEF Job
  <2> QED  BY <1>3, <2>2, <2>3 DEF Engaged
<1>4. ASSUME NEW how, Decided(r, how)
      PROVE  /\ Engaged(r)' /\ \E a, h : job'[r] = [job[r] EXCEPT !.at = a, !.how = h]
             /\ job'[r].at # "write"
  BY <1>0, <1>4 DEF Decided, Become, Engaged, Job
<1>5. ASSUME NEW how \in {"ok", "replayed"}, Become(r, AfterSuccess(r, how)), Engaged(r)
      PROVE  /\ Engaged(r)' /\ \E a, h : job'[r] = [job[r] EXCEPT !.at = a, !.how = h]
             /\ job'[r].at # "write"
  <2>1. job'[r] = [job[r] EXCEPT !.at = "record", !.how = how]
    BY <1>0, <1>1, <1>5 DEF AfterSuccess, Become
  <2>2. job'[r].at = "record"
    BY <1>0, <2>1 DEF Job
  <2> QED  BY <2>1, <2>2 DEF Engaged
<1>6. ASSUME Become(r, AfterRefusal(r, job[r].on)) PROVE job[r].part = "rest"
  BY <1>0, <1>1, <1>6 DEF AfterRefusal, Become
<1>7. ~StartImport(r) /\ ~Look(r) /\ ~Judge(r) /\ ~Fill(r) /\ ~EndHalf(r) /\ ~Die(r)
  <2>1. ~StartImport(r) /\ ~EndHalf(r)
    BY <1>0, <1>2 DEF StartImport, EndHalf, Step, Become, AtWork, Engaged, Job
  <2>2. ~Look(r)
    <3>1. ASSUME Become(r, [job[r] EXCEPT !.at = "judge", !.seen = Present]) PROVE FALSE
      <4>1. job'[r].at = "judge"
        BY <1>0, <3>1 DEF Become, Job
      <4> QED  BY <4>1 DEF AtWork, Engaged
    <3> QED  BY <1>2, <3>1 DEF Look
  <2>3. ~Judge(r)
    <3>1. ASSUME Become(r, [job[r] EXCEPT !.at = "begin", !.clear = Inspections \ tombs]) PROVE FALSE
      <4>1. job'[r].at = "begin"
        BY <1>0, <3>1 DEF Become, Job
      <4> QED  BY <4>1 DEF AtWork, Engaged
    <3> QED  BY <1>2, <3>1 DEF Judge
  <2>4. ~Fill(r)
    <3>1. ~Become(r, [Idle EXCEPT !.at = "begin", !.part = "rest"])
      BY <1>0 DEF Become, AtWork, Engaged, Idle
    <3> QED  BY <1>2, <3>1 DEF Fill
  <2> QED  BY <1>2, <2>1, <2>2, <2>3, <2>4 DEF Die
<1>8. CASE ReadClaim(r)
  BY <1>0, <1>2, <1>3, <1>5, <1>6, <1>8 DEF ReadClaim, Engaged
<1>9. CASE StealClaim(r)
  BY <1>2, <1>3, <1>9 DEF StealClaim, Engaged
<1>10. CASE Route(r)
  <2>0. Engaged(r) /\ job[r].on \in Entries
    BY <1>0, <1>10 DEF Route, Engaged
  <2>1. CASE \E how : Decided(r, how)
    BY <1>4, <2>0, <2>1
  <2>2. CASE Step(r, "write") /\ Op[job[r].on] # "create"
    <3>1. job'[r] = [job[r] EXCEPT !.at = "write"]
      BY <1>0, <2>2 DEF Step, Become
    <3>2. job'[r] = [job[r] EXCEPT !.at = "write", !.how = job[r].how]
      BY <1>0, <3>1 DEF Job
    <3>3. Engaged(r)'
      BY <1>0, <3>1 DEF Engaged, Job
    <3> QED  BY <2>0, <2>2, <3>2, <3>3
  <2>3. CASE RouteCreate(r, job[r].on)
    BY <1>10, <2>0, <2>1, <2>3 DEF RouteCreate
  <2>4. CASE RouteUpdate(r, job[r].on) \/ RouteComplete(r, job[r].on)
    BY <2>1, <2>2, <2>4 DEF RouteUpdate, RouteComplete
  <2> QED  BY <1>10, <2>1, <2>3, <2>4 DEF Route
<1>11. CASE Write(r)
  BY <1>4, <1>11 DEF Write, FailsAfter, Engaged
<1>12. CASE Answer(r)
  BY <1>2, <1>5, <1>6, <1>12 DEF Answer, Engaged
<1>13. CASE Record(r)
  BY <1>0, <1>13 DEF Record, Engaged
<1>14. CASE \E e \in Entries : Skip(r, e) \/ Block(r, e)
  BY <1>14 DEF Skip, Block
<1> QED  BY <1>7, <1>8, <1>9, <1>10, <1>11, <1>12, <1>13, <1>14 DEF RequestStep

LEMMA OwnLooked ==
    ASSUME IInv, NEW r \in Requests, RequestStep(r)
    PROVE  LookedOf(r)'
<1>0. /\ job[r] \in Job /\ job \in [Requests -> Job] /\ LookedOf(r) /\ DutyOf(r)
      /\ (Engaged(r) => job[r].on \in Entries)
  BY DEF IInv, Looked, Duty, DutyOf, TypeOK, Job
<1>a. TypeOK /\ Duty
  BY DEF IInv
\* What it has looked at is kept while it creates.
<1>1. ASSUME AtWork(r) \/ job[r].at = "begin", job'[r].part = job[r].part,
             job'[r].clear = job[r].clear, job'[r].seen = job[r].seen,
             job'[r].at = "write" /\ r \in Directs => Op[job'[r].on] # "create"
      PROVE  LookedOf(r)'
  BY <1>0, <1>1, Facts DEF LookedOf
<1>2. CASE ~AtWork(r)'
  <2>1. CASE job'[r].at # "begin"
    BY <1>2, <2>1 DEF LookedOf, AtWork, Engaged
  <2>2. CASE Judge(r)
    <3>1. CASE Stop(r)
      BY <1>0, <3>1 DEF Stop, Become, Over, Idle, LookedOf, AtWork, Engaged
    <3>2. CASE DeletedCreates(r) = {} /\ Become(r, [job[r] EXCEPT !.at = "begin", !.clear = Inspections \ tombs])
      <4>1. job'[r].at = "begin" /\ job'[r].clear = Inspections \ tombs /\ job'[r].seen = job[r].seen
        BY <1>0, <3>2 DEF Become, Job
      <4>2. r \in Imports => \A e \in Package[r] : Op[e] = "create" => Target[e] \in (Inspections \ tombs) \cup job[r].seen
        BY <3>2, Facts DEF DeletedCreates
      <4> QED  BY <4>1, <4>2 DEF LookedOf
    <3> QED  BY <2>2, <3>1, <3>2 DEF Judge
  <2>3. CASE Fill(r)
    <3>1. CASE Stop(r)
      BY <1>0, <3>1 DEF Stop, Become, Over, Idle, LookedOf, AtWork, Engaged
    <3>2. CASE Become(r, [Idle EXCEPT !.at = "begin", !.part = "rest"])
      BY <1>0, <3>2 DEF Become, Idle, LookedOf
    <3> QED  BY <2>3, <3>1, <3>2 DEF Fill
  <2>4. CASE job'[r].at = "begin" /\ ~Judge(r) /\ ~Fill(r)
    <3>1. \A at : Step(r, at) => job'[r].at = at
      BY <1>0 DEF Step, Become, Job
    <3>2. \A how : Decided(r, how) => job'[r].at = "answer"
      BY <1>0 DEF Decided, Become, Job
    <3>3. Stop(r) => job'[r].at = "over"
      BY <1>0 DEF Stop, Become, Over, Idle
    <3>4. \A e : Become(r, Passed(r, e)) => job'[r].at = "turn"
      BY <1>0 DEF Passed, Become, Job
    <3>5. \A e \in Entries : Become(r, AfterRefusal(r, e)) => job'[r].at \in {"turn", "over"}
      <4>1. ASSUME NEW e \in Entries, Become(r, AfterRefusal(r, e)) PROVE job'[r].at \in {"turn", "over"}
        <5>1. job'[r] = AfterRefusal(r, e)
          BY <1>0, <4>1 DEF Become
        <5>2. CASE job[r].part = "rest"
          BY <1>0, <5>1, <5>2 DEF AfterRefusal, Passed, Job
        <5> QED  BY <5>1, <5>2 DEF AfterRefusal, Over, Idle
      <4> QED  BY <4>1
    <3>6. \A how : Become(r, AfterSuccess(r, how)) => job'[r].at \in {"record", "over"}
      BY <1>0 DEF AfterSuccess, Become, Over, Idle, Job
    <3>7. CASE StartDirect(r)
      <4>1. PICK e \in Entries : Become(r, [job[r] EXCEPT !.at = "turn", !.part = "itself", !.left = {e}])
        BY <3>7, Facts DEF StartDirect
      <4> QED  BY <1>0, <2>4, <4>1 DEF Become, Job
    <3>8. CASE Look(r)
      <4>1. CASE Become(r, [job[r] EXCEPT !.at = "judge", !.seen = Present])
        BY <1>0, <2>4, <4>1 DEF Become, Job
      <4> QED  BY <2>4, <3>3, <3>8, <4>1 DEF Look
    <3>9. CASE Begin(r)
      BY <1>0, <2>4, <3>9 DEF Begin, Become, Job
    <3>10. CASE Route(r)
      <4>1. Become(r, [job[r] EXCEPT !.at = "write", !.clear = IF r \in Directs THEN Inspections \ tombs ELSE job[r].clear])
               => job'[r].at = "write"
        BY <1>0 DEF Become, Job
      <4> QED  BY <2>4, <3>1, <3>2, <3>10, <4>1 DEF Route, RouteCreate, RouteUpdate, RouteComplete
    <3>11. CASE \E e \in Entries : ClaimEntry(r, e)
      <4>1. \E e \in Entries, at \in {"route", "conflict"} : job'[r] = [job[r] EXCEPT !.at = at, !.on = e]
        BY <1>0, <3>11 DEF ClaimEntry, Become
      <4> QED  BY <1>0, <2>4, <4>1 DEF Job
    <3>12. CASE \/ StartImport(r) \/ ReadClaim(r) \/ StealClaim(r) \/ Write(r) \/ Answer(r) \/ Record(r) \/ EndHalf(r)
                \/ Die(r) \/ \E e \in Entries : Skip(r, e) \/ Block(r, e)
      BY <1>0, <2>4, <3>1, <3>2, <3>3, <3>4, <3>5, <3>6, <3>12
         DEF StartImport, ReadClaim, StealClaim, Write, FailsAfter, Answer, Record, EndHalf, Die, Skip, Block, Engaged
    <3> QED  BY <2>4, <3>7, <3>8, <3>9, <3>10, <3>11, <3>12 DEF RequestStep
  <2> QED  BY <2>1, <2>2, <2>3, <2>4
<1>3. CASE AtWork(r)'
  <2>1. CASE Begin(r)
    BY <1>0, <1>1, <2>1 DEF Begin, Become, Job
  <2>2. CASE StartDirect(r)
    <3>1. PICK e \in Entries : Become(r, [job[r] EXCEPT !.at = "turn", !.part = "itself", !.left = {e}])
      BY <2>2, Facts DEF StartDirect
    <3> QED  BY <1>0, <3>1 DEF Become, LookedOf, Job
  <2>3. ASSUME NEW e \in Entries, ClaimEntry(r, e) PROVE LookedOf(r)'
    <3>1. \E at \in {"route", "conflict"} : job'[r] = [job[r] EXCEPT !.at = at, !.on = e]
      BY <1>0, <2>3 DEF ClaimEntry, Become
    <3>2. AtWork(r)
      BY <2>3 DEF ClaimEntry, Head, AtWork
    <3> QED  BY <1>0, <1>1, <3>1, <3>2 DEF Job
  <2>4. ASSUME NEW e \in Entries, Become(r, Passed(r, e)), AtWork(r) PROVE LookedOf(r)'
    BY <1>0, <1>1, <2>4 DEF Passed, Become, Job
  <2>5. CASE Engaged(r) /\ job[r].part = "rest" /\ Become(r, AfterRefusal(r, job[r].on))
    <3>1. job'[r] = AfterRefusal(r, job[r].on)
      BY <1>0, <2>5 DEF Become
    <3>2. job'[r].part = "rest" /\ job'[r].at = "turn"
      BY <1>0, <2>5, <3>1 DEF AfterRefusal, Passed, Job
    <3> QED  BY <3>2 DEF LookedOf
  <2>6. CASE Route(r) /\ Become(r, [job[r] EXCEPT !.at = "write",
                    !.clear = IF r \in Directs THEN Inspections \ tombs ELSE job[r].clear]) /\ RouteCreate(r, job[r].on)
    <3>1. CASE r \in Imports
      BY <1>0, <1>1, <2>6, <3>1, Facts DEF Route, Become, AtWork, Engaged, Job
    <3>2. CASE r \in Directs
      <4>1. /\ job'[r].at = "write" /\ job'[r].on = job[r].on /\ job'[r].clear = Inspections \ tombs
        BY <1>0, <2>6, <3>2 DEF Become, Job
      <4>2. Target[job[r].on] \in Inspections /\ ~ \E how : Decided(r, how)
        <5>1. ASSUME NEW how, Decided(r, how) PROVE FALSE
          BY <1>0, <4>1, <5>1 DEF Decided, Become, Job
        <5> QED  BY <1>0, <2>6, <5>1, Facts DEF Route, Engaged
      <4>3. Target[job[r].on] \notin tombs
        BY <2>6, <3>2, <4>2 DEF RouteCreate
      <4> QED  BY <3>2, <4>1, <4>2, <4>3, Facts DEF LookedOf
    <3> QED  BY <3>1, <3>2, Facts
  <2>7. CASE /\ Engaged(r) /\ Engaged(r)'
             /\ \E at, how : job'[r] = [job[r] EXCEPT !.at = at, !.how = how]
             /\ job'[r].at = "write" => Op[job[r].on] # "create"
    BY <1>0, <1>1, <2>7 DEF AtWork, Job
  <2> QED
    BY <1>0, <1>3, <1>a, <2>1, <2>2, <2>3, <2>4, <2>5, <2>6, <2>7, WorkMoves
       DEF Skip, Block, Record, Head, AtWork, Engaged
<1> QED  BY <1>2, <1>3

LEMMA OwnOrdered ==
    ASSUME IInv, NEW r \in Imports, RequestStep(r)
    PROVE  OrderedOf(r)'
<1>0. /\ r \in Requests /\ job[r] \in Job /\ job \in [Requests -> Job] /\ OrderedOf(r) /\ DutyOf(r) /\ JobTrue(r)
      /\ (Engaged(r) => job[r].on \in Entries)
  BY Facts DEF IInv, Truth, Ordered, Duty, DutyOf, TypeOK, Job
<1>a. TypeOK /\ Duty /\ [Next]_vars
  BY <1>0 DEF IInv, RequestStep, Next
<1>b. \A e : TookHold(e) => TookHold(e)'
  BY <1>a, TruthGrows
<1>c. Half(r, "rest") \subseteq Entries
  BY Facts DEF Half
\* An entry falls behind that took hold or is no update.
<1>1. ASSUME NEW e \in Entries, Become(r, Passed(r, e)), AtWork(r), Op[e] = "update" => TookHold(e)
      PROVE  OrderedOf(r)'
  <2>1. /\ job'[r].at = "turn" /\ job'[r].left = job[r].left \ {e}
        /\ job'[r].part = job[r].part /\ job'[r].refused = job[r].refused
    BY <1>0, <1>1 DEF Passed, Become, Job
  <2> QED  BY <1>0, <1>1, <1>b, <2>1 DEF OrderedOf, AtWork, Engaged
\* Nothing falls behind.
<1>2. ASSUME AtWork(r), job'[r].left = job[r].left, job'[r].part = job[r].part, job'[r].refused = job[r].refused,
             Engaged(r)' => /\ \A f \in job[r].left : Place[job'[r].on] <= Place[f]
                            /\ Op[job'[r].on] = "complete" => Target[job'[r].on] \notin job[r].refused
      PROVE  OrderedOf(r)'
  BY <1>0, <1>2, <1>b DEF OrderedOf
<1>3. CASE ~AtWork(r)'
  BY <1>3 DEF OrderedOf, AtWork
<1>4. CASE AtWork(r)'
  <2>1. CASE Begin(r)
    <3>1. job'[r].at = "turn" /\ job'[r].part = job[r].part /\ job'[r].left = Half(r, job[r].part)
      BY <1>0, <2>1 DEF Begin, Become, Job
    <3> QED  BY <3>1 DEF OrderedOf, Engaged
  <2>2. CASE StartDirect(r)
    BY <2>2, Facts DEF StartDirect
  <2>3. ASSUME NEW e \in Entries, ClaimEntry(r, e) PROVE OrderedOf(r)'
    <3>1. PICK at \in {"route", "conflict"} : job'[r] = [job[r] EXCEPT !.at = at, !.on = e]
      BY <1>0, <2>3 DEF ClaimEntry, Become
    <3>2. /\ job'[r].on = e /\ job'[r].left = job[r].left
          /\ job'[r].part = job[r].part /\ job'[r].refused = job[r].refused
      BY <1>0, <3>1 DEF Job
    <3> QED  BY <1>2, <2>3, <3>2 DEF ClaimEntry, Head, Blocked, AtWork
  <2>4. ASSUME NEW e \in Entries, Become(r, Passed(r, e)), Skip(r, e) \/ Block(r, e) \/ (Record(r) /\ e = job[r].on)
        PROVE  OrderedOf(r)'
    <3>1. AtWork(r)
      BY <2>4 DEF Skip, Block, Record, Head, AtWork, Engaged
    <3>2. Op[e] = "update" => TookHold(e)
      BY <1>0, <2>4 DEF Skip, Block, Blocked, Record, JobTrue
    <3> QED  BY <1>1, <2>4, <3>1, <3>2
  <2>5. CASE Engaged(r) /\ job[r].part = "rest" /\ Become(r, AfterRefusal(r, job[r].on))
    <3>1. job'[r] = AfterRefusal(r, job[r].on)
      BY <1>0, <2>5 DEF Become
    <3>2. /\ job'[r].at = "turn" /\ job'[r].left = job[r].left \ {job[r].on} /\ job'[r].part = "rest"
          /\ job'[r].refused = job[r].refused \cup IF Op[job[r].on] = "update" THEN {Target[job[r].on]} ELSE {}
      BY <1>0, <2>5, <3>1 DEF AfterRefusal, Passed, Job
    <3>3. ASSUME NEW u \in Half(r, "rest") \ job'[r].left, Op[u] = "update"
          PROVE  TookHold(u)' \/ Target[u] \in job'[r].refused
      <4>1. CASE u = job[r].on
        BY <3>2, <3>3, <4>1
      <4>2. CASE u # job[r].on
        BY <1>0, <1>b, <2>5, <3>2, <3>3, <4>2 DEF OrderedOf, AtWork
      <4> QED  BY <4>1, <4>2
    <3> QED  BY <3>2, <3>3 DEF OrderedOf, Engaged
  <2>6. CASE Route(r) /\ Become(r, [job[r] EXCEPT !.at = "write",
                    !.clear = IF r \in Directs THEN Inspections \ tombs ELSE job[r].clear]) /\ RouteCreate(r, job[r].on)
    <3>1. /\ job'[r].on = job[r].on /\ job'[r].left = job[r].left
          /\ job'[r].part = job[r].part /\ job'[r].refused = job[r].refused
      BY <1>0, <2>6 DEF Become, Job
    <3>2. Engaged(r)
      BY <2>6 DEF Route, Engaged
    <3> QED  BY <1>0, <1>2, <3>1, <3>2 DEF OrderedOf, AtWork
  <2>7. CASE /\ Engaged(r) /\ Engaged(r)'
             /\ \E at, how : job'[r] = [job[r] EXCEPT !.at = at, !.how = how]
             /\ job'[r].at = "write" => Op[job[r].on] # "create"
    <3>1. /\ job'[r].on = job[r].on /\ job'[r].left = job[r].left
          /\ job'[r].part = job[r].part /\ job'[r].refused = job[r].refused
      BY <1>0, <2>7 DEF Job
    <3> QED  BY <1>0, <1>2, <2>7, <3>1 DEF OrderedOf, AtWork
  <2> QED  BY <1>0, <1>4, <1>a, <2>1, <2>2, <2>3, <2>4, <2>5, <2>6, <2>7, WorkMoves
<1> QED  BY <1>3, <1>4

-----------------------------------------------------------------------------
\* The invariant, and what follows from it

LEMMA OthersStay ==
    ASSUME IInv, [Next]_vars
    PROVE  /\ \A q \in Requests : DutyOf(q)' /\ LookedOf(q)'
           /\ \A q \in Imports : OrderedOf(q)'
<1>0. TypeOK /\ Duty /\ Looked /\ Ordered
  BY DEF IInv
<1>1. \A e : TookHold(e) => TookHold(e)'
  BY <1>0, TruthGrows
<1>2. ASSUME NEW q \in Requests, job'[q] = job[q]
      PROVE  DutyOf(q)' /\ LookedOf(q)' /\ (q \in Imports => OrderedOf(q)')
  <2>1. DutyOf(q) /\ LookedOf(q) /\ (q \in Imports => OrderedOf(q))
    BY <1>0 DEF Duty, Looked, Ordered
  <2>2. DutyOf(q)'
    BY <1>2, <2>1 DEF DutyOf, Engaged, AtWork, Half
  <2>3. LookedOf(q)'
    BY <1>2, <2>1 DEF LookedOf, Engaged, AtWork
  <2>4. q \in Imports => OrderedOf(q)'
    BY <1>1, <1>2, <2>1 DEF OrderedOf, Engaged, AtWork, Half
  <2> QED  BY <2>2, <2>3, <2>4
<1>3. CASE \E r \in Requests : RequestStep(r)
  BY <1>0, <1>2, <1>3, JobsTyped, DutyStep, OwnLooked, OwnOrdered, Facts
<1>4. CASE ~ \E r \in Requests : RequestStep(r)
  <2>1. job' = job
    BY <1>4, NextCases DEF Tick, Forget, Office, DeleteRow, vars
  <2> QED  BY <1>2, <2>1, Facts
<1> QED  BY <1>3, <1>4

LEMMA Inductive == IInv /\ [Next]_vars => IInv'
<1> SUFFICES ASSUME IInv, [Next]_vars PROVE IInv'
  OBVIOUS
<1>1. TypeOK'
  BY TypeStep DEF IInv
<1>2. Locks' /\ Truth'
  BY LockStep, TruthStep
<1>3. Duty' /\ Looked' /\ Ordered'
  BY OthersStay, Facts DEF Duty, Looked, Ordered
<1> QED  BY <1>1, <1>2, <1>3 DEF IInv

LEMMA IInvAlways == Spec => []IInv
  BY Init_IInv, Inductive, PTL DEF Spec

\* The ledger, the records and the jobs keep their types.
THEOREM TypeCorrect == Spec => []TypeOK
  <1>1. IInv => TypeOK
    BY DEF IInv
  <1> QED  BY <1>1, IInvAlways, PTL

\* Whatever an import skips as applied took hold, for any packages, in any
\* order, with keys shared between them and with any number of faults.
THEOREM NothingDropped == Spec => []SkippedTookHold
  <1>1. IInv => SkippedTookHold
    BY DEF IInv, Truth, RecordsTrue, JobTrue, SkippedTookHold
  <1> QED  BY <1>1, IInvAlways, PTL

\* A deleted inspection is brought back by nobody who looked after the deletion.
THEOREM DeletionsStand == Spec => DeletedStaysDeleted
  <1> DEFINE Kept(i) == status[i] = "none" /\ status'[i] # "none" =>
                           \E r \in Requests : /\ job[r].at = "write" /\ Target[job[r].on] = i
                                               /\ i \in job[r].clear \cup job[r].seen
  <1>1. ASSUME IInv, Next PROVE \A i \in tombs : Kept(i)
    <2>0. TypeOK /\ Duty /\ Looked /\ [Next]_vars
      BY <1>1 DEF IInv
    <2>1. ASSUME NEW i \in tombs, status[i] = "none", status'[i] # "none"
          PROVE  \E r \in Requests : /\ job[r].at = "write" /\ Target[job[r].on] = i
                                     /\ i \in job[r].clear \cup job[r].seen
      <3>0. i \in Inspections
        BY <2>0 DEF TypeOK
      <3>1. PICK r \in Requests : Write(r)
        <4>1. CASE \E r \in Requests : RequestStep(r) /\ ~Write(r)
          BY <2>1, <4>1, ZenonT(40) DEF RequestStep, StartDirect, StartImport, Look, Judge, Begin, Fill, ReadClaim, StealClaim,
             Route, Answer, Record, EndHalf, Die, Skip, Block, ClaimEntry, rows
        <4>2. CASE Tick \/ Forget \/ UNCHANGED vars
          BY <2>1, <4>2 DEF Tick, Forget, vars, rows
        <4>3. ASSUME NEW j \in Inspections, Office(j) \/ DeleteRow(j) PROVE FALSE
          BY <2>0, <2>1, <3>0, <4>3 DEF Office, DeleteRow, Exists, TypeOK
        <4> QED  BY <2>0, <4>1, <4>2, <4>3, NextCases
      <3>2. /\ job[r].at = "write" /\ job[r].on \in Entries /\ Target[job[r].on] \in Inspections /\ DutyOf(r)
            /\ job[r].on \in job[r].left
        BY <2>0, <3>1, Facts DEF Write, Duty, DutyOf, Engaged, TypeOK, Job
      <3>3. Target[job[r].on] = i /\ Op[job[r].on] = "create"
        BY <2>0, <2>1, <3>0, <3>1, <3>2, Facts DEF Write, WriteRow, TakesHold, Exists,
           TypeOK
      <3>4. r \in Directs => i \in job[r].clear
        BY <2>0, <3>2, <3>3 DEF Looked, LookedOf
      <3>5. CASE r \in Imports
        <4>1. job[r].on \in Half(r, job[r].part) /\ AtWork(r)
          BY <3>2, <3>5 DEF DutyOf, AtWork, Engaged
        <4>2. job[r].part = "creates" /\ job[r].on \in Package[r]
          BY <3>3, <4>1 DEF Half
        <4> QED  BY <2>0, <3>2, <3>3, <3>5, <4>1, <4>2 DEF Looked, LookedOf
      <3> QED  BY <3>2, <3>3, <3>4, <3>5, Facts
    <2> QED  BY <2>1
  <1>2. IInv /\ [Next]_vars => [\A i \in tombs : Kept(i)]_vars
    BY <1>1
  <1> QED  BY <1>2, IInvAlways, PTL DEF Spec, DeletedStaysDeleted

\* An import never completes an inspection past an update of its own that was
\* refused, and every update it passed took hold.
THEOREM CompletionFollows == Spec => CompletedWithUpdate
  <1> DEFINE Follows(r, c) ==
        /\ job[r].at = "write" /\ job'[r].at # "write" /\ job[r].on = c
        /\ Op[c] = "complete" /\ status'[Target[c]] # status[Target[c]]
        => \A u \in Before(r, c) : TookHold(u)
  <1>1. ASSUME IInv, NEW r \in Imports, NEW c \in Entries PROVE Follows(r, c)
    <2> SUFFICES ASSUME job[r].at = "write", job[r].on = c, Op[c] = "complete", NEW u \in Before(r, c)
                 PROVE  TookHold(u)
      OBVIOUS
    <2>1. OrderedOf(r) /\ DutyOf(r) /\ Engaged(r) /\ AtWork(r)
      BY <1>1, Facts DEF IInv, Ordered, Duty, Engaged, AtWork
    <2>2. c \in Half(r, job[r].part) /\ job[r].part \in {"creates", "rest", "itself"}
      BY <1>1, <2>1, Facts DEF DutyOf, IInv, TypeOK, Job
    <2>3. job[r].part = "rest"
      BY <1>1, <2>1, <2>2 DEF Half, DutyOf
    <2>4. u \in Half(r, "rest") /\ Target[u] = Target[c] /\ Place[u] < Place[c] /\ Op[u] = "update"
      BY DEF Before, Half
    <2>5. u \notin job[r].left
      <3>1. Place[u] \in Nat /\ Place[c] \in Nat
        BY <1>1, Facts DEF Before
      <3> QED  BY <2>1, <2>4, <3>1 DEF OrderedOf
    <2> QED  BY <2>1, <2>3, <2>4, <2>5 DEF OrderedOf
  <1>2. IInv /\ [Next]_vars => [\A r \in Imports : \A c \in Entries : Follows(r, c)]_vars
    BY <1>1
  <1> QED  BY <1>2, IInvAlways, PTL DEF Spec, CompletedWithUpdate

-----------------------------------------------------------------------------
\* Once: why no import and no repeat of a request applies an entry again

\* The exceptions AppliedOnce names.
Excused(e) == e \in torn \/ e \in itself \cap forgotten \/ Outlives(e)
Applied(e) == effects[e] > 0 /\ ~Excused(e)

\* The ledger has the answer of e, and of today; a request is about to store
\* it, or to record it; no package with e is young enough to be imported.
Known(e)     == ledger[KeyOf[e]].state = "done" /\ ledger[KeyOf[e]].print = e
Fresh(e)     == Known(e) /\ ledger[KeyOf[e]].born = today
AnswerOf(r, e) == job[r].at = "answer" /\ job[r].on = e /\ job[r].how = "ok"
RecordOf(r, e) == job[r].at = "record" /\ job[r].on = e /\ job[r].how = "ok"
Answering(e) == \E r \in Requests : AnswerOf(r, e)
Pending(e)   == \E r \in Imports : AnswerOf(r, e) \/ RecordOf(r, e)
TooOld(e)    == \A r \in Imports : e \in Package[r] => today > Exported[r] + MaxAge

\* An entry that took effect is in the ledger, until that forgets it; ...
InLedger  == \A e \in Entries : Applied(e) => Known(e) \/ e \in forgotten \/ Answering(e)
\* ... one an import applied is recorded, until no package can bring it again.
OnRecord  == \A e \in Entries : Applied(e) /\ e \notin itself => recorded[e] # 0 \/ Pending(e) \/ TooOld(e)

\* An import read at its beginning what is recorded: what was applied since is
\* in the ledger, too young to be swept.
ToDo(q)   == job[q].left \ job[q].already
UpToDate  == \A q \in Imports : AtWork(q) =>
                \A e \in ToDo(q) : Applied(e) /\ e \notin itself => Fresh(e) \/ Answering(e)
FreshlyDone == \A r \in Imports, e \in Entries : RecordOf(r, e) => Fresh(e)

\* An import at work is of today, and a record is kept while its package may come.
OfToday   == \A r \in Imports : ~Resting(r) => Importable(r)
Dated     == \A e \in Entries : recorded[e] # 0 =>
                \E r \in Imports : e \in Package[r] /\ Exported[r] <= recorded[e] + MaxSkew

\* An import sends no entry it read to be recorded.
NotSkipped == \A r \in Imports : Engaged(r) => job[r].on \notin job[r].already

OnceInv == InLedger /\ OnRecord /\ UpToDate /\ FreshlyDone /\ OfToday /\ Dated /\ NotSkipped /\ AppliedOnce

\* Only its own steps change what a request is doing.
LEMMA OthersKeep ==
    ASSUME TypeOK, Duty, [Next]_vars, NEW r \in Requests, ~RequestStep(r)
    PROVE  job'[r] = job[r]
<1>1. CASE \E q \in Requests : RequestStep(q)
  BY <1>1, JobsTyped
<1>2. CASE ~ \E q \in Requests : RequestStep(q)
  BY <1>2, NextCases DEF Tick, Forget, Office, DeleteRow, vars
<1> QED  BY <1>1, <1>2

LEMMA OnceTypes ==
    ASSUME TypeOK, Duty
    PROVE  /\ job \in [Requests -> Job]
           /\ \A r \in Requests : job[r] \in Job /\ (Engaged(r) => job[r].on \in Entries /\ job[r].on \in job[r].left)
           /\ \A r \in Imports : AtWork(r) => job[r].left \subseteq Package[r] /\ Package[r] \subseteq Entries
           /\ effects \in [Entries -> 0..2] /\ recorded \in [Entries -> 0..Days] /\ ledger \in [Keys -> Row]
           /\ today \in Nat /\ today > 0
           /\ \A r \in Imports : r \in Requests /\ r \notin Directs /\ Exported[r] \in Nat
<1>1. \A r \in Requests : Engaged(r) => job[r].on \in job[r].left /\ job[r].left \subseteq Entries
  BY JobFields DEF Duty, DutyOf, TypeOK
<1>2. \A r \in Imports : AtWork(r) => job[r].left \subseteq Package[r] /\ Package[r] \subseteq Entries
  BY Facts DEF Duty, DutyOf, Half
<1> QED  BY <1>1, <1>2, Facts DEF TypeOK

\* What the exceptions name is never taken back.
LEMMA ExcusesGrow ==
    ASSUME [Next]_vars
    PROVE  torn \subseteq torn' /\ itself \subseteq itself' /\ forgotten \subseteq forgotten'
<1> USE DEF history
<1>1. ASSUME NEW r \in Requests, RequestStep(r)
      PROVE  torn \subseteq torn' /\ itself \subseteq itself' /\ forgotten \subseteq forgotten'
  <2>1. CASE Write(r)
    BY <2>1 DEF Write, FailsAfter
  <2>2. CASE Die(r) \/ Route(r)
    BY <2>2 DEF Die, Route
  <2>3. CASE ~Write(r) /\ ~Die(r) /\ ~Route(r)
    BY <1>1, <2>3 DEF RequestStep, StartDirect, StartImport, Look, Judge, Begin, Fill, ReadClaim, StealClaim,
         Answer, Record, EndHalf, Skip, Block, ClaimEntry
  <2> QED  BY <2>1, <2>2, <2>3
<1>2. CASE Tick \/ Forget \/ (\E i \in Inspections : Office(i) \/ DeleteRow(i)) \/ UNCHANGED vars
  BY <1>2 DEF Tick, Forget, Office, DeleteRow, vars
<1> QED  BY <1>1, <1>2, NextCases

LEMMA ExcusedStays ==
    ASSUME [Next]_vars, NEW e, Excused(e)
    PROVE  Excused(e)'
<1>1. Outlives(e)' <=> Outlives(e)
  BY DEF Outlives
<1> QED  BY <1>1, ExcusesGrow DEF Excused

\* Only the write of an entry adds to its effects, and it leaves the answer to give.
LEMMA EffectsMove ==
    ASSUME TypeOK, Duty, [Next]_vars, NEW e \in Entries, effects'[e] # effects[e]
    PROVE  \E r \in Requests :
              /\ job[r].at = "write" /\ job[r].on = e
              /\ r \in Directs => e \in itself'
              /\ e \in torn' \/ AnswerOf(r, e)'
<1>1. ~(Tick \/ Forget \/ (\E i \in Inspections : Office(i) \/ DeleteRow(i)) \/ UNCHANGED vars)
  BY DEF Tick, Forget, Office, DeleteRow, vars, history
<1>2. PICK r \in Requests : RequestStep(r)
  BY <1>1, NextCases
<1>3. Write(r)
  BY <1>2 DEF RequestStep, StartDirect, StartImport, Look, Judge, Begin, Fill, ReadClaim, StealClaim, Route,
      Answer, Record, EndHalf, Die, Skip, Block, ClaimEntry, history
<1>4. job[r].at = "write" /\ job[r] \in Job /\ job \in [Requests -> Job] /\ effects \in [Entries -> 0..2]
  BY <1>3, OnceTypes DEF Write
<1>5. /\ job[r].on = e /\ (r \in Directs => e \in itself')
      /\ Decided(r, "ok") \/ (Decided(r, "failed") /\ e \in torn')
  BY <1>3, <1>4 DEF Write, FailsAfter
<1>6. Decided(r, "ok") => AnswerOf(r, e)'
  BY <1>4, <1>5 DEF Decided, Become, AnswerOf, Job
<1> QED  BY <1>4, <1>5, <1>6

LEMMA NewlyApplied ==
    ASSUME TypeOK, Duty, [Next]_vars, NEW e \in Entries, Applied(e)'
    PROVE  Applied(e) \/ (Answering(e)' /\ (e \notin itself' => Pending(e)'))
<1>1. ~Excused(e) /\ ~Excused(e)'
  BY ExcusedStays DEF Applied
<1>2. CASE effects'[e] = effects[e]
  BY <1>1, <1>2 DEF Applied
<1>3. CASE effects'[e] # effects[e]
  <2>1. PICK r \in Requests : (r \in Directs => e \in itself') /\ (e \in torn' \/ AnswerOf(r, e)')
    BY <1>3, EffectsMove
  <2>2. AnswerOf(r, e)'
    BY <1>1, <2>1 DEF Excused
  <2> QED  BY <2>1, <2>2, Facts DEF Answering, Pending
<1> QED  BY <1>2, <1>3

\* The row of a holder is its claim, of today.
LEMMA HolderRow ==
    ASSUME TypeOK, Duty, Locks, NEW r \in Requests, Holding(r)
    PROVE  /\ KeyOf[job[r].on] \in Keys /\ job[r].on \in Entries
           /\ ledger[KeyOf[job[r].on]].state = "in_flight"
           /\ ledger[KeyOf[job[r].on]].print = job[r].on
           /\ ledger[KeyOf[job[r].on]].born = today
<1>1. ledger[KeyOf[job[r].on]] = ClaimOf(job[r].on)
  BY DEF Locks
<1>2. \A p : ClaimOf(p).state = "in_flight" /\ ClaimOf(p).print = p /\ ClaimOf(p).born = today
  BY DEF ClaimOf
<1>3. KeyOf[job[r].on] \in Keys /\ job[r].on \in Entries
  BY OnceTypes, Facts DEF Holding, Engaged
<1> QED  BY <1>1, <1>2, <1>3

\* An answer in the ledger stays as long as the sweep leaves it, which it does today.
LEMMA KnownStays ==
    ASSUME TypeOK, Duty, Locks, [Next]_vars, NEW e \in Entries, Known(e)
    PROVE  /\ Known(e)' \/ e \in forgotten'
           /\ Fresh(e) => Fresh(e)' \/ (Tick /\ UNCHANGED job)
<1> DEFINE k == KeyOf[e]
<1>0. k \in Keys /\ ledger \in [Keys -> Row] /\ ledger[k].state = "done" /\ ledger[k].print = e
  BY OnceTypes, Facts DEF Known
<1>1. ASSUME NEW r \in Requests, RequestStep(r) PROVE ledger'[k] = ledger[k] /\ today' = today
  <2>1. today' = today
    BY <1>1, LockMoves
  <2>2. CASE UNCHANGED ledger
    BY <2>1, <2>2
  <2>3. ASSUME NEW f \in Entries, Claim(KeyOf[f], f) \/ Steal(KeyOf[f], f) PROVE ledger'[k] = ledger[k]
    <3>1. k # KeyOf[f]
      BY <1>0, <2>3 DEF Claim, Steal, Stealable, Unused
    <3> QED  BY <1>0, <2>3, <3>1 DEF Claim, Steal
  <2>4. CASE Drops(r)
    <3>1. k # KeyOf[job[r].on]
      BY <1>0, <2>4, HolderRow DEF Drops
    <3> QED  BY <1>0, <2>1, <2>4, <3>1 DEF Drops, Complete, Release
  <2> QED  BY <1>1, <2>1, <2>2, <2>3, <2>4, LockMoves
<1>2. CASE Forget
  <2>1. today' = today /\ ledger' = [j \in Keys |-> IF j \in Swept THEN Unused ELSE ledger[j]]
    BY <1>2 DEF Forget, SweepLedger
  <2>2. k \in Swept => e \in forgotten'
    BY <1>0, <1>2 DEF Forget
  <2>3. Fresh(e) => k \notin Swept
    BY LedgerBounds, OnceTypes DEF Fresh, Swept
  <2>4. k \notin Swept => ledger'[k] = ledger[k]
    BY <1>0, <2>1
  <2> QED  BY <1>0, <2>1, <2>2, <2>3, <2>4 DEF Known, Fresh
<1>3. CASE Tick
  BY <1>3 DEF Tick, Known
<1>4. CASE (\E i \in Inspections : Office(i) \/ DeleteRow(i)) \/ UNCHANGED vars
  BY <1>4 DEF Office, DeleteRow, vars, Known, Fresh
<1> QED  BY <1>1, <1>2, <1>3, <1>4, NextCases DEF Known, Fresh

\* An answer is stored, or its request breaks off; an import then records it.
LEMMA AnswerMoves ==
    ASSUME TypeOK, Duty, Locks, [Next]_vars, NEW r \in Requests, NEW e \in Entries, AnswerOf(r, e)
    PROVE  \/ AnswerOf(r, e)'
           \/ e \in torn'
           \/ Fresh(e)' /\ (r \in Imports => RecordOf(r, e)')
<1>0. job[r] \in Job /\ job \in [Requests -> Job] /\ job[r].at = "answer" /\ job[r].on = e /\ job[r].how = "ok"
  BY OnceTypes DEF AnswerOf
<1>1. CASE Answer(r)
  <2>1. Complete(KeyOf[e]) /\ Become(r, AfterSuccess(r, "ok")) /\ today' = today
    BY <1>0, <1>1 DEF Answer
  <2>2. /\ ledger \in [Keys -> Row] /\ KeyOf[e] \in Keys /\ ledger[KeyOf[e]] \in Row
        /\ ledger[KeyOf[e]].state = "in_flight" /\ ledger[KeyOf[e]].print = e /\ ledger[KeyOf[e]].born = today
    BY <1>0, HolderRow, OnceTypes DEF Holding
  <2>3. Fresh(e)'
    BY <2>1, <2>2 DEF Complete, Fresh, Known, Row
  <2>4. r \in Imports => RecordOf(r, e)'
    BY <1>0, <2>1 DEF AfterSuccess, Become, RecordOf, Job
  <2> QED  BY <2>3, <2>4
<1>2. CASE Die(r)
  BY <1>0, <1>2 DEF Die
<1>3. ASSUME NEW q \in Requests, RequestStep(q), q # r PROVE AnswerOf(r, e)'
  BY <1>0, <1>3, JobsTyped DEF AnswerOf
<1>4. CASE RequestStep(r) /\ ~Answer(r) /\ ~Die(r)
  BY <1>0, <1>4 DEF RequestStep, StartDirect, StartImport, Look, Judge, Begin, Fill, ReadClaim, StealClaim, Route,
      Write, Record, EndHalf, Skip, Block, ClaimEntry, Head
<1>5. CASE Tick \/ Forget \/ (\E i \in Inspections : Office(i) \/ DeleteRow(i)) \/ UNCHANGED vars
  BY <1>0, <1>5 DEF Tick, Forget, Office, DeleteRow, vars, AnswerOf
<1> QED  BY <1>1, <1>2, <1>3, <1>4, <1>5, NextCases

\* An answer to be recorded is recorded, or its request breaks off.
LEMMA RecordMoves ==
    ASSUME TypeOK, Duty, [Next]_vars, NEW r \in Requests, NEW e \in Entries, RecordOf(r, e)
    PROVE  RecordOf(r, e)' \/ e \in torn' \/ recorded'[e] # 0
<1>0. /\ job[r] \in Job /\ job \in [Requests -> Job] /\ job[r].at = "record" /\ job[r].on = e /\ job[r].how = "ok"
      /\ recorded \in [Entries -> 0..Days] /\ today \in Nat /\ today > 0
  BY OnceTypes DEF RecordOf
<1>1. CASE Record(r)
  BY <1>0, <1>1 DEF Record
<1>2. CASE Die(r)
  BY <1>0, <1>2 DEF Die
<1>3. ASSUME NEW q \in Requests, RequestStep(q), q # r PROVE RecordOf(r, e)'
  BY <1>0, <1>3, JobsTyped DEF RecordOf
<1>4. CASE RequestStep(r) /\ ~Record(r) /\ ~Die(r)
  BY <1>0, <1>4 DEF RequestStep, StartDirect, StartImport, Look, Judge, Begin, Fill, ReadClaim, StealClaim, Route,
      Write, Answer, EndHalf, Skip, Block, ClaimEntry, Head
<1>5. CASE Tick \/ Forget \/ (\E i \in Inspections : Office(i) \/ DeleteRow(i)) \/ UNCHANGED vars
  BY <1>0, <1>5 DEF Tick, Forget, Office, DeleteRow, vars, RecordOf
<1> QED  BY <1>1, <1>2, <1>3, <1>4, <1>5, NextCases

\* Days only pass; an entry too old for every package stays too old.
LEMMA DaysPass ==
    ASSUME TypeOK, Duty, [Next]_vars
    PROVE  today' >= today /\ \A e : TooOld(e) => TooOld(e)'
<1>1. today' >= today /\ today \in Nat /\ today' \in Nat
  <2>1. today \in Nat
    BY OnceTypes
  <2>2. ASSUME NEW r \in Requests, RequestStep(r) PROVE today' = today
    BY <2>2, LockMoves
  <2>3. CASE Tick
    BY <2>1, <2>3 DEF Tick
  <2>4. CASE Forget \/ (\E i \in Inspections : Office(i) \/ DeleteRow(i)) \/ UNCHANGED vars
    BY <2>1, <2>4 DEF Forget, Office, DeleteRow, vars
  <2> QED  BY <2>1, <2>2, <2>3, <2>4, NextCases
<1> QED  BY <1>1, ImportBounds, Facts DEF TooOld

LEMMA InLedgerStep == IInv /\ OnceInv /\ [Next]_vars => InLedger'
<1> SUFFICES ASSUME TypeOK, Duty, Locks, InLedger, [Next]_vars, NEW e \in Entries, Applied(e)'
             PROVE  Known(e)' \/ e \in forgotten' \/ Answering(e)'
  BY DEF IInv, OnceInv, InLedger
<1>1. ~(e \in torn')
  BY DEF Applied, Excused
<1>2. CASE Applied(e)
  <2>1. CASE Known(e)
    BY <2>1, KnownStays
  <2>2. CASE e \in forgotten
    BY <2>2, ExcusesGrow
  <2>3. CASE Answering(e)
    BY <1>1, <2>3, AnswerMoves DEF Answering, Fresh
  <2> QED  BY <1>2, <2>1, <2>2, <2>3 DEF InLedger
<1> QED  BY <1>2, NewlyApplied

\* A record goes only when every package that could bring its entry is too old.
LEMMA RecordedStays ==
    ASSUME TypeOK, Duty, Dated, [Next]_vars, NEW e \in Entries, ~Outlives(e), recorded[e] # 0
    PROVE  recorded'[e] # 0 \/ TooOld(e)'
<1>0. recorded \in [Entries -> 0..Days] /\ today \in Nat /\ today > 0
  BY OnceTypes
<1>1. ASSUME NEW r \in Requests, EndHalf(r) PROVE recorded'[e] # 0 \/ TooOld(e)'
  <2>1. today' = today
    BY <1>1 DEF EndHalf
  <2>2. CASE ~Old(e)
    BY <1>0, <1>1, <2>2 DEF EndHalf
  <2>3. CASE Old(e)
    <3>1. PICK s \in Imports : e \in Package[s] /\ Exported[s] <= recorded[e] + MaxSkew
      BY DEF Dated
    <3>2. recorded[e] \in Nat /\ Exported[s] \in Nat /\ recorded[e] + RecordDays < today
      BY <1>0, <2>3, OnceTypes DEF Old
    <3>3. ASSUME NEW q \in Imports, e \in Package[q] PROVE today > Exported[q] + MaxAge
      <4>1. /\ Exported[q] \in Nat /\ MaxAge \in Nat /\ MaxSkew \in Nat /\ RecordDays \in Nat
            /\ today \in Nat
        BY <1>0, OnceTypes, ImportBounds
      <4>2. ~(Exported[q] + MaxAge + MaxSkew > Exported[s] + RecordDays)
        BY <3>1, <3>3 DEF Outlives
      <4> QED  BY <3>1, <3>2, <4>1, <4>2
    <3> QED  BY <2>1, <3>3 DEF TooOld
  <2> QED  BY <2>2, <2>3
<1>2. ASSUME NEW r \in Requests, Record(r) PROVE recorded'[e] # 0
  BY <1>0, <1>2 DEF Record
<1>3. ASSUME NEW r \in Requests, RequestStep(r), ~EndHalf(r), ~Record(r) PROVE recorded' = recorded
  BY <1>3 DEF RequestStep, StartDirect, StartImport, Look, Judge, Begin, Fill, ReadClaim, StealClaim, Route,
      Write, Answer, Die, Skip, Block, ClaimEntry
<1>4. CASE Tick \/ Forget \/ (\E i \in Inspections : Office(i) \/ DeleteRow(i)) \/ UNCHANGED vars
  BY <1>4 DEF Tick, Forget, Office, DeleteRow, vars
<1> QED  BY <1>1, <1>2, <1>3, <1>4, NextCases

LEMMA OnRecordStep == IInv /\ OnceInv /\ [Next]_vars => OnRecord'
<1> SUFFICES ASSUME TypeOK, Duty, Locks, OnRecord, Dated, [Next]_vars,
                    NEW e \in Entries, Applied(e)', e \notin itself'
             PROVE  recorded'[e] # 0 \/ Pending(e)' \/ TooOld(e)'
  BY DEF IInv, OnceInv, OnRecord
<1>1. e \notin torn' /\ e \notin itself /\ ~Outlives(e)
  <2>1. Outlives(e)' <=> Outlives(e)
    BY DEF Outlives
  <2> QED  BY <2>1, ExcusesGrow DEF Applied, Excused
<1>2. CASE Applied(e)
  <2>1. CASE recorded[e] # 0
    BY <1>1, <2>1, RecordedStays
  <2>2. CASE Pending(e)
    <3>1. PICK r \in Imports : AnswerOf(r, e) \/ RecordOf(r, e)
      BY <2>2 DEF Pending
    <3>2. r \in Requests
      BY Facts
    <3> QED  BY <1>1, <3>1, <3>2, AnswerMoves, RecordMoves DEF Pending
  <2>3. CASE TooOld(e)
    BY <2>3, DaysPass
  <2> QED  BY <1>1, <1>2, <2>1, <2>2, <2>3 DEF OnRecord
<1> QED  BY <1>2, NewlyApplied

\* An import takes up entries only when it begins a half.
LEMMA WorkBegins ==
    ASSUME TypeOK, Duty, NEW q \in Imports, RequestStep(q), AtWork(q)', NEW e \in ToDo(q)'
    PROVE  \/ AtWork(q) /\ e \in ToDo(q)
           \/ Begin(q) /\ recorded[e] = 0 /\ UNCHANGED recorded
<1>0. /\ job[q] \in Job /\ job \in [Requests -> Job] /\ q \in Requests /\ q \notin Directs
      /\ e \in job'[q].left /\ e \notin job'[q].already
  BY OnceTypes DEF ToDo
<1>1. CASE Begin(q)
  <2>1. job'[q] = [job[q] EXCEPT !.at = "turn", !.left = Half(q, job[q].part),
                                 !.already = {f \in Half(q, job[q].part) : recorded[f] # 0}]
    BY <1>0, <1>1 DEF Begin, Become
  <2>2. /\ job'[q].left = Half(q, job[q].part)
        /\ job'[q].already = {f \in Half(q, job[q].part) : recorded[f] # 0}
    BY <1>0, <2>1 DEF Job
  <2> QED  BY <1>0, <1>1, <2>2 DEF Begin
<1>2. CASE StartDirect(q)
  BY <1>0, <1>2 DEF StartDirect
<1>3. ASSUME NEW f \in Entries, ClaimEntry(q, f) PROVE AtWork(q) /\ e \in ToDo(q)
  <2>1. \E at : job'[q] = [job[q] EXCEPT !.at = at, !.on = f]
    BY <1>0, <1>3 DEF ClaimEntry, Become
  <2> QED  BY <1>0, <1>3, <2>1 DEF ClaimEntry, Head, AtWork, ToDo, Job
<1>4. ASSUME NEW f \in Entries, Become(q, Passed(q, f)),
             Skip(q, f) \/ Block(q, f) \/ (Record(q) /\ f = job[q].on)
      PROVE  AtWork(q) /\ e \in ToDo(q)
  <2>1. AtWork(q)
    BY <1>4 DEF Skip, Block, Record, Head, AtWork, Engaged
  <2>2. job'[q].left \subseteq job[q].left /\ job'[q].already = job[q].already
    BY <1>0, <1>4 DEF Become, Passed, Job
  <2> QED  BY <1>0, <2>1, <2>2 DEF ToDo
<1>5. ASSUME Engaged(q), job[q].part = "rest", Become(q, AfterRefusal(q, job[q].on)) PROVE AtWork(q) /\ e \in ToDo(q)
  <2>1. job'[q].left \subseteq job[q].left /\ job'[q].already = job[q].already
    BY <1>0, <1>5 DEF Become, AfterRefusal, Passed, Job
  <2> QED  BY <1>0, <1>5, <2>1 DEF ToDo, AtWork
<1>6. ASSUME Route(q), Become(q, [job[q] EXCEPT !.at = "write",
                 !.clear = IF q \in Directs THEN Inspections \ tombs ELSE job[q].clear])
      PROVE  AtWork(q) /\ e \in ToDo(q)
  <2>1. job'[q].left = job[q].left /\ job'[q].already = job[q].already
    BY <1>0, <1>6 DEF Become, Job
  <2> QED  BY <1>0, <1>6, <2>1 DEF ToDo, AtWork, Engaged, Route
<1>7. ASSUME Engaged(q), NEW at, NEW how, job'[q] = [job[q] EXCEPT !.at = at, !.how = how]
      PROVE  AtWork(q) /\ e \in ToDo(q)
  BY <1>0, <1>7 DEF ToDo, AtWork, Job
<1>8. CASE \E f \in Entries : ClaimEntry(q, f)
  BY <1>3, <1>8
<1>9. CASE \E f \in Entries : Become(q, Passed(q, f)) /\ (Skip(q, f) \/ Block(q, f) \/ (Record(q) /\ f = job[q].on))
  BY <1>4, <1>9
<1>10. CASE Engaged(q) /\ \E at, how : job'[q] = [job[q] EXCEPT !.at = at, !.how = how]
  BY <1>7, <1>10
<1> QED  BY <1>0, <1>1, <1>2, <1>5, <1>6, <1>8, <1>9, <1>10, WorkMoves

LEMMA UpToDateStep == IInv /\ OnceInv /\ [Next]_vars => UpToDate'
<1> SUFFICES ASSUME TypeOK, Duty, Locks, OnceInv, [Next]_vars, NEW q \in Imports, AtWork(q)',
                    NEW e \in ToDo(q)', Applied(e)', e \notin itself'
             PROVE  Fresh(e)' \/ Answering(e)'
  BY DEF IInv, UpToDate
<1>0. q \in Requests /\ job \in [Requests -> Job] /\ e \notin torn' /\ e \notin itself
  BY OnceTypes, ExcusesGrow DEF Applied, Excused
<1>1. e \in Entries
  <2>1. job'[q] \in Job
    <3>1. CASE \E r \in Requests : RequestStep(r)
      BY <1>0, <3>1, JobsTyped
    <3>2. CASE ~ \E r \in Requests : RequestStep(r)
      BY <1>0, <3>2, NextCases DEF Tick, Forget, Office, DeleteRow, vars
    <3> QED  BY <3>1, <3>2
  <2> QED  BY <2>1, JobFields DEF ToDo
\* Whatever is known today stays known while the import is at work.
<1>2. ASSUME Fresh(e) \/ Answering(e) PROVE Fresh(e)' \/ Answering(e)'
  <2>1. ~Tick
    <3>1. job'[q].at \notin {"idle", "over"}
      BY DEF AtWork, Engaged
    <3> QED  BY <1>0, <3>1 DEF Tick, Resting
  <2>2. CASE Fresh(e)
    BY <1>1, <2>1, <2>2, KnownStays DEF Fresh
  <2>3. CASE Answering(e)
    BY <1>0, <1>1, <2>3, AnswerMoves DEF Answering
  <2> QED  BY <1>2, <2>2, <2>3
<1>3. CASE ~Applied(e)
  BY <1>1, <1>3, NewlyApplied
<1>4. CASE Applied(e) /\ AtWork(q) /\ e \in ToDo(q)
  BY <1>0, <1>2, <1>4 DEF OnceInv, UpToDate
<1>5. CASE Applied(e) /\ Begin(q) /\ recorded[e] = 0
  <2>1. Pending(e) \/ TooOld(e)
    BY <1>0, <1>1, <1>5 DEF OnceInv, OnRecord
  <2>2. CASE Pending(e)
    <3>1. PICK r \in Imports : AnswerOf(r, e) \/ RecordOf(r, e)
      BY <2>2 DEF Pending
    <3>2. RecordOf(r, e) => Fresh(e)
      BY <1>1 DEF OnceInv, FreshlyDone
    <3>3. AnswerOf(r, e) => Answering(e)
      BY Facts DEF Answering
    <3> QED  BY <1>2, <3>1, <3>2, <3>3
  <2>3. CASE TooOld(e)
    <3>1. e \in Package[q]
      <4>1. job'[q].left = Half(q, job[q].part)
        BY <1>0, <1>5, OnceTypes DEF Begin, Become, Job
      <4> QED  BY <4>1 DEF ToDo, Half
    <3>2. Importable(q)
      BY <1>5 DEF OnceInv, OfToday, Begin, Resting
    <3> QED  BY <2>3, <3>1, <3>2, OnceTypes, ImportBounds DEF TooOld, Importable
  <2> QED  BY <2>1, <2>2, <2>3
<1>6. CASE RequestStep(q)
  BY <1>3, <1>4, <1>5, <1>6, WorkBegins
<1>7. CASE ~RequestStep(q)
  <2>1. job'[q] = job[q]
    BY <1>0, <1>7, OthersKeep
  <2>2. AtWork(q) /\ e \in ToDo(q)
    BY <2>1 DEF AtWork, Engaged, ToDo
  <2> QED  BY <1>3, <1>4, <2>2
<1> QED  BY <1>6, <1>7

\* A request comes to record an answer by storing it, or by being told it.
LEMMA RecordBy ==
    ASSUME TypeOK, Duty, NEW r \in Requests, RequestStep(r), NEW e \in Entries, RecordOf(r, e)'
    PROVE  AnswerOf(r, e) /\ Answer(r)
<1>0. job[r] \in Job /\ job \in [Requests -> Job] /\ (Engaged(r) => job[r].on \in Entries)
  BY OnceTypes
<1>1. AtWork(r)'
  BY DEF RecordOf, AtWork, Engaged
<1>2. job'[r].at = "record" /\ job'[r].on = e /\ job'[r].how = "ok"
  BY DEF RecordOf
<1>3. ~Stop(r)
  BY <1>0, <1>2 DEF Stop, Become, Over, Idle
<1>4. \A f \in Entries : ~Become(r, Passed(r, f)) /\ ~Become(r, AfterRefusal(r, f))
  <2>1. ASSUME NEW f \in Entries, Become(r, Passed(r, f)) PROVE FALSE
    BY <1>0, <1>2, <2>1 DEF Become, Passed, Job
  <2>2. ASSUME NEW f \in Entries, Become(r, AfterRefusal(r, f)) PROVE FALSE
    <3>1. CASE job[r].part = "rest"
      BY <1>0, <1>2, <2>2, <3>1 DEF Become, AfterRefusal, Passed, Job
    <3>2. CASE job[r].part # "rest"
      BY <1>0, <1>2, <2>2, <3>2 DEF Become, AfterRefusal, Over, Idle
    <3> QED  BY <3>1, <3>2
  <2> QED  BY <2>1, <2>2
<1>5. \A at \in At \ {"record"} : ~Step(r, at)
  BY <1>0, <1>2 DEF Step, Become, Job
<1>6. \A how : ~Decided(r, how)
  BY <1>0, <1>2 DEF Decided, Become, Job
<1>7. ~StartDirect(r) /\ ~StartImport(r) /\ ~Look(r) /\ ~Judge(r) /\ ~Begin(r) /\ ~Fill(r) /\ ~EndHalf(r) /\ ~Die(r)
  <2>1. ~StartDirect(r) /\ ~Begin(r)
    BY <1>0, <1>2 DEF StartDirect, Begin, Become, Job
  <2>2. ~StartImport(r) /\ ~EndHalf(r) /\ ~Die(r)
    BY <1>3, <1>5 DEF StartImport, EndHalf, Die, At
  <2>3. ~Look(r) /\ ~Judge(r)
    <3>1. \A S : ~Become(r, [job[r] EXCEPT !.at = "judge", !.seen = S]) /\ ~Become(r, [job[r] EXCEPT !.at = "begin", !.clear = S])
      BY <1>0, <1>2 DEF Become, Job
    <3> QED  BY <1>3, <3>1 DEF Look, Judge
  <2>4. ~Fill(r)
    <3>1. ~Become(r, [Idle EXCEPT !.at = "begin", !.part = "rest"])
      BY <1>0, <1>2 DEF Become, Idle
    <3> QED  BY <1>3, <3>1 DEF Fill
  <2> QED  BY <2>1, <2>2, <2>3, <2>4
<1>8. ~ReadClaim(r)
  <2>1. ~Become(r, AfterSuccess(r, "replayed"))
    BY <1>0, <1>2, ZenonT(40) DEF AfterSuccess, Become, Over, Idle, Job
  <2> QED  BY <1>0, <1>3, <1>4, <1>5, <2>1 DEF ReadClaim, At, Engaged
<1>9. ~StealClaim(r)
  BY <1>3, <1>5 DEF StealClaim, At
<1>10. ~Route(r)
  <2>1. \A f : ~RouteCreate(r, f)
    <3>1. \A S : ~Become(r, [job[r] EXCEPT !.at = "write", !.clear = S])
      BY <1>0, <1>2 DEF Become, Job
    <3> QED  BY <1>6, <3>1 DEF RouteCreate
  <2>2. \A f : ~RouteUpdate(r, f) /\ ~RouteComplete(r, f)
    BY <1>5, <1>6 DEF RouteUpdate, RouteComplete, At
  <2> QED  BY <1>6, <2>1, <2>2 DEF Route
<1>11. ~Write(r)
  BY <1>6 DEF Write, FailsAfter
<1>12. ~Record(r)
  BY <1>0, <1>4 DEF Record, Engaged
<1>13. \A f \in Entries : ~Skip(r, f) /\ ~Block(r, f) /\ ~ClaimEntry(r, f)
  <2>1. \A f \in Entries : ~ClaimEntry(r, f)
    <3>1. \A f \in Entries, at \in {"route", "conflict"} : ~Become(r, [job[r] EXCEPT !.at = at, !.on = f])
      BY <1>0, <1>2 DEF Become, Job
    <3> QED  BY <3>1 DEF ClaimEntry
  <2> QED  BY <1>4, <2>1 DEF Skip, Block
<1>14. Answer(r)
  BY <1>7, <1>8, <1>9, <1>10, <1>11, <1>12, <1>13 DEF RequestStep
<1>15. job[r].at = "answer" /\ job[r].how = "ok" /\ Become(r, AfterSuccess(r, "ok"))
  BY <1>0, <1>3, <1>4, <1>14 DEF Answer, Engaged
<1>16. job[r].on = e
  BY <1>0, <1>2, <1>15 DEF AfterSuccess, Become, Over, Idle, Job
<1> QED  BY <1>14, <1>15, <1>16 DEF AnswerOf

LEMMA FreshlyDoneStep == IInv /\ OnceInv /\ [Next]_vars => FreshlyDone'
<1> SUFFICES ASSUME TypeOK, Duty, Locks, FreshlyDone, [Next]_vars, NEW r \in Imports, NEW e \in Entries, RecordOf(r, e)'
             PROVE  Fresh(e)'
  BY DEF IInv, OnceInv, FreshlyDone
<1>0. r \in Requests /\ job \in [Requests -> Job]
  BY OnceTypes
<1>1. ASSUME Fresh(e) PROVE Fresh(e)'
  <2>1. ~Tick
    BY <1>0 DEF Tick, Resting, RecordOf
  <2> QED  BY <1>1, <2>1, KnownStays DEF Fresh
<1>2. CASE RequestStep(r)
  <2>1. AnswerOf(r, e) /\ Answer(r)
    BY <1>0, <1>2, RecordBy
  <2>2. today' = today /\ Complete(KeyOf[e])
    BY <2>1 DEF Answer, AnswerOf
  <2>3. /\ ledger \in [Keys -> Row] /\ KeyOf[e] \in Keys /\ ledger[KeyOf[e]] \in Row
        /\ ledger[KeyOf[e]].state = "in_flight" /\ ledger[KeyOf[e]].print = e /\ ledger[KeyOf[e]].born = today
    BY <1>0, <2>1, HolderRow, OnceTypes DEF Holding, AnswerOf
  <2> QED  BY <2>2, <2>3 DEF Complete, Fresh, Known, Row
<1>3. CASE ~RequestStep(r)
  <2>1. job'[r] = job[r]
    BY <1>0, <1>3, OthersKeep
  <2> QED  BY <1>1, <2>1 DEF FreshlyDone, RecordOf
<1> QED  BY <1>2, <1>3

LEMMA OfTodayStep == IInv /\ OnceInv /\ [Next]_vars => OfToday'
<1> SUFFICES ASSUME TypeOK, Duty, OfToday, [Next]_vars, NEW r \in Imports, ~Resting(r)' PROVE Importable(r)'
  BY DEF IInv, OnceInv, OfToday
<1>0. r \in Requests /\ job \in [Requests -> Job] /\ job[r] \in Job
  BY OnceTypes
<1>1. ASSUME NEW q \in Requests, RequestStep(q) PROVE Importable(r)'
  <2>1. today' = today /\ \A p \in Requests : p # q => job'[p] = job[p]
    BY <1>1, LockMoves, JobsTyped
  <2>2. CASE ~Resting(r)
    BY <2>1, <2>2 DEF OfToday, Importable
  <2>3. CASE Resting(r)
    <3>1. q = r
      BY <1>0, <2>1, <2>3 DEF Resting
    <3>2. StartImport(r)
      BY <1>0, <1>1, <2>3, <3>1, OnceTypes DEF RequestStep, Resting, StartDirect, StartImport, Look,
         Judge, Begin, Fill, ReadClaim, StealClaim, Route, Write,
         Answer, Record, EndHalf, Die, Skip, Block, ClaimEntry, Head
    <3> QED  BY <2>1, <3>2 DEF StartImport, Importable
  <2> QED  BY <2>2, <2>3
<1>2. CASE Tick
  BY <1>0, <1>2 DEF Tick, Resting
<1>3. CASE Forget \/ (\E i \in Inspections : Office(i) \/ DeleteRow(i)) \/ UNCHANGED vars
  BY <1>0, <1>3 DEF Forget, Office, DeleteRow, vars, OfToday, Resting, Importable
<1> QED  BY <1>1, <1>2, <1>3, NextCases

LEMMA DatedStep == IInv /\ OnceInv /\ [Next]_vars => Dated'
<1> SUFFICES ASSUME TypeOK, Duty, Dated, OfToday, [Next]_vars, NEW e \in Entries, recorded'[e] # 0
             PROVE  \E r \in Imports : e \in Package[r] /\ Exported[r] <= recorded'[e] + MaxSkew
  BY DEF IInv, OnceInv, Dated
<1>0. recorded \in [Entries -> 0..Days]
  BY OnceTypes
<1>1. CASE recorded'[e] = recorded[e]
  BY <1>1 DEF Dated
<1>2. CASE recorded'[e] # recorded[e]
  <2>1. ~(Tick \/ Forget \/ (\E i \in Inspections : Office(i) \/ DeleteRow(i)) \/ UNCHANGED vars)
    BY <1>2 DEF Tick, Forget, Office, DeleteRow, vars
  <2>2. PICK r \in Requests : RequestStep(r)
    BY <2>1, NextCases
  <2>3. ~EndHalf(r)
    BY <1>0, <1>2 DEF EndHalf
  <2>4. Record(r)
    BY <1>2, <2>2, <2>3 DEF RequestStep, StartDirect, StartImport, Look, Judge, Begin, Fill, ReadClaim, StealClaim, Route,
      Write, Answer, Die, Skip, Block, ClaimEntry
  <2>5. r \in Imports /\ job[r].at = "record"
    BY <2>4, Facts DEF Record, Duty, DutyOf
  <2>6. e = job[r].on /\ recorded'[e] = today
    BY <1>0, <1>2, <2>4 DEF Record
  <2>7. e \in Package[r]
    BY <2>5, <2>6, OnceTypes DEF Engaged, AtWork
  <2>8. Exported[r] <= today + MaxSkew
    BY <2>5 DEF OfToday, Resting, Importable
  <2> QED  BY <2>5, <2>6, <2>7, <2>8
<1> QED  BY <1>1, <1>2

LEMMA NotSkippedStep == IInv /\ OnceInv /\ [Next]_vars => NotSkipped'
<1> SUFFICES ASSUME TypeOK, Duty, NotSkipped, [Next]_vars, NEW r \in Imports, Engaged(r)'
             PROVE  job'[r].on \notin job'[r].already
  BY DEF IInv, OnceInv, NotSkipped
<1>0. r \in Requests /\ r \notin Directs /\ job \in [Requests -> Job] /\ job[r] \in Job
  BY OnceTypes
<1>1. CASE job'[r] = job[r]
  BY <1>1 DEF NotSkipped, Engaged
<1>2. CASE RequestStep(r)
  <2>0. AtWork(r)' /\ job'[r].at # "turn"
    BY DEF AtWork, Engaged
  <2>1. ~Begin(r) /\ ~StartDirect(r)
    BY <1>0, <2>0 DEF Begin, StartDirect, Become, Job
  <2>2. ASSUME NEW e \in Entries, ClaimEntry(r, e) PROVE job'[r].on \notin job'[r].already
    <3>1. e \notin job[r].already
      BY <2>2 DEF ClaimEntry
    <3>2. PICK at \in {"route", "conflict"} : job'[r] = [job[r] EXCEPT !.at = at, !.on = e]
      BY <1>0, <2>2 DEF ClaimEntry, Become
    <3>3. job'[r].on = e /\ job'[r].already = job[r].already
      BY <1>0, <3>2 DEF Job
    <3> QED  BY <3>1, <3>3
  <2>3. \A e \in Entries : ~Become(r, Passed(r, e))
    BY <1>0, <2>0 DEF Become, Passed, Job
  <2>4. ~(job[r].part = "rest" /\ Become(r, AfterRefusal(r, job[r].on)))
    <3> DEFINE p == Passed(r, job[r].on)
    <3>1. \A R : [p EXCEPT !.refused = R].at = "turn"
      BY <1>0 DEF Passed, Job
    <3>2. job[r].part = "rest" => AfterRefusal(r, job[r].on).at = "turn"
      BY <3>1 DEF AfterRefusal
    <3> QED  BY <1>0, <2>0, <3>2 DEF Become
  <2>5. ASSUME Route(r), Become(r, [job[r] EXCEPT !.at = "write",
                   !.clear = IF r \in Directs THEN Inspections \ tombs ELSE job[r].clear])
        PROVE  job'[r].on \notin job'[r].already
    <3>1. job'[r].on = job[r].on /\ job'[r].already = job[r].already
      BY <1>0, <2>5 DEF Become, Job
    <3> QED  BY <2>5, <3>1 DEF NotSkipped, Engaged, Route
  <2>6. ASSUME Engaged(r), NEW at, NEW how, job'[r] = [job[r] EXCEPT !.at = at, !.how = how]
        PROVE  job'[r].on \notin job'[r].already
    BY <1>0, <2>6 DEF NotSkipped, Job
  <2> QED  BY <1>0, <1>2, <2>0, <2>1, <2>2, <2>3, <2>4, <2>5, <2>6, WorkMoves
<1> QED  BY <1>0, <1>1, <1>2, OthersKeep

LEMMA AppliedOnceStep == IInv /\ OnceInv /\ [Next]_vars => AppliedOnce'
<1> SUFFICES ASSUME TypeOK, Duty, Locks, OnceInv, [Next]_vars, NEW e \in Entries, effects'[e] = 2, ~Excused(e)'
             PROVE  FALSE
  <2>1. \A e : Excused(e)' => e \in torn' \/ (e \in itself' \cap forgotten') \/ Outlives(e)'
    BY DEF Excused
  <2> QED  BY DEF IInv, AppliedOnce, Excused
<1>1. ~Excused(e)
  BY ExcusedStays
<1>2. effects[e] # 2
  BY <1>1 DEF OnceInv, AppliedOnce, Excused
<1>3. PICK r \in Requests : /\ job[r].at = "write" /\ job[r].on = e
                            /\ r \in Directs => e \in itself'
  BY <1>2, EffectsMove
\* Who is about to write holds the row: the ledger has no answer, and nobody else will store one.
<1>4. ~Known(e) /\ ~Answering(e)
  <2>1. ledger[KeyOf[e]].state = "in_flight"
    BY <1>3, HolderRow DEF Holding
  <2>2. \A q \in Requests : ~AnswerOf(q, e)
    BY <1>3 DEF AnswerOf, Locks, Holding
  <2> QED  BY <2>1, <2>2 DEF Known, Answering
<1>5. effects[e] > 0
  <2>1. effects \in [Entries -> 0..2]
    BY OnceTypes
  <2>2. effects'[e] \in {effects[e], effects[e] + 1}
    <3>1. CASE \E q \in Requests : Write(q)
      BY <2>1, <3>1 DEF Write
    <3>2. CASE \E q \in Requests : RequestStep(q) /\ ~Write(q)
      BY <3>2, ZenonT(40) DEF RequestStep, StartDirect, StartImport, Look, Judge, Begin, Fill, ReadClaim, StealClaim,
        Route, Answer, Record, EndHalf, Die, Skip, Block, ClaimEntry, history
    <3>3. CASE Tick \/ Forget \/ (\E i \in Inspections : Office(i) \/ DeleteRow(i)) \/ UNCHANGED vars
      BY <3>3 DEF Tick, Forget, Office, DeleteRow, vars, history
    <3> QED  BY <3>1, <3>2, <3>3, NextCases
  <2> QED  BY <1>2, <2>1, <2>2
<1>6. e \in forgotten
  BY <1>1, <1>4, <1>5 DEF OnceInv, InLedger, Applied
<1>7. e \notin itself /\ r \in Imports
  BY <1>1, <1>3, <1>6, ExcusesGrow DEF Excused, Requests
<1>8. AtWork(r) /\ e \in job[r].left
  BY <1>3, OnceTypes DEF AtWork, Engaged
<1>9. e \notin job[r].already
  BY <1>3, <1>7 DEF OnceInv, NotSkipped, Engaged
<1>10. e \in ToDo(r) /\ Applied(e)
  BY <1>1, <1>5, <1>8, <1>9 DEF ToDo, Applied
<1>11. Fresh(e) \/ Answering(e)
  BY <1>7, <1>8, <1>10 DEF OnceInv, UpToDate
<1> QED  BY <1>4, <1>11 DEF Fresh

LEMMA OnceInit == Init => OnceInv
<1> SUFFICES ASSUME Init PROVE OnceInv
  OBVIOUS
<1>1. /\ \A e \in Entries : effects[e] = 0 /\ recorded[e] = 0
      /\ \A r \in Requests : job[r].at = "idle"
  BY DEF Init, Idle
<1> QED
  BY <1>1, Facts DEF OnceInv, InLedger, OnRecord, UpToDate, FreshlyDone, OfToday, Dated, AppliedOnce,
     Applied, RecordOf, AtWork, Engaged, Resting, NotSkipped

\* An entry takes effect once, for any packages, requests, faults and days,
\* with the exceptions AppliedOnce names.
THEOREM OnceOnly == Spec => []AppliedOnce
  <1>1. IInv /\ OnceInv /\ [Next]_vars => IInv' /\ OnceInv'
    BY Inductive, InLedgerStep, OnRecordStep, UpToDateStep, FreshlyDoneStep, OfTodayStep,
       DatedStep,
       NotSkippedStep, AppliedOnceStep DEF OnceInv
  <1>2. Init => IInv /\ OnceInv
    BY Init_IInv, OnceInit
  <1>3. OnceInv => AppliedOnce
    BY DEF OnceInv
  <1> QED  BY <1>1, <1>2, <1>3, PTL DEF Spec

=============================================================================
