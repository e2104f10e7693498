--------------------------- MODULE OfflineImport ---------------------------
(***************************************************************************)
(* The writes a device queued while it was offline, on their way into the  *)
(* server: sent by the device itself, or replayed by the import of a       *)
(* package that carries them (offline-import.service.ts,                   *)
(* offline-import-outbox.ts), each under the Idempotency-Key of its entry  *)
(* (middleware/idempotency.ts), which IdempotencyKeys keeps, and all the   *)
(* way to the routes that create, update and complete an inspection.       *)
(*                                                                         *)
(* Every statement sent to D1 is a step of its own.  A request may break   *)
(* off between any two of them.  Photos and results of the package, and    *)
(* the refusals that depend on roles, locks and the archive, are one       *)
(* nondeterministic outcome.                                               *)
(*                                                                         *)
(* A definition named Faulty... is a mistake the one after it could easily *)
(* have been written with; nothing else refers to it.                      *)
(***************************************************************************)
EXTENDS IdempotencyKeys, FiniteSets

CONSTANTS
    Entries,        \* queued writes of the device
    Op,             \* "create", "update" or "complete"
    KeyOf,          \* the idempotency key the device minted for an entry
    Target,         \* the inspection an entry names
    Place,          \* where in its outbox an entry stands
    Imports,        \* import requests; a package may be sent several times
    Package,        \* the entries of the package an import carries
    Exported,       \* the day its manifest says it was exported
    Directs,        \* requests the device sends itself, one entry each
    Sent,           \* the entries it may be about
    MaxAge,         \* PACKAGE_MAX_AGE_DAYS
    MaxSkew,        \* PACKAGE_MAX_FUTURE_SKEW_DAYS
    RecordDays,     \* APPLIED_RECORD_RETENTION_DAYS
    MaxOpen,        \* bound: requests at work at a time
    MaxFaults,      \* bound: requests that die, and routes that fail after a write
    MaxOffice       \* bound: what the office does

Inspections == {Target[e] : e \in Entries}
Requests    == Imports \cup Directs

ASSUME OutboxEntries ==
    /\ Prints = Entries /\ "none" \notin Entries
    /\ Op \in [Entries -> {"create", "update", "complete"}]
    /\ KeyOf \in [Entries -> Keys]
    /\ DOMAIN Target = Entries /\ Place \in [Entries -> Nat]
    /\ \A e, f \in Entries : KeyOf[e] = KeyOf[f] /\ Target[e] = Target[f] => e = f

\* OutboxSchema refuses a package that has a key twice.
ASSUME PackageEntries ==
    /\ Imports \cap Directs = {}
    /\ Package \in [Imports -> SUBSET Entries] /\ Exported \in [Imports -> Nat]
    /\ \A r \in Imports : \A e, f \in Package[r] : e # f => KeyOf[e] # KeyOf[f] /\ Place[e] # Place[f]
    /\ Sent \in [Directs -> SUBSET Entries]

ASSUME ImportBounds ==
    /\ MaxAge \in Nat /\ MaxSkew \in Nat /\ RecordDays \in Nat
    /\ RecordDays >= MaxAge + MaxSkew
    /\ MaxOpen \in Nat /\ MaxFaults \in Nat /\ MaxOffice \in Nat

VARIABLES
    status,     \* of the inspection's row, "none" while there is none
    tombs,      \* inspections with a tombstone
    recorded,   \* offline_import_applied: the day of an entry's row, 0 for none
    job,        \* what each request is doing
    spent,      \* faults so far, and what the office has done so far
    effects,    \* how often each entry took effect (2: at least twice)
    held,       \* entries whose route answered because the entry is true of the row
    torn,       \* entries in the middle of which a request broke off
    itself,     \* entries that took effect in a request of the device itself
    forgotten   \* entries whose answer the retention sweep took out of the ledger

rows    == <<status, tombs>>
history == <<effects, held, torn, itself, forgotten>>
vars    == <<ledger, today, rows, recorded, job, spent, history>>

-----------------------------------------------------------------------------
Idle == [at |-> "idle", on |-> "none", part |-> "creates", left |-> {}, already |-> {},
         refused |-> {}, seen |-> {}, clear |-> {}, how |-> "ok"]
Over == [Idle EXCEPT !.at = "over"]

At == {"idle", "look", "judge", "begin", "turn", "conflict", "steal", "route", "write",
       "answer", "record", "fill", "over"}
Job == [at : At, on : Entries \cup {"none"}, part : {"creates", "rest", "itself"},
        left : SUBSET Entries, already : SUBSET Entries, refused : SUBSET Inspections,
        seen : SUBSET Inspections, clear : SUBSET Inspections,
        how : {"ok", "replayed", "refused", "failed"}]

TypeOK ==
    /\ ledger \in [Keys -> Row] /\ today \in 1..Days
    /\ status \in [Inspections -> {"none", "open", "completed", "cancelled"}]
    /\ tombs \in SUBSET Inspections
    /\ recorded \in [Entries -> 0..Days]
    /\ job \in [Requests -> Job]
    /\ spent \in [faults : 0..MaxFaults, office : 0..MaxOffice]
    /\ effects \in [Entries -> 0..2]
    /\ held \in SUBSET Entries /\ torn \in SUBSET Entries
    /\ itself \in SUBSET Entries /\ forgotten \in SUBSET Entries

\* An inspection the device creates is not there at first; any other one is.
Created == {Target[e] : e \in {f \in Entries : Op[f] = "create"}}

Init ==
    /\ LedgerInit
    /\ status = [i \in Inspections |-> IF i \in Created THEN "none" ELSE "open"]
    /\ tombs = {}
    /\ recorded = [e \in Entries |-> 0]
    /\ job = [r \in Requests |-> Idle]
    /\ spent = [faults |-> 0, office |-> 0]
    /\ effects = [e \in Entries |-> 0]
    /\ held = {} /\ torn = {} /\ itself = {} /\ forgotten = {}

-----------------------------------------------------------------------------
(* Where requests stand. *)

Resting(r)  == job[r].at \in {"idle", "over"}
Become(r, j) == job' = [job EXCEPT ![r] = j]
Step(r, at) == Become(r, [job[r] EXCEPT !.at = at])
Stop(r)     == Become(r, Over)
MayOpen     == Cardinality({r \in Requests : ~Resting(r)}) < MaxOpen

\* The next entry of the half an import is replaying; a direct request has one.
Head(r, e) == job[r].at = "turn" /\ e \in job[r].left /\ \A f \in job[r].left : Place[e] <= Place[f]
Half(r, part) == {e \in Package[r] : (Op[e] = "create") = (part = "creates")}
Passed(r, e)  == [job[r] EXCEPT !.at = "turn", !.on = "none", !.left = @ \ {e}, !.how = "ok"]

Exists(i) == status[i] # "none"
Present   == {i \in Inspections : Exists(i)}
Targets(r) == {Target[e] : e \in Package[r]}

-----------------------------------------------------------------------------
(* A request begins.  The device sends entry after entry in requests of its *)
(* own; an import first reads, and refuses the package as a whole.          *)

StartDirect(r) ==
    /\ r \in Directs /\ job[r].at = "idle" /\ MayOpen
    /\ \E e \in Sent[r] :
          Become(r, [job[r] EXCEPT !.at = "turn", !.part = "itself", !.left = {e}])
    /\ UNCHANGED <<ledger, today, rows, recorded, spent, history>>

\* A package is neither too old nor dated ahead.
FaultyImportable(r) == Exported[r] <= today + MaxSkew
Importable(r) == Exported[r] <= today + MaxSkew /\ today <= Exported[r] + MaxAge

StartImport(r) ==
    /\ r \in Imports /\ job[r].at = "idle" /\ MayOpen
    /\ Importable(r)
    /\ Step(r, "look")
    /\ UNCHANGED <<ledger, today, rows, recorded, spent, history>>

\* validate: which inspections exist, and may the importer edit them all?
Look(r) ==
    /\ job[r].at = "look"
    /\ \/ Become(r, [job[r] EXCEPT !.at = "judge", !.seen = Present])
       \/ Stop(r)
    /\ UNCHANGED <<ledger, today, rows, recorded, spent, history>>

\* findDeletedCreates: a missing inspection whose create is recorded, or that
\* has a tombstone, was deleted.  Any other must be created by the package.
FaultyDeletedCreates(r) ==
    {e \in Package[r] : Op[e] = "create" /\ Target[e] \notin job[r].seen /\ recorded[e] # 0}
DeletedCreates(r) ==
    {e \in Package[r] : /\ Op[e] = "create" /\ Target[e] \notin job[r].seen
                        /\ recorded[e] # 0 \/ Target[e] \in tombs}
Absent(r) == {i \in Targets(r) \ job[r].seen :
                 ~ \E e \in Package[r] : Op[e] = "create" /\ Target[e] = i}

Judge(r) ==
    /\ job[r].at = "judge"
    /\ IF DeletedCreates(r) = {} /\ Absent(r) = {}
       THEN Become(r, [job[r] EXCEPT !.at = "begin", !.clear = Inspections \ tombs])
       ELSE Stop(r)
    /\ UNCHANGED <<ledger, today, rows, recorded, spent, history>>

\* applyOutbox reads once which entries are recorded.
Begin(r) ==
    /\ job[r].at = "begin"
    /\ LET half == Half(r, job[r].part) IN
       Become(r, [job[r] EXCEPT !.at = "turn", !.left = half,
                                !.already = {e \in half : recorded[e] # 0}])
    /\ UNCHANGED <<ledger, today, rows, recorded, spent, history>>

\* The created inspections are opened, photos and results stored, and the rest
\* of the outbox follows; or one of these fails and the request with it.
Fill(r) ==
    /\ job[r].at = "fill"
    /\ \/ /\ Targets(r) \ job[r].seen \subseteq Present
          /\ Become(r, [Idle EXCEPT !.at = "begin", !.part = "rest"])
       \/ Stop(r)
    /\ UNCHANGED <<ledger, today, rows, recorded, spent, history>>

-----------------------------------------------------------------------------
(* One entry: skipped, blocked, or sent to its route under its key. *)

Skip(r, e) ==
    /\ Head(r, e) /\ e \in job[r].already
    /\ Become(r, Passed(r, e))
    /\ UNCHANGED <<ledger, today, rows, recorded, spent, history>>

\* A completion after a refused update of the same inspection is not attempted.
Blocked(r, e) == Op[e] = "complete" /\ Target[e] \in job[r].refused

Block(r, e) ==
    /\ Head(r, e) /\ e \notin job[r].already /\ Blocked(r, e)
    /\ Become(r, Passed(r, e))
    /\ UNCHANGED <<ledger, today, rows, recorded, spent, history>>

ClaimEntry(r, e) ==
    /\ Head(r, e) /\ e \notin job[r].already /\ ~Blocked(r, e)
    /\ \/ Claim(KeyOf[e], e) /\ Become(r, [job[r] EXCEPT !.at = "route", !.on = e])
       \/ /\ ledger[KeyOf[e]] # Unused /\ UNCHANGED ledger
          /\ Become(r, [job[r] EXCEPT !.at = "conflict", !.on = e])
    /\ UNCHANGED <<today, rows, recorded, spent, history>>

\* A refusal that will stay one: a create stops the import, any other entry is
\* reported and the next one tried.
FaultyAfterRefusal(r, e) == IF job[r].part = "rest" THEN Passed(r, e) ELSE Over
AfterRefusal(r, e) ==
    IF job[r].part = "rest"
    THEN [Passed(r, e) EXCEPT !.refused = @ \cup IF Op[e] = "update" THEN {Target[e]} ELSE {}]
    ELSE Over

\* A success is recorded by an import and by nobody else.
AfterSuccess(r, how) ==
    IF r \in Imports THEN [job[r] EXCEPT !.at = "record", !.how = how] ELSE Over

ReadClaim(r) ==
    /\ job[r].at = "conflict"
    /\ LET e == job[r].on
           verdict == Verdict(KeyOf[e], e)
       IN \/ verdict = "in_flight" /\ Stop(r)
          \/ verdict = "mismatch"  /\ Become(r, AfterRefusal(r, e))
          \/ verdict = "done"      /\ Become(r, AfterSuccess(r, "replayed"))
          \/ verdict = "expired"   /\ Step(r, "steal")
    /\ UNCHANGED <<ledger, today, rows, recorded, spent, history>>

StealClaim(r) ==
    /\ job[r].at = "steal"
    /\ LET e == job[r].on IN
       \/ Steal(KeyOf[e], e) /\ Step(r, "route")
       \/ ~Stealable(KeyOf[e]) /\ Stop(r) /\ UNCHANGED ledger
    /\ UNCHANGED <<today, rows, recorded, spent, history>>

-----------------------------------------------------------------------------
(* The routes.  Each reads the row, decides, and then writes without looking *)
(* again; a create is held by the unique id instead.                         *)

Decided(r, how) == Become(r, [job[r] EXCEPT !.at = "answer", !.how = how])

\* POST /inspections: a replay of a create finds the row.  Only a request of
\* the device looks for a tombstone here; an import has done so before.
RouteCreate(r, e) ==
    /\ Op[e] = "create"
    /\ \/ Exists(Target[e]) /\ Decided(r, "ok") /\ held' = held \cup {e}
       \/ /\ ~Exists(Target[e]) /\ UNCHANGED held
          /\ IF r \in Directs /\ Target[e] \in tombs
             THEN Decided(r, "refused")
             ELSE Become(r, [job[r] EXCEPT !.at = "write",
                                           !.clear = IF r \in Directs THEN Inspections \ tombs ELSE @])

\* PATCH /inspections/:id, which may refuse what the entry asks for.
RouteUpdate(r, e) ==
    /\ Op[e] = "update" /\ UNCHANGED held
    /\ \/ Exists(Target[e]) /\ Step(r, "write")
       \/ Decided(r, "refused")

\* POST /inspections/:id/complete, which asks for a role first.
RouteComplete(r, e) ==
    /\ Op[e] = "complete"
    /\ \/ status[Target[e]] = "open" /\ Step(r, "write") /\ UNCHANGED held
       \/ status[Target[e]] = "completed" /\ Decided(r, "ok") /\ held' = held \cup {e}
       \/ Decided(r, "refused") /\ UNCHANGED held

Route(r) ==
    /\ job[r].at = "route"
    /\ LET e == job[r].on IN
       \/ RouteCreate(r, e) \/ RouteUpdate(r, e) \/ RouteComplete(r, e)
       \/ Decided(r, "failed") /\ UNCHANGED held
    /\ UNCHANGED <<ledger, today, rows, recorded, spent, effects, torn, itself, forgotten>>

\* The write of the route: an insert that loses to another one finds the row,
\* an update of a row deleted meanwhile changes nothing, and both answer 2xx.
TakesHold(e) == Exists(Target[e]) = (Op[e] # "create")
WriteRow(e) ==
    status' = IF ~TakesHold(e) \/ Op[e] = "update" THEN status
              ELSE [status EXCEPT ![Target[e]] = IF Op[e] = "create" THEN "open" ELSE "completed"]

\* What comes after the write may fail; the answer is an error then.
FailsAfter(r, e) ==
    /\ Op[e] # "complete" /\ TakesHold(e) /\ spent.faults < MaxFaults
    /\ spent' = [spent EXCEPT !.faults = @ + 1]
    /\ Decided(r, "failed") /\ torn' = torn \cup {e}

Write(r) ==
    /\ job[r].at = "write"
    /\ LET e == job[r].on IN
       /\ WriteRow(e)
       /\ effects' = IF TakesHold(e) /\ effects[e] < 2 THEN [effects EXCEPT ![e] = @ + 1] ELSE effects
       /\ itself'  = IF TakesHold(e) /\ r \in Directs THEN itself \cup {e} ELSE itself
       /\ held'    = IF TakesHold(e) \/ Op[e] = "create" THEN held \cup {e} ELSE held
       /\ \/ Decided(r, "ok") /\ UNCHANGED <<torn, spent>>
          \/ FailsAfter(r, e)
    /\ UNCHANGED <<ledger, today, tombs, recorded, forgotten>>

\* The middleware keeps the answer of a success and drops any other claim.
Answer(r) ==
    /\ job[r].at = "answer"
    /\ LET e == job[r].on IN
       \/ /\ job[r].how = "ok" /\ Complete(KeyOf[e])
          /\ Become(r, AfterSuccess(r, "ok"))
       \/ /\ job[r].how = "refused" /\ Release(KeyOf[e])
          /\ Become(r, AfterRefusal(r, e))
       \/ job[r].how = "failed" /\ Release(KeyOf[e]) /\ Stop(r)
    /\ UNCHANGED <<today, rows, recorded, spent, history>>

\* A row that is there already stays as it is.
Record(r) ==
    /\ job[r].at = "record"
    /\ LET e == job[r].on IN
       /\ recorded' = [recorded EXCEPT ![e] = IF @ = 0 THEN today ELSE @]
       /\ Become(r, Passed(r, e))
    /\ UNCHANGED <<ledger, today, rows, spent, history>>

\* The end of a half.  A finished import sweeps old records, or some of them.
Old(e) == recorded[e] # 0 /\ recorded[e] + RecordDays < today

EndHalf(r) ==
    /\ job[r].at = "turn" /\ job[r].left = {}
    /\ \/ job[r].part = "creates" /\ Step(r, "fill") /\ UNCHANGED recorded
       \/ /\ job[r].part = "rest" /\ Stop(r)
          /\ \E swept \in SUBSET {e \in Entries : Old(e)} :
                recorded' = [e \in Entries |-> IF e \in swept THEN 0 ELSE recorded[e]]
    /\ UNCHANGED <<ledger, today, rows, spent, history>>

-----------------------------------------------------------------------------
(* What happens around the requests. *)

\* The isolate dies; nothing unwinds.
Die(r) ==
    /\ ~Resting(r) /\ spent.faults < MaxFaults
    /\ spent' = [spent EXCEPT !.faults = @ + 1]
    /\ Stop(r)
    /\ torn' = IF job[r].at \in {"answer", "record"} /\ job[r].how = "ok" THEN torn \cup {job[r].on} ELSE torn
    /\ UNCHANGED <<ledger, today, rows, recorded, effects, held, itself, forgotten>>

\* A request takes far less than a day: none is at work when one passes.
Tick ==
    /\ today < Days /\ \A r \in Requests : Resting(r)
    /\ today' = today + 1
    /\ UNCHANGED <<ledger, rows, recorded, job, spent, history>>

\* The retention sweep, at any moment.
Forget ==
    /\ SweepLedger
    /\ forgotten' = forgotten \cup {ledger[k].print : k \in {j \in Swept : ledger[j].state = "done"}}
    /\ UNCHANGED <<today, rows, recorded, job, spent, effects, held, torn, itself>>

\* The office confirms, completes, cancels, brings back what was cancelled,
\* and deletes: the tombstone first, then the row.
Office(i) ==
    /\ Exists(i) /\ spent.office < MaxOffice
    /\ spent' = [spent EXCEPT !.office = @ + 1]
    /\ \/ /\ \E s \in {"open", "completed", "cancelled"} \ {status[i]} : status' = [status EXCEPT ![i] = s]
          /\ UNCHANGED tombs
       \/ i \notin tombs /\ tombs' = tombs \cup {i} /\ UNCHANGED status
    /\ UNCHANGED <<ledger, today, recorded, job, history>>

DeleteRow(i) ==
    /\ i \in tombs /\ Exists(i)
    /\ status' = [status EXCEPT ![i] = "none"]
    /\ UNCHANGED <<ledger, today, tombs, recorded, job, spent, history>>

Next ==
    \/ \E r \in Requests :
          \/ StartDirect(r) \/ StartImport(r) \/ Look(r) \/ Judge(r) \/ Begin(r) \/ Fill(r)
          \/ ReadClaim(r) \/ StealClaim(r) \/ Route(r) \/ Write(r) \/ Answer(r) \/ Record(r)
          \/ EndHalf(r) \/ Die(r)
          \/ \E e \in Entries : Skip(r, e) \/ Block(r, e) \/ ClaimEntry(r, e)
    \/ Tick \/ Forget
    \/ \E i \in Inspections : Office(i) \/ DeleteRow(i)

Spec == Init /\ [][Next]_vars

-----------------------------------------------------------------------------
(* Properties. *)

\* An entry exported again so late that its package may be imported when the
\* record of its first import is gone.
Outlives(e) ==
    \E r, s \in Imports :
        e \in Package[r] \cap Package[s] /\ Exported[s] + MaxAge + MaxSkew > Exported[r] + RecordDays

\* A queued write takes effect once, however often it is exported, its package
\* imported and its request sent, at once or months apart.  The exceptions are a
\* request that broke off between the write and its record; what only the ledger
\* knew of, a write the device sent itself, once the ledger has forgotten it; and
\* an entry that outlives its record.
AppliedOnce ==
    \A e \in Entries : effects[e] = 2 =>
        e \in torn \/ (e \in itself \cap forgotten) \/ Outlives(e)

\* An entry that an import skips as already applied did take hold, although
\* keys may be shared by two packages and a stored answer stands in for the
\* route: nothing the device wrote is dropped.
TookHold(e) == e \in held \/ Target[e] \in tombs
SkippedTookHold ==
    \A e \in Entries :
        recorded[e] # 0 \/ (\E r \in Requests : e \in job[r].already) => TookHold(e)

\* An inspection that was deleted comes back only through a request that looked
\* before the deletion was done.
DeletedStaysDeleted ==
    [][\A i \in tombs : status[i] = "none" /\ status'[i] # "none" =>
          \E r \in Requests : /\ job[r].at = "write" /\ Target[job[r].on] = i
                              /\ i \in job[r].clear \cup job[r].seen]_vars

\* An import completes an inspection only when every update before the
\* completion in the same package took hold, in this import or an earlier one
\* (unless the inspection was being deleted).
Before(r, c) == {u \in Package[r] : Op[u] = "update" /\ Target[u] = Target[c] /\ Place[u] < Place[c]}
CompletedWithUpdate ==
    [][\A r \in Imports : \A c \in Entries :
          /\ job[r].at = "write" /\ job'[r].at # "write" /\ job[r].on = c
          /\ Op[c] = "complete" /\ status'[Target[c]] # status[Target[c]]
          => \A u \in Before(r, c) : TookHold(u)]_vars
=============================================================================
