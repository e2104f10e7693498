------------------------ MODULE PortalCommands_proofs ------------------------
(***************************************************************************)
(* Proofs about PortalCommands and its outbox: types, that no tenant       *)
(* command and no newer credential is lost, that an operation runs and is  *)
(* answered, and that no event is lost, for any commands in any order,     *)
(* with any copies and any number of faults.                               *)
(***************************************************************************)
EXTENDS PortalCommands, TLAPS

-----------------------------------------------------------------------------
(* The outbox. *)

\* A message sent and not marked yet is still on the queue, unless the portal
\* has processed it, or its write-back failed.
MarkFollowsSend == \A p \in Publisher : \A e \in toMark[p] \ (delivered \cup unnoted) : queue[e] > 0

\* The two queues share the bound.
Copied == \A e \in Events : queue[e] + dlq[e] <= MaxCopies

OutboxInv == OutboxTypeOK /\ Copied /\ (~SlowPublisher => MarkFollowsSend /\ NoEventLost)

LEMMA OutboxInitInv == OutboxInit => OutboxInv
  BY OutboxBounds
  DEF OutboxInit, OutboxInv, OutboxTypeOK, Copied, MarkFollowsSend, NoEventLost, Publisher

LEMMA OutboxKept == OutboxInv /\ UNCHANGED outbox => OutboxInv'
  BY DEF OutboxInv, OutboxTypeOK, Copied, MarkFollowsSend, NoEventLost, outbox

LEMMA AppendInv ==
  ASSUME OutboxInv, NEW e \in Events, AppendEvent(e)
  PROVE  OutboxInv'
  <1>1. OutboxTypeOK'
    BY DEF AppendEvent, OutboxInv, OutboxTypeOK, Publisher
  <1>3. Copied'
    BY DEF AppendEvent, OutboxInv, Copied
  <1>2. ~SlowPublisher => MarkFollowsSend' /\ NoEventLost'
    BY DEF AppendEvent, OutboxInv, OutboxTypeOK, Copied, MarkFollowsSend, NoEventLost
  <1> QED BY <1>1, <1>2, <1>3 DEF OutboxInv

LEMMA OutboxNextInv == OutboxInv /\ OutboxNext => OutboxInv'
  <1> SUFFICES ASSUME OutboxInv, OutboxNext PROVE OutboxInv'
    OBVIOUS
  <1> USE OutboxBounds DEF OutboxInv, OutboxTypeOK, Copied, MarkFollowsSend, NoEventLost
  <1>1. ASSUME NEW old \in SUBSET Events, Sweep(old) PROVE OutboxInv'
    BY <1>1 DEF Sweep, Publisher
  <1>2. ASSUME NEW p \in Publisher, Vanish(p) PROVE OutboxInv'
    BY <1>2 DEF Vanish
  <1>3. ASSUME NEW p \in Publisher, NEW e \in Events, Send(p, e) PROVE OutboxInv'
    <2>1. toSend' \in [Publisher -> SUBSET Events] /\ UNCHANGED <<dlq, delivered, unnoted, row>>
      BY <1>3 DEF Send
    <2>2. CASE UNCHANGED <<queue, toMark>>
      BY <2>1, <2>2
    <2>3. CASE /\ queue[e] + dlq[e] < MaxCopies
               /\ queue' = [queue EXCEPT ![e] = @ + 1]
               /\ toMark' = [toMark EXCEPT ![p] = @ \cup {e}]
      <3>1. \A f \in Events : queue'[f] \in 0 .. MaxCopies /\ queue'[f] >= queue[f]
        BY <2>3
      <3>2. queue' \in [Events -> 0 .. MaxCopies] /\ toMark' \in [Publisher -> SUBSET Events]
        BY <2>3, <3>1
      <3>3. queue'[e] > 0
        BY <2>3
      <3>4. ~SlowPublisher => MarkFollowsSend'
        BY <2>1, <2>3, <3>1, <3>3
      <3>5. ~SlowPublisher => NoEventLost'
        BY <2>1, <3>1
      <3>6. Copied'
        BY <2>1, <2>3
      <3> QED BY <2>1, <3>2, <3>4, <3>5, <3>6
    <2> QED BY <1>3, <2>2, <2>3 DEF Send
  <1>4. ASSUME NEW p \in Publisher, NEW e \in Events, Mark(p, e) PROVE OutboxInv'
    <2>1. OutboxTypeOK'
      BY <1>4 DEF Mark
    <2>2. ~SlowPublisher => MarkFollowsSend'
      BY <1>4 DEF Mark
    <2>3. ~SlowPublisher => NoEventLost'
      BY <1>4 DEF Mark
    <2>4. Copied'
      BY <1>4 DEF Mark
    <2> QED BY <2>1, <2>2, <2>3, <2>4
  <1>5. ASSUME NEW e \in Events, Deliver(e) PROVE OutboxInv'
    <2>1. OutboxTypeOK'
      BY <1>5 DEF Deliver
    <2>2. Copied'
      BY <1>5 DEF Deliver
    <2>3. ~SlowPublisher => MarkFollowsSend' /\ NoEventLost'
      BY <1>5 DEF Deliver
    <2> QED BY <2>1, <2>2, <2>3
  <1>6. ASSUME NEW e \in Events, GiveUp(e) PROVE OutboxInv'
    <2>1. OutboxTypeOK'
      BY <1>6 DEF GiveUp
    <2>4. Copied'
      BY <1>6 DEF GiveUp
    <2>2. ~SlowPublisher => MarkFollowsSend'
      BY <1>6 DEF GiveUp
    <2>3. ~SlowPublisher => NoEventLost'
      BY <1>6 DEF GiveUp
    <2> QED BY <2>1, <2>2, <2>3, <2>4
  <1>7. ASSUME NEW e \in Events, WriteBack(e) PROVE OutboxInv'
    BY <1>7 DEF WriteBack, Failed
  <1>8. ASSUME NEW e \in Events, Redrive(e) PROVE OutboxInv'
    BY <1>8 DEF Redrive
  <1> QED
    BY <1>1, <1>2, <1>3, <1>4, <1>5, <1>6, <1>7, <1>8 DEF OutboxNext

-----------------------------------------------------------------------------
(* The consumer. *)

Phase == {"idle", "guard", "apply", "check", "write", "bump", "advance", "reply", "undo",
          "ack", "retry"}
Jobs  == [at : Phase, cmd : Commands, salvage : BOOLEAN, result : Result]

\* The message in hand stays on the queue until it is acked or given up.
InHand == job.at # "idle" => inbox[job.cmd] > 0

PortalTypes ==
    /\ extra \in [Commands -> Nat] /\ inbox \in [Commands -> Nat]
    /\ dead \in SUBSET Commands /\ processed \in SUBSET Commands
    /\ tenant \in [here : BOOLEAN, seq : Nat, cred : Nat]
    /\ fields \in [Field -> Nat] /\ credential \in Nat
    /\ runs \in [Commands -> Nat]
    /\ answers \in SUBSET (Events \X Commands \X Result)
    /\ job \in Jobs
    /\ hit \in [Commands -> SUBSET Fault]

LEMMA TypeIs == TypeOK <=> OutboxTypeOK /\ PortalTypes
  BY DEF TypeOK, PortalTypes, Jobs, Phase

LEMMA NoJobIs == NoJob \in Jobs /\ NoJob.at = "idle"
  <1>1. (CHOOSE c \in Commands : TRUE) \in Commands
    BY Issued
  <1> QED BY <1>1 DEF NoJob, Jobs, Phase, Result

LEMMA HeldIs ==
  ASSUME NEW c \in Commands, NEW label \in Phase
  PROVE  /\ Held(c, label) \in Jobs
         /\ Held(c, label).at = label /\ Held(c, label).cmd = c /\ ~Held(c, label).salvage
  <1>1. NoJob \in Jobs /\ ~NoJob.salvage
    BY NoJobIs DEF NoJob
  <1> QED BY <1>1 DEF Held, Jobs

LEMMA DuplicateIs ==
  ASSUME NEW c \in Commands
  PROVE  /\ Duplicate(c) \in Jobs
         /\ Duplicate(c).at \in {"reply", "ack"} /\ Duplicate(c).cmd = c
  <1>1. /\ Held(c, "reply") \in Jobs /\ Held(c, "ack") \in Jobs
        /\ Held(c, "reply").at = "reply" /\ Held(c, "reply").cmd = c
        /\ Held(c, "ack").at = "ack" /\ Held(c, "ack").cmd = c
    BY HeldIs DEF Phase
  <1>2. [Held(c, "reply") EXCEPT !.result = "duplicate"] \in Jobs
    BY <1>1 DEF Jobs, Result
  <1>3. /\ [Held(c, "reply") EXCEPT !.result = "duplicate"].at = "reply"
        /\ [Held(c, "reply") EXCEPT !.result = "duplicate"].cmd = c
    BY <1>1 DEF Jobs
  <1> QED BY <1>1, <1>2, <1>3 DEF Duplicate

LEMMA GotoIs ==
  ASSUME job \in Jobs, NEW label \in Phase, Goto(label)
  PROVE  /\ job' \in Jobs
         /\ job'.at = label /\ job'.cmd = job.cmd /\ job'.salvage = job.salvage
  BY DEF Jobs, Goto

LEMMA SayIs ==
  ASSUME job \in Jobs, NEW result \in Result, Say(result)
  PROVE  /\ job' \in Jobs
         /\ job'.at \in {"reply", "ack"} /\ job'.cmd = job.cmd
  BY DEF Jobs, Say, Phase

LEMMA HitIs ==
  ASSUME hit \in [Commands -> SUBSET Fault], NEW c \in Commands, NEW f \in Fault, HitOn(c, f)
  PROVE  /\ hit' \in [Commands -> SUBSET Fault]
         /\ f \in hit'[c]
         /\ \A d \in Commands : hit[d] \subseteq hit'[d]
  BY DEF HitOn

-----------------------------------------------------------------------------
(* The inductive invariant of the consumer: what it knows of the command in *)
(* hand at each of its statements.                                          *)

Carries(c) == Kind[c] = "update" /\ CredSeq[c] > 0

\* The tenant is past command c, and past its credential.
Passed(c)  == /\ tenant.seq >= Seq[c]
              /\ Carries(c) => tenant.cred >= CredSeq[c]
Settled(c) == Passed(c) \/ Forsaken(c)

\* The tenant row is never ahead of what was written.
Absent   == ~tenant.here => tenant.seq = 0
Backing  == \A c \in Commands : Guarded(c) /\ tenant.seq = Seq[c] => fields[Kind[c]] >= Seq[c]
Password == credential >= tenant.cred

\* A command that is being applied is newer than all that were applied, ...
Newer == /\ job.at \in {"check", "write", "bump"} /\ ~job.salvage =>
                Seq[Cmd] > tenant.seq /\ fields[Kind[Cmd]] >= Seq[Cmd]
         /\ job.at = "apply" /\ Guarded(Cmd) => Seq[Cmd] > tenant.seq
         /\ job.at = "advance" /\ Guarded(Cmd) =>
                Seq[Cmd] > tenant.seq /\ fields[Kind[Cmd]] >= Seq[Cmd]

\* ... a credential is salvaged of a command the tenant is past, ...
Salvaging == /\ job.at \in {"guard", "apply", "advance"} => ~job.salvage
             /\ job.at = "guard" => Guarded(Cmd)
             /\ job.at \in {"check", "write", "bump"} => tenant.here /\ Carries(Cmd)
             /\ job.at \in {"check", "write", "bump"} /\ job.salvage => tenant.seq >= Seq[Cmd]
             /\ job.at \in {"write", "bump"} => CredSeq[Cmd] > tenant.cred
             /\ job.at = "bump" => credential >= CredSeq[Cmd]
             /\ job.at = "advance" /\ Guarded(Cmd) =>
                    tenant.here /\ (Carries(Cmd) => tenant.cred >= CredSeq[Cmd])

\* ... and the message of a command is acked once it is settled.
Working == {"guard", "apply", "check", "write", "bump", "advance", "undo"}
Acking  == job.at \in {"reply", "ack"} /\ Guarded(Cmd) => Settled(Cmd)
Markers == \A c \in processed : Guarded(c) => Settled(c) \/ (Cmd = c /\ job.at \in Working)
Emptied == \A c \in Commands : Guarded(c) /\ inbox[c] = 0 => c \in dead \/ Settled(c)

Consumer == /\ PortalTypes /\ InHand
            /\ Absent /\ Backing /\ Password
            /\ Newer /\ Salvaging
            /\ Acking /\ Markers /\ Emptied

\* What a command has reached, it keeps.
LEMMA SettledStays ==
  ASSUME NEW c \in Commands, Settled(c), hit[c] \subseteq hit'[c],
         tenant \in [here : BOOLEAN, seq : Nat, cred : Nat],
         tenant' \in [here : BOOLEAN, seq : Nat, cred : Nat],
         tenant'.seq >= tenant.seq, tenant'.cred >= tenant.cred
  PROVE  Settled(c)'
  <1>1. Forsaken(c) => Forsaken(c)'
    BY DEF Forsaken
  <1>2. Passed(c) => Passed(c)'
    BY Issued DEF Passed, Carries
  <1> QED BY <1>1, <1>2 DEF Settled

LEMMA ConsumerInit == Init => Consumer
  <1> SUFFICES ASSUME Init PROVE Consumer
    OBVIOUS
  <1>1. PortalTypes
    BY Issued, NoJobIs DEF Init, PortalTypes, Field
  <1>2. job.at = "idle" /\ processed = {} /\ \A c \in Commands : inbox[c] = 1
    BY NoJobIs DEF Init
  <1>3. tenant.seq = 0 /\ tenant.cred = 0 /\ credential = 0
    BY DEF Init
  <1>4. InHand /\ Newer /\ Salvaging /\ Acking /\ Markers /\ Emptied
    BY <1>2 DEF InHand, Newer, Salvaging, Acking, Markers, Emptied
  <1>5. Absent /\ Backing /\ Password
    BY <1>3, Issued DEF Absent, Backing, Password
  <1> QED BY <1>1, <1>4, <1>5 DEF Consumer

\* A step of the consumer that keeps its message: what it has to show.
LEMMA Proceeds ==
  ASSUME Consumer, job.at # "idle", job' \in Jobs, job'.at # "idle", job'.cmd = job.cmd,
         UNCHANGED <<extra, inbox, dead>>, processed' \subseteq processed,
         hit' \in [Commands -> SUBSET Fault], \A d \in Commands : hit[d] \subseteq hit'[d],
         tenant' \in [here : BOOLEAN, seq : Nat, cred : Nat],
         tenant'.seq >= tenant.seq, tenant'.cred >= tenant.cred,
         fields' \in [Field -> Nat], credential' \in Nat, runs' \in [Commands -> Nat],
         answers' \in SUBSET (Events \X Commands \X Result),
         Absent', Backing', Password', Newer', Salvaging',
         job'.at \in {"reply", "ack"} /\ Guarded(job.cmd) => Settled(job.cmd)',
         job'.at \in Working \/ (Guarded(job.cmd) /\ job.cmd \in processed' => Settled(job.cmd)')
  PROVE  Consumer'
  <1>1. PortalTypes' /\ InHand'
    BY DEF Consumer, PortalTypes, InHand
  <1>2. \A c \in Commands : Settled(c) => Settled(c)'
    BY SettledStays DEF Consumer, PortalTypes
  <1>3. Acking'
    BY DEF Acking, Cmd, Guarded
  <1>4. Emptied'
    BY <1>2 DEF Consumer, Emptied, Guarded
  <1>5. Markers'
    <2> SUFFICES ASSUME NEW c \in processed', Guarded(c)
                 PROVE  Settled(c)' \/ (job'.cmd = c /\ job'.at \in Working)
      BY DEF Markers, Cmd, Guarded, Working
    <2>1. c \in Commands /\ (Settled(c) \/ job.cmd = c)
      BY DEF Consumer, PortalTypes, Markers, Cmd
    <2> QED BY <1>2, <2>1
  <1> QED BY <1>1, <1>3, <1>4, <1>5 DEF Consumer

\* In particular one that only moves on, ...
LEMMA MovesOn ==
  ASSUME Consumer, job.at # "idle", job' \in Jobs, job'.at # "idle", job'.cmd = job.cmd,
         UNCHANGED <<extra, inbox, dead, processed, tenant, fields, credential, runs, answers>>,
         hit' \in [Commands -> SUBSET Fault], \A d \in Commands : hit[d] \subseteq hit'[d],
         Newer', Salvaging',
         job'.at \in {"reply", "ack"} /\ Guarded(job.cmd) => Settled(job.cmd)',
         job'.at \in Working \/ (Guarded(job.cmd) => Settled(job.cmd)')
  PROVE  Consumer'
  <1>1. Absent' /\ Backing' /\ Password'
    BY DEF Consumer, Absent, Backing, Password, Guarded
  <1>2. tenant \in [here : BOOLEAN, seq : Nat, cred : Nat] /\ tenant'.seq >= tenant.seq
        /\ tenant'.cred >= tenant.cred
    BY DEF Consumer, PortalTypes
  <1>3. /\ fields' \in [Field -> Nat] /\ credential' \in Nat /\ runs' \in [Commands -> Nat]
        /\ answers' \in SUBSET (Events \X Commands \X Result)
        /\ tenant' \in [here : BOOLEAN, seq : Nat, cred : Nat]
    BY DEF Consumer, PortalTypes
  <1> QED BY <1>1, <1>2, <1>3, Proceeds

\* ... and one that fails: its fault is noted, or the marker is rolled back.
LEMMA Fails ==
  ASSUME Consumer, job.at # "idle", NEW f \in Fault, HitOn(job.cmd, f),
         NEW label \in {"undo", "retry"}, Goto(label),
         label = "retry" => f \in {"crash", "dedup", "guard", "undo"},
         UNCHANGED <<extra, inbox, dead, processed, tenant, fields, credential, runs, answers>>
  PROVE  Consumer'
  <1>1. job \in Jobs /\ job.cmd \in Commands /\ hit \in [Commands -> SUBSET Fault] /\ label \in Phase
    BY DEF Consumer, PortalTypes, Jobs, Phase
  <1>2. job' \in Jobs /\ job'.at = label /\ job'.cmd = job.cmd
    BY <1>1, GotoIs
  <1>3. /\ hit' \in [Commands -> SUBSET Fault] /\ f \in hit'[job.cmd]
        /\ \A d \in Commands : hit[d] \subseteq hit'[d]
    BY <1>1, HitIs
  <1>4. Newer' /\ Salvaging'
    BY <1>2 DEF Newer, Salvaging
  <1>5. label = "retry" => Settled(job.cmd)'
    BY <1>2, <1>3 DEF Settled, Forsaken
  <1>6. label \in {"undo", "retry"} /\ ("undo" \in Working)
    BY DEF Working
  <1> QED BY <1>2, <1>3, <1>4, <1>5, <1>6, MovesOn

LEMMA TypesOfJob ==
  ASSUME Consumer
  PROVE  /\ job \in Jobs /\ job.cmd \in Commands /\ job.at \in Phase
         /\ hit \in [Commands -> SUBSET Fault]
         /\ \A d \in Commands : hit[d] \subseteq hit[d]
         /\ tenant \in [here : BOOLEAN, seq : Nat, cred : Nat]
         /\ tenant.here \in BOOLEAN /\ tenant.seq \in Nat /\ tenant.cred \in Nat
         /\ fields \in [Field -> Nat] /\ credential \in Nat /\ runs \in [Commands -> Nat]
         /\ answers \in SUBSET (Events \X Commands \X Result)
         /\ Seq[job.cmd] \in Nat \ {0} /\ CredSeq[job.cmd] \in Nat
         /\ Kind[job.cmd] \in {"update", "quota", "rename", "operation"}
         /\ \A c, d \in Commands : Seq[c] = Seq[d] => c = d
  <1>1. job \in Jobs /\ job.cmd \in Commands /\ job.at \in Phase
    BY DEF Consumer, PortalTypes, Jobs
  <1>2. tenant.here \in BOOLEAN /\ tenant.seq \in Nat /\ tenant.cred \in Nat
    BY DEF Consumer, PortalTypes
  <1> QED BY <1>1, <1>2, Issued DEF Consumer, PortalTypes

LEMMA GuardKeeps == ASSUME Consumer, Guard PROVE Consumer'
  <1>1. /\ job.at = "guard" /\ Guarded(job.cmd) /\ ~job.salvage
        /\ UNCHANGED <<extra, inbox, dead, processed, tenant, fields, credential, runs, answers>>
    BY DEF Guard, At, Consumer, Salvaging, Cmd
  <1> USE TypesOfJob
  <1>2. CASE ~Stale(job.cmd) /\ Goto("apply") /\ UNCHANGED hit
    <2>1. job' \in Jobs /\ job'.at = "apply" /\ job'.cmd = job.cmd /\ job'.salvage = job.salvage
      BY <1>2, GotoIs DEF Phase
    <2>2. Seq[job.cmd] > tenant.seq
      BY <1>2 DEF Stale, Consumer, Absent
    <2>3. Newer' /\ Salvaging'
      BY <1>1, <2>1, <2>2 DEF Newer, Salvaging, Cmd, Guarded
    <2> QED BY <1>1, <1>2, <2>1, <2>3, MovesOn DEF Working
  <1>3. CASE /\ Stale(job.cmd) /\ Salvaged(job.cmd) /\ UNCHANGED hit
             /\ job' = [job EXCEPT !.at = "check", !.salvage = TRUE]
    <2>1. job' \in Jobs /\ job'.at = "check" /\ job'.cmd = job.cmd /\ job'.salvage
      BY <1>3 DEF Jobs, Phase
    <2>2. Newer' /\ Salvaging'
      BY <1>1, <1>3, <2>1 DEF Newer, Salvaging, Cmd, Guarded, Stale, Salvaged, Carries
    <2> QED BY <1>1, <1>3, <2>1, <2>2, MovesOn DEF Working
  <1>4. CASE Stale(job.cmd) /\ ~Salvaged(job.cmd) /\ Say("stale") /\ UNCHANGED hit
    <2>1. job' \in Jobs /\ job'.at \in {"reply", "ack"} /\ job'.cmd = job.cmd
      BY <1>4, SayIs DEF Result
    <2>2. Newer' /\ Salvaging'
      BY <2>1 DEF Newer, Salvaging
    <2>3. Passed(job.cmd)
      BY <1>4 DEF Passed, Stale, Salvaged, Carries
    <2>4. Settled(job.cmd)'
      BY <1>1, <2>1, <2>3 DEF Settled, Passed, Carries
    <2> QED BY <1>1, <1>4, <2>1, <2>2, <2>4, MovesOn
  <1>5. CASE HitOn(job.cmd, "guard") /\ Goto("retry")
    BY <1>1, <1>5, Fails DEF Fault
  <1> QED BY <1>2, <1>3, <1>4, <1>5 DEF Guard, Hit, Cmd

LEMMA ApplyKeeps == ASSUME Consumer, Apply PROVE Consumer'
  <1>1. /\ job.at = "apply" /\ ~job.salvage
        /\ UNCHANGED <<extra, inbox, dead, processed, credential, answers>>
        /\ Guarded(job.cmd) => Seq[job.cmd] > tenant.seq
    BY DEF Apply, At, Consumer, Salvaging, Newer, Cmd
  <1> USE TypesOfJob
  <1>2. CASE HitOn(job.cmd, "apply") /\ Goto("undo") /\ UNCHANGED <<tenant, fields, runs>>
    BY <1>1, <1>2, Fails DEF Fault
  <1>3. CASE /\ Kind[job.cmd] \in {"quota", "rename"} /\ Goto("undo")
             /\ UNCHANGED <<tenant, fields, runs, hit>>
    <2>1. job' \in Jobs /\ job'.at = "undo" /\ job'.cmd = job.cmd
      BY <1>3, GotoIs DEF Phase
    <2>2. Newer' /\ Salvaging'
      BY <2>1 DEF Newer, Salvaging
    <2> QED BY <1>1, <1>3, <2>1, <2>2, MovesOn DEF Working
  <1>4. CASE /\ Kind[job.cmd] = "operation" /\ runs' = [runs EXCEPT ![job.cmd] = @ + 1]
             /\ Goto(Afterwards) /\ UNCHANGED <<tenant, fields, hit>>
    <2>1. Afterwards = "advance"
      BY <1>4 DEF Afterwards, Cmd
    <2>2. job' \in Jobs /\ job'.at = "advance" /\ job'.cmd = job.cmd /\ job'.salvage = job.salvage
      BY <1>4, <2>1, GotoIs DEF Phase
    <2>3. Newer' /\ Salvaging'
      BY <1>1, <1>4, <2>2 DEF Newer, Salvaging, Cmd, Guarded
    <2>4. Absent' /\ Backing' /\ Password'
      BY <1>1, <1>4 DEF Consumer, Absent, Backing, Password, Guarded
    <2>5. runs' \in [Commands -> Nat] /\ tenant'.seq >= tenant.seq /\ tenant'.cred >= tenant.cred
      BY <1>4
    <2> QED BY <1>1, <1>4, <2>2, <2>3, <2>4, <2>5, Proceeds DEF Working
  <1>5. ASSUME NEW k \in Field, Kind[job.cmd] = k, Goto(Afterwards), UNCHANGED <<runs, hit>>,
               fields' = [fields EXCEPT ![k] = Seq[job.cmd]],
               tenant' = [tenant EXCEPT !.here = TRUE]
        PROVE  Consumer'
    <2>1. /\ job.cmd \in Commands /\ Guarded(job.cmd) /\ Seq[job.cmd] > tenant.seq
          /\ Afterwards \in {"check", "advance"}
          /\ Afterwards = "check" <=> Carries(job.cmd)
      BY <1>1, <1>5 DEF Afterwards, Cmd, Carries, Guarded, Field
    <2>2. /\ job' \in Jobs /\ job'.at = Afterwards /\ job'.cmd = job.cmd
          /\ job'.salvage = job.salvage
      BY <1>5, <2>1, GotoIs DEF Phase
    <2>3. /\ tenant' \in [here : BOOLEAN, seq : Nat, cred : Nat]
          /\ tenant'.here /\ tenant'.seq = tenant.seq /\ tenant'.cred = tenant.cred
      BY <1>5
    <2>4. fields' \in [Field -> Nat] /\ fields'[k] = Seq[job.cmd]
      BY <1>5
    <2>5. Newer' /\ Salvaging'
      BY <1>1, <1>5, <2>1, <2>2, <2>3, <2>4 DEF Newer, Salvaging, Cmd, Guarded, Carries
    <2>6. Backing'
      <3> SUFFICES ASSUME NEW c \in Commands, Guarded(c), tenant'.seq = Seq[c]
                   PROVE  fields'[Kind[c]] >= Seq[c]
        BY DEF Backing, Guarded
      <3>1. fields[Kind[c]] >= Seq[c] /\ Kind[c] \in Field /\ Seq[c] \in Nat
        BY <2>3, Issued DEF Consumer, Backing, Guarded, Field
      <3> QED BY <1>5, <2>1, <2>3, <2>4, <3>1
    <2>7. Absent' /\ Password'
      BY <1>1, <2>3 DEF Consumer, Absent, Password
    <2>8. tenant'.seq >= tenant.seq /\ tenant'.cred >= tenant.cred /\ runs' \in [Commands -> Nat]
      BY <1>5, <2>3
    <2> QED
      BY <1>1, <1>5, <2>1, <2>2, <2>3, <2>4, <2>5, <2>6, <2>7, <2>8, Proceeds DEF Working
  <1>6. tenant.here => tenant = [tenant EXCEPT !.here = TRUE]
    OBVIOUS
  <1>7. CASE /\ Kind[job.cmd] = "update" /\ fields' = [fields EXCEPT !["update"] = Seq[job.cmd]]
             /\ tenant' = [tenant EXCEPT !.here = TRUE]
             /\ Goto(Afterwards) /\ UNCHANGED <<runs, hit>>
    BY <1>5, <1>7 DEF Field
  <1>8. CASE /\ Kind[job.cmd] \in {"quota", "rename"} /\ tenant.here
             /\ fields' = [fields EXCEPT ![Kind[job.cmd]] = Seq[job.cmd]]
             /\ Goto(Afterwards) /\ UNCHANGED <<tenant, runs, hit>>
    BY <1>5, <1>6, <1>8 DEF Field
  <1> QED BY <1>2, <1>3, <1>4, <1>7, <1>8 DEF Apply, Hit, Cmd

LEMMA FailingKeeps ==
  ASSUME Consumer, job.at \in {"check", "write", "bump"}, Failing,
         UNCHANGED <<extra, inbox, dead, processed, tenant, fields, credential, runs, answers>>
  PROVE  Consumer'
  <1>1. job.at # "idle"
    OBVIOUS
  <1>2. CASE HitOn(job.cmd, "guard") /\ Goto("retry")
    BY <1>1, <1>2, Fails DEF Fault
  <1>3. CASE HitOn(job.cmd, "apply") /\ Goto("undo")
    BY <1>1, <1>3, Fails DEF Fault
  <1> QED BY <1>2, <1>3 DEF Failing, Hit, Cmd

\* What holds of a command that has its credential to write.
LEMMA AtCredential ==
  ASSUME Consumer, job.at \in {"check", "write", "bump"}
  PROVE  /\ tenant.here /\ Carries(job.cmd) /\ Guarded(job.cmd)
         /\ job.salvage => tenant.seq >= Seq[job.cmd]
         /\ ~job.salvage => Seq[job.cmd] > tenant.seq /\ fields[Kind[job.cmd]] >= Seq[job.cmd]
         /\ job.at \in {"write", "bump"} => CredSeq[job.cmd] > tenant.cred
         /\ job.at = "bump" => credential >= CredSeq[job.cmd]
         /\ credential >= tenant.cred
  <1>1. tenant.here /\ Carries(job.cmd)
    BY DEF Consumer, Salvaging, Cmd
  <1>2. Guarded(job.cmd)
    BY <1>1 DEF Carries, Guarded
  <1>3. /\ job.salvage => tenant.seq >= Seq[job.cmd]
        /\ job.at \in {"write", "bump"} => CredSeq[job.cmd] > tenant.cred
        /\ job.at = "bump" => credential >= CredSeq[job.cmd]
    BY DEF Consumer, Salvaging, Cmd
  <1>4. ~job.salvage => Seq[job.cmd] > tenant.seq /\ fields[Kind[job.cmd]] >= Seq[job.cmd]
    BY DEF Consumer, Newer, Cmd
  <1> QED BY <1>1, <1>2, <1>3, <1>4 DEF Consumer, Password

LEMMA CheckKeeps == ASSUME Consumer, CheckCredential PROVE Consumer'
  <1>1. /\ job.at = "check"
        /\ UNCHANGED <<extra, inbox, dead, processed, tenant, fields, credential, runs, answers>>
    BY DEF CheckCredential, At
  <1>2. /\ tenant.here /\ Carries(job.cmd) /\ Guarded(job.cmd)
        /\ job.salvage => tenant.seq >= Seq[job.cmd]
        /\ ~job.salvage => Seq[job.cmd] > tenant.seq /\ fields[Kind[job.cmd]] >= Seq[job.cmd]
    BY <1>1, AtCredential
  <1> USE TypesOfJob
  <1>3. CASE (CredSeq[job.cmd] > tenant.cred \/ ~tenant.here) /\ Goto("write") /\ UNCHANGED hit
    <2>1. job' \in Jobs /\ job'.at = "write" /\ job'.cmd = job.cmd /\ job'.salvage = job.salvage
      BY <1>3, GotoIs DEF Phase
    <2>2. Newer' /\ Salvaging'
      BY <1>1, <1>2, <1>3, <2>1 DEF Newer, Salvaging, Cmd, Guarded, Carries
    <2> QED BY <1>1, <1>3, <2>1, <2>2, MovesOn DEF Working
  <1>4. CASE CredSeq[job.cmd] <= tenant.cred /\ job.salvage /\ Say("stale") /\ UNCHANGED hit
    <2>1. job' \in Jobs /\ job'.at \in {"reply", "ack"} /\ job'.cmd = job.cmd
      BY <1>4, SayIs DEF Result
    <2>2. Newer' /\ Salvaging'
      BY <2>1 DEF Newer, Salvaging
    <2>3. Settled(job.cmd)'
      BY <1>1, <1>2, <1>4, <2>1 DEF Settled, Passed, Carries
    <2> QED BY <1>1, <1>4, <2>1, <2>2, <2>3, MovesOn
  <1>5. CASE CredSeq[job.cmd] <= tenant.cred /\ ~job.salvage /\ Goto("advance") /\ UNCHANGED hit
    <2>1. job' \in Jobs /\ job'.at = "advance" /\ job'.cmd = job.cmd /\ job'.salvage = job.salvage
      BY <1>5, GotoIs DEF Phase
    <2>2. Newer' /\ Salvaging'
      BY <1>1, <1>2, <1>5, <2>1 DEF Newer, Salvaging, Cmd, Guarded, Carries
    <2> QED BY <1>1, <1>5, <2>1, <2>2, MovesOn DEF Working
  <1>6. CASE Failing
    BY <1>1, <1>6, FailingKeeps
  <1> QED BY <1>3, <1>4, <1>5, <1>6 DEF CheckCredential, Cmd

LEMMA WriteKeeps == ASSUME Consumer, WriteCredential PROVE Consumer'
  <1>1. /\ job.at = "write"
        /\ UNCHANGED <<extra, inbox, dead, processed, tenant, fields, runs, answers>>
    BY DEF WriteCredential, At
  <1>2. /\ tenant.here /\ Carries(job.cmd) /\ Guarded(job.cmd)
        /\ job.salvage => tenant.seq >= Seq[job.cmd]
        /\ ~job.salvage => Seq[job.cmd] > tenant.seq /\ fields[Kind[job.cmd]] >= Seq[job.cmd]
        /\ CredSeq[job.cmd] > tenant.cred
    BY <1>1, AtCredential
  <1> USE TypesOfJob
  <1>3. CASE credential' = CredSeq[job.cmd] /\ Goto("bump") /\ UNCHANGED hit
    <2>1. job' \in Jobs /\ job'.at = "bump" /\ job'.cmd = job.cmd /\ job'.salvage = job.salvage
      BY <1>3, GotoIs DEF Phase
    <2>2. Newer' /\ Salvaging'
      BY <1>1, <1>2, <1>3, <2>1 DEF Newer, Salvaging, Cmd, Guarded, Carries
    <2>3. Absent' /\ Backing' /\ Password'
      BY <1>1, <1>2, <1>3 DEF Consumer, Absent, Backing, Password, Guarded
    <2>4. credential' \in Nat /\ tenant'.seq >= tenant.seq /\ tenant'.cred >= tenant.cred
      BY <1>1, <1>3
    <2> QED BY <1>1, <1>3, <2>1, <2>2, <2>3, <2>4, Proceeds DEF Working
  <1>4. CASE Failing /\ UNCHANGED credential
    BY <1>1, <1>4, FailingKeeps
  <1> QED BY <1>3, <1>4 DEF WriteCredential, Cmd

LEMMA BumpKeeps == ASSUME Consumer, BumpCredential PROVE Consumer'
  <1>1. /\ job.at = "bump"
        /\ UNCHANGED <<extra, inbox, dead, processed, fields, credential, runs, answers>>
    BY DEF BumpCredential, At
  <1>2. /\ tenant.here /\ Carries(job.cmd) /\ Guarded(job.cmd)
        /\ job.salvage => tenant.seq >= Seq[job.cmd]
        /\ ~job.salvage => Seq[job.cmd] > tenant.seq /\ fields[Kind[job.cmd]] >= Seq[job.cmd]
        /\ CredSeq[job.cmd] > tenant.cred /\ credential >= CredSeq[job.cmd]
    BY <1>1, AtCredential
  <1> USE TypesOfJob
  <1>3. CASE Failing /\ UNCHANGED tenant
    BY <1>1, <1>3, FailingKeeps
  <1>4. CASE /\ tenant' = [tenant EXCEPT !.cred = IF @ < CredSeq[job.cmd] THEN CredSeq[job.cmd] ELSE @]
             /\ UNCHANGED hit
             /\ IF job.salvage THEN Say("salvaged") ELSE Goto("advance")
    <2>1. /\ tenant' \in [here : BOOLEAN, seq : Nat, cred : Nat]
          /\ tenant'.here /\ tenant'.seq = tenant.seq /\ tenant'.cred = CredSeq[job.cmd]
      BY <1>2, <1>4
    <2>2. Absent' /\ Backing' /\ Password'
      BY <1>1, <1>2, <2>1 DEF Consumer, Absent, Backing, Password, Guarded
    <2>3. tenant'.seq >= tenant.seq /\ tenant'.cred >= tenant.cred
      BY <1>2, <2>1
    <2>4. CASE job.salvage
      <3>1. job' \in Jobs /\ job'.at \in {"reply", "ack"} /\ job'.cmd = job.cmd
        BY <1>4, <2>4, SayIs DEF Result
      <3>2. Newer' /\ Salvaging'
        BY <3>1 DEF Newer, Salvaging
      <3>3. Settled(job.cmd)'
        BY <1>2, <2>1, <2>4, <3>1 DEF Settled, Passed, Carries
      <3> QED BY <1>1, <1>4, <2>1, <2>2, <2>3, <3>1, <3>2, <3>3, Proceeds
    <2>5. CASE ~job.salvage
      <3>1. /\ job' \in Jobs /\ job'.at = "advance" /\ job'.cmd = job.cmd
            /\ job'.salvage = job.salvage
        BY <1>4, <2>5, GotoIs DEF Phase
      <3>2. Newer' /\ Salvaging'
        BY <1>1, <1>2, <2>1, <2>5, <3>1 DEF Newer, Salvaging, Cmd, Guarded, Carries
      <3> QED BY <1>1, <1>4, <2>1, <2>2, <2>3, <3>1, <3>2, Proceeds DEF Working
    <2> QED BY <2>4, <2>5
  <1> QED BY <1>3, <1>4 DEF BumpCredential, Cmd

LEMMA AdvanceKeeps == ASSUME Consumer, Advance PROVE Consumer'
  <1>1. /\ job.at = "advance"
        /\ UNCHANGED <<extra, inbox, dead, processed, fields, credential, runs, answers>>
        /\ Guarded(job.cmd) => /\ tenant.here /\ Seq[job.cmd] > tenant.seq
                               /\ fields[Kind[job.cmd]] >= Seq[job.cmd]
                               /\ Carries(job.cmd) => tenant.cred >= CredSeq[job.cmd]
    BY DEF Advance, At, Consumer, Newer, Salvaging, Cmd
  <1> USE TypesOfJob
  <1>2. CASE HitOn(job.cmd, "advance") /\ Goto("undo") /\ UNCHANGED tenant
    BY <1>1, <1>2, Fails DEF Fault
  <1>3. CASE tenant' = Advanced(job.cmd) /\ Say("applied") /\ UNCHANGED hit
    <2>1. job' \in Jobs /\ job'.at \in {"reply", "ack"} /\ job'.cmd = job.cmd
      BY <1>3, SayIs DEF Result
    <2>2. Newer' /\ Salvaging'
      BY <2>1 DEF Newer, Salvaging
    <2>3. /\ tenant' \in [here : BOOLEAN, seq : Nat, cred : Nat]
          /\ tenant'.here = tenant.here /\ tenant'.cred = tenant.cred /\ tenant'.seq >= tenant.seq
          /\ tenant'.seq = tenant.seq \/ (tenant.here /\ tenant'.seq = Seq[job.cmd])
          /\ Guarded(job.cmd) => tenant'.seq = Seq[job.cmd]
      BY <1>1, <1>3 DEF Advanced
    <2>4. Absent' /\ Password'
      BY <1>1, <2>3 DEF Consumer, Absent, Password
    <2>5. Backing'
      <3> SUFFICES ASSUME NEW c \in Commands, Guarded(c), tenant'.seq = Seq[c]
                   PROVE  fields[Kind[c]] >= Seq[c]
        BY <1>1 DEF Backing, Guarded
      <3>1. CASE tenant'.seq = tenant.seq
        BY <3>1 DEF Consumer, Backing
      <3>2. CASE tenant'.seq = Seq[job.cmd]
        <4>1. c = job.cmd
          BY <3>2
        <4> QED BY <1>1, <4>1
      <3> QED BY <2>3, <3>1, <3>2
    <2>6. Guarded(job.cmd) => Settled(job.cmd)'
      BY <1>1, <2>1, <2>3 DEF Settled, Passed, Carries
    <2>7. tenant'.cred >= tenant.cred
      BY <2>3
    <2> QED BY <1>1, <1>3, <2>1, <2>2, <2>3, <2>4, <2>5, <2>6, <2>7, Proceeds
  <1> QED BY <1>2, <1>3 DEF Advance, Hit, Cmd

LEMMA ReplyKeeps == ASSUME Consumer, EmitReply PROVE Consumer'
  <1>1. /\ job.at = "reply" /\ Goto("ack")
        /\ UNCHANGED <<extra, inbox, dead, processed, tenant, fields, credential, runs>>
        /\ Guarded(job.cmd) => Settled(job.cmd)
    BY DEF EmitReply, At, Consumer, Acking, Cmd
  <1> USE TypesOfJob
  <1>2. job' \in Jobs /\ job'.at = "ack" /\ job'.cmd = job.cmd
    BY <1>1, GotoIs DEF Phase
  <1>3. /\ hit' \in [Commands -> SUBSET Fault] /\ \A d \in Commands : hit[d] \subseteq hit'[d]
        /\ answers' \in SUBSET (Events \X Commands \X Result)
    <2>1. CASE HitOn(job.cmd, "reply") /\ UNCHANGED answers
      BY <2>1, HitIs DEF Fault
    <2>2. CASE UNCHANGED hit /\ \E e \in Events : answers' = answers \cup {<<e, job.cmd, job.result>>}
      <3>1. job.result \in Result
        BY DEF Jobs
      <3> QED BY <2>2, <3>1
    <2> QED BY <2>1, <2>2 DEF EmitReply, Hit, Cmd
  <1>4. Newer' /\ Salvaging'
    BY <1>2 DEF Newer, Salvaging
  <1>5. Absent' /\ Backing' /\ Password'
    BY <1>1 DEF Consumer, Absent, Backing, Password, Guarded
  <1>6. Guarded(job.cmd) => Settled(job.cmd)'
    <2>1. job.cmd \in Commands /\ tenant' = tenant
      BY <1>1
    <2>2. ASSUME NEW c \in Commands, Settled(c) PROVE Settled(c)'
      BY <1>3, <2>1, <2>2, SettledStays
    <2>3. PICK c \in Commands : c = job.cmd /\ c = job'.cmd
      BY <1>2
    <2>4. Settled(c) => Settled(c)'
      BY <2>2
    <2> QED BY <1>1, <2>3, <2>4 DEF Settled, Passed, Forsaken, Carries, Guarded
  <1>7. tenant'.seq >= tenant.seq /\ tenant'.cred >= tenant.cred /\ runs' \in [Commands -> Nat]
        /\ fields' \in [Field -> Nat] /\ credential' \in Nat
        /\ tenant' \in [here : BOOLEAN, seq : Nat, cred : Nat]
    BY <1>1
  <1> QED BY <1>1, <1>2, <1>3, <1>4, <1>5, <1>6, <1>7, Proceeds

LEMMA UndoKeeps == ASSUME Consumer, Undo PROVE Consumer'
  <1>1. /\ job.at = "undo" /\ Goto("retry")
        /\ UNCHANGED <<extra, inbox, dead, tenant, fields, credential, runs, answers>>
    BY DEF Undo, At
  <1> USE TypesOfJob
  <1>2. job' \in Jobs /\ job'.at = "retry" /\ job'.cmd = job.cmd
    BY <1>1, GotoIs DEF Phase
  <1>3. CASE HitOn(job.cmd, "undo") /\ UNCHANGED processed
    BY <1>1, <1>3, Fails DEF Fault
  <1>4. CASE processed' = processed \ {job.cmd} /\ UNCHANGED hit
    <2>1. Newer' /\ Salvaging'
      BY <1>2 DEF Newer, Salvaging
    <2>2. Absent' /\ Backing' /\ Password'
      BY <1>1 DEF Consumer, Absent, Backing, Password, Guarded
    <2>3. tenant'.seq >= tenant.seq /\ tenant'.cred >= tenant.cred
      BY <1>1
    <2> QED BY <1>1, <1>2, <1>4, <2>1, <2>2, <2>3, Proceeds
  <1> QED BY <1>3, <1>4 DEF Undo, Unmarked, Hit, Cmd

\* What holds whenever the consumer is idle after a step that writes nothing.
LEMMA Rests ==
  ASSUME Consumer, job' \in Jobs, job'.at = "idle",
         inbox' \in [Commands -> Nat], extra' \in [Commands -> Nat], dead' \in SUBSET Commands,
         UNCHANGED <<processed, tenant, fields, credential, runs, answers>>,
         hit' \in [Commands -> SUBSET Fault], \A d \in Commands : hit[d] \subseteq hit'[d],
         \A c \in processed : Guarded(c) /\ job.cmd = c => Settled(c)',
         \A c \in Commands : Guarded(c) /\ inbox'[c] = 0 => c \in dead' \/ Settled(c)'
  PROVE  Consumer'
  <1>1. PortalTypes' /\ InHand'
    BY DEF Consumer, PortalTypes, InHand
  <1>2. \A c \in Commands : Settled(c) => Settled(c)'
    BY SettledStays, TypesOfJob
  <1>3. Absent' /\ Backing' /\ Password'
    BY DEF Consumer, Absent, Backing, Password, Guarded
  <1>4. Newer' /\ Salvaging' /\ Acking'
    BY DEF Newer, Salvaging, Acking
  <1>5. Markers'
    <2> SUFFICES ASSUME NEW c \in processed, Guarded(c) PROVE Settled(c)'
      BY DEF Markers, Guarded
    <2>1. c \in Commands /\ (Settled(c) \/ job.cmd = c)
      BY DEF Consumer, PortalTypes, Markers, Cmd
    <2> QED BY <1>2, <2>1
  <1>6. Emptied'
    BY DEF Emptied, Guarded
  <1> QED BY <1>1, <1>3, <1>4, <1>5, <1>6 DEF Consumer

LEMMA AckKeeps == ASSUME Consumer, Ack PROVE Consumer'
  <1>1. /\ job.at = "ack" /\ job' = NoJob /\ inbox' = [inbox EXCEPT ![job.cmd] = @ - 1]
        /\ UNCHANGED <<extra, dead, processed, tenant, fields, credential, runs, answers, hit>>
        /\ inbox[job.cmd] > 0 /\ (Guarded(job.cmd) => Settled(job.cmd))
    BY DEF Ack, At, Cmd, Consumer, InHand, Acking
  <1> USE TypesOfJob
  <1>2. inbox' \in [Commands -> Nat] /\ extra' \in [Commands -> Nat] /\ dead' \in SUBSET Commands
    BY <1>1 DEF Consumer, PortalTypes
  <1>3. \A c \in Commands : Settled(c) => Settled(c)'
    BY <1>1, SettledStays
  <1>4. \A c \in Commands : Guarded(c) /\ inbox'[c] = 0 => c \in dead' \/ Settled(c)
    BY <1>1 DEF Consumer, Emptied, PortalTypes
  <1>5. \A c \in processed : Guarded(c) /\ job.cmd = c => Settled(c)'
    BY <1>1, <1>3
  <1> QED BY <1>1, <1>2, <1>3, <1>4, <1>5, NoJobIs, Rests

LEMMA RetryKeeps == ASSUME Consumer, Retry PROVE Consumer'
  <1>1. /\ job.at = "retry" /\ job' = NoJob /\ inbox[job.cmd] > 0
        /\ UNCHANGED <<extra, processed, tenant, fields, credential, runs, answers, hit>>
        /\ \A c \in processed : Guarded(c) => Settled(c)
    BY DEF Retry, At, Cmd, Consumer, InHand, Markers, Working
  <1> USE TypesOfJob
  <1>2. \A c \in Commands : Settled(c) => Settled(c)'
    BY <1>1, SettledStays
  <1>3. /\ inbox' \in [Commands -> Nat] /\ extra' \in [Commands -> Nat] /\ dead' \in SUBSET Commands
        /\ \A c \in Commands : inbox'[c] = 0 => inbox[c] = 0 \/ c \in dead'
        /\ dead \subseteq dead'
    BY <1>1 DEF Retry, Cmd, Consumer, PortalTypes
  <1>4. \A c \in Commands : Guarded(c) /\ inbox'[c] = 0 => c \in dead' \/ Settled(c)'
    BY <1>2, <1>3 DEF Consumer, Emptied
  <1>5. \A c \in processed : Guarded(c) /\ job.cmd = c => Settled(c)'
    BY <1>1, <1>2
  <1> QED BY <1>1, <1>3, <1>4, <1>5, NoJobIs, Rests

LEMMA CrashKeeps == ASSUME Consumer, Crash PROVE Consumer'
  <1>1. /\ HitOn(job.cmd, "crash") /\ job' = NoJob
        /\ UNCHANGED <<extra, inbox, dead, processed, tenant, fields, credential, runs, answers>>
    BY DEF Crash, Hit, Cmd
  <1> USE TypesOfJob
  <1>2. /\ hit' \in [Commands -> SUBSET Fault] /\ "crash" \in hit'[job.cmd]
        /\ \A d \in Commands : hit[d] \subseteq hit'[d]
    BY <1>1, HitIs DEF Fault
  <1>3. \A c \in Commands : Settled(c) => Settled(c)'
    BY <1>1, <1>2, SettledStays
  <1>4. \A c \in processed : Guarded(c) /\ job.cmd = c => Settled(c)'
    BY <1>2 DEF Settled, Forsaken
  <1>5. /\ inbox' \in [Commands -> Nat] /\ extra' \in [Commands -> Nat] /\ dead' \in SUBSET Commands
        /\ \A c \in Commands : Guarded(c) /\ inbox'[c] = 0 => c \in dead' \/ Settled(c)'
    BY <1>1, <1>3 DEF Consumer, Emptied, PortalTypes
  <1> QED BY <1>1, <1>2, <1>4, <1>5, NoJobIs, Rests

\* The consumer does not see the queue being filled, nor the outbox.
LEMMA AgainKeeps == ASSUME Consumer, NEW c \in Commands, Again(c) PROVE Consumer'
  <1>1. /\ extra[c] > 0 /\ extra' = [extra EXCEPT ![c] = @ - 1]
        /\ inbox' = [inbox EXCEPT ![c] = @ + 1]
        /\ UNCHANGED <<dead, processed, tenant, fields, credential, runs, answers, job, hit>>
    BY DEF Again
  <1>2. PortalTypes'
    BY <1>1 DEF Consumer, PortalTypes
  <1>3. \A d \in Commands : inbox'[d] >= inbox[d] /\ inbox[d] \in Nat
    BY <1>1 DEF Consumer, PortalTypes
  <1>4. InHand'
    BY <1>1, <1>3, TypesOfJob DEF Consumer, InHand
  <1>5. Absent' /\ Backing' /\ Password' /\ Newer' /\ Salvaging'
    BY <1>1 DEF Consumer, Absent, Backing, Password, Newer, Salvaging, Cmd, Guarded, Carries
  <1>6. \A d \in Commands : Settled(d) <=> Settled(d)'
    BY <1>1 DEF Settled, Passed, Forsaken, Carries
  <1>7. Acking' /\ Markers'
    BY <1>1 DEF Consumer, Acking, Markers, Cmd, Guarded, Settled, Passed, Forsaken, Carries
  <1>8. Emptied'
    BY <1>1, <1>3, <1>6 DEF Consumer, Emptied, Guarded
  <1> QED BY <1>2, <1>4, <1>5, <1>7, <1>8 DEF Consumer

LEMMA PortalKept == Consumer /\ UNCHANGED portal => Consumer'
  <1> SUFFICES ASSUME Consumer, UNCHANGED portal PROVE Consumer'
    OBVIOUS
  <1>1. UNCHANGED <<extra, inbox, dead, processed, tenant, fields, credential, runs, answers, job, hit>>
    BY DEF portal
  <1>2. PortalTypes' /\ InHand' /\ Absent' /\ Backing' /\ Password'
    BY <1>1 DEF Consumer, PortalTypes, InHand, Absent, Backing, Password, Guarded
  <1>3. Newer' /\ Salvaging'
    BY <1>1 DEF Consumer, Newer, Salvaging, Cmd, Guarded, Carries
  <1>4. Acking' /\ Markers' /\ Emptied'
    BY <1>1
    DEF Consumer, Acking, Markers, Emptied, Cmd, Guarded, Settled, Passed, Forsaken, Carries
  <1> QED BY <1>2, <1>3, <1>4 DEF Consumer

LEMMA ReceiveKeeps == ASSUME Consumer, NEW c \in Commands, Receive(c) PROVE Consumer'
  <1>1. /\ job.at = "idle" /\ inbox[c] > 0
        /\ UNCHANGED <<extra, inbox, dead, tenant, fields, credential, runs, answers>>
        /\ \A d \in processed : Guarded(d) => Settled(d)
    BY DEF Receive, At, Consumer, Markers, Working
  <1> USE TypesOfJob
  <1>2. Absent' /\ Backing' /\ Password'
    BY <1>1 DEF Consumer, Absent, Backing, Password, Guarded
  <1>3. CASE /\ c \notin processed /\ processed' = processed \cup {c} /\ UNCHANGED hit
             /\ job' = Held(c, IF Guarded(c) THEN "guard" ELSE "apply")
    <2> DEFINE label == IF Guarded(c) THEN "guard" ELSE "apply"
    <2>1. label \in Phase /\ label \in {"guard", "apply"} /\ (label = "guard" <=> Guarded(c))
      BY DEF Phase
    <2>2. job' = Held(c, label)
      BY <1>3
    <2> HIDE DEF label
    <2>3. job' \in Jobs /\ job'.at = label /\ job'.cmd = c /\ ~job'.salvage
      BY <2>1, <2>2, HeldIs
    <2>4. PortalTypes' /\ InHand'
      BY <1>1, <1>3, <2>3 DEF Consumer, PortalTypes, InHand
    <2>5. Newer' /\ Salvaging' /\ Acking'
      BY <2>1, <2>3 DEF Newer, Salvaging, Acking, Cmd, Guarded
    <2>6. \A d \in Commands : Settled(d) => Settled(d)'
      BY <1>1, <1>3, SettledStays
    <2>7. Markers'
      <3>1. \A d \in processed : Guarded(d) => Settled(d)'
        BY <1>1, <2>6 DEF Consumer, PortalTypes
      <3> QED BY <1>3, <2>1, <2>3, <3>1 DEF Markers, Cmd, Guarded, Working
    <2>8. Emptied'
      BY <1>1, <2>6 DEF Consumer, Emptied, Guarded
    <2> QED BY <1>2, <2>4, <2>5, <2>7, <2>8 DEF Consumer
  <1>4. ASSUME job' = Duplicate(c), UNCHANGED processed,
               hit' \in [Commands -> SUBSET Fault], \A d \in Commands : hit[d] \subseteq hit'[d],
               c \in processed \/ "dedup" \in hit'[c]
        PROVE  Consumer'
    <2>1. job' \in Jobs /\ job'.at \in {"reply", "ack"} /\ job'.cmd = c
      BY <1>4, DuplicateIs
    <2>2. PortalTypes' /\ InHand'
      BY <1>1, <1>4, <2>1 DEF Consumer, PortalTypes, InHand
    <2>3. Newer' /\ Salvaging'
      BY <2>1 DEF Newer, Salvaging
    <2>4. \A d \in Commands : Settled(d) => Settled(d)'
      BY <1>1, <1>4, SettledStays
    <2>5. Guarded(c) => Settled(c)'
      BY <1>1, <1>4, <2>4 DEF Settled, Forsaken
    <2>6. Acking'
      BY <2>1, <2>5 DEF Acking, Cmd, Guarded, Settled, Passed, Forsaken, Carries
    <2>7. Markers'
      <3>1. \A d \in processed : Guarded(d) => Settled(d)'
        BY <1>1, <2>4 DEF Consumer, PortalTypes
      <3> QED BY <1>4, <3>1 DEF Markers, Guarded
    <2>8. Emptied'
      BY <1>1, <2>4 DEF Consumer, Emptied, Guarded
    <2> QED BY <1>2, <2>2, <2>3, <2>6, <2>7, <2>8 DEF Consumer
  <1>5. CASE c \in processed /\ job' = Duplicate(c) /\ UNCHANGED <<processed, hit>>
    BY <1>4, <1>5
  <1>6. CASE HitOn(c, "dedup") /\ job' = Duplicate(c) /\ UNCHANGED processed
    <2>1. /\ hit' \in [Commands -> SUBSET Fault] /\ "dedup" \in hit'[c]
          /\ \A d \in Commands : hit[d] \subseteq hit'[d]
      BY <1>6, HitIs DEF Fault
    <2> QED BY <1>4, <1>6, <2>1
  <1> QED BY <1>3, <1>5, <1>6 DEF Receive

-----------------------------------------------------------------------------
(* The two together. *)

IInv == OutboxInv /\ Consumer

LEMMA IInvInit == Init => IInv
  BY OutboxInitInv, ConsumerInit DEF Init, IInv

LEMMA IInvStep == IInv /\ [Next]_vars => IInv'
  <1> SUFFICES ASSUME OutboxInv, Consumer, [Next]_vars PROVE OutboxInv' /\ Consumer'
    BY DEF IInv
  <1>1. CASE OutboxNext /\ UNCHANGED portal
    BY <1>1, OutboxNextInv, PortalKept
  <1>2. ASSUME NEW c \in Commands, Again(c) \/ Receive(c) PROVE OutboxInv' /\ Consumer'
    <2>1. UNCHANGED outbox
      BY <1>2 DEF Again, Receive
    <2> QED BY <1>2, <2>1, OutboxKept, AgainKeeps, ReceiveKeeps
  <1>3. CASE Guard \/ Apply \/ CheckCredential \/ WriteCredential \/ BumpCredential \/ Advance
    <2>1. UNCHANGED outbox
      BY <1>3 DEF Guard, Apply, CheckCredential, WriteCredential, BumpCredential, Advance
    <2> QED
      BY <1>3, <2>1, OutboxKept, GuardKeeps, ApplyKeeps, CheckKeeps, WriteKeeps, BumpKeeps,
         AdvanceKeeps
  <1>4. CASE EmitReply
    <2>1. (\E e \in Events : AppendEvent(e)) \/ UNCHANGED outbox
      BY <1>4 DEF EmitReply
    <2> QED BY <1>4, <2>1, AppendInv, OutboxKept, ReplyKeeps
  <1>5. CASE Undo \/ Ack \/ Retry \/ Crash
    <2>1. UNCHANGED outbox
      BY <1>5 DEF Undo, Ack, Retry, Crash
    <2> QED BY <1>5, <2>1, OutboxKept, UndoKeeps, AckKeeps, RetryKeeps, CrashKeeps
  <1>6. CASE UNCHANGED vars
    BY <1>6, OutboxKept, PortalKept DEF vars
  <1> QED BY <1>1, <1>2, <1>3, <1>4, <1>5, <1>6 DEF Next

LEMMA IInvAlways == Spec => []IInv
  BY IInvInit, IInvStep, PTL DEF Spec

\* The rows of the outbox and of the consumer keep their types.
THEOREM TypeCorrect == Spec => []TypeOK
  <1>1. IInv => TypeOK
    BY TypeIs DEF IInv, OutboxInv, Consumer
  <1> QED BY <1>1, IInvAlways, PTL

\* With any number of commands, copies and faults, in any order: a tenant
\* command that left the queue wrote its state, or a newer one had come first,
\* unless one of the four faults of Forsaken met it.
THEOREM NoCommandLost == Spec => []CommandNotLost
  <1>1. IInv => CommandNotLost
    <2> SUFFICES ASSUME IInv, NEW c \in Commands, Guarded(c), Gone(c), ~Forsaken(c)
                 PROVE  tenant.seq > Seq[c] \/ (fields[Kind[c]] >= Seq[c] /\ tenant.seq = Seq[c])
      BY DEF CommandNotLost
    <2>1. tenant.seq >= Seq[c]
      BY DEF IInv, Consumer, Emptied, Gone, Settled, Passed
    <2>2. tenant.seq = Seq[c] => fields[Kind[c]] >= Seq[c]
      BY DEF IInv, Consumer, Backing
    <2>3. tenant.seq \in Nat /\ Seq[c] \in Nat
      BY Issued, TypesOfJob DEF IInv
    <2> QED BY <2>1, <2>2, <2>3
  <1> QED BY <1>1, IInvAlways, PTL

\* And a credential that left the queue is stored, or a newer one is, unless
\* one of those faults met its command.
THEOREM NewestCredential == Spec => []NewestCredentialWins
  <1>1. IInv => NewestCredentialWins
    <2> SUFFICES ASSUME IInv, NEW c \in Commands, Carries(c), Gone(c), ~Forsaken(c)
                 PROVE  credential >= CredSeq[c]
      BY DEF NewestCredentialWins, Carries
    <2>1. tenant.cred >= CredSeq[c]
      BY DEF IInv, Consumer, Emptied, Gone, Settled, Passed, Guarded, Carries
    <2>2. credential >= tenant.cred
      BY DEF IInv, Consumer, Password
    <2>3. tenant.cred \in Nat /\ credential \in Nat /\ CredSeq[c] \in Nat
      BY Issued, TypesOfJob DEF IInv
    <2> QED BY <2>1, <2>2, <2>3
  <1> QED BY <1>1, IInvAlways, PTL

\* An event of the outbox is never lost by a publisher that dies, a send that
\* fails or a portal that gives up, if no row is marked after that.
THEOREM EventsAreKept == ASSUME ~SlowPublisher PROVE Spec => []NoEventLost
  <1>1. IInv => NoEventLost
    BY DEF IInv, OutboxInv
  <1> QED BY <1>1, IInvAlways, PTL

-----------------------------------------------------------------------------
(* Operations: what becomes of a command that is not tenant state. *)

\* The answer to c is in the outbox, and c has run and been answered, as far as
\* no fault excuses it.
Told(c)     == \E e \in Events : <<e, c, "applied">> \in answers
Reported(c) == \/ Forsaken(c)
               \/ runs[c] > 0 /\ (Answered(c) => "reply" \in hit[c] \/ Told(c))

\* c has not run yet, or it will run again because the statement after it failed.
Fresh(c) == runs[c] = 0 \/ "advance" \in hit[c]

\* What holds of an operation whatever the consumer does, ...
Standing(c) == /\ runs[c] > 1 => "advance" \in hit[c]
               /\ c \notin processed => Fresh(c)
               /\ inbox[c] = 0 => c \in dead \/ Reported(c)
               /\ c \in processed =>
                     Reported(c) \/ (job.cmd = c /\ job.at \in {"apply", "undo", "advance", "reply"})

\* ... and while it is in hand.
Handled(c) == job.cmd = c =>
    /\ job.at = "apply" => c \in processed /\ Fresh(c)
    /\ job.at = "undo" => Fresh(c)
    /\ job.at \in {"advance", "reply"} => runs[c] > 0
    /\ job.at = "reply" => job.result = "applied"
    /\ job.at = "ack" => Reported(c)

Operations == \A c \in Commands : Kind[c] = "operation" => Standing(c) /\ Handled(c)

LEMMA ReportedStays ==
  ASSUME NEW c \in Commands, hit[c] \subseteq hit'[c], answers \subseteq answers',
         runs[c] \in Nat, runs'[c] \in Nat, runs'[c] >= runs[c], Reported(c)
  PROVE  Reported(c)'
  <1>1. (Forsaken(c) => Forsaken(c)') /\ (Told(c) => Told(c)')
    BY DEF Forsaken, Told
  <1>2. Answered(c)' <=> Answered(c)
    BY DEF Answered
  <1> QED BY <1>1, <1>2 DEF Reported

\* A step in which the consumer has another command in hand, or none.
LEMMA Elsewhere ==
  ASSUME NEW c \in Commands, Standing(c), runs \in [Commands -> Nat],
         job.cmd # c \/ job.at \in {"idle", "retry", "guard", "check", "write", "bump", "ack"},
         job'.cmd # c \/ job'.at \in {"idle", "retry", "guard", "check", "write", "bump"},
         hit[c] \subseteq hit'[c], answers \subseteq answers', dead \subseteq dead',
         runs'[c] = runs[c], c \in processed' <=> c \in processed,
         inbox'[c] = 0 => inbox[c] = 0 \/ c \in dead' \/ Reported(c)
  PROVE  Standing(c)' /\ Handled(c)'
  <1>1. Reported(c) => Reported(c)'
    BY ReportedStays
  <1>2. Fresh(c) => Fresh(c)'
    BY DEF Fresh
  <1> QED BY <1>1, <1>2 DEF Standing, Handled

\* A step on the command in hand that settles nothing else.
LEMMA InTheHand ==
  ASSUME NEW c \in Commands, Standing(c), runs \in [Commands -> Nat], job'.cmd = c,
         hit[c] \subseteq hit'[c], answers \subseteq answers', UNCHANGED <<runs, inbox, dead>>,
         processed' \subseteq processed,
         c \in processed /\ c \notin processed' => Fresh(c),
         c \in processed' => \/ Reported(c)'
                             \/ job'.at \in {"apply", "undo", "advance", "reply"},
         Handled(c)'
  PROVE  Standing(c)' /\ Handled(c)'
  <1>1. Reported(c) => Reported(c)'
    BY ReportedStays
  <1>2. Fresh(c) => Fresh(c)'
    BY DEF Fresh
  <1> QED BY <1>1, <1>2 DEF Standing

LEMMA OperationsInit == Init => Operations
  <1> SUFFICES ASSUME Init, NEW c \in Commands PROVE Standing(c) /\ Handled(c)
    BY DEF Operations
  <1>1. job.at = "idle" /\ processed = {} /\ inbox[c] = 1 /\ runs[c] = 0
    BY NoJobIs DEF Init
  <1> QED BY <1>1 DEF Standing, Handled, Fresh

\* The statements that only tenant commands reach.
LEMMA TenantStep ==
  ASSUME Consumer, Operations, Guard \/ CheckCredential \/ WriteCredential \/ BumpCredential
  PROVE  Operations'
  <1> SUFFICES ASSUME NEW c \in Commands, Kind[c] = "operation" PROVE Standing(c)' /\ Handled(c)'
    BY DEF Operations
  <1> USE TypesOfJob
  <1>1. job.at \in {"guard", "check", "write", "bump"}
    BY DEF Guard, CheckCredential, WriteCredential, BumpCredential, At
  <1>2. job.cmd # c
    BY <1>1 DEF Consumer, Salvaging, Carries, Guarded, Cmd
  <1>3. UNCHANGED <<inbox, dead, processed, runs, answers>>
    BY DEF Guard, CheckCredential, WriteCredential, BumpCredential
  <1>4. job'.cmd = job.cmd /\ hit[c] \subseteq hit'[c]
    <2>1. \/ UNCHANGED hit
          \/ \E f \in Fault : HitOn(job.cmd, f)
      BY DEF Guard, CheckCredential, WriteCredential, BumpCredential, Failing, Hit, Cmd, Fault
    <2>2. job'.cmd = job.cmd
      <3>1. \/ \E label \in Phase : Goto(label)
            \/ \E result \in Result : Say(result)
            \/ job' = [job EXCEPT !.at = "check", !.salvage = TRUE]
        BY DEF Guard, CheckCredential, WriteCredential, BumpCredential, Failing, Phase, Result
      <3>2. CASE job' = [job EXCEPT !.at = "check", !.salvage = TRUE]
        BY <3>2 DEF Jobs
      <3> QED BY <3>1, <3>2, GotoIs, SayIs
    <2> QED BY <2>1, <2>2, HitIs
  <1> QED BY <1>2, <1>3, <1>4, Elsewhere DEF Operations

LEMMA OperationApply == ASSUME Consumer, Operations, Apply PROVE Operations'
  <1> SUFFICES ASSUME NEW c \in Commands, Kind[c] = "operation" PROVE Standing(c)' /\ Handled(c)'
    BY DEF Operations
  <1> USE TypesOfJob
  <1>1. /\ job.at = "apply" /\ UNCHANGED <<inbox, dead, processed, answers>>
        /\ Standing(c) /\ Handled(c)
    BY DEF Apply, At, Operations
  <1>2. CASE HitOn(job.cmd, "apply") /\ Goto("undo") /\ UNCHANGED <<tenant, fields, runs>>
    <2>1. hit[c] \subseteq hit'[c] /\ job'.at = "undo" /\ job'.cmd = job.cmd
      BY <1>2, HitIs, GotoIs DEF Fault, Phase
    <2>2. CASE job.cmd = c
      <3>1. Handled(c)'
        BY <1>1, <1>2, <2>1, <2>2 DEF Handled, Fresh
      <3> QED BY <1>1, <1>2, <2>1, <2>2, <3>1, InTheHand
    <2> QED BY <1>1, <1>2, <2>1, <2>2, Elsewhere
  <1>3. CASE Kind[job.cmd] # "operation" /\ UNCHANGED <<runs, hit>> /\ job'.cmd = job.cmd
    BY <1>1, <1>3, Elsewhere
  <1>4. CASE /\ Kind[job.cmd] = "operation" /\ runs' = [runs EXCEPT ![job.cmd] = @ + 1]
             /\ Goto(Afterwards) /\ UNCHANGED <<tenant, fields, hit>>
    <2>1. job'.at = "advance" /\ job'.cmd = job.cmd
      BY <1>4, GotoIs DEF Afterwards, Cmd, Phase
    <2>2. CASE job.cmd = c
      <3>1. runs'[c] = runs[c] + 1 /\ c \in processed' /\ Fresh(c)
        BY <1>1, <1>4, <2>2 DEF Handled
      <3>2. runs'[c] > 1 => "advance" \in hit'[c]
        BY <1>4, <3>1 DEF Fresh
      <3>3. Handled(c)'
        BY <2>1, <3>1 DEF Handled
      <3>4. Reported(c) => Reported(c)'
        BY <1>1, <1>4, <3>1, ReportedStays
      <3> QED BY <1>1, <2>1, <2>2, <3>1, <3>2, <3>3, <3>4 DEF Standing
    <2>3. CASE job.cmd # c
      BY <1>1, <1>4, <2>1, <2>3, Elsewhere
    <2> QED BY <2>2, <2>3
  <1>5. (Goto(Afterwards) \/ Goto("undo")) => job'.cmd = job.cmd
    <2>1. Afterwards \in Phase /\ "undo" \in Phase
      BY DEF Afterwards, Phase
    <2> QED BY <2>1, GotoIs
  <1> QED BY <1>2, <1>3, <1>4, <1>5 DEF Apply, Hit, Cmd

LEMMA OperationAdvance == ASSUME Consumer, Operations, Advance PROVE Operations'
  <1> SUFFICES ASSUME NEW c \in Commands, Kind[c] = "operation" PROVE Standing(c)' /\ Handled(c)'
    BY DEF Operations
  <1> USE TypesOfJob
  <1>1. /\ job.at = "advance" /\ UNCHANGED <<inbox, dead, processed, runs, answers>>
        /\ Standing(c) /\ Handled(c)
    BY DEF Advance, At, Operations
  <1>2. CASE HitOn(job.cmd, "advance") /\ Goto("undo")
    <2>1. /\ hit[c] \subseteq hit'[c] /\ "advance" \in hit'[job.cmd]
          /\ job'.at = "undo" /\ job'.cmd = job.cmd
      BY <1>2, HitIs, GotoIs DEF Fault, Phase
    <2>2. CASE job.cmd = c
      <3>1. Handled(c)'
        BY <2>1, <2>2 DEF Handled, Fresh
      <3> QED BY <1>1, <2>1, <2>2, <3>1, InTheHand
    <2> QED BY <1>1, <2>1, <2>2, Elsewhere
  <1>3. CASE Say("applied") /\ UNCHANGED hit
    <2>1. /\ job'.at = (IF Answered(job.cmd) THEN "reply" ELSE "ack") /\ job'.cmd = job.cmd
          /\ job'.result = "applied"
      BY <1>3 DEF Say, Jobs, Cmd
    <2>2. CASE job.cmd = c
      <3>1. runs'[c] > 0
        BY <1>1, <2>2 DEF Handled
      <3>2. job'.at = "ack" => Reported(c)'
        BY <2>1, <2>2, <3>1 DEF Reported, Answered
      <3>3. Handled(c)'
        BY <2>1, <3>1, <3>2 DEF Handled
      <3> QED BY <1>1, <1>3, <2>1, <2>2, <3>2, <3>3, InTheHand
    <2> QED BY <1>1, <1>3, <2>1, <2>2, Elsewhere
  <1> QED BY <1>2, <1>3 DEF Advance, Hit, Cmd

LEMMA OperationReply == ASSUME Consumer, Operations, EmitReply PROVE Operations'
  <1> SUFFICES ASSUME NEW c \in Commands, Kind[c] = "operation" PROVE Standing(c)' /\ Handled(c)'
    BY DEF Operations
  <1> USE TypesOfJob
  <1>1. /\ job.at = "reply" /\ Goto("ack") /\ UNCHANGED <<inbox, dead, processed, runs>>
        /\ Standing(c) /\ Handled(c)
    BY DEF EmitReply, At, Operations
  <1>2. job'.at = "ack" /\ job'.cmd = job.cmd
    BY <1>1, GotoIs DEF Phase
  <1>3. CASE HitOn(job.cmd, "reply") /\ UNCHANGED answers
    <2>1. hit[c] \subseteq hit'[c] /\ "reply" \in hit'[job.cmd]
      BY <1>3, HitIs DEF Fault
    <2>2. CASE job.cmd = c
      <3>1. Reported(c)'
        BY <1>1, <2>1, <2>2 DEF Handled, Reported
      <3>2. Handled(c)'
        BY <1>2, <3>1 DEF Handled
      <3> QED BY <1>1, <1>2, <1>3, <2>1, <2>2, <3>1, <3>2, InTheHand
    <2> QED BY <1>1, <1>2, <1>3, <2>1, <2>2, Elsewhere
  <1>4. ASSUME NEW e \in Events, answers' = answers \cup {<<e, job.cmd, job.result>>}, UNCHANGED hit
        PROVE  Standing(c)' /\ Handled(c)'
    <2>1. CASE job.cmd = c
      <3>1. Told(c)' /\ runs'[c] > 0
        BY <1>1, <1>4, <2>1 DEF Handled, Told
      <3>2. Reported(c)'
        BY <3>1 DEF Reported
      <3>3. Handled(c)'
        BY <1>2, <3>2 DEF Handled
      <3> QED BY <1>1, <1>2, <1>4, <2>1, <3>2, <3>3, InTheHand
    <2> QED BY <1>1, <1>2, <1>4, <2>1, Elsewhere
  <1> QED BY <1>3, <1>4 DEF EmitReply, Hit, Cmd

LEMMA OperationUndo == ASSUME Consumer, Operations, Undo PROVE Operations'
  <1> SUFFICES ASSUME NEW c \in Commands, Kind[c] = "operation" PROVE Standing(c)' /\ Handled(c)'
    BY DEF Operations
  <1> USE TypesOfJob
  <1>1. /\ job.at = "undo" /\ Goto("retry") /\ UNCHANGED <<inbox, dead, runs, answers>>
        /\ Standing(c) /\ Handled(c)
    BY DEF Undo, At, Operations
  <1>2. job'.at = "retry" /\ job'.cmd = job.cmd
    BY <1>1, GotoIs DEF Phase
  <1>3. Handled(c)'
    BY <1>2 DEF Handled
  <1>4. CASE HitOn(job.cmd, "undo") /\ UNCHANGED processed
    <2>1. hit[c] \subseteq hit'[c] /\ "undo" \in hit'[job.cmd]
      BY <1>4, HitIs DEF Fault
    <2>2. CASE job.cmd = c
      <3>1. Reported(c)'
        BY <2>1, <2>2 DEF Reported, Forsaken
      <3> QED BY <1>1, <1>2, <1>3, <1>4, <2>1, <2>2, <3>1, InTheHand
    <2> QED BY <1>1, <1>2, <1>4, <2>1, <2>2, Elsewhere
  <1>5. CASE processed' = processed \ {job.cmd} /\ UNCHANGED hit
    <2>1. CASE job.cmd = c
      <3>1. Fresh(c)
        BY <1>1, <2>1 DEF Handled
      <3> QED BY <1>1, <1>2, <1>3, <1>5, <2>1, <3>1, InTheHand
    <2> QED BY <1>1, <1>2, <1>5, <2>1, Elsewhere
  <1> QED BY <1>4, <1>5 DEF Undo, Unmarked, Hit, Cmd

\* The message in hand is acked, given up or delivered again.
LEMMA OperationRests == ASSUME Consumer, Operations, Ack \/ Retry \/ Crash PROVE Operations'
  <1> SUFFICES ASSUME NEW c \in Commands, Kind[c] = "operation" PROVE Standing(c)' /\ Handled(c)'
    BY DEF Operations
  <1> USE TypesOfJob
  <1>1. /\ job'.at = "idle" /\ UNCHANGED <<processed, runs, answers>> /\ dead \subseteq dead'
        /\ Standing(c) /\ Handled(c)
    BY NoJobIs DEF Ack, Retry, Crash, Operations
  <1>2. inbox \in [Commands -> Nat]
    BY DEF Consumer, PortalTypes
  <1>3. CASE Ack
    <2>1. job.at = "ack" /\ hit' = hit /\ inbox' = [inbox EXCEPT ![job.cmd] = @ - 1]
      BY <1>3 DEF Ack, At, Cmd
    <2>2. inbox'[c] = 0 => inbox[c] = 0 \/ Reported(c)
      BY <1>1, <1>2, <2>1 DEF Handled
    <2> QED BY <1>1, <2>1, <2>2, Elsewhere
  <1>4. CASE Retry
    <2>1. /\ job.at = "retry" /\ hit' = hit
          /\ inbox' = inbox \/ (inbox' = [inbox EXCEPT ![job.cmd] = @ - 1] /\ job.cmd \in dead')
      BY <1>4 DEF Retry, At, Cmd
    <2>2. inbox'[c] = 0 => inbox[c] = 0 \/ c \in dead'
      BY <1>2, <2>1
    <2> QED BY <1>1, <2>1, <2>2, Elsewhere
  <1>5. CASE Crash
    <2>1. HitOn(job.cmd, "crash") /\ inbox' = inbox
      BY <1>5 DEF Crash, Hit, Cmd
    <2>2. hit[c] \subseteq hit'[c] /\ "crash" \in hit'[job.cmd]
      BY <2>1, HitIs DEF Fault
    <2>3. CASE job.cmd = c
      <3>1. Reported(c)'
        BY <2>2, <2>3 DEF Reported, Forsaken
      <3>2. Fresh(c) => Fresh(c)'
        BY <1>1, <2>2 DEF Fresh
      <3>3. runs[c] > 1 => "advance" \in hit'[c]
        BY <1>1, <2>2 DEF Standing
      <3> QED BY <1>1, <2>1, <3>1, <3>2, <3>3 DEF Standing, Handled
    <2> QED BY <1>1, <2>1, <2>2, <2>3, Elsewhere
  <1> QED BY <1>3, <1>4, <1>5

LEMMA OperationReceive ==
  ASSUME Consumer, Operations, NEW d \in Commands, Receive(d)
  PROVE  Operations'
  <1> SUFFICES ASSUME NEW c \in Commands, Kind[c] = "operation" PROVE Standing(c)' /\ Handled(c)'
    BY DEF Operations
  <1> USE TypesOfJob
  <1>1. /\ job.at = "idle" /\ UNCHANGED <<inbox, dead, runs, answers>>
        /\ Standing(c) /\ Handled(c)
    BY DEF Receive, At, Operations
  <1>2. CASE /\ d \notin processed /\ processed' = processed \cup {d} /\ UNCHANGED hit
             /\ job' = Held(d, IF Guarded(d) THEN "guard" ELSE "apply")
    <2>1. CASE c = d
      <3>1. job' = Held(d, "apply")
        BY <1>2, <2>1 DEF Guarded
      <3>2. job'.at = "apply" /\ job'.cmd = c
        BY <2>1, <3>1, HeldIs DEF Phase
      <3>3. Fresh(c) /\ c \in processed'
        BY <1>1, <1>2, <2>1 DEF Standing
      <3>4. Reported(c) => Reported(c)'
        BY <1>1, <1>2, ReportedStays
      <3>5. Fresh(c)'
        BY <1>1, <1>2, <3>3 DEF Fresh
      <3> QED BY <1>1, <1>2, <3>2, <3>3, <3>4, <3>5 DEF Standing, Handled
    <2>2. CASE c # d
      <3>1. job'.cmd = d
        BY <1>2, HeldIs DEF Phase
      <3> QED BY <1>1, <1>2, <2>2, <3>1, Elsewhere
    <2> QED BY <2>1, <2>2
  <1>3. ASSUME job' = Duplicate(d), UNCHANGED processed, hit[c] \subseteq hit'[c],
               d \in processed \/ "dedup" \in hit'[d]
        PROVE  Standing(c)' /\ Handled(c)'
    <2>1. CASE c = d
      <3>1. job'.at = "ack" /\ job'.cmd = c
        BY <1>3, <2>1, HeldIs DEF Duplicate, Phase
      <3>2. Reported(c) => Reported(c)'
        BY <1>1, <1>3, ReportedStays
      <3>3. Reported(c)'
        <4>1. CASE d \in processed
          BY <1>1, <2>1, <3>2, <4>1 DEF Standing
        <4>2. CASE "dedup" \in hit'[d]
          BY <2>1, <4>2 DEF Reported, Forsaken
        <4> QED BY <1>3, <4>1, <4>2
      <3>4. Handled(c)'
        BY <3>1, <3>3 DEF Handled
      <3> QED BY <1>1, <1>3, <3>1, <3>3, <3>4, InTheHand
    <2>2. CASE c # d
      <3>1. job'.cmd = d
        BY <1>3, DuplicateIs
      <3> QED BY <1>1, <1>3, <2>2, <3>1, Elsewhere
    <2> QED BY <2>1, <2>2
  <1>4. CASE d \in processed /\ job' = Duplicate(d) /\ UNCHANGED <<processed, hit>>
    BY <1>3, <1>4
  <1>5. CASE HitOn(d, "dedup") /\ job' = Duplicate(d) /\ UNCHANGED processed
    <2>1. hit[c] \subseteq hit'[c] /\ "dedup" \in hit'[d]
      BY <1>5, HitIs DEF Fault
    <2> QED BY <1>3, <1>5, <2>1
  <1> QED BY <1>2, <1>4, <1>5 DEF Receive

LEMMA OperationsStep == IInv /\ Operations /\ [Next]_vars => Operations'
  <1> SUFFICES ASSUME Consumer, Operations, [Next]_vars PROVE Operations'
    BY DEF IInv
  <1>1. CASE UNCHANGED portal
    <2>1. UNCHANGED <<inbox, dead, processed, runs, answers, job, hit>>
      BY <1>1 DEF portal
    <2> QED
      BY <2>1 DEF Operations, Standing, Handled, Reported, Fresh, Told, Forsaken, Answered
  <1>2. ASSUME NEW c \in Commands, Again(c) PROVE Operations'
    <2>1. /\ inbox \in [Commands -> Nat] /\ inbox' = [inbox EXCEPT ![c] = @ + 1]
          /\ UNCHANGED <<dead, processed, runs, answers, job, hit>>
      BY <1>2 DEF Again, Consumer, PortalTypes
    <2>2. \A d \in Commands : inbox'[d] = 0 => inbox[d] = 0
      BY <2>1
    <2> HIDE <1>2
    <2> QED
      BY <2>1, <2>2 DEF Operations, Standing, Handled, Reported, Fresh, Told, Forsaken, Answered
  <1> QED
    BY <1>1, <1>2, TenantStep, OperationApply, OperationAdvance, OperationReply, OperationUndo,
       OperationRests, OperationReceive DEF Next, vars

\* An operation that left the queue, and met none of the faults of Forsaken, has
\* run, and its answer is in the outbox unless the append failed; none runs more
\* than once but one whose advance failed.  With any copies of the message,
\* whatever else is delivered between them.
THEOREM OperationsReported == Spec => []OperationReported
  <1>1. Operations => OperationReported
    BY DEF Operations, Standing, Reported, Told, Gone, OperationReported
  <1>2. Init => IInv /\ Operations
    BY IInvInit, OperationsInit
  <1>3. IInv /\ Operations /\ [Next]_vars => IInv' /\ Operations'
    BY IInvStep, OperationsStep
  <1> QED BY <1>1, <1>2, <1>3, PTL DEF Spec
==============================================================================
