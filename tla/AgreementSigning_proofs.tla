------------------------ MODULE AgreementSigning_proofs ------------------------
(***************************************************************************)
(* Proofs about AgreementSigning: its type invariant, that a counted       *)
(* signature is in the audit chain, that it implements AgreementOutcome,   *)
(* and that once nothing runs an agreed envelope is closed and an expired  *)
(* one has no signer left who looks able to sign; for any signers,         *)
(* requests, retries and deaths.                                           *)
(***************************************************************************)
EXTENDS AgreementSigning, SequenceTheorems, TLAPS

USE DEF Waiting, Decided

LEMMA AggregateIs ==
  /\ Aggregate \in {"declined", "signed", "viewed", "sent", "pending"}
  /\ policy \in {"all", "one"} /\ Aggregate = "signed" => Promise!Agreed
  /\ policy \in {"all", "one"} /\ Aggregate = "declined" => Promise!Refused
  <1>1. Aggregate \in {"declined", "signed", "viewed", "sent", "pending"}
    BY Zenon DEF Aggregate
  <1>2. ASSUME policy \in {"all", "one"}, Aggregate = "signed" PROVE Promise!Agreed
    BY <1>2, Zenon DEF Aggregate, Promise!Agreed
  <1>3. ASSUME policy \in {"all", "one"}, Aggregate = "declined" PROVE Promise!Refused
    BY <1>3, Zenon DEF Aggregate, Promise!Refused
  <1> QED BY <1>1, <1>2, <1>3

LEMMA SignableIs ==
  ASSUME NEW row
  PROVE  /\ Signable(row) \in {"resuming", "done", "claiming"}
         /\ Signable(row) = "claiming" => row.status \notin Decided /\ ~IsLive(row)
  BY Zenon DEF Signable

LEMMA GoesWith ==
  ASSUME TypeOK, NEW r \in Requests, NEW label \in Labels, NEW m \in Memo, GoWith(r, label, m)
  PROVE  /\ pc' \in [Requests -> Labels]
         /\ mine' \in [Requests -> Memo]
  <1>1. Nothing \in Memo
    BY DEF Nothing, Memo, NoRow, Row
  <1> QED BY <1>1 DEF TypeOK, GoWith, Ended

LEMMA Goes ==
  ASSUME TypeOK, NEW r \in Requests, NEW label \in Labels, Go(r, label)
  PROVE  /\ pc' \in [Requests -> Labels]
         /\ mine' \in [Requests -> Memo]
  <1>1. mine[r] \in Memo
    BY DEF TypeOK
  <1> QED BY <1>1, GoesWith DEF Go

LEMMA RollsOn ==
  ASSUME TypeOK, NEW r \in Requests, NEW env \in Waiting \cup Decided, RollForward(r, env)
  PROVE  /\ pc' \in [Requests -> Labels]
         /\ mine' \in [Requests -> Memo]
  <1> DEFINE m == [mine[r] EXCEPT !.env = env, !.row = NoRow, !.tries = 0]
  <1>1. m \in Memo
    BY ZenonT(40) DEF TypeOK, Memo, NoRow, Row
  <1>2. GoWith(r, "loading", m) /\ "loading" \in Labels
    BY DEF RollForward, Labels
  <1> HIDE DEF m
  <1> QED BY <1>1, <1>2, GoesWith

LEMMA Puts ==
  ASSUME TypeOK, NEW s \in Signers, NEW row \in Row, Put(s, row)
  PROVE  signer' \in [Signers -> Row]
  BY DEF TypeOK, Put

LEMMA TypeInit == Init => TypeOK
  BY Links DEF Init, TypeOK, NoRow, Nothing, Row, Memo, Labels

LEMMA TypeStep == TypeOK /\ [Next]_vars => TypeOK'
  <1> SUFFICES ASSUME TypeOK, [Next]_vars PROVE TypeOK'
    OBVIOUS
  <1> USE Links
  <1>1. \A r \in Requests : For[r] \in Signers /\ signer[For[r]] \in Row /\ mine[r] \in Memo
    BY DEF TypeOK
  <1>2. ASSUME NEW r \in Requests, NEW op \in May[r], Arrive(r, op) PROVE TypeOK'
    <2> DEFINE row == signer[For[r]]
               m   == [Nothing EXCEPT !.op = op, !.row = row, !.env = envelope]
               l   == CASE op = "sign"    -> Signable(row)
                        [] op = "decline" -> Declinable(row)
                        [] op = "view"    -> Viewable(row)
    <2>1. op \in {"sign", "decline", "view"}
      BY Links, <1>2
    <2>2. m \in Memo
      BY <1>1, <2>1 DEF TypeOK, Nothing, Memo
    <2>3. l \in Labels
      BY <2>1, SignableIs DEF Declinable, Viewable, Labels
    <2>4. GoWith(r, l, m)
      BY <1>2 DEF Arrive
    <2> HIDE DEF m, l
    <2>5. pc' \in [Requests -> Labels] /\ mine' \in [Requests -> Memo]
      BY <2>2, <2>3, <2>4, GoesWith
    <2> QED BY <1>2, <2>5 DEF Arrive, TypeOK, d1
  <1>3. ASSUME NEW r \in Requests, Claim(r) PROVE TypeOK'
    <2>1. [status |-> "signing", by |-> r] \in Row /\ {"appending", "missed"} \subseteq Labels
      BY DEF Row, Labels
    <2>2. pc' \in [Requests -> Labels] /\ mine' \in [Requests -> Memo]
      BY <1>3, <2>1, Goes DEF Claim
    <2>3. signer' \in [Signers -> Row]
      BY <1>1, <1>3, <2>1, Puts DEF Claim, TypeOK
    <2> QED BY <1>3, <2>2, <2>3 DEF Claim, TypeOK
  <1>4. ASSUME NEW r \in Requests, Reread(r) PROVE TypeOK'
    <2> DEFINE m == [mine[r] EXCEPT !.row = signer[For[r]], !.tries = @ + 1]
               l == IF envelope = "expired" \/ mine[r].tries + 1 >= ClaimAttempts THEN "done"
                    ELSE Signable(signer[For[r]])
    <2>1. m \in Memo
      <3>1. mine[r] \in [op : {"sign", "decline", "view"}, row : Row, env : Waiting \cup Decided,
                         agg : Waiting \cup Decided, tries : Nat]
        BY <1>1 DEF Memo
      <3>2. mine[r].tries + 1 \in Nat /\ signer[For[r]] \in Row
        BY <1>1, <3>1
      <3> HIDE DEF Waiting, Decided
      <3>3. m \in [op : {"sign", "decline", "view"}, row : Row, env : Waiting \cup Decided,
                   agg : Waiting \cup Decided, tries : Nat]
        BY <3>1, <3>2
      <3> QED BY <3>3 DEF Memo
    <2>2. l \in Labels
      BY SignableIs DEF Labels
    <2>3. GoWith(r, l, m)
      BY <1>4 DEF Reread
    <2> HIDE DEF m, l
    <2>4. pc' \in [Requests -> Labels] /\ mine' \in [Requests -> Memo]
      BY <2>1, <2>2, <2>3, GoesWith
    <2> QED BY <1>4, <2>4 DEF Reread, TypeOK, d1
  <1>5. ASSUME NEW r \in Requests, Record(r) PROVE TypeOK'
    <2>1. pc' \in [Requests -> Labels] /\ mine' \in [Requests -> Memo]
      BY <1>5, Goes DEF Record, Labels
    <2>2. chain' \in [Signers -> Seq(Requests)]
      <3>1. \A s \in Signers : chain[s] \in Seq(Requests)
        BY DEF TypeOK
      <3>2. \A s \in Signers : Append(chain[s], r) \in Seq(Requests)
        BY <3>1, AppendProperties
      <3>3. CASE chain' = chain
        BY <3>3 DEF TypeOK
      <3>4. CASE Append1(r)
        BY <1>1, <3>2, <3>4 DEF Append1, TypeOK
      <3> QED BY <1>5, <3>3, <3>4 DEF Record
    <2> QED BY <1>5, <2>1, <2>2 DEF Record, TypeOK
  <1>6. ASSUME NEW r \in Requests, Confirm(r) PROVE TypeOK'
    <2>1. [signer[For[r]] EXCEPT !.status = "signed"] \in Row /\ "checking" \in Labels
      BY <1>1 DEF Row, Labels
    <2>2. mine[r].env \in Waiting \cup Decided
      BY <1>1 DEF Memo
    <2>3. pc' \in [Requests -> Labels] /\ mine' \in [Requests -> Memo]
      BY <1>6, <2>1, <2>2, Goes, RollsOn DEF Confirm
    <2>4. signer' \in [Signers -> Row]
      BY <1>1, <1>6, <2>1, Puts DEF Confirm, TypeOK
    <2> QED BY <1>6, <2>3, <2>4 DEF Confirm, TypeOK
  <1>7. ASSUME NEW r \in Requests, Check(r) PROVE TypeOK'
    <2>1. pc' \in [Requests -> Labels] /\ mine' \in [Requests -> Memo]
      BY <1>7, Goes DEF Check, Labels
    <2> QED BY <1>7, <2>1 DEF Check, TypeOK, d1
  <1>8. ASSUME NEW r \in Requests, Release(r) PROVE TypeOK'
    <2>1. pc' \in [Requests -> Labels] /\ mine' \in [Requests -> Memo]
      BY <1>8, Goes DEF Release, Released, Labels
    <2>2. mine[r].row \in Row
      BY <1>1 DEF Memo
    <2>3. signer' \in [Signers -> Row]
      BY <1>1, <1>8, <2>2, Puts DEF Release, TypeOK
    <2> QED BY <1>8, <2>1, <2>3 DEF Release, TypeOK
  <1>9. ASSUME NEW r \in Requests, ExpireReleased(r) PROVE TypeOK'
    <2>1. pc' \in [Requests -> Labels] /\ mine' \in [Requests -> Memo]
      BY <1>9, Goes DEF ExpireReleased, Labels
    <2>2. [signer[For[r]] EXCEPT !.status = "expired"] \in Row
      BY <1>1 DEF Row
    <2>3. signer' \in [Signers -> Row]
      BY <1>1, <1>9, <2>2, Puts DEF ExpireReleased, TypeOK
    <2> QED BY <1>9, <2>1, <2>3 DEF ExpireReleased, TypeOK
  <1>10. ASSUME NEW r \in Requests, Resume(r) PROVE TypeOK'
    <2>1. envelope \in Waiting \cup Decided /\ "done" \in Labels
      BY DEF TypeOK, Labels
    <2>2. pc' \in [Requests -> Labels] /\ mine' \in [Requests -> Memo]
      BY <1>10, <2>1, Goes, RollsOn DEF Resume
    <2> QED BY <1>10, <2>2 DEF Resume, TypeOK, d1
  <1>11. ASSUME NEW r \in Requests, Decline(r) PROVE TypeOK'
    <2>1. [signer[For[r]] EXCEPT !.status = "declined"] \in Row /\ "done" \in Labels
      BY <1>1 DEF Row, Labels
    <2>2. mine[r].env \in Waiting \cup Decided
      BY <1>1 DEF Memo
    <2>3. pc' \in [Requests -> Labels] /\ mine' \in [Requests -> Memo]
      BY <1>11, <2>1, <2>2, Goes, RollsOn DEF Decline
    <2>4. signer' \in [Signers -> Row]
      BY <1>1, <1>11, <2>1, Puts DEF Decline, TypeOK
    <2> QED BY <1>11, <2>3, <2>4 DEF Decline, TypeOK
  <1>12. ASSUME NEW r \in Requests, View(r) PROVE TypeOK'
    <2>1. [signer[For[r]] EXCEPT !.status = "viewed"] \in Row
      BY <1>1 DEF Row
    <2>2. mine[r].env \in Waiting \cup Decided
      BY <1>1 DEF Memo
    <2>3. pc' \in [Requests -> Labels] /\ mine' \in [Requests -> Memo]
      BY <1>12, <2>2, RollsOn DEF View
    <2>4. signer' \in [Signers -> Row]
      BY <1>1, <1>12, <2>1, Puts DEF View, TypeOK
    <2> QED BY <1>12, <2>3, <2>4 DEF View, TypeOK
  <1>13. ASSUME NEW r \in Requests, Load(r) PROVE TypeOK'
    <2> DEFINE m == [mine[r] EXCEPT !.agg = Aggregate]
    <2>1. m \in Memo
      BY <1>1, AggregateIs DEF Memo
    <2>2. GoWith(r, "rolling", m) /\ "rolling" \in Labels
      BY <1>13 DEF Load, Loaded, Labels
    <2> HIDE DEF m
    <2>3. pc' \in [Requests -> Labels] /\ mine' \in [Requests -> Memo]
      BY <2>1, <2>2, GoesWith
    <2> QED BY <1>13, <2>3 DEF Load, TypeOK, d1
  <1>14. ASSUME NEW r \in Requests, Roll(r) PROVE TypeOK'
    <2>1. pc' \in [Requests -> Labels] /\ mine' \in [Requests -> Memo]
      BY <1>14, Goes DEF Roll, Labels
    <2>2. envelope' \in Waiting \cup Decided
      BY <1>1, <1>14 DEF Roll, TypeOK, Memo
    <2> QED BY <1>14, <2>1, <2>2 DEF Roll, TypeOK
  <1>15. ASSUME NEW r \in Requests, Complete(r) PROVE TypeOK'
    <2>1. pc' \in [Requests -> Labels] /\ mine' \in [Requests -> Memo]
      BY <1>15, Goes DEF Complete, Labels
    <2> QED BY <1>15, <2>1 DEF Complete, TypeOK, d1
  <1>16. ASSUME NEW r \in Requests, Die(r) PROVE TypeOK'
    <2>1. pc' \in [Requests -> Labels] /\ mine' \in [Requests -> Memo]
      BY <1>16, Goes DEF Die, Labels
    <2> QED BY <1>16, <2>1 DEF Die, TypeOK, d1
  <1>17. ASSUME NEW r \in Requests, Age(r) PROVE TypeOK'
    BY <1>17 DEF Age, TypeOK, d1
  <1>18. CASE Probe
    BY <1>18 DEF Probe, TypeOK, d1
  <1>19. CASE ExpireEnvelope
    BY <1>19 DEF ExpireEnvelope, TypeOK
  <1>20. CASE ExpireSigners
    <2>1. ASSUME NEW s \in Signers PROVE signer'[s] \in Row
      <3>1. signer[s] \in Row
        BY DEF TypeOK
      <3>2. [signer[s] EXCEPT !.status = "expired"] \in Row
        BY <3>1 DEF Row, Decided
      <3> QED  BY <1>20, <3>1, <3>2 DEF ExpireSigners
    <2>2. signer' = [s \in Signers |-> signer'[s]]
      BY <1>20 DEF ExpireSigners
    <2>3. signer' \in [Signers -> Row]
      BY <2>1, <2>2
    <2> QED  BY <1>20, <2>3 DEF ExpireSigners, TypeOK
  <1>21. CASE Redeliver
    BY <1>21 DEF Redeliver, TypeOK, d1
  <1>22. CASE UNCHANGED vars
    BY <1>22 DEF vars, d1, TypeOK
  <1> QED
    BY <1>2, <1>3, <1>4, <1>5, <1>6, <1>7, <1>8, <1>9, <1>10, <1>11, <1>12, <1>13, <1>14,
       <1>15, <1>16, <1>17, <1>18, <1>19, <1>20, <1>21, <1>22 DEF Next, Step

\* The rows, the requests and what they have read keep their types.
THEOREM TypeCorrect == Spec => []TypeOK
  <1> QED BY TypeInit, TypeStep, PTL DEF Spec

-----------------------------------------------------------------------------
(* The inductive invariant: what holds between the statements of a request. *)

\* A claim is only tried on an answer that is still open, and only on a
\* signing row that had been judged stale.
Claimable == \A r \in Requests :
    /\ pc[r] \in {"claiming", "appending", "confirming", "checking", "releasing"} =>
          mine[r].row.status \notin Decided
    /\ pc[r] \in {"claiming", "declining"} /\ mine[r].row.status = "signing" =>
          mine[r].row.by \in stale

\* Between its claim and its confirmation a request loses the row only once
\* its claim is stale.
Holding == \A r \in Requests :
    pc[r] \in {"appending", "confirming"} => SameClaim(r) \/ r \in stale

\* The audit chain of s names r, and after it only claims gone stale.
Covered(s, r) == \E i \in DOMAIN chain[s] :
    /\ chain[s][i] = r
    /\ r \notin stale => \A j \in i + 1 .. Len(chain[s]) : chain[s][j] \in stale

Written == \A r \in Requests : pc[r] = "confirming" => Covered(For[r], r)

\* What a request has computed of the signers is still what they answered.
Justified == \A r \in Requests : pc[r] = "rolling" =>
    /\ mine[r].agg # "expired"
    /\ mine[r].agg = "signed" => Promise!Agreed
    /\ mine[r].agg = "declined" => Promise!Refused

\* One request completes the envelope, and has decided it.
Once == /\ effects \in {0, 1}
        /\ effects = 1 => envelope = "signed"
        /\ \A r \in Requests : pc[r] = "completing" =>
              /\ envelope = "signed" /\ effects = 0
              /\ \A q \in Requests : pc[q] = "completing" => q = r

LEMMA Arrives ==
  ASSUME TypeOK, NEW r \in Requests, NEW op \in May[r], Arrive(r, op)
  PROVE  /\ UNCHANGED <<d1, stale, effects, cron>>
         /\ pc[r] = "idle"
         /\ \A q \in Requests : q # r => pc'[q] = pc[q] /\ mine'[q] = mine[q]
         /\ pc'[r] \in {"resuming", "done", "claiming", "declining", "viewing"}
         /\ pc'[r] \in {"claiming", "declining"} =>
               /\ mine'[r].row = signer[For[r]]
               /\ signer[For[r]].status \notin Decided /\ ~IsLive(signer[For[r]])
  <1> DEFINE row == signer[For[r]]
             m   == [Nothing EXCEPT !.op = op, !.row = row, !.env = envelope]
             l   == CASE op = "sign"    -> Signable(row)
                      [] op = "decline" -> Declinable(row)
                      [] op = "view"    -> Viewable(row)
  <1>1. /\ op \in {"sign", "decline", "view"} /\ pc[r] = "idle"
        /\ GoWith(r, l, m) /\ UNCHANGED <<d1, stale, effects, cron>>
    BY Links DEF Arrive
  <1>2. /\ l = "claiming" => row.status \notin Decided /\ ~IsLive(row)
        /\ l = "declining" => row.status \notin Decided /\ ~IsLive(row)
        /\ l \in {"resuming", "done", "claiming", "declining", "viewing"}
    BY <1>1, SignableIs DEF Declinable, Viewable
  <1>3. m.row = row
    BY DEF Nothing
  <1> HIDE DEF m, l, row
  <1>4. \A q \in Requests : q # r => pc'[q] = pc[q] /\ mine'[q] = mine[q]
    BY <1>1 DEF GoWith, TypeOK
  <1>5. pc'[r] = l /\ (l \in {"claiming", "declining"} => mine'[r] = m)
    BY <1>1 DEF GoWith, Ended, TypeOK
  <1> QED BY <1>1, <1>2, <1>3, <1>4, <1>5 DEF row

LEMMA ClaimableStep == TypeOK /\ Claimable /\ [Next]_vars => Claimable'
  <1> SUFFICES ASSUME TypeOK, Claimable, [Next]_vars PROVE Claimable'
    OBVIOUS
  <1>1. /\ \A r \in Requests : For[r] \in Signers /\ signer[For[r]] \in Row /\ mine[r] \in Memo
        /\ pc \in [Requests -> Labels] /\ mine \in [Requests -> Memo] /\ signer \in [Signers -> Row]
    BY Links DEF TypeOK
  <1>2. ASSUME NEW r \in Requests, NEW op \in May[r], Arrive(r, op) PROVE Claimable'
    BY <1>1, <1>2, Arrives DEF Claimable, IsLive, d1
  <1>3. ASSUME NEW r \in Requests, Claim(r) PROVE Claimable'
    BY <1>1, SignableIs, <1>3 DEF Claim, Pinned, Put, GoWith, Go, Ended, d1, Claimable, Memo
  <1>4. ASSUME NEW r \in Requests, Reread(r) PROVE Claimable'
    BY <1>1, SignableIs, <1>4 DEF Reread, Signable, IsLive, GoWith, Go, Ended, d1,
       Claimable, Memo
  <1>5. ASSUME NEW r \in Requests, Record(r) PROVE Claimable'
    BY <1>1, SignableIs, <1>5 DEF Record, Append1, GoWith, Go, Ended, d1, Claimable, Memo
  <1>6. ASSUME NEW r \in Requests, Confirm(r) PROVE Claimable'
    BY <1>1, SignableIs, <1>6 DEF Confirm, SameClaim, Put, RollForward, GoWith, Go,
       Ended, d1, Claimable, Memo
  <1>7. ASSUME NEW r \in Requests, Check(r) PROVE Claimable'
    BY <1>1, SignableIs, <1>7 DEF Check, GoWith, Go, Ended, d1, Claimable, Memo
  <1>8. ASSUME NEW r \in Requests, Release(r) PROVE Claimable'
    BY <1>1, SignableIs, <1>8 DEF Release, Released, SameClaim, Put, GoWith, Go,
       Ended, d1, Claimable, Memo
  <1>9. ASSUME NEW r \in Requests, ExpireReleased(r) PROVE Claimable'
    BY <1>1, SignableIs, <1>9 DEF ExpireReleased, Put, GoWith, Go, Ended, d1,
       Claimable, Memo
  <1>10. ASSUME NEW r \in Requests, Resume(r) PROVE Claimable'
    BY <1>1, SignableIs, <1>10 DEF Resume, RollForward, GoWith, Go, Ended, d1,
       Claimable, Memo
  <1>11. ASSUME NEW r \in Requests, Decline(r) PROVE Claimable'
    BY <1>1, SignableIs, <1>11 DEF Decline, Put, RollForward, GoWith, Go, Ended, d1,
       Claimable, Memo
  <1>12. ASSUME NEW r \in Requests, View(r) PROVE Claimable'
    BY <1>1, SignableIs, <1>12 DEF View, Put, RollForward, GoWith, Go, Ended, d1,
       Claimable, Memo
  <1>13. ASSUME NEW r \in Requests, Load(r) PROVE Claimable'
    BY <1>1, SignableIs, <1>13 DEF Load, Loaded, GoWith, Go, Ended, d1, Claimable, Memo
  <1>14. ASSUME NEW r \in Requests, Roll(r) PROVE Claimable'
    BY <1>1, SignableIs, <1>14 DEF Roll, Rolls, Completes, GoWith, Go, Ended, d1,
       Claimable, Memo
  <1>15. ASSUME NEW r \in Requests, Complete(r) PROVE Claimable'
    BY <1>1, SignableIs, <1>15 DEF Complete, GoWith, Go, Ended, d1, Claimable, Memo
  <1>16. ASSUME NEW r \in Requests, Die(r) PROVE Claimable'
    BY <1>1, SignableIs, <1>16 DEF Die, GoWith, Go, Ended, d1, Claimable, Memo
  <1>17. ASSUME NEW r \in Requests, Age(r) PROVE Claimable'
    BY <1>1, SignableIs, <1>17 DEF Age, GoWith, Go, Ended, d1, Claimable, Memo
  <1>18. CASE Probe
    BY <1>1, SignableIs, <1>18 DEF Probe, GoWith, Go, Ended, d1, Claimable, Memo
  <1>19. CASE ExpireEnvelope
    BY <1>1, SignableIs, <1>19 DEF ExpireEnvelope, GoWith, Go, Ended, d1, Claimable, Memo
  <1>20. CASE ExpireSigners
    BY <1>1, SignableIs, <1>20 DEF ExpireSigners, GoWith, Go, Ended, d1, Claimable, Memo
  <1>21. CASE Redeliver
    BY <1>1, SignableIs, <1>21 DEF Redeliver, GoWith, Go, Ended, d1, Claimable, Memo
  <1>22. CASE UNCHANGED vars
    BY <1>1, SignableIs, <1>22 DEF vars, GoWith, Go, Ended, d1, Claimable, Memo
  <1> QED
    BY <1>2, <1>3, <1>4, <1>5, <1>6, <1>7, <1>8, <1>9, <1>10, <1>11, <1>12, <1>13,
       <1>14, <1>15, <1>16, <1>17, <1>18, <1>19, <1>20, <1>21, <1>22 DEF Next, Step
LEMMA HoldingStep == TypeOK /\ Claimable /\ Holding /\ [Next]_vars => Holding'
  <1> SUFFICES ASSUME TypeOK, Claimable, Holding, [Next]_vars PROVE Holding'
    OBVIOUS
  <1>1. /\ \A r \in Requests : For[r] \in Signers /\ signer[For[r]] \in Row /\ mine[r] \in Memo
        /\ pc \in [Requests -> Labels] /\ mine \in [Requests -> Memo] /\ signer \in [Signers -> Row]
    BY Links DEF TypeOK
  <1>2. ASSUME NEW r \in Requests, NEW op \in May[r], Arrive(r, op) PROVE Holding'
    BY <1>1, <1>2, Arrives DEF Holding, SameClaim, d1
  <1>3. ASSUME NEW r \in Requests, Claim(r) PROVE Holding'
    BY <1>1, SignableIs, <1>3 DEF Claim, Pinned, Put, GoWith, Go, Ended, d1,
       SameClaim, Holding, Claimable
  <1>4. ASSUME NEW r \in Requests, Reread(r) PROVE Holding'
    BY <1>1, SignableIs, <1>4 DEF Reread, Signable, IsLive, GoWith, Go, Ended, d1,
       SameClaim, Holding, Claimable
  <1>5. ASSUME NEW r \in Requests, Record(r) PROVE Holding'
    BY <1>1, SignableIs, <1>5 DEF Record, Append1, GoWith, Go, Ended, d1, SameClaim,
       Holding, Claimable
  <1>6. ASSUME NEW r \in Requests, Confirm(r) PROVE Holding'
    BY <1>1, SignableIs, <1>6 DEF Confirm, SameClaim, Put, RollForward, GoWith, Go,
       Ended, d1, Holding, Claimable
  <1>7. ASSUME NEW r \in Requests, Check(r) PROVE Holding'
    BY <1>1, SignableIs, <1>7 DEF Check, GoWith, Go, Ended, d1, SameClaim, Holding,
       Claimable
  <1>8. ASSUME NEW r \in Requests, Release(r) PROVE Holding'
    BY <1>1, SignableIs, <1>8 DEF Release, Released, SameClaim, Put, GoWith, Go,
       Ended, d1, Holding, Claimable
  <1>9. ASSUME NEW r \in Requests, ExpireReleased(r) PROVE Holding'
    BY <1>1, SignableIs, <1>9 DEF ExpireReleased, Put, GoWith, Go, Ended, d1,
       SameClaim, Holding, Claimable
  <1>10. ASSUME NEW r \in Requests, Resume(r) PROVE Holding'
    BY <1>1, SignableIs, <1>10 DEF Resume, RollForward, GoWith, Go, Ended, d1,
       SameClaim, Holding, Claimable
  <1>11. ASSUME NEW r \in Requests, Decline(r) PROVE Holding'
    BY <1>1, SignableIs, <1>11 DEF Decline, Put, RollForward, GoWith, Go, Ended, d1,
       SameClaim, Holding, Claimable
  <1>12. ASSUME NEW r \in Requests, View(r) PROVE Holding'
    BY <1>1, SignableIs, <1>12 DEF View, Put, RollForward, GoWith, Go, Ended, d1,
       SameClaim, Holding, Claimable
  <1>13. ASSUME NEW r \in Requests, Load(r) PROVE Holding'
    BY <1>1, SignableIs, <1>13 DEF Load, Loaded, GoWith, Go, Ended, d1, SameClaim,
       Holding, Claimable
  <1>14. ASSUME NEW r \in Requests, Roll(r) PROVE Holding'
    BY <1>1, SignableIs, <1>14 DEF Roll, Rolls, Completes, GoWith, Go, Ended, d1,
       SameClaim, Holding, Claimable
  <1>15. ASSUME NEW r \in Requests, Complete(r) PROVE Holding'
    BY <1>1, SignableIs, <1>15 DEF Complete, GoWith, Go, Ended, d1, SameClaim,
       Holding, Claimable
  <1>16. ASSUME NEW r \in Requests, Die(r) PROVE Holding'
    BY <1>1, SignableIs, <1>16 DEF Die, GoWith, Go, Ended, d1, SameClaim, Holding, Claimable
  <1>17. ASSUME NEW r \in Requests, Age(r) PROVE Holding'
    BY <1>1, SignableIs, <1>17 DEF Age, GoWith, Go, Ended, d1, SameClaim, Holding, Claimable
  <1>18. CASE Probe
    BY <1>1, SignableIs, <1>18 DEF Probe, GoWith, Go, Ended, d1, SameClaim, Holding,
       Claimable
  <1>19. CASE ExpireEnvelope
    BY <1>1, SignableIs, <1>19 DEF ExpireEnvelope, GoWith, Go, Ended, d1, SameClaim,
       Holding, Claimable
  <1>20. CASE ExpireSigners
    BY <1>1, SignableIs, <1>20 DEF ExpireSigners, GoWith, Go, Ended, d1, SameClaim,
       Holding, Claimable
  <1>21. CASE Redeliver
    BY <1>1, SignableIs, <1>21 DEF Redeliver, GoWith, Go, Ended, d1, SameClaim,
       Holding, Claimable
  <1>22. CASE UNCHANGED vars
    BY <1>1, SignableIs, <1>22 DEF vars, GoWith, Go, Ended, d1, SameClaim, Holding,
       Claimable
  <1> QED
    BY <1>2, <1>3, <1>4, <1>5, <1>6, <1>7, <1>8, <1>9, <1>10, <1>11, <1>12, <1>13,
       <1>14, <1>15, <1>16, <1>17, <1>18, <1>19, <1>20, <1>21, <1>22 DEF Next, Step
LEMMA OnceStep == TypeOK /\ Once /\ [Next]_vars => Once'
  <1> SUFFICES ASSUME TypeOK, Once, [Next]_vars PROVE Once'
    OBVIOUS
  <1>1. /\ \A r \in Requests : For[r] \in Signers /\ signer[For[r]] \in Row /\ mine[r] \in Memo
        /\ pc \in [Requests -> Labels] /\ mine \in [Requests -> Memo] /\ signer \in [Signers -> Row]
    BY Links DEF TypeOK
  <1>2. ASSUME NEW r \in Requests, NEW op \in May[r], Arrive(r, op) PROVE Once'
    BY <1>1, <1>2, Arrives DEF Once, d1
  <1>3. ASSUME NEW r \in Requests, Claim(r) PROVE Once'
    BY <1>1, SignableIs, <1>3 DEF Claim, Pinned, Put, GoWith, Go, Ended, d1, Once
  <1>4. ASSUME NEW r \in Requests, Reread(r) PROVE Once'
    BY <1>1, SignableIs, <1>4 DEF Reread, Signable, IsLive, GoWith, Go, Ended, d1, Once
  <1>5. ASSUME NEW r \in Requests, Record(r) PROVE Once'
    BY <1>1, SignableIs, <1>5 DEF Record, Append1, GoWith, Go, Ended, d1, Once
  <1>6. ASSUME NEW r \in Requests, Confirm(r) PROVE Once'
    BY <1>1, SignableIs, <1>6 DEF Confirm, SameClaim, Put, RollForward, GoWith, Go,
       Ended, d1, Once
  <1>7. ASSUME NEW r \in Requests, Check(r) PROVE Once'
    BY <1>1, SignableIs, <1>7 DEF Check, GoWith, Go, Ended, d1, Once
  <1>8. ASSUME NEW r \in Requests, Release(r) PROVE Once'
    BY <1>1, SignableIs, <1>8 DEF Release, Released, SameClaim, Put, GoWith, Go,
       Ended, d1, Once
  <1>9. ASSUME NEW r \in Requests, ExpireReleased(r) PROVE Once'
    BY <1>1, SignableIs, <1>9 DEF ExpireReleased, Put, GoWith, Go, Ended, d1, Once
  <1>10. ASSUME NEW r \in Requests, Resume(r) PROVE Once'
    BY <1>1, SignableIs, <1>10 DEF Resume, RollForward, GoWith, Go, Ended, d1, Once
  <1>11. ASSUME NEW r \in Requests, Decline(r) PROVE Once'
    BY <1>1, SignableIs, <1>11 DEF Decline, Put, RollForward, GoWith, Go, Ended, d1, Once
  <1>12. ASSUME NEW r \in Requests, View(r) PROVE Once'
    BY <1>1, SignableIs, <1>12 DEF View, Put, RollForward, GoWith, Go, Ended, d1, Once
  <1>13. ASSUME NEW r \in Requests, Load(r) PROVE Once'
    BY <1>1, SignableIs, <1>13 DEF Load, Loaded, GoWith, Go, Ended, d1, Once
  <1>14. ASSUME NEW r \in Requests, Roll(r) PROVE Once'
    BY <1>1, SignableIs, <1>14 DEF Roll, Rolls, Completes, GoWith, Go, Ended, d1, Once
  <1>15. ASSUME NEW r \in Requests, Complete(r) PROVE Once'
    BY <1>1, SignableIs, <1>15 DEF Complete, GoWith, Go, Ended, d1, Once
  <1>16. ASSUME NEW r \in Requests, Die(r) PROVE Once'
    BY <1>1, SignableIs, <1>16 DEF Die, GoWith, Go, Ended, d1, Once
  <1>17. ASSUME NEW r \in Requests, Age(r) PROVE Once'
    BY <1>1, SignableIs, <1>17 DEF Age, GoWith, Go, Ended, d1, Once
  <1>18. CASE Probe
    BY <1>1, SignableIs, <1>18 DEF Probe, GoWith, Go, Ended, d1, Once
  <1>19. CASE ExpireEnvelope
    BY <1>1, SignableIs, <1>19 DEF ExpireEnvelope, GoWith, Go, Ended, d1, Once
  <1>20. CASE ExpireSigners
    BY <1>1, SignableIs, <1>20 DEF ExpireSigners, GoWith, Go, Ended, d1, Once
  <1>21. CASE Redeliver
    BY <1>1, SignableIs, <1>21 DEF Redeliver, GoWith, Go, Ended, d1, Once
  <1>22. CASE UNCHANGED vars
    BY <1>1, SignableIs, <1>22 DEF vars, GoWith, Go, Ended, d1, Once
  <1> QED
    BY <1>2, <1>3, <1>4, <1>5, <1>6, <1>7, <1>8, <1>9, <1>10, <1>11, <1>12, <1>13,
       <1>14, <1>15, <1>16, <1>17, <1>18, <1>19, <1>20, <1>21, <1>22 DEF Next, Step

LEMMA ClaimShows ==
  ASSUME NEW r, SameClaim(r)
  PROVE  signer[For[r]].status = "signing" /\ signer[For[r]].by = r
  BY DEF SameClaim

LEMMA SignedKept ==
  ASSUME SignedIsRecorded, chain' = chain, stale \subseteq stale',
         \A s \in Signers : signer'[s].status = "signed" =>
             signer[s].status = "signed" /\ signer'[s].by = signer[s].by
  PROVE  SignedIsRecorded'
  BY DEF SignedIsRecorded
LEMMA CoveredKept ==
  ASSUME NEW s, NEW r, Covered(s, r), chain'[s] = chain[s], stale \subseteq stale'
  PROVE  Covered(s, r)'
  BY DEF Covered

LEMMA CoveredOn ==
  ASSUME NEW s, NEW r, NEW q, chain[s] \in Seq(Requests), q \in Requests, Covered(s, r),
         chain'[s] = Append(chain[s], q), stale' = stale, q \in stale \/ r \in stale
  PROVE  Covered(s, r)'
  <1> DEFINE n == Len(chain[s])
  <1>1. n \in Nat /\ DOMAIN chain[s] = 1 .. n
    BY LenProperties
  <1>2. /\ Len(chain'[s]) = n + 1 /\ DOMAIN chain'[s] = 1 .. n + 1
        /\ \A j \in 1 .. n : chain'[s][j] = chain[s][j]
        /\ chain'[s][n + 1] = q
    <2>1. Append(chain[s], q) \in Seq(Requests)
      BY AppendProperties
    <2>2. Len(chain'[s]) = n + 1
      BY AppendProperties
    <2>3. DOMAIN chain'[s] = 1 .. Len(chain'[s])
      BY <2>1, LenProperties
    <2> QED BY <1>1, <2>2, <2>3, AppendProperties
  <1>3. PICK i \in DOMAIN chain[s] :
           /\ chain[s][i] = r
           /\ r \notin stale => \A j \in i + 1 .. n : chain[s][j] \in stale
    BY DEF Covered
  <1> HIDE DEF n
  <1>4. i \in DOMAIN chain'[s] /\ chain'[s][i] = r
    BY <1>1, <1>2, <1>3
  <1>5. ASSUME r \notin stale, NEW j \in i + 1 .. n + 1 PROVE chain'[s][j] \in stale
    <2>1. j \in i + 1 .. n \/ j = n + 1
      BY <1>1, <1>3
    <2>2. CASE j \in i + 1 .. n
      BY <1>1, <1>2, <1>3, <1>5, <2>2
    <2>3. CASE j = n + 1
      BY <1>2, <1>5, <2>3
    <2> QED BY <2>1, <2>2, <2>3
  <1> QED BY <1>2, <1>4, <1>5 DEF Covered

LEMMA CoveredNow ==
  ASSUME NEW s, NEW r, chain[s] \in Seq(Requests), r \in Requests,
         chain'[s] = Append(chain[s], r)
  PROVE  Covered(s, r)'
  <1> DEFINE n == Len(chain[s])
  <1>1. n \in Nat
    BY LenProperties
  <1>2. Append(chain[s], r) \in Seq(Requests) /\ Len(chain'[s]) = n + 1 /\ chain'[s][n + 1] = r
    BY AppendProperties
  <1>3. DOMAIN chain'[s] = 1 .. n + 1
    BY <1>2, LenProperties
  <1> HIDE DEF n
  <1>4. n + 1 \in DOMAIN chain'[s] /\ (n + 1) + 1 .. n + 1 = {}
    BY <1>1, <1>3
  <1> QED BY <1>2, <1>4 DEF Covered

LEMMA WrittenStep == TypeOK /\ Holding /\ Written /\ [Next]_vars => Written'
  <1> SUFFICES ASSUME TypeOK, Holding, Written, [Next]_vars PROVE Written'
    OBVIOUS
  <1>1. /\ \A r \in Requests : For[r] \in Signers /\ signer[For[r]] \in Row /\ mine[r] \in Memo
        /\ pc \in [Requests -> Labels] /\ mine \in [Requests -> Memo] /\ signer \in [Signers -> Row]
    BY Links DEF TypeOK
  <1>2. ASSUME NEW r \in Requests, NEW op \in May[r], Arrive(r, op) PROVE Written'
    BY <1>1, <1>2, Arrives, CoveredKept DEF Written, d1
  <1>3. ASSUME NEW r \in Requests, Claim(r) PROVE Written'
    BY <1>1, <1>3, CoveredKept DEF Claim, Pinned, Put, GoWith, Go, Ended, d1, Written
  <1>4. ASSUME NEW r \in Requests, Reread(r) PROVE Written'
    BY <1>1, <1>4, CoveredKept DEF Reread, Signable, IsLive, GoWith, Go, Ended, d1, Written
  <1>5. ASSUME NEW r \in Requests, Record(r) PROVE Written'
    <2>1. ASSUME NEW q \in Requests, pc'[q] = "confirming" PROVE Covered(For[q], q)'
      <3>1. /\ pc[r] = "appending" /\ stale' = stale /\ signer' = signer
            /\ \A x \in Requests : x # r => pc'[x] = pc[x]
        BY <1>1, <1>5 DEF Record, Go, GoWith
      <3>2. chain[For[r]] \in Seq(Requests) /\ chain \in [Signers -> Seq(Requests)]
        BY <1>1 DEF TypeOK
      <3>3. CASE q = r
        <4>1. Append1(r)
          BY <1>1, <1>5, <2>1, <3>3 DEF Record, Go, GoWith
        <4> QED BY <1>1, <3>2, <3>3, <4>1, CoveredNow DEF Append1
      <3>4. CASE q # r
        <4>1. pc[q] = "confirming" /\ Covered(For[q], q)
          BY <2>1, <3>1, <3>4 DEF Written
        <4>2. CASE For[q] = For[r] /\ Append1(r)
          <5>1. q \in stale \/ r \in stale
            BY <3>1, <3>4, <4>1, <4>2, ClaimShows DEF Holding
          <5>2. chain'[For[q]] = Append(chain[For[q]], r)
            BY <1>1, <3>2, <4>2 DEF Append1
          <5> QED BY <3>1, <3>2, <4>1, <4>2, <5>1, <5>2, CoveredOn
        <4>3. CASE ~(For[q] = For[r] /\ Append1(r))
          <5>1. chain'[For[q]] = chain[For[q]]
            BY <1>1, <1>5, <3>2, <4>3 DEF Record, Append1
          <5> QED BY <3>1, <4>1, <5>1, CoveredKept
        <4> QED BY <4>2, <4>3
      <3> QED BY <3>3, <3>4
    <2> QED BY <2>1 DEF Written
  <1>6. ASSUME NEW r \in Requests, Confirm(r) PROVE Written'
    BY <1>1, <1>6, CoveredKept DEF Confirm, SameClaim, Put, RollForward, GoWith, Go,
       Ended, d1, Written
  <1>7. ASSUME NEW r \in Requests, Check(r) PROVE Written'
    BY <1>1, <1>7, CoveredKept DEF Check, GoWith, Go, Ended, d1, Written
  <1>8. ASSUME NEW r \in Requests, Release(r) PROVE Written'
    BY <1>1, <1>8, CoveredKept DEF Release, Released, SameClaim, Put, GoWith, Go,
       Ended, d1, Written
  <1>9. ASSUME NEW r \in Requests, ExpireReleased(r) PROVE Written'
    BY <1>1, <1>9, CoveredKept DEF ExpireReleased, Put, GoWith, Go, Ended, d1, Written
  <1>10. ASSUME NEW r \in Requests, Resume(r) PROVE Written'
    BY <1>1, <1>10, CoveredKept DEF Resume, RollForward, GoWith, Go, Ended, d1, Written
  <1>11. ASSUME NEW r \in Requests, Decline(r) PROVE Written'
    BY <1>1, <1>11, CoveredKept DEF Decline, Put, RollForward, GoWith, Go, Ended,
       d1, Written
  <1>12. ASSUME NEW r \in Requests, View(r) PROVE Written'
    BY <1>1, <1>12, CoveredKept DEF View, Put, RollForward, GoWith, Go, Ended, d1, Written
  <1>13. ASSUME NEW r \in Requests, Load(r) PROVE Written'
    BY <1>1, <1>13, CoveredKept DEF Load, Loaded, GoWith, Go, Ended, d1, Written
  <1>14. ASSUME NEW r \in Requests, Roll(r) PROVE Written'
    BY <1>1, <1>14, CoveredKept DEF Roll, Rolls, Completes, GoWith, Go, Ended, d1, Written
  <1>15. ASSUME NEW r \in Requests, Complete(r) PROVE Written'
    BY <1>1, <1>15, CoveredKept DEF Complete, GoWith, Go, Ended, d1, Written
  <1>16. ASSUME NEW r \in Requests, Die(r) PROVE Written'
    BY <1>1, <1>16, CoveredKept DEF Die, GoWith, Go, Ended, d1, Written
  <1>17. ASSUME NEW r \in Requests, Age(r) PROVE Written'
    BY <1>1, <1>17, CoveredKept DEF Age, GoWith, Go, Ended, d1, Written
  <1>18. CASE Probe
    BY <1>1, <1>18, CoveredKept DEF Probe, GoWith, Go, Ended, d1, Written
  <1>19. CASE ExpireEnvelope
    BY <1>1, <1>19, CoveredKept DEF ExpireEnvelope, GoWith, Go, Ended, d1, Written
  <1>20. CASE ExpireSigners
    BY <1>1, <1>20, CoveredKept DEF ExpireSigners, GoWith, Go, Ended, d1, Written
  <1>21. CASE Redeliver
    BY <1>1, <1>21, CoveredKept DEF Redeliver, GoWith, Go, Ended, d1, Written
  <1>22. CASE UNCHANGED vars
    BY <1>1, <1>22, CoveredKept DEF vars, GoWith, Go, Ended, d1, Written
  <1> QED
    BY <1>2, <1>3, <1>4, <1>5, <1>6, <1>7, <1>8, <1>9, <1>10, <1>11, <1>12, <1>13,
       <1>14, <1>15, <1>16, <1>17, <1>18, <1>19, <1>20, <1>21, <1>22 DEF Next, Step
LEMMA SignedStep == TypeOK /\ Claimable /\ Holding /\ Written /\ SignedIsRecorded /\ [Next]_vars => SignedIsRecorded'
  <1> SUFFICES ASSUME TypeOK, Claimable, Holding, Written, SignedIsRecorded, [Next]_vars PROVE SignedIsRecorded'
    OBVIOUS
  <1>1. /\ \A r \in Requests : For[r] \in Signers /\ signer[For[r]] \in Row /\ mine[r] \in Memo
        /\ pc \in [Requests -> Labels] /\ mine \in [Requests -> Memo] /\ signer \in [Signers -> Row]
    BY Links DEF TypeOK
  <1>2. ASSUME NEW r \in Requests, NEW op \in May[r], Arrive(r, op) PROVE SignedIsRecorded'
    BY <1>1, <1>2, Arrives, CoveredKept DEF SignedIsRecorded, Covered, d1
  <1>3. ASSUME NEW r \in Requests, Claim(r) PROVE SignedIsRecorded'
    <2>1. chain' = chain /\ stale \subseteq stale'
      BY <1>3 DEF Claim, Pinned, Put, d1
    <2>2. \A s \in Signers : signer'[s].status = "signed" =>
             signer[s].status = "signed" /\ signer'[s].by = signer[s].by
      BY <1>1, <1>3 DEF Claim, Pinned, Put, d1
    <2> QED BY <2>1, <2>2, SignedKept
  <1>4. ASSUME NEW r \in Requests, Reread(r) PROVE SignedIsRecorded'
    <2>1. chain' = chain /\ stale \subseteq stale'
      BY <1>4 DEF Reread, Signable, IsLive, d1
    <2>2. \A s \in Signers : signer'[s].status = "signed" =>
             signer[s].status = "signed" /\ signer'[s].by = signer[s].by
      BY <1>1, <1>4 DEF Reread, Signable, IsLive, d1
    <2> QED BY <2>1, <2>2, SignedKept
  <1>5. ASSUME NEW r \in Requests, Record(r) PROVE SignedIsRecorded'
    <2> DEFINE s == For[r]
    <2>1. /\ pc[r] = "appending" /\ stale' = stale /\ signer' = signer
      BY <1>1, <1>5 DEF Record
    <2>2. chain[For[r]] \in Seq(Requests) /\ chain \in [Signers -> Seq(Requests)]
      BY <1>1 DEF TypeOK
    <2>3. ASSUME NEW x \in Signers, signer[x].status = "signed" PROVE Covered(x, signer[x].by)'
      <3>1. Covered(x, signer[x].by)
        BY <2>3 DEF SignedIsRecorded, Covered
      <3>2. CASE x = For[r] /\ Append1(r)
        <4>1. r \in stale
          BY <2>1, <2>3, <3>2, ClaimShows DEF Holding
        <4>2. chain'[x] = Append(chain[x], r)
          BY <1>1, <2>2, <3>2 DEF Append1
        <4>3. PICK b : b = signer[x].by /\ b = signer'[x].by
          BY <2>1
        <4>4. Covered(x, b)'
          BY <2>1, <2>2, <3>1, <3>2, <4>1, <4>2, <4>3, CoveredOn
        <4> QED BY <4>3, <4>4 DEF Covered
      <3>3. CASE ~(x = For[r] /\ Append1(r))
        <4>1. chain'[x] = chain[x]
          BY <1>1, <1>5, <2>2, <3>3 DEF Record, Append1
        <4> QED BY <2>1, <3>1, <4>1 DEF Covered
      <3> QED BY <3>2, <3>3
    <2> QED BY <2>1, <2>3 DEF SignedIsRecorded, Covered
  <1>6. ASSUME NEW r \in Requests, Confirm(r) PROVE SignedIsRecorded'
    BY <1>1, <1>6 DEF Confirm, SameClaim, Put, RollForward, GoWith, Go, Ended, d1,
       SignedIsRecorded, Covered, Written
  <1>7. ASSUME NEW r \in Requests, Check(r) PROVE SignedIsRecorded'
    <2>1. chain' = chain /\ stale \subseteq stale'
      BY <1>7 DEF Check, d1
    <2>2. \A s \in Signers : signer'[s].status = "signed" =>
             signer[s].status = "signed" /\ signer'[s].by = signer[s].by
      BY <1>1, <1>7 DEF Check, d1
    <2> QED BY <2>1, <2>2, SignedKept
  <1>8. ASSUME NEW r \in Requests, Release(r) PROVE SignedIsRecorded'
    <2>1. chain' = chain /\ stale \subseteq stale'
      BY <1>8 DEF Release, Released, SameClaim, Put, d1
    <2>2. \A s \in Signers : signer'[s].status = "signed" =>
             signer[s].status = "signed" /\ signer'[s].by = signer[s].by
      BY <1>1, <1>8 DEF Release, Released, SameClaim, Put, d1, Claimable
    <2> QED BY <2>1, <2>2, SignedKept
  <1>9. ASSUME NEW r \in Requests, ExpireReleased(r) PROVE SignedIsRecorded'
    <2>1. chain' = chain /\ stale \subseteq stale'
      BY <1>9 DEF ExpireReleased, Put, d1
    <2>2. \A s \in Signers : signer'[s].status = "signed" =>
             signer[s].status = "signed" /\ signer'[s].by = signer[s].by
      BY <1>1, <1>9 DEF ExpireReleased, Put, d1, Row
    <2> QED BY <2>1, <2>2, SignedKept
  <1>10. ASSUME NEW r \in Requests, Resume(r) PROVE SignedIsRecorded'
    <2>1. chain' = chain /\ stale \subseteq stale'
      BY <1>10 DEF Resume, RollForward, d1
    <2>2. \A s \in Signers : signer'[s].status = "signed" =>
             signer[s].status = "signed" /\ signer'[s].by = signer[s].by
      BY <1>1, <1>10 DEF Resume, RollForward, d1
    <2> QED BY <2>1, <2>2, SignedKept
  <1>11. ASSUME NEW r \in Requests, Decline(r) PROVE SignedIsRecorded'
    <2>1. chain' = chain /\ stale \subseteq stale'
      BY <1>11 DEF Decline, Put, RollForward, d1
    <2>2. \A s \in Signers : signer'[s].status = "signed" =>
             signer[s].status = "signed" /\ signer'[s].by = signer[s].by
      BY <1>1, <1>11 DEF Decline, Put, RollForward, d1, Row
    <2> QED BY <2>1, <2>2, SignedKept
  <1>12. ASSUME NEW r \in Requests, View(r) PROVE SignedIsRecorded'
    <2>1. chain' = chain /\ stale \subseteq stale'
      BY <1>12 DEF View, Put, RollForward, d1
    <2>2. \A s \in Signers : signer'[s].status = "signed" =>
             signer[s].status = "signed" /\ signer'[s].by = signer[s].by
      BY <1>1, <1>12 DEF View, Put, RollForward, d1, Row
    <2> QED BY <2>1, <2>2, SignedKept
  <1>13. ASSUME NEW r \in Requests, Load(r) PROVE SignedIsRecorded'
    <2>1. chain' = chain /\ stale \subseteq stale'
      BY <1>13 DEF Load, Loaded, d1
    <2>2. \A s \in Signers : signer'[s].status = "signed" =>
             signer[s].status = "signed" /\ signer'[s].by = signer[s].by
      BY <1>1, <1>13 DEF Load, Loaded, d1
    <2> QED BY <2>1, <2>2, SignedKept
  <1>14. ASSUME NEW r \in Requests, Roll(r) PROVE SignedIsRecorded'
    <2>1. chain' = chain /\ stale \subseteq stale'
      BY <1>14 DEF Roll, Rolls, Completes, d1
    <2>2. \A s \in Signers : signer'[s].status = "signed" =>
             signer[s].status = "signed" /\ signer'[s].by = signer[s].by
      BY <1>1, <1>14 DEF Roll, Rolls, Completes, d1
    <2> QED BY <2>1, <2>2, SignedKept
  <1>15. ASSUME NEW r \in Requests, Complete(r) PROVE SignedIsRecorded'
    <2>1. chain' = chain /\ stale \subseteq stale'
      BY <1>15 DEF Complete, d1
    <2>2. \A s \in Signers : signer'[s].status = "signed" =>
             signer[s].status = "signed" /\ signer'[s].by = signer[s].by
      BY <1>1, <1>15 DEF Complete, d1
    <2> QED BY <2>1, <2>2, SignedKept
  <1>16. ASSUME NEW r \in Requests, Die(r) PROVE SignedIsRecorded'
    <2>1. chain' = chain /\ stale \subseteq stale'
      BY <1>16 DEF Die, d1
    <2>2. \A s \in Signers : signer'[s].status = "signed" =>
             signer[s].status = "signed" /\ signer'[s].by = signer[s].by
      BY <1>1, <1>16 DEF Die, d1
    <2> QED BY <2>1, <2>2, SignedKept
  <1>17. ASSUME NEW r \in Requests, Age(r) PROVE SignedIsRecorded'
    <2>1. chain' = chain /\ stale \subseteq stale'
      BY <1>17 DEF Age, d1
    <2>2. \A s \in Signers : signer'[s].status = "signed" =>
             signer[s].status = "signed" /\ signer'[s].by = signer[s].by
      BY <1>1, <1>17 DEF Age, d1
    <2> QED BY <2>1, <2>2, SignedKept
  <1>18. CASE Probe
    <2>1. chain' = chain /\ stale \subseteq stale'
      BY <1>18 DEF Probe, d1
    <2>2. \A s \in Signers : signer'[s].status = "signed" =>
             signer[s].status = "signed" /\ signer'[s].by = signer[s].by
      BY <1>1, <1>18 DEF Probe, d1
    <2> QED BY <2>1, <2>2, SignedKept
  <1>19. CASE ExpireEnvelope
    <2>1. chain' = chain /\ stale \subseteq stale'
      BY <1>19 DEF ExpireEnvelope, d1
    <2>2. \A s \in Signers : signer'[s].status = "signed" =>
             signer[s].status = "signed" /\ signer'[s].by = signer[s].by
      BY <1>1, <1>19 DEF ExpireEnvelope, d1
    <2> QED BY <2>1, <2>2, SignedKept
  <1>20. CASE ExpireSigners
    <2>1. chain' = chain /\ stale \subseteq stale'
      BY <1>20 DEF ExpireSigners, d1
    <2>2. \A s \in Signers : signer'[s].status = "signed" =>
             signer[s].status = "signed" /\ signer'[s].by = signer[s].by
      BY <1>1, <1>20 DEF ExpireSigners, d1
    <2> QED BY <2>1, <2>2, SignedKept
  <1>21. CASE Redeliver
    <2>1. chain' = chain /\ stale \subseteq stale'
      BY <1>21 DEF Redeliver, d1
    <2>2. \A s \in Signers : signer'[s].status = "signed" =>
             signer[s].status = "signed" /\ signer'[s].by = signer[s].by
      BY <1>1, <1>21 DEF Redeliver, d1
    <2> QED BY <2>1, <2>2, SignedKept
  <1>22. CASE UNCHANGED vars
    <2>1. chain' = chain /\ stale \subseteq stale'
      BY <1>22 DEF vars, d1
    <2>2. \A s \in Signers : signer'[s].status = "signed" =>
             signer[s].status = "signed" /\ signer'[s].by = signer[s].by
      BY <1>1, <1>22 DEF vars, d1
    <2> QED BY <2>1, <2>2, SignedKept
  <1> QED
    BY <1>2, <1>3, <1>4, <1>5, <1>6, <1>7, <1>8, <1>9, <1>10, <1>11, <1>12, <1>13,
       <1>14, <1>15, <1>16, <1>17, <1>18, <1>19, <1>20, <1>21, <1>22 DEF Next, Step

\* A signature and a refusal are never taken back, and the policy is fixed.
AnswersKept == /\ policy' = policy
               /\ \A s \in Signers : signer[s].status \in {"signed", "declined"} =>
                                        signer'[s].status = signer[s].status

LEMMA AnswersStep == TypeOK /\ Claimable /\ [Next]_vars => AnswersKept
  <1> SUFFICES ASSUME TypeOK, Claimable, [Next]_vars PROVE AnswersKept
    OBVIOUS
  <1>1. /\ \A r \in Requests : For[r] \in Signers /\ signer[For[r]] \in Row /\ mine[r] \in Memo
        /\ pc \in [Requests -> Labels] /\ mine \in [Requests -> Memo] /\ signer \in [Signers -> Row]
    BY Links DEF TypeOK
  <1>2. ASSUME NEW r \in Requests, NEW op \in May[r], Arrive(r, op) PROVE AnswersKept
    BY <1>2, Arrives DEF AnswersKept, d1
  <1>3. ASSUME NEW r \in Requests, Claim(r) PROVE AnswersKept
    BY <1>1, <1>3 DEF Claim, Pinned, Put, AnswersKept, d1, Row, Claimable
  <1>4. ASSUME NEW r \in Requests, Reread(r) PROVE AnswersKept
    BY <1>1, <1>4 DEF Reread, Signable, IsLive, AnswersKept, d1, Row, Claimable
  <1>5. ASSUME NEW r \in Requests, Record(r) PROVE AnswersKept
    BY <1>1, <1>5 DEF Record, Append1, AnswersKept, d1, Row, Claimable
  <1>6. ASSUME NEW r \in Requests, Confirm(r) PROVE AnswersKept
    BY <1>1, <1>6, ClaimShows DEF Confirm, Put, AnswersKept
  <1>7. ASSUME NEW r \in Requests, Check(r) PROVE AnswersKept
    BY <1>1, <1>7 DEF Check, AnswersKept, d1, Row, Claimable
  <1>8. ASSUME NEW r \in Requests, Release(r) PROVE AnswersKept
    BY <1>1, <1>8, ClaimShows DEF Release, Put, AnswersKept
  <1>9. ASSUME NEW r \in Requests, ExpireReleased(r) PROVE AnswersKept
    BY <1>1, <1>9 DEF ExpireReleased, Put, AnswersKept, d1, Row, Claimable
  <1>10. ASSUME NEW r \in Requests, Resume(r) PROVE AnswersKept
    BY <1>1, <1>10 DEF Resume, RollForward, AnswersKept, d1, Row, Claimable
  <1>11. ASSUME NEW r \in Requests, Decline(r) PROVE AnswersKept
    BY <1>1, <1>11 DEF Decline, Put, RollForward, AnswersKept, d1, Row, Claimable
  <1>12. ASSUME NEW r \in Requests, View(r) PROVE AnswersKept
    BY <1>1, <1>12 DEF View, Put, RollForward, AnswersKept, d1, Row, Claimable
  <1>13. ASSUME NEW r \in Requests, Load(r) PROVE AnswersKept
    BY <1>1, <1>13 DEF Load, Loaded, AnswersKept, d1, Row, Claimable
  <1>14. ASSUME NEW r \in Requests, Roll(r) PROVE AnswersKept
    BY <1>1, <1>14 DEF Roll, Rolls, Completes, AnswersKept, d1, Row, Claimable
  <1>15. ASSUME NEW r \in Requests, Complete(r) PROVE AnswersKept
    BY <1>1, <1>15 DEF Complete, AnswersKept, d1, Row, Claimable
  <1>16. ASSUME NEW r \in Requests, Die(r) PROVE AnswersKept
    BY <1>1, <1>16 DEF Die, AnswersKept, d1, Row, Claimable
  <1>17. ASSUME NEW r \in Requests, Age(r) PROVE AnswersKept
    BY <1>1, <1>17 DEF Age, AnswersKept, d1, Row, Claimable
  <1>18. CASE Probe
    BY <1>1, <1>18 DEF Probe, AnswersKept, d1, Row, Claimable
  <1>19. CASE ExpireEnvelope
    BY <1>1, <1>19 DEF ExpireEnvelope, AnswersKept, d1, Row, Claimable
  <1>20. CASE ExpireSigners
    BY <1>1, <1>20 DEF ExpireSigners, AnswersKept, d1, Row, Claimable
  <1>21. CASE Redeliver
    BY <1>1, <1>21 DEF Redeliver, AnswersKept, d1, Row, Claimable
  <1>22. CASE UNCHANGED vars
    BY <1>1, <1>22 DEF vars, AnswersKept, d1, Row, Claimable
  <1> QED
    BY <1>2, <1>3, <1>4, <1>5, <1>6, <1>7, <1>8, <1>9, <1>10, <1>11, <1>12, <1>13,
       <1>14, <1>15, <1>16, <1>17, <1>18, <1>19, <1>20, <1>21, <1>22 DEF Next, Step

LEMMA AgreedStays ==
  ASSUME policy \in {"all", "one"}, AnswersKept
  PROVE  /\ Promise!Agreed => Promise!Agreed'
         /\ Promise!Refused => Promise!Refused'
  <1>1. \A s \in Signers : /\ signer[s].status = "signed" => signer'[s].status = "signed"
                           /\ signer[s].status = "declined" => signer'[s].status = "declined"
    BY DEF AnswersKept
  <1>2. policy' = policy
    BY DEF AnswersKept
  <1>3. /\ Promise!Agreed <=> IF policy = "one" THEN \E s \in Signers : signer[s].status = "signed"
                                                ELSE \A s \in Signers : signer[s].status = "signed"
        /\ Promise!Refused <=> \/ \A s \in Signers : signer[s].status = "declined"
                               \/ policy = "all" /\ \E s \in Signers : signer[s].status = "declined"
    BY DEF Promise!Agreed, Promise!Refused
  <1>4. /\ Promise!Agreed' <=> IF policy' = "one" THEN \E s \in Signers : signer'[s].status = "signed"
                                                  ELSE \A s \in Signers : signer'[s].status = "signed"
        /\ Promise!Refused' <=> \/ \A s \in Signers : signer'[s].status = "declined"
                                \/ policy' = "all" /\ \E s \in Signers : signer'[s].status = "declined"
    BY DEF Promise!Agreed, Promise!Refused
  <1> QED BY <1>1, <1>2, <1>3, <1>4

LEMMA JustifiedKept ==
  ASSUME TypeOK, Justified, AnswersKept,
         \A q \in Requests : pc'[q] = "rolling" => pc[q] = "rolling" /\ mine'[q] = mine[q]
  PROVE  Justified'
  <1>1. (Promise!Agreed => Promise!Agreed') /\ (Promise!Refused => Promise!Refused')
    BY AgreedStays DEF TypeOK
  <1> QED BY <1>1 DEF Justified

LEMMA JustifiedStep == TypeOK /\ Claimable /\ Justified /\ [Next]_vars => Justified'
  <1> SUFFICES ASSUME TypeOK, Claimable, Justified, [Next]_vars PROVE Justified'
    OBVIOUS
  <1>1. /\ \A r \in Requests : For[r] \in Signers /\ signer[For[r]] \in Row /\ mine[r] \in Memo
        /\ pc \in [Requests -> Labels] /\ mine \in [Requests -> Memo] /\ signer \in [Signers -> Row]
    BY Links DEF TypeOK
  <1>0. AnswersKept
    BY AnswersStep
  <1>2. ASSUME NEW r \in Requests, NEW op \in May[r], Arrive(r, op) PROVE Justified'
    <2>1. \A q \in Requests : pc'[q] = "rolling" => pc[q] = "rolling" /\ mine'[q] = mine[q]
      BY <1>1, <1>2, Arrives
    <2> QED BY <1>0, <2>1, JustifiedKept
  <1>3. ASSUME NEW r \in Requests, Claim(r) PROVE Justified'
    <2>1. \A q \in Requests : pc'[q] = "rolling" => pc[q] = "rolling" /\ mine'[q] = mine[q]
      BY <1>1, <1>3 DEF Claim, Pinned, Put, GoWith, Go, Ended, d1
    <2> QED BY <1>0, <2>1, JustifiedKept
  <1>4. ASSUME NEW r \in Requests, Reread(r) PROVE Justified'
    <2>1. \A q \in Requests : pc'[q] = "rolling" => pc[q] = "rolling" /\ mine'[q] = mine[q]
      BY <1>1, <1>4, SignableIs DEF Reread, GoWith, Go, Ended, d1
    <2> QED BY <1>0, <2>1, JustifiedKept
  <1>5. ASSUME NEW r \in Requests, Record(r) PROVE Justified'
    <2>1. \A q \in Requests : pc'[q] = "rolling" => pc[q] = "rolling" /\ mine'[q] = mine[q]
      BY <1>1, <1>5 DEF Record, Append1, GoWith, Go, Ended, d1
    <2> QED BY <1>0, <2>1, JustifiedKept
  <1>6. ASSUME NEW r \in Requests, Confirm(r) PROVE Justified'
    <2>1. \A q \in Requests : pc'[q] = "rolling" => pc[q] = "rolling" /\ mine'[q] = mine[q]
      BY <1>1, <1>6 DEF Confirm, SameClaim, Put, RollForward, GoWith, Go, Ended, d1
    <2> QED BY <1>0, <2>1, JustifiedKept
  <1>7. ASSUME NEW r \in Requests, Check(r) PROVE Justified'
    <2>1. \A q \in Requests : pc'[q] = "rolling" => pc[q] = "rolling" /\ mine'[q] = mine[q]
      BY <1>1, <1>7 DEF Check, GoWith, Go, Ended, d1
    <2> QED BY <1>0, <2>1, JustifiedKept
  <1>8. ASSUME NEW r \in Requests, Release(r) PROVE Justified'
    <2>1. \A q \in Requests : pc'[q] = "rolling" => pc[q] = "rolling" /\ mine'[q] = mine[q]
      BY <1>1, <1>8 DEF Release, Released, SameClaim, Put, GoWith, Go, Ended, d1
    <2> QED BY <1>0, <2>1, JustifiedKept
  <1>9. ASSUME NEW r \in Requests, ExpireReleased(r) PROVE Justified'
    <2>1. \A q \in Requests : pc'[q] = "rolling" => pc[q] = "rolling" /\ mine'[q] = mine[q]
      BY <1>1, <1>9 DEF ExpireReleased, Put, GoWith, Go, Ended, d1
    <2> QED BY <1>0, <2>1, JustifiedKept
  <1>10. ASSUME NEW r \in Requests, Resume(r) PROVE Justified'
    <2>1. \A q \in Requests : pc'[q] = "rolling" => pc[q] = "rolling" /\ mine'[q] = mine[q]
      BY <1>1, <1>10 DEF Resume, RollForward, GoWith, Go, Ended, d1
    <2> QED BY <1>0, <2>1, JustifiedKept
  <1>11. ASSUME NEW r \in Requests, Decline(r) PROVE Justified'
    <2>1. \A q \in Requests : pc'[q] = "rolling" => pc[q] = "rolling" /\ mine'[q] = mine[q]
      BY <1>1, <1>11 DEF Decline, Put, RollForward, GoWith, Go, Ended, d1
    <2> QED BY <1>0, <2>1, JustifiedKept
  <1>12. ASSUME NEW r \in Requests, View(r) PROVE Justified'
    <2>1. \A q \in Requests : pc'[q] = "rolling" => pc[q] = "rolling" /\ mine'[q] = mine[q]
      BY <1>1, <1>12 DEF View, Put, RollForward, GoWith, Go, Ended, d1
    <2> QED BY <1>0, <2>1, JustifiedKept
  <1>13. ASSUME NEW r \in Requests, Load(r) PROVE Justified'
    <2>1. /\ UNCHANGED <<policy, signer>>
          /\ \A q \in Requests : q # r => pc'[q] = pc[q] /\ mine'[q] = mine[q]
          /\ mine'[r].agg = Aggregate
      BY <1>1, <1>13 DEF Load, Loaded, GoWith, Ended, d1, Memo
    <2>2. (Promise!Agreed => Promise!Agreed') /\ (Promise!Refused => Promise!Refused')
      BY <1>0, AgreedStays DEF TypeOK
    <2>3. /\ Aggregate # "expired"
          /\ Aggregate = "signed" => Promise!Agreed
          /\ Aggregate = "declined" => Promise!Refused
      BY AggregateIs DEF TypeOK
    <2> QED BY <2>1, <2>2, <2>3 DEF Justified
  <1>14. ASSUME NEW r \in Requests, Roll(r) PROVE Justified'
    <2>1. \A q \in Requests : pc'[q] = "rolling" => pc[q] = "rolling" /\ mine'[q] = mine[q]
      BY <1>1, <1>14 DEF Roll, Rolls, Completes, GoWith, Go, Ended, d1
    <2> QED BY <1>0, <2>1, JustifiedKept
  <1>15. ASSUME NEW r \in Requests, Complete(r) PROVE Justified'
    <2>1. \A q \in Requests : pc'[q] = "rolling" => pc[q] = "rolling" /\ mine'[q] = mine[q]
      BY <1>1, <1>15 DEF Complete, GoWith, Go, Ended, d1
    <2> QED BY <1>0, <2>1, JustifiedKept
  <1>16. ASSUME NEW r \in Requests, Die(r) PROVE Justified'
    <2>1. \A q \in Requests : pc'[q] = "rolling" => pc[q] = "rolling" /\ mine'[q] = mine[q]
      BY <1>1, <1>16 DEF Die, GoWith, Go, Ended, d1
    <2> QED BY <1>0, <2>1, JustifiedKept
  <1>17. ASSUME NEW r \in Requests, Age(r) PROVE Justified'
    <2>1. \A q \in Requests : pc'[q] = "rolling" => pc[q] = "rolling" /\ mine'[q] = mine[q]
      BY <1>1, <1>17 DEF Age, GoWith, Go, Ended, d1
    <2> QED BY <1>0, <2>1, JustifiedKept
  <1>18. CASE Probe
    <2>1. \A q \in Requests : pc'[q] = "rolling" => pc[q] = "rolling" /\ mine'[q] = mine[q]
      BY <1>1, <1>18 DEF Probe, GoWith, Go, Ended, d1
    <2> QED BY <1>0, <2>1, JustifiedKept
  <1>19. CASE ExpireEnvelope
    <2>1. \A q \in Requests : pc'[q] = "rolling" => pc[q] = "rolling" /\ mine'[q] = mine[q]
      BY <1>1, <1>19 DEF ExpireEnvelope, GoWith, Go, Ended, d1
    <2> QED BY <1>0, <2>1, JustifiedKept
  <1>20. CASE ExpireSigners
    <2>1. \A q \in Requests : pc'[q] = "rolling" => pc[q] = "rolling" /\ mine'[q] = mine[q]
      BY <1>1, <1>20 DEF ExpireSigners, GoWith, Go, Ended, d1
    <2> QED BY <1>0, <2>1, JustifiedKept
  <1>21. CASE Redeliver
    <2>1. \A q \in Requests : pc'[q] = "rolling" => pc[q] = "rolling" /\ mine'[q] = mine[q]
      BY <1>1, <1>21 DEF Redeliver, GoWith, Go, Ended, d1
    <2> QED BY <1>0, <2>1, JustifiedKept
  <1>22. CASE UNCHANGED vars
    <2>1. \A q \in Requests : pc'[q] = "rolling" => pc[q] = "rolling" /\ mine'[q] = mine[q]
      BY <1>1, <1>22 DEF vars, GoWith, Go, Ended, d1
    <2> QED BY <1>0, <2>1, JustifiedKept
  <1> QED
    BY <1>2, <1>3, <1>4, <1>5, <1>6, <1>7, <1>8, <1>9, <1>10, <1>11, <1>12, <1>13,
       <1>14, <1>15, <1>16, <1>17, <1>18, <1>19, <1>20, <1>21, <1>22 DEF Next, Step

LEMMA Stutters ==
  ASSUME UNCHANGED <<policy, envelope, effects>>,
         \A s \in Signers : \/ signer'[s].status = signer[s].status
                            \/ signer'[s].status \notin Decided /\ signer[s].status \notin Decided
  PROVE  [Promise!Next]_(Promise!vars)
  BY DEF Promise!vars

LEMMA Answers ==
  ASSUME TypeOK, NEW x \in Signers, NEW a \in Decided,
         UNCHANGED <<policy, envelope, effects>>,
         signer[x].status \notin Decided, signer'[x].status = a,
         \A s \in Signers \ {x} : signer'[s] = signer[s]
  PROVE  Promise!Answered(x, a)
  <1> DEFINE now  == [s \in Signers |-> IF signer[s].status \in Decided THEN signer[s].status
                                                                      ELSE "open"]
             then == [s \in Signers |-> IF signer'[s].status \in Decided THEN signer'[s].status
                                                                       ELSE "open"]
  <1>1. now[x] = "open"
    OBVIOUS
  <1>2. then = [now EXCEPT ![x] = a]
    OBVIOUS
  <1> QED BY <1>1, <1>2 DEF Promise!Answered

LEMMA Lapses ==
  ASSUME TypeOK, UNCHANGED <<policy, envelope, effects>>, NEW late \in SUBSET Signers,
         envelope = "expired" \/ late = {},
         \A s \in late : signer[s].status \in Waiting /\ signer'[s].status = "expired",
         \A s \in Signers \ late : signer'[s] = signer[s]
  PROVE  [Promise!Next]_(Promise!vars)
  <1>1. CASE late = {}
    BY <1>1, Stutters
  <1>2. CASE envelope = "expired"
    <2> DEFINE now  == [s \in Signers |-> IF signer[s].status \in Decided THEN signer[s].status
                                                                        ELSE "open"]
               then == [s \in Signers |-> IF signer'[s].status \in Decided THEN signer'[s].status
                                                                         ELSE "open"]
    <2>1. \A s \in late : now[s] = "open"
      OBVIOUS
    <2>2. then = [s \in Signers |-> IF s \in late THEN "expired" ELSE now[s]]
      OBVIOUS
    <2>3. Promise!Lapse(late)
      BY <1>2, <2>1, <2>2 DEF Promise!Lapse
    <2> QED BY <2>3 DEF Promise!Next
  <1> QED BY <1>1, <1>2

LEMMA Decides ==
  ASSUME NEW o, UNCHANGED <<policy, signer, effects>>, envelope \notin Decided, envelope' = o,
         \/ o = "expired"
         \/ o = "signed" /\ Promise!Agreed
         \/ o = "declined" /\ Promise!Refused
  PROVE  [Promise!Next]_(Promise!vars)
  <1>1. o \in Decided => Promise!Decide(o)
    BY DEF Promise!Decide
  <1> QED BY <1>1 DEF Promise!Next

LEMMA RefinesInit == Init => Promise!Init
  <1> SUFFICES ASSUME Init PROVE Promise!Init
    OBVIOUS
  <1>1. \A s \in Signers : signer[s].status = "sent"
    BY DEF Init, NoRow
  <1> QED BY <1>1 DEF Init, Promise!Init

LEMMA RefinesStep == TypeOK /\ Claimable /\ Justified /\ Once /\ [Next]_vars => [Promise!Next]_(Promise!vars)
  <1> SUFFICES ASSUME TypeOK, Claimable, Justified, Once, [Next]_vars PROVE [Promise!Next]_(Promise!vars)
    OBVIOUS
  <1>1. /\ \A r \in Requests : For[r] \in Signers /\ signer[For[r]] \in Row /\ mine[r] \in Memo
        /\ pc \in [Requests -> Labels] /\ mine \in [Requests -> Memo] /\ signer \in [Signers -> Row]
    BY Links DEF TypeOK
  <1>2. ASSUME NEW r \in Requests, NEW op \in May[r], Arrive(r, op) PROVE [Promise!Next]_(Promise!vars)
    BY <1>2, Arrives, Stutters DEF d1
  <1>3. ASSUME NEW r \in Requests, Claim(r) PROVE [Promise!Next]_(Promise!vars)
    <2>1. UNCHANGED <<policy, envelope, effects>>
      BY <1>3 DEF Claim, Pinned, Put, d1
    <2>2. \A s \in Signers : \/ signer'[s].status = signer[s].status
                             \/ signer'[s].status \notin Decided /\ signer[s].status \notin Decided
      BY <1>1, <1>3 DEF Claim, Pinned, Put, d1, Claimable
    <2> QED BY <2>1, <2>2, Stutters
  <1>4. ASSUME NEW r \in Requests, Reread(r) PROVE [Promise!Next]_(Promise!vars)
    <2>1. UNCHANGED <<policy, envelope, effects>>
      BY <1>4 DEF Reread, Signable, IsLive, d1
    <2>2. \A s \in Signers : \/ signer'[s].status = signer[s].status
                             \/ signer'[s].status \notin Decided /\ signer[s].status \notin Decided
      BY <1>1, <1>4 DEF Reread, Signable, IsLive, d1
    <2> QED BY <2>1, <2>2, Stutters
  <1>5. ASSUME NEW r \in Requests, Record(r) PROVE [Promise!Next]_(Promise!vars)
    <2>1. UNCHANGED <<policy, envelope, effects>>
      BY <1>5 DEF Record, Append1, d1
    <2>2. \A s \in Signers : \/ signer'[s].status = signer[s].status
                             \/ signer'[s].status \notin Decided /\ signer[s].status \notin Decided
      BY <1>1, <1>5 DEF Record, Append1, d1
    <2> QED BY <2>1, <2>2, Stutters
  <1>6. ASSUME NEW r \in Requests, Confirm(r) PROVE [Promise!Next]_(Promise!vars)
    <2> DEFINE x == For[r]
    <2>1. UNCHANGED <<policy, envelope, effects>> /\ x \in Signers
      BY <1>1, <1>6 DEF Confirm
    <2>2. CASE signer' = signer
      BY <2>1, <2>2, Stutters
    <2>3. CASE signer' # signer
      <3>1. /\ signer[x].status \notin Decided /\ signer'[x].status = "signed" /\ envelope # "expired"
            /\ \A s \in Signers \ {x} : signer'[s] = signer[s]
        BY <1>1, <1>6, <2>3, ClaimShows DEF Confirm, Put, Row
      <3> HIDE DEF x
      <3>2. Promise!Answered(x, "signed")
        BY <2>1, <3>1, Answers
      <3> QED BY <2>1, <3>1, <3>2 DEF Promise!Next, Promise!Sign
    <2> QED BY <2>2, <2>3
  <1>7. ASSUME NEW r \in Requests, Check(r) PROVE [Promise!Next]_(Promise!vars)
    <2>1. UNCHANGED <<policy, envelope, effects>>
      BY <1>7 DEF Check, d1
    <2>2. \A s \in Signers : \/ signer'[s].status = signer[s].status
                             \/ signer'[s].status \notin Decided /\ signer[s].status \notin Decided
      BY <1>1, <1>7 DEF Check, d1
    <2> QED BY <2>1, <2>2, Stutters
  <1>8. ASSUME NEW r \in Requests, Release(r) PROVE [Promise!Next]_(Promise!vars)
    <2>1. UNCHANGED <<policy, envelope, effects>>
      BY <1>8 DEF Release, Released, SameClaim, Put, d1
    <2>2. \A s \in Signers : \/ signer'[s].status = signer[s].status
                             \/ signer'[s].status \notin Decided /\ signer[s].status \notin Decided
      BY <1>1, <1>8, ClaimShows DEF Release, Released, Put, d1, Claimable
    <2> QED BY <2>1, <2>2, Stutters
  <1>9. ASSUME NEW r \in Requests, ExpireReleased(r) PROVE [Promise!Next]_(Promise!vars)
    <2>1. UNCHANGED <<policy, envelope, effects>>
      BY <1>9 DEF ExpireReleased
    <2>2. CASE signer' = signer
      BY <2>1, <2>2, Stutters
    <2>3. CASE signer' # signer
      <3> DEFINE late == {For[r]}
      <3>1. /\ late \in SUBSET Signers /\ envelope = "expired"
            /\ \A s \in late : signer[s].status \in Waiting /\ signer'[s].status = "expired"
            /\ \A s \in Signers \ late : signer'[s] = signer[s]
        BY <1>1, <1>9, <2>3 DEF ExpireReleased, Put, Row
      <3> HIDE DEF late
      <3> QED BY <2>1, <3>1, Lapses
    <2> QED BY <2>2, <2>3
  <1>10. ASSUME NEW r \in Requests, Resume(r) PROVE [Promise!Next]_(Promise!vars)
    <2>1. UNCHANGED <<policy, envelope, effects>>
      BY <1>10 DEF Resume, RollForward, d1
    <2>2. \A s \in Signers : \/ signer'[s].status = signer[s].status
                             \/ signer'[s].status \notin Decided /\ signer[s].status \notin Decided
      BY <1>1, <1>10 DEF Resume, RollForward, d1
    <2> QED BY <2>1, <2>2, Stutters
  <1>11. ASSUME NEW r \in Requests, Decline(r) PROVE [Promise!Next]_(Promise!vars)
    <2> DEFINE x == For[r]
    <2>1. UNCHANGED <<policy, envelope, effects>> /\ x \in Signers
      BY <1>1, <1>11 DEF Decline
    <2>2. CASE signer' = signer
      BY <2>1, <2>2, Stutters
    <2>3. CASE signer' # signer
      <3>1. /\ signer[x].status \notin Decided /\ signer'[x].status = "declined"
            /\ \A s \in Signers \ {x} : signer'[s] = signer[s]
        BY <1>1, <1>11, <2>3, ClaimShows DEF Decline, Put, Row
      <3> HIDE DEF x
      <3>2. Promise!Answered(x, "declined")
        BY <2>1, <3>1, Answers
      <3> QED BY <2>1, <3>1, <3>2 DEF Promise!Next, Promise!Decline
    <2> QED BY <2>2, <2>3
  <1>12. ASSUME NEW r \in Requests, View(r) PROVE [Promise!Next]_(Promise!vars)
    <2>1. UNCHANGED <<policy, envelope, effects>>
      BY <1>12 DEF View, Put, RollForward, d1
    <2>2. \A s \in Signers : \/ signer'[s].status = signer[s].status
                             \/ signer'[s].status \notin Decided /\ signer[s].status \notin Decided
      BY <1>1, <1>12 DEF View, Put, RollForward, d1, Row
    <2> QED BY <2>1, <2>2, Stutters
  <1>13. ASSUME NEW r \in Requests, Load(r) PROVE [Promise!Next]_(Promise!vars)
    <2>1. UNCHANGED <<policy, envelope, effects>>
      BY <1>13 DEF Load, Loaded, d1
    <2>2. \A s \in Signers : \/ signer'[s].status = signer[s].status
                             \/ signer'[s].status \notin Decided /\ signer[s].status \notin Decided
      BY <1>1, <1>13 DEF Load, Loaded, d1
    <2> QED BY <2>1, <2>2, Stutters
  <1>14. ASSUME NEW r \in Requests, Roll(r) PROVE [Promise!Next]_(Promise!vars)
    <2>1. UNCHANGED <<policy, signer, effects>>
      BY <1>14 DEF Roll
    <2>2. CASE envelope' = envelope
      BY <2>1, <2>2, Stutters
    <2>3. CASE envelope' # envelope
      <3>1. envelope \notin Decided /\ envelope' = mine[r].agg /\ pc[r] = "rolling"
        BY <1>14, <2>3 DEF Roll
      <3>2. /\ mine[r].agg # "expired"
            /\ mine[r].agg = "signed" => Promise!Agreed
            /\ mine[r].agg = "declined" => Promise!Refused
        BY <3>1 DEF Justified
      <3>3. CASE mine[r].agg \in Decided
        BY <2>1, <3>1, <3>2, <3>3, Decides
      <3>4. CASE mine[r].agg \notin Decided
        BY <2>1, <3>1, <3>4 DEF Promise!vars
      <3> QED BY <3>3, <3>4
    <2> QED BY <2>2, <2>3
  <1>15. ASSUME NEW r \in Requests, Complete(r) PROVE [Promise!Next]_(Promise!vars)
    <2>1. /\ UNCHANGED <<policy, envelope, signer>> /\ effects' = effects + 1
          /\ envelope = "signed" /\ effects = 0
      BY <1>15 DEF Complete, d1, Once
    <2>2. Promise!Complete
      BY <2>1 DEF Promise!Complete
    <2> QED BY <2>2 DEF Promise!Next
  <1>16. ASSUME NEW r \in Requests, Die(r) PROVE [Promise!Next]_(Promise!vars)
    <2>1. UNCHANGED <<policy, envelope, effects>>
      BY <1>16 DEF Die, d1
    <2>2. \A s \in Signers : \/ signer'[s].status = signer[s].status
                             \/ signer'[s].status \notin Decided /\ signer[s].status \notin Decided
      BY <1>1, <1>16 DEF Die, d1
    <2> QED BY <2>1, <2>2, Stutters
  <1>17. ASSUME NEW r \in Requests, Age(r) PROVE [Promise!Next]_(Promise!vars)
    <2>1. UNCHANGED <<policy, envelope, effects>>
      BY <1>17 DEF Age, d1
    <2>2. \A s \in Signers : \/ signer'[s].status = signer[s].status
                             \/ signer'[s].status \notin Decided /\ signer[s].status \notin Decided
      BY <1>1, <1>17 DEF Age, d1
    <2> QED BY <2>1, <2>2, Stutters
  <1>18. CASE Probe
    <2>1. UNCHANGED <<policy, envelope, effects>>
      BY <1>18 DEF Probe, d1
    <2>2. \A s \in Signers : \/ signer'[s].status = signer[s].status
                             \/ signer'[s].status \notin Decided /\ signer[s].status \notin Decided
      BY <1>1, <1>18 DEF Probe, d1
    <2> QED BY <2>1, <2>2, Stutters
  <1>19. CASE ExpireEnvelope
    <2>1. CASE envelope \in Waiting
      BY <1>19, <2>1, Decides DEF ExpireEnvelope
    <2>2. CASE envelope \notin Waiting
      BY <1>19, <2>2, Stutters DEF ExpireEnvelope
    <2> QED BY <2>1, <2>2
  <1>20. CASE ExpireSigners
    <2> DEFINE late == {s \in Signers : signer[s].status \in Waiting /\ envelope = "expired"}
    <2>1. UNCHANGED <<policy, envelope, effects>>
      BY <1>20 DEF ExpireSigners
    <2>2. /\ late \in SUBSET Signers /\ (envelope = "expired" \/ late = {})
          /\ \A s \in late : signer[s].status \in Waiting /\ signer'[s].status = "expired"
          /\ \A s \in Signers \ late : signer'[s] = signer[s]
      BY <1>1, <1>20 DEF ExpireSigners, Row
    <2> HIDE DEF late
    <2> QED BY <2>1, <2>2, Lapses
  <1>21. CASE Redeliver
    <2>1. UNCHANGED <<policy, envelope, effects>>
      BY <1>21 DEF Redeliver, d1
    <2>2. \A s \in Signers : \/ signer'[s].status = signer[s].status
                             \/ signer'[s].status \notin Decided /\ signer[s].status \notin Decided
      BY <1>1, <1>21 DEF Redeliver, d1
    <2> QED BY <2>1, <2>2, Stutters
  <1>22. CASE UNCHANGED vars
    <2>1. UNCHANGED <<policy, envelope, effects>>
      BY <1>22 DEF vars, d1
    <2>2. \A s \in Signers : \/ signer'[s].status = signer[s].status
                             \/ signer'[s].status \notin Decided /\ signer[s].status \notin Decided
      BY <1>1, <1>22 DEF vars, d1
    <2> QED BY <2>1, <2>2, Stutters
  <1> QED
    BY <1>2, <1>3, <1>4, <1>5, <1>6, <1>7, <1>8, <1>9, <1>10, <1>11, <1>12, <1>13,
       <1>14, <1>15, <1>16, <1>17, <1>18, <1>19, <1>20, <1>21, <1>22 DEF Next, Step

-----------------------------------------------------------------------------
\* The inductive invariant as a whole.
IInv == TypeOK /\ Claimable /\ Holding /\ Written /\ SignedIsRecorded /\ Justified /\ Once

LEMMA IInvInit == Init => IInv
  <1> SUFFICES ASSUME Init PROVE IInv
    OBVIOUS
  <1>1. /\ \A r \in Requests : pc[r] = "idle"
        /\ \A s \in Signers : signer[s].status = "sent"
        /\ effects = 0
    BY Links DEF Init, NoRow
  <1> QED
    BY <1>1, TypeInit
    DEF IInv, Claimable, Holding, Written, SignedIsRecorded, Justified, Once

LEMMA IInvStep == IInv /\ [Next]_vars => IInv'
  BY TypeStep, ClaimableStep, HoldingStep, WrittenStep, SignedStep, JustifiedStep, OnceStep
  DEF IInv

LEMMA IInvAlways == Spec => []IInv
  BY IInvInit, IInvStep, PTL DEF Spec

\* A signature that counts is in the audit chain, after claims gone stale at
\* most, for any number of signers, requests and retries.
THEOREM RecordedBeforeSigned == Spec => []SignedIsRecorded
  <1>1. IInv => SignedIsRecorded
    BY DEF IInv
  <1> QED BY <1>1, IInvAlways, PTL

\* The envelope keeps its promise: every answer and the outcome are given once,
\* the outcome is what the answers justify, and completion starts at most once.
THEOREM Refinement == Spec => ImplementsAgreement
  <1>1. IInv /\ [Next]_vars => [Promise!Next]_(Promise!vars)
    BY RefinesStep DEF IInv
  <1> QED
    BY RefinesInit, <1>1, IInvAlways, PTL DEF Spec, ImplementsAgreement, Promise!Spec

-----------------------------------------------------------------------------
(* What is still under way: why nothing is left behind once all is quiet. *)

\* The places only a request to sign passes through.
Signing == \A r \in Requests :
    pc[r] \in {"claiming", "missed", "appending", "confirming", "checking", "releasing",
               "sweeping", "resuming"} => mine[r].op = "sign"

\* A request to sign that will close an agreed envelope.
Closing(r) == /\ mine[r].op = "sign"
              /\ \/ pc[r] = "loading"
                 \/ pc[r] = "rolling" /\ mine[r].agg = "signed"

\* Between the last signature and the closing of the envelope some request
\* is on its way to close it.
Carried == Promise!Agreed /\ envelope \notin Decided /\ ~Lost => \E r \in Requests : Closing(r)

\* What a request will put back, if it is a claim, is a stale one.
PutsBack == \A r \in Requests :
    pc[r] \in {"claiming", "appending", "confirming", "checking", "releasing"} /\ mine[r].row.status = "signing"
        => mine[r].row.by \in stale

\* A request gives up a claim without putting the row back only when the claim
\* is no longer on the row, or stale.
GivesUp == \A r \in Requests :
    pc[r] = "checking" => ~SameClaim(r) \/ r \in stale \/ envelope = "expired"

\* A claim that is not stale belongs to a request that is still at work on it,
\* or has died.
Working(q) == pc[q] \in {"appending", "confirming", "checking", "releasing", "dead"}
Attended == \A s \in Signers :
    signer[s].status = "signing" /\ signer[s].by \notin stale =>
        /\ signer[s].by \in Requests /\ For[signer[s].by] = s
        /\ Working(signer[s].by)

\* A signer who still waits under an expired envelope is about to be expired,
\* by the job or by the request that put the row back.
Swept == envelope = "expired" /\ ~Lost => \A s \in Signers :
    signer[s].status \in Waiting => \/ cron # "idle"
                                    \/ \E r \in Requests : For[r] = s /\ pc[r] = "sweeping"

\* What a step has to respect that signs nothing: every step but a confirmation.
LEMMA CarriedKept ==
  ASSUME Carried, policy' = policy,
         \A s \in Signers : signer'[s].status = "signed" => signer[s].status = "signed",
         envelope \in Decided => envelope' \in Decided,
         \A q \in Requests : pc[q] = "dead" => pc'[q] = "dead",
         \A q \in Requests : Closing(q) => Closing(q)' \/ envelope' \in Decided
  PROVE  Carried'
  <1>1. Promise!Agreed' => Promise!Agreed
    <2>1. /\ Promise!Agreed <=> IF policy = "one" THEN \E s \in Signers : signer[s].status = "signed"
                                                  ELSE \A s \in Signers : signer[s].status = "signed"
          /\ Promise!Agreed' <=> IF policy' = "one" THEN \E s \in Signers : signer'[s].status = "signed"
                                                    ELSE \A s \in Signers : signer'[s].status = "signed"
      BY DEF Promise!Agreed
    <2> QED BY <2>1
  <1>2. ~Lost' => ~Lost
    BY DEF Lost
  <1> QED BY <1>1, <1>2 DEF Carried


LEMMA ArrivesAs ==
  ASSUME TypeOK, NEW r \in Requests, NEW op \in May[r], Arrive(r, op)
  PROVE  /\ \A q \in Requests : q # r => pc'[q] = pc[q] /\ mine'[q] = mine[q]
         /\ pc'[r] \in {"resuming", "done", "claiming", "declining", "viewing"}
         /\ pc'[r] \in {"resuming", "claiming"} => mine'[r].op = "sign"
  <1> DEFINE row == signer[For[r]]
             m   == [Nothing EXCEPT !.op = op, !.row = row, !.env = envelope]
             l   == CASE op = "sign"    -> Signable(row)
                      [] op = "decline" -> Declinable(row)
                      [] op = "view"    -> Viewable(row)
  <1>1. op \in {"sign", "decline", "view"} /\ GoWith(r, l, m)
    BY Links DEF Arrive
  <1>2. /\ l \in {"resuming", "claiming"} => op = "sign"
        /\ l \in {"resuming", "done", "claiming", "declining", "viewing"}
    BY <1>1, SignableIs DEF Declinable, Viewable
  <1>3. m.op = op
    BY DEF Nothing
  <1> HIDE DEF m, l, row
  <1>4. \A q \in Requests : q # r => pc'[q] = pc[q] /\ mine'[q] = mine[q]
    BY <1>1 DEF GoWith, TypeOK
  <1>5. pc'[r] = l /\ (l \in {"resuming", "claiming"} => mine'[r] = m)
    BY <1>1 DEF GoWith, Ended, TypeOK
  <1> QED BY <1>2, <1>3, <1>4, <1>5

LEMMA SigningStep == TypeOK /\ Signing /\ [Next]_vars => Signing'
  <1> SUFFICES ASSUME TypeOK, Signing, [Next]_vars PROVE Signing'
    OBVIOUS
  <1>1. /\ \A r \in Requests : For[r] \in Signers /\ signer[For[r]] \in Row /\ mine[r] \in Memo
        /\ pc \in [Requests -> Labels] /\ mine \in [Requests -> Memo] /\ signer \in [Signers -> Row]
    BY Links DEF TypeOK
  <1>2. ASSUME NEW r \in Requests, NEW op \in May[r], Arrive(r, op) PROVE Signing'
    BY <1>1, <1>2, ArrivesAs DEF Signing
  <1>3. ASSUME NEW r \in Requests, Claim(r) PROVE Signing'
    BY <1>1, <1>3, SignableIs DEF Claim, Pinned, Put, GoWith, Go, Ended, d1, Signing, Memo
  <1>4. ASSUME NEW r \in Requests, Reread(r) PROVE Signing'
    BY <1>1, <1>4, SignableIs DEF Reread, Signable, GoWith, Go, Ended, d1, Signing, Memo
  <1>5. ASSUME NEW r \in Requests, Record(r) PROVE Signing'
    BY <1>1, <1>5, SignableIs DEF Record, Append1, GoWith, Go, Ended, d1, Signing, Memo
  <1>6. ASSUME NEW r \in Requests, Confirm(r) PROVE Signing'
    BY <1>1, <1>6, SignableIs DEF Confirm, SameClaim, Put, RollForward, GoWith, Go, Ended,
       d1, Signing, Memo
  <1>7. ASSUME NEW r \in Requests, Check(r) PROVE Signing'
    BY <1>1, <1>7, SignableIs DEF Check, GoWith, Go, Ended, d1, Signing, Memo
  <1>8. ASSUME NEW r \in Requests, Release(r) PROVE Signing'
    BY <1>1, <1>8, SignableIs DEF Release, Released, SameClaim, Put, GoWith, Go, Ended,
       d1, Signing, Memo
  <1>9. ASSUME NEW r \in Requests, ExpireReleased(r) PROVE Signing'
    BY <1>1, <1>9, SignableIs DEF ExpireReleased, Put, GoWith, Go, Ended, d1, Signing,
       Memo
  <1>10. ASSUME NEW r \in Requests, Resume(r) PROVE Signing'
    BY <1>1, <1>10, SignableIs DEF Resume, RollForward, GoWith, Go, Ended, d1, Signing,
       Memo
  <1>11. ASSUME NEW r \in Requests, Decline(r) PROVE Signing'
    BY <1>1, <1>11, SignableIs DEF Decline, Put, RollForward, GoWith, Go, Ended, d1,
       Signing, Memo
  <1>12. ASSUME NEW r \in Requests, View(r) PROVE Signing'
    BY <1>1, <1>12, SignableIs DEF View, Put, RollForward, GoWith, Go, Ended, d1, Signing,
       Memo
  <1>13. ASSUME NEW r \in Requests, Load(r) PROVE Signing'
    BY <1>1, <1>13, SignableIs DEF Load, Loaded, GoWith, Go, Ended, d1, Signing, Memo
  <1>14. ASSUME NEW r \in Requests, Roll(r) PROVE Signing'
    BY <1>1, <1>14, SignableIs DEF Roll, Rolls, Completes, GoWith, Go, Ended, d1, Signing,
       Memo
  <1>15. ASSUME NEW r \in Requests, Complete(r) PROVE Signing'
    BY <1>1, <1>15, SignableIs DEF Complete, GoWith, Go, Ended, d1, Signing, Memo
  <1>16. ASSUME NEW r \in Requests, Die(r) PROVE Signing'
    BY <1>1, <1>16, SignableIs DEF Die, GoWith, Go, Ended, d1, Signing, Memo
  <1>17. ASSUME NEW r \in Requests, Age(r) PROVE Signing'
    BY <1>1, <1>17, SignableIs DEF Age, d1, Signing, Memo
  <1>18. CASE Probe
    BY <1>1, <1>18, SignableIs DEF Probe, d1, Signing, Memo
  <1>19. CASE ExpireEnvelope
    BY <1>1, <1>19, SignableIs DEF ExpireEnvelope, d1, Signing, Memo
  <1>20. CASE ExpireSigners
    BY <1>1, <1>20, SignableIs DEF ExpireSigners, d1, Signing, Memo
  <1>21. CASE Redeliver
    BY <1>1, <1>21, SignableIs DEF Redeliver, d1, Signing, Memo
  <1>22. CASE UNCHANGED vars
    BY <1>1, <1>22, SignableIs DEF vars, d1, Signing, Memo
  <1> QED
    BY <1>2, <1>3, <1>4, <1>5, <1>6, <1>7, <1>8, <1>9, <1>10, <1>11, <1>12, <1>13,
       <1>14, <1>15, <1>16, <1>17, <1>18, <1>19, <1>20, <1>21, <1>22 DEF Next, Step

LEMMA AgreedShows ==
  ASSUME policy \in {"all", "one"}
  PROVE  Promise!Agreed <=> Aggregate = "signed"
  <1>1. Promise!Agreed <=> IF policy = "one" THEN \E s \in Signers : signer[s].status = "signed"
                                             ELSE \A s \in Signers : signer[s].status = "signed"
    BY DEF Promise!Agreed
  <1>2. Promise!Agreed => ~(\A s \in Signers : signer[s].status = "declined")
    BY <1>1, Links
  <1>3. Promise!Agreed /\ policy = "all" => ~(\E s \in Signers : signer[s].status = "declined")
    BY <1>1
  <1>4. ASSUME Promise!Agreed PROVE Aggregate = "signed"
    <2>1. CASE policy = "one"
      <3>1. \E s \in Signers : signer[s].status = "signed"
        BY <1>1, <1>4, <2>1
      <3> QED BY <1>2, <1>4, <2>1, <3>1, Zenon DEF Aggregate
    <2>2. CASE policy = "all"
      <3>1. \A s \in Signers : signer[s].status = "signed"
        BY <1>1, <1>4, <2>2
      <3>2. policy # "one"
        BY <2>2
      <3> QED BY <1>2, <1>3, <1>4, <2>2, <3>1, <3>2, Zenon DEF Aggregate
    <2> QED BY <2>1, <2>2
  <1> QED BY <1>4, AggregateIs

LEMMA CarriedStep == TypeOK /\ Claimable /\ Signing /\ Carried /\ [Next]_vars => Carried'
  <1> SUFFICES ASSUME TypeOK, Claimable, Signing, Carried, [Next]_vars PROVE Carried'
    OBVIOUS
  <1>1. /\ \A r \in Requests : For[r] \in Signers /\ signer[For[r]] \in Row /\ mine[r] \in Memo
        /\ pc \in [Requests -> Labels] /\ mine \in [Requests -> Memo] /\ signer \in [Signers -> Row]
    BY Links DEF TypeOK
  <1>2. ASSUME NEW r \in Requests, NEW op \in May[r], Arrive(r, op) PROVE Carried'
    <2>1. UNCHANGED <<policy, signer, envelope>> /\ pc[r] = "idle"
      BY <1>2, Arrives DEF d1
    <2>2. /\ \A q \in Requests : pc[q] = "dead" => pc'[q] = "dead"
          /\ \A q \in Requests : Closing(q) => Closing(q)' \/ envelope' \in Decided
      BY <1>2, Arrives DEF Closing
    <2> QED BY <2>1, <2>2, CarriedKept
  <1>3. ASSUME NEW r \in Requests, Claim(r) PROVE Carried'
    <2>1. /\ policy' = policy
          /\ \A s \in Signers : signer'[s].status = "signed" => signer[s].status = "signed"
          /\ envelope \in Decided => envelope' \in Decided
      BY <1>1, <1>3, ClaimShows DEF Claim, Pinned, Put, GoWith, Go, Ended, d1, Claimable,
         Row
    <2>2. /\ \A q \in Requests : pc[q] = "dead" => pc'[q] = "dead"
          /\ \A q \in Requests : Closing(q) => Closing(q)' \/ envelope' \in Decided
      BY <1>1, <1>3 DEF Claim, Pinned, Put, GoWith, Go, Ended, d1, Closing
    <2> QED BY <2>1, <2>2, CarriedKept
  <1>4. ASSUME NEW r \in Requests, Reread(r) PROVE Carried'
    <2>1. /\ policy' = policy
          /\ \A s \in Signers : signer'[s].status = "signed" => signer[s].status = "signed"
          /\ envelope \in Decided => envelope' \in Decided
      BY <1>1, <1>4 DEF Reread, Signable, GoWith, Go, Ended, d1
    <2>2. /\ \A q \in Requests : pc[q] = "dead" => pc'[q] = "dead"
          /\ \A q \in Requests : Closing(q) => Closing(q)' \/ envelope' \in Decided
      BY <1>1, <1>4, SignableIs DEF Reread, GoWith, Go, Ended, d1, Closing
    <2> QED BY <2>1, <2>2, CarriedKept
  <1>5. ASSUME NEW r \in Requests, Record(r) PROVE Carried'
    <2>1. /\ policy' = policy
          /\ \A s \in Signers : signer'[s].status = "signed" => signer[s].status = "signed"
          /\ envelope \in Decided => envelope' \in Decided
      BY <1>1, <1>5 DEF Record, Append1, GoWith, Go, Ended, d1
    <2>2. /\ \A q \in Requests : pc[q] = "dead" => pc'[q] = "dead"
          /\ \A q \in Requests : Closing(q) => Closing(q)' \/ envelope' \in Decided
      BY <1>1, <1>5 DEF Record, Append1, GoWith, Go, Ended, d1, Closing
    <2> QED BY <2>1, <2>2, CarriedKept
  <1>6. ASSUME NEW r \in Requests, Confirm(r) PROVE Carried'
    <2>1. CASE SameClaim(r) /\ envelope # "expired"
      <3> DEFINE m == [mine[r] EXCEPT !.env = mine[r].env, !.row = NoRow, !.tries = 0]
      <3>1. m.op = "sign"
        BY <1>1, <1>6 DEF Confirm, Signing, Memo
      <3>2. GoWith(r, "loading", m)
        BY <1>6, <2>1 DEF Confirm, RollForward
      <3> HIDE DEF m
      <3>3. Closing(r)'
        BY <1>1, <3>1, <3>2 DEF GoWith, Ended, Closing
      <3> QED BY <3>3 DEF Carried
    <2>2. CASE ~(SameClaim(r) /\ envelope # "expired")
      <3>1. UNCHANGED <<policy, signer, envelope>>
        BY <1>6, <2>2 DEF Confirm
      <3>2. /\ \A q \in Requests : pc[q] = "dead" => pc'[q] = "dead"
            /\ \A q \in Requests : Closing(q) => Closing(q)' \/ envelope' \in Decided
        BY <1>1, <1>6, <2>2 DEF Confirm, GoWith, Go, Ended, Closing
      <3> QED BY <3>1, <3>2, CarriedKept
    <2> QED BY <2>1, <2>2
  <1>7. ASSUME NEW r \in Requests, Check(r) PROVE Carried'
    <2>1. /\ policy' = policy
          /\ \A s \in Signers : signer'[s].status = "signed" => signer[s].status = "signed"
          /\ envelope \in Decided => envelope' \in Decided
      BY <1>1, <1>7 DEF Check, GoWith, Go, Ended, d1
    <2>2. /\ \A q \in Requests : pc[q] = "dead" => pc'[q] = "dead"
          /\ \A q \in Requests : Closing(q) => Closing(q)' \/ envelope' \in Decided
      BY <1>1, <1>7 DEF Check, GoWith, Go, Ended, d1, Closing
    <2> QED BY <2>1, <2>2, CarriedKept
  <1>8. ASSUME NEW r \in Requests, Release(r) PROVE Carried'
    <2>1. /\ policy' = policy
          /\ \A s \in Signers : signer'[s].status = "signed" => signer[s].status = "signed"
          /\ envelope \in Decided => envelope' \in Decided
      BY <1>1, <1>8, ClaimShows DEF Release, Released, SameClaim, Put, GoWith, Go, Ended,
         d1, Claimable, Row
    <2>2. /\ \A q \in Requests : pc[q] = "dead" => pc'[q] = "dead"
          /\ \A q \in Requests : Closing(q) => Closing(q)' \/ envelope' \in Decided
      BY <1>1, <1>8 DEF Release, Released, SameClaim, Put, GoWith, Go, Ended, d1, Closing
    <2> QED BY <2>1, <2>2, CarriedKept
  <1>9. ASSUME NEW r \in Requests, ExpireReleased(r) PROVE Carried'
    <2>1. /\ policy' = policy
          /\ \A s \in Signers : signer'[s].status = "signed" => signer[s].status = "signed"
          /\ envelope \in Decided => envelope' \in Decided
      BY <1>1, <1>9 DEF ExpireReleased, Put, GoWith, Go, Ended, d1, Row
    <2>2. /\ \A q \in Requests : pc[q] = "dead" => pc'[q] = "dead"
          /\ \A q \in Requests : Closing(q) => Closing(q)' \/ envelope' \in Decided
      BY <1>1, <1>9 DEF ExpireReleased, Put, GoWith, Go, Ended, d1, Closing
    <2> QED BY <2>1, <2>2, CarriedKept
  <1>10. ASSUME NEW r \in Requests, Resume(r) PROVE Carried'
    <2>1. /\ policy' = policy
          /\ \A s \in Signers : signer'[s].status = "signed" => signer[s].status = "signed"
          /\ envelope \in Decided => envelope' \in Decided
      BY <1>1, <1>10 DEF Resume, RollForward, GoWith, Go, Ended, d1
    <2>2. /\ \A q \in Requests : pc[q] = "dead" => pc'[q] = "dead"
          /\ \A q \in Requests : Closing(q) => Closing(q)' \/ envelope' \in Decided
      BY <1>1, <1>10 DEF Resume, RollForward, GoWith, Go, Ended, d1, Closing
    <2> QED BY <2>1, <2>2, CarriedKept
  <1>11. ASSUME NEW r \in Requests, Decline(r) PROVE Carried'
    <2>1. /\ policy' = policy
          /\ \A s \in Signers : signer'[s].status = "signed" => signer[s].status = "signed"
          /\ envelope \in Decided => envelope' \in Decided
      BY <1>1, <1>11 DEF Decline, Put, RollForward, GoWith, Go, Ended, d1, Row
    <2>2. /\ \A q \in Requests : pc[q] = "dead" => pc'[q] = "dead"
          /\ \A q \in Requests : Closing(q) => Closing(q)' \/ envelope' \in Decided
      BY <1>1, <1>11 DEF Decline, Put, RollForward, GoWith, Go, Ended, d1, Closing
    <2> QED BY <2>1, <2>2, CarriedKept
  <1>12. ASSUME NEW r \in Requests, View(r) PROVE Carried'
    <2>1. /\ policy' = policy
          /\ \A s \in Signers : signer'[s].status = "signed" => signer[s].status = "signed"
          /\ envelope \in Decided => envelope' \in Decided
      BY <1>1, <1>12 DEF View, Put, RollForward, GoWith, Go, Ended, d1, Row
    <2>2. /\ \A q \in Requests : pc[q] = "dead" => pc'[q] = "dead"
          /\ \A q \in Requests : Closing(q) => Closing(q)' \/ envelope' \in Decided
      BY <1>1, <1>12 DEF View, Put, RollForward, GoWith, Go, Ended, d1, Closing
    <2> QED BY <2>1, <2>2, CarriedKept
  <1>13. ASSUME NEW r \in Requests, Load(r) PROVE Carried'
    <2>1. /\ UNCHANGED <<policy, signer, envelope>>
          /\ \A q \in Requests : q # r => pc'[q] = pc[q] /\ mine'[q] = mine[q]
          /\ pc[r] = "loading" /\ pc'[r] = "rolling"
          /\ mine'[r].agg = Aggregate /\ mine'[r].op = mine[r].op
      BY <1>1, <1>13 DEF Load, Loaded, GoWith, Ended, d1, Memo
    <2>2. CASE Promise!Agreed
      <3>1. Aggregate = "signed"
        BY <2>2, AgreedShows DEF TypeOK
      <3>2. \A q \in Requests : Closing(q) => Closing(q)'
        BY <2>1, <3>1 DEF Closing
      <3>3. \A q \in Requests : pc[q] = "dead" => pc'[q] = "dead"
        BY <2>1
      <3> QED BY <2>1, <3>2, <3>3, CarriedKept
    <2>3. CASE ~Promise!Agreed
      BY <2>1, <2>3 DEF Carried, Promise!Agreed
    <2> QED BY <2>2, <2>3
  <1>14. ASSUME NEW r \in Requests, Roll(r) PROVE Carried'
    <2>1. /\ UNCHANGED <<policy, signer>>
          /\ envelope \in Decided => envelope' \in Decided
          /\ \A q \in Requests : q # r => pc'[q] = pc[q] /\ mine'[q] = mine[q]
          /\ pc[r] = "rolling"
      BY <1>1, <1>14 DEF Roll, GoWith, Go
    <2>2. Closing(r) => envelope' \in Decided
      BY <1>1, <1>14 DEF Roll, Rolls, Closing, TypeOK
    <2>3. \A q \in Requests : Closing(q) => Closing(q)' \/ envelope' \in Decided
      BY <2>1, <2>2 DEF Closing
    <2>4. \A q \in Requests : pc[q] = "dead" => pc'[q] = "dead"
      BY <2>1
    <2> QED BY <2>1, <2>3, <2>4, CarriedKept
  <1>15. ASSUME NEW r \in Requests, Complete(r) PROVE Carried'
    <2>1. /\ policy' = policy
          /\ \A s \in Signers : signer'[s].status = "signed" => signer[s].status = "signed"
          /\ envelope \in Decided => envelope' \in Decided
      BY <1>1, <1>15 DEF Complete, GoWith, Go, Ended, d1
    <2>2. /\ \A q \in Requests : pc[q] = "dead" => pc'[q] = "dead"
          /\ \A q \in Requests : Closing(q) => Closing(q)' \/ envelope' \in Decided
      BY <1>1, <1>15 DEF Complete, GoWith, Go, Ended, d1, Closing
    <2> QED BY <2>1, <2>2, CarriedKept
  <1>16. ASSUME NEW r \in Requests, Die(r) PROVE Carried'
    <2>1. Lost'
      BY <1>1, <1>16 DEF Die, GoWith, Go, Ended, Lost
    <2> QED BY <2>1 DEF Carried
  <1>17. ASSUME NEW r \in Requests, Age(r) PROVE Carried'
    <2>1. /\ policy' = policy
          /\ \A s \in Signers : signer'[s].status = "signed" => signer[s].status = "signed"
          /\ envelope \in Decided => envelope' \in Decided
      BY <1>1, <1>17 DEF Age, d1
    <2>2. /\ \A q \in Requests : pc[q] = "dead" => pc'[q] = "dead"
          /\ \A q \in Requests : Closing(q) => Closing(q)' \/ envelope' \in Decided
      BY <1>1, <1>17 DEF Age, d1, Closing
    <2> QED BY <2>1, <2>2, CarriedKept
  <1>18. CASE Probe
    <2>1. /\ policy' = policy
          /\ \A s \in Signers : signer'[s].status = "signed" => signer[s].status = "signed"
          /\ envelope \in Decided => envelope' \in Decided
      BY <1>1, <1>18 DEF Probe, d1
    <2>2. /\ \A q \in Requests : pc[q] = "dead" => pc'[q] = "dead"
          /\ \A q \in Requests : Closing(q) => Closing(q)' \/ envelope' \in Decided
      BY <1>1, <1>18 DEF Probe, d1, Closing
    <2> QED BY <2>1, <2>2, CarriedKept
  <1>19. CASE ExpireEnvelope
    <2>1. /\ policy' = policy
          /\ \A s \in Signers : signer'[s].status = "signed" => signer[s].status = "signed"
          /\ envelope \in Decided => envelope' \in Decided
      BY <1>1, <1>19 DEF ExpireEnvelope, d1
    <2>2. /\ \A q \in Requests : pc[q] = "dead" => pc'[q] = "dead"
          /\ \A q \in Requests : Closing(q) => Closing(q)' \/ envelope' \in Decided
      BY <1>1, <1>19 DEF ExpireEnvelope, d1, Closing
    <2> QED BY <2>1, <2>2, CarriedKept
  <1>20. CASE ExpireSigners
    <2>1. /\ policy' = policy
          /\ \A s \in Signers : signer'[s].status = "signed" => signer[s].status = "signed"
          /\ envelope \in Decided => envelope' \in Decided
      BY <1>1, <1>20 DEF ExpireSigners, d1, Row
    <2>2. /\ \A q \in Requests : pc[q] = "dead" => pc'[q] = "dead"
          /\ \A q \in Requests : Closing(q) => Closing(q)' \/ envelope' \in Decided
      BY <1>1, <1>20 DEF ExpireSigners, d1, Closing
    <2> QED BY <2>1, <2>2, CarriedKept
  <1>21. CASE Redeliver
    <2>1. /\ policy' = policy
          /\ \A s \in Signers : signer'[s].status = "signed" => signer[s].status = "signed"
          /\ envelope \in Decided => envelope' \in Decided
      BY <1>1, <1>21 DEF Redeliver, d1
    <2>2. /\ \A q \in Requests : pc[q] = "dead" => pc'[q] = "dead"
          /\ \A q \in Requests : Closing(q) => Closing(q)' \/ envelope' \in Decided
      BY <1>1, <1>21 DEF Redeliver, d1, Closing
    <2> QED BY <2>1, <2>2, CarriedKept
  <1>22. CASE UNCHANGED vars
    <2>1. /\ policy' = policy
          /\ \A s \in Signers : signer'[s].status = "signed" => signer[s].status = "signed"
          /\ envelope \in Decided => envelope' \in Decided
      BY <1>1, <1>22 DEF vars, d1
    <2>2. /\ \A q \in Requests : pc[q] = "dead" => pc'[q] = "dead"
          /\ \A q \in Requests : Closing(q) => Closing(q)' \/ envelope' \in Decided
      BY <1>1, <1>22 DEF vars, d1, Closing
    <2> QED BY <2>1, <2>2, CarriedKept
  <1> QED
    BY <1>2, <1>3, <1>4, <1>5, <1>6, <1>7, <1>8, <1>9, <1>10, <1>11, <1>12, <1>13,
       <1>14, <1>15, <1>16, <1>17, <1>18, <1>19, <1>20, <1>21, <1>22 DEF Next, Step
LEMMA PutsBackStep == TypeOK /\ Claimable /\ PutsBack /\ [Next]_vars => PutsBack'
  <1> SUFFICES ASSUME TypeOK, Claimable, PutsBack, [Next]_vars PROVE PutsBack'
    OBVIOUS
  <1>1. /\ \A r \in Requests : For[r] \in Signers /\ signer[For[r]] \in Row /\ mine[r] \in Memo
        /\ pc \in [Requests -> Labels] /\ mine \in [Requests -> Memo] /\ signer \in [Signers -> Row]
    BY Links DEF TypeOK
  <1>2. ASSUME NEW r \in Requests, NEW op \in May[r], Arrive(r, op) PROVE PutsBack'
    BY <1>1, <1>2, Arrives DEF PutsBack, IsLive, d1
  <1>3. ASSUME NEW r \in Requests, Claim(r) PROVE PutsBack'
    BY <1>1, <1>3, SignableIs DEF Claim, Pinned, Put, GoWith, Go, Ended, d1, PutsBack,
       Claimable, Memo
  <1>4. ASSUME NEW r \in Requests, Reread(r) PROVE PutsBack'
    BY <1>1, <1>4, SignableIs DEF Reread, IsLive, GoWith, Ended, d1, PutsBack, Memo
  <1>5. ASSUME NEW r \in Requests, Record(r) PROVE PutsBack'
    BY <1>1, <1>5, SignableIs DEF Record, Append1, GoWith, Go, Ended, d1, PutsBack,
       Claimable, Memo
  <1>6. ASSUME NEW r \in Requests, Confirm(r) PROVE PutsBack'
    BY <1>1, <1>6, SignableIs DEF Confirm, SameClaim, Put, RollForward, GoWith, Go, Ended,
       d1, PutsBack, Claimable, Memo
  <1>7. ASSUME NEW r \in Requests, Check(r) PROVE PutsBack'
    BY <1>1, <1>7, SignableIs DEF Check, GoWith, Go, Ended, d1, PutsBack, Claimable, Memo
  <1>8. ASSUME NEW r \in Requests, Release(r) PROVE PutsBack'
    BY <1>1, <1>8, SignableIs DEF Release, Released, SameClaim, Put, GoWith, Go, Ended,
       d1, PutsBack, Claimable, Memo
  <1>9. ASSUME NEW r \in Requests, ExpireReleased(r) PROVE PutsBack'
    BY <1>1, <1>9, SignableIs DEF ExpireReleased, Put, GoWith, Go, Ended, d1, PutsBack,
       Claimable, Memo
  <1>10. ASSUME NEW r \in Requests, Resume(r) PROVE PutsBack'
    BY <1>1, <1>10, SignableIs DEF Resume, RollForward, GoWith, Go, Ended, d1, PutsBack,
       Claimable, Memo
  <1>11. ASSUME NEW r \in Requests, Decline(r) PROVE PutsBack'
    BY <1>1, <1>11, SignableIs DEF Decline, Put, RollForward, GoWith, Go, Ended, d1,
       PutsBack, Claimable, Memo
  <1>12. ASSUME NEW r \in Requests, View(r) PROVE PutsBack'
    BY <1>1, <1>12, SignableIs DEF View, Put, RollForward, GoWith, Go, Ended, d1,
       PutsBack, Claimable, Memo
  <1>13. ASSUME NEW r \in Requests, Load(r) PROVE PutsBack'
    BY <1>1, <1>13, SignableIs DEF Load, Loaded, GoWith, Go, Ended, d1, PutsBack,
       Claimable, Memo
  <1>14. ASSUME NEW r \in Requests, Roll(r) PROVE PutsBack'
    BY <1>1, <1>14, SignableIs DEF Roll, Rolls, Completes, GoWith, Go, Ended, d1,
       PutsBack, Claimable, Memo
  <1>15. ASSUME NEW r \in Requests, Complete(r) PROVE PutsBack'
    BY <1>1, <1>15, SignableIs DEF Complete, GoWith, Go, Ended, d1, PutsBack, Claimable,
       Memo
  <1>16. ASSUME NEW r \in Requests, Die(r) PROVE PutsBack'
    BY <1>1, <1>16, SignableIs DEF Die, GoWith, Go, Ended, d1, PutsBack, Claimable, Memo
  <1>17. ASSUME NEW r \in Requests, Age(r) PROVE PutsBack'
    BY <1>1, <1>17, SignableIs DEF Age, d1, PutsBack, Claimable, Memo
  <1>18. CASE Probe
    BY <1>1, <1>18, SignableIs DEF Probe, d1, PutsBack, Claimable, Memo
  <1>19. CASE ExpireEnvelope
    BY <1>1, <1>19, SignableIs DEF ExpireEnvelope, d1, PutsBack, Claimable, Memo
  <1>20. CASE ExpireSigners
    BY <1>1, <1>20, SignableIs DEF ExpireSigners, d1, PutsBack, Claimable, Memo
  <1>21. CASE Redeliver
    BY <1>1, <1>21, SignableIs DEF Redeliver, d1, PutsBack, Claimable, Memo
  <1>22. CASE UNCHANGED vars
    BY <1>1, <1>22, SignableIs DEF vars, d1, PutsBack, Claimable, Memo
  <1> QED
    BY <1>2, <1>3, <1>4, <1>5, <1>6, <1>7, <1>8, <1>9, <1>10, <1>11, <1>12, <1>13,
       <1>14, <1>15, <1>16, <1>17, <1>18, <1>19, <1>20, <1>21, <1>22 DEF Next, Step
LEMMA GivesUpStep == TypeOK /\ Claimable /\ PutsBack /\ GivesUp /\ [Next]_vars => GivesUp'
  <1> SUFFICES ASSUME TypeOK, Claimable, PutsBack, GivesUp, [Next]_vars PROVE GivesUp'
    OBVIOUS
  <1>1. /\ \A r \in Requests : For[r] \in Signers /\ signer[For[r]] \in Row /\ mine[r] \in Memo
        /\ pc \in [Requests -> Labels] /\ mine \in [Requests -> Memo] /\ signer \in [Signers -> Row]
    BY Links DEF TypeOK
  <1>2. ASSUME NEW r \in Requests, NEW op \in May[r], Arrive(r, op) PROVE GivesUp'
    BY <1>1, <1>2, Arrives DEF GivesUp, SameClaim, Claimable, Memo, d1
  <1>3. ASSUME NEW r \in Requests, Claim(r) PROVE GivesUp'
    BY <1>1, <1>3, SignableIs DEF Claim, Pinned, Put, GoWith, Go, Ended, d1, GivesUp,
       SameClaim, Claimable, Memo
  <1>4. ASSUME NEW r \in Requests, Reread(r) PROVE GivesUp'
    BY <1>1, <1>4, SignableIs DEF Reread, Signable, GoWith, Go, Ended, d1, GivesUp,
       SameClaim, Claimable, Memo
  <1>5. ASSUME NEW r \in Requests, Record(r) PROVE GivesUp'
    BY <1>1, <1>5, SignableIs DEF Record, Append1, GoWith, Go, Ended, d1, GivesUp,
       SameClaim, Claimable, Memo
  <1>6. ASSUME NEW r \in Requests, Confirm(r) PROVE GivesUp'
    BY <1>1, <1>6, SignableIs DEF Confirm, SameClaim, Put, RollForward, GoWith, Go, Ended,
       d1, GivesUp, Claimable, Memo
  <1>7. ASSUME NEW r \in Requests, Check(r) PROVE GivesUp'
    BY <1>1, <1>7, SignableIs DEF Check, GoWith, Go, Ended, d1, GivesUp, SameClaim,
       Claimable, Memo
  <1>8. ASSUME NEW r \in Requests, Release(r) PROVE GivesUp'
    <2>1. /\ stale' = stale /\ envelope' = envelope
          /\ \A q \in Requests : pc'[q] = "checking" => pc[q] = "checking"
          /\ signer' = signer \/ signer' = [signer EXCEPT ![For[r]] = mine[r].row]
      BY <1>1, <1>8 DEF Release, Released, Put, GoWith, Go, Ended
    <2>2. mine[r].row.status = "signing" => mine[r].row.by \in stale
      BY <1>8 DEF Release, PutsBack
    <2>3. ASSUME NEW q \in Requests, SameClaim(q)' PROVE SameClaim(q) \/ q \in stale
      <3>1. CASE signer' = signer \/ For[q] # For[r]
        BY <1>1, <2>1, <2>3, <3>1 DEF SameClaim
      <3>2. CASE signer'[For[q]] = mine[r].row
        BY <2>2, <2>3, <3>2 DEF SameClaim
      <3> QED BY <1>1, <2>1, <3>1, <3>2
    <2> QED BY <2>1, <2>3 DEF GivesUp
  <1>9. ASSUME NEW r \in Requests, ExpireReleased(r) PROVE GivesUp'
    BY <1>1, <1>9, SignableIs DEF ExpireReleased, Put, GoWith, Go, Ended, d1, GivesUp,
       SameClaim, Claimable, Memo
  <1>10. ASSUME NEW r \in Requests, Resume(r) PROVE GivesUp'
    BY <1>1, <1>10, SignableIs DEF Resume, RollForward, GoWith, Go, Ended, d1, GivesUp,
       SameClaim, Claimable, Memo
  <1>11. ASSUME NEW r \in Requests, Decline(r) PROVE GivesUp'
    BY <1>1, <1>11, SignableIs DEF Decline, Put, RollForward, GoWith, Go, Ended, d1,
       GivesUp, SameClaim, Claimable, Memo
  <1>12. ASSUME NEW r \in Requests, View(r) PROVE GivesUp'
    BY <1>1, <1>12, SignableIs DEF View, Put, RollForward, GoWith, Go, Ended, d1, GivesUp,
       SameClaim, Claimable, Memo
  <1>13. ASSUME NEW r \in Requests, Load(r) PROVE GivesUp'
    BY <1>1, <1>13, SignableIs DEF Load, Loaded, GoWith, Go, Ended, d1, GivesUp,
       SameClaim, Claimable, Memo
  <1>14. ASSUME NEW r \in Requests, Roll(r) PROVE GivesUp'
    BY <1>1, <1>14, SignableIs DEF Roll, Rolls, Completes, GoWith, Go, Ended, d1, GivesUp,
       SameClaim, Claimable, Memo
  <1>15. ASSUME NEW r \in Requests, Complete(r) PROVE GivesUp'
    BY <1>1, <1>15, SignableIs DEF Complete, GoWith, Go, Ended, d1, GivesUp, SameClaim,
       Claimable, Memo
  <1>16. ASSUME NEW r \in Requests, Die(r) PROVE GivesUp'
    BY <1>1, <1>16, SignableIs DEF Die, GoWith, Go, Ended, d1, GivesUp, SameClaim,
       Claimable, Memo
  <1>17. ASSUME NEW r \in Requests, Age(r) PROVE GivesUp'
    BY <1>1, <1>17, SignableIs DEF Age, d1, GivesUp, SameClaim, Claimable, Memo
  <1>18. CASE Probe
    BY <1>1, <1>18, SignableIs DEF Probe, d1, GivesUp, SameClaim, Claimable, Memo
  <1>19. CASE ExpireEnvelope
    BY <1>1, <1>19, SignableIs DEF ExpireEnvelope, d1, GivesUp, SameClaim, Claimable, Memo
  <1>20. CASE ExpireSigners
    BY <1>1, <1>20, SignableIs DEF ExpireSigners, d1, GivesUp, SameClaim, Claimable, Memo
  <1>21. CASE Redeliver
    BY <1>1, <1>21, SignableIs DEF Redeliver, d1, GivesUp, SameClaim, Claimable, Memo
  <1>22. CASE UNCHANGED vars
    BY <1>1, <1>22, SignableIs DEF vars, d1, GivesUp, SameClaim, Claimable, Memo
  <1> QED
    BY <1>2, <1>3, <1>4, <1>5, <1>6, <1>7, <1>8, <1>9, <1>10, <1>11, <1>12, <1>13,
       <1>14, <1>15, <1>16, <1>17, <1>18, <1>19, <1>20, <1>21, <1>22 DEF Next, Step
LEMMA AttendedStep == TypeOK /\ PutsBack /\ GivesUp /\ Attended /\ [Next]_vars => Attended'
  <1> SUFFICES ASSUME TypeOK, PutsBack, GivesUp, Attended, [Next]_vars PROVE Attended'
    OBVIOUS
  <1>1. /\ \A r \in Requests : For[r] \in Signers /\ signer[For[r]] \in Row /\ mine[r] \in Memo
        /\ pc \in [Requests -> Labels] /\ mine \in [Requests -> Memo] /\ signer \in [Signers -> Row]
    BY Links DEF TypeOK
  <1>2. ASSUME NEW r \in Requests, NEW op \in May[r], Arrive(r, op) PROVE Attended'
    BY <1>1, <1>2, Arrives DEF Attended, Working, Memo, Row, d1
  <1>3. ASSUME NEW r \in Requests, Claim(r) PROVE Attended'
    BY <1>1, <1>3, SignableIs DEF Claim, Pinned, Put, GoWith, Go, Ended, d1, Attended,
       Working, Memo, Row
  <1>4. ASSUME NEW r \in Requests, Reread(r) PROVE Attended'
    BY <1>1, <1>4, SignableIs DEF Reread, Signable, GoWith, Go, Ended, d1, Attended,
       Working, Memo, Row
  <1>5. ASSUME NEW r \in Requests, Record(r) PROVE Attended'
    BY <1>1, <1>5, SignableIs DEF Record, Append1, GoWith, Go, Ended, d1, Attended,
       Working, Memo, Row
  <1>6. ASSUME NEW r \in Requests, Confirm(r) PROVE Attended'
    BY <1>1, <1>6, SignableIs DEF Confirm, SameClaim, Put, RollForward, GoWith, Go, Ended,
       d1, Attended, Working, Memo, Row
  <1>7. ASSUME NEW r \in Requests, Check(r) PROVE Attended'
    <2>1. /\ UNCHANGED <<signer, stale, envelope>> /\ pc[r] = "checking"
          /\ \A q \in Requests : q # r => pc'[q] = pc[q]
          /\ pc'[r] = "releasing" \/ envelope # "expired"
      BY <1>1, <1>7 DEF Check, GoWith, Go, d1
    <2>2. ASSUME NEW s \in Signers, signer[s].status = "signing", signer[s].by \notin stale,
                 signer[s].by = r, For[r] = s
          PROVE  envelope = "expired"
      <3>1. signer[s] = [status |-> "signing", by |-> r]
        BY <1>1, <2>2 DEF Row
      <3> QED BY <2>1, <2>2, <3>1 DEF GivesUp, SameClaim
    <2> QED BY <2>1, <2>2 DEF Attended, Working
  <1>8. ASSUME NEW r \in Requests, Release(r) PROVE Attended'
    <2>1. /\ stale' = stale /\ pc[r] = "releasing"
          /\ \A q \in Requests : q # r => pc'[q] = pc[q]
          /\ IF SameClaim(r) THEN signer' = [signer EXCEPT ![For[r]] = mine[r].row] ELSE signer' = signer
      BY <1>1, <1>8 DEF Release, Released, Put, GoWith, Go
    <2>2. mine[r].row.status = "signing" => mine[r].row.by \in stale
      BY <2>1 DEF PutsBack
    <2>3. ASSUME NEW s \in Signers, signer'[s].status = "signing", signer'[s].by \notin stale
          PROVE  signer'[s] = signer[s] /\ ~(signer[s].by = r /\ For[r] = s)
      <3>1. CASE SameClaim(r) /\ s = For[r]
        <4>1. signer'[s] = mine[r].row
          BY <1>1, <2>1, <3>1
        <4> QED BY <2>2, <2>3, <4>1
      <3>2. CASE ~(SameClaim(r) /\ s = For[r])
        <4>1. signer'[s] = signer[s]
          BY <1>1, <2>1, <3>2
        <4>2. signer[s].by = r => signer[s] = [status |-> "signing", by |-> r]
          BY <1>1, <2>3, <4>1 DEF Row
        <4> QED BY <3>2, <4>1, <4>2 DEF SameClaim
      <3> QED BY <3>1, <3>2
    <2> QED BY <2>1, <2>3 DEF Attended, Working
  <1>9. ASSUME NEW r \in Requests, ExpireReleased(r) PROVE Attended'
    <2>1. /\ stale' = stale /\ pc[r] = "sweeping"
          /\ \A q \in Requests : q # r => pc'[q] = pc[q]
          /\ signer' = signer \/ signer' = [signer EXCEPT ![For[r]] = [signer[For[r]] EXCEPT !.status = "expired"]]
      BY <1>1, <1>9 DEF ExpireReleased, Put, GoWith, Go
    <2>2. [signer[For[r]] EXCEPT !.status = "expired"].status = "expired"
      BY <1>1 DEF Row
    <2>3. \A s \in Signers : signer'[s] = signer[s] \/ signer'[s].status = "expired"
      BY <1>1, <2>1, <2>2
    <2> QED BY <2>1, <2>3 DEF Attended, Working
  <1>10. ASSUME NEW r \in Requests, Resume(r) PROVE Attended'
    <2>1. /\ stale' = stale /\ signer' = signer /\ pc[r] = "resuming"
          /\ \A q \in Requests : q # r => pc'[q] = pc[q]
      BY <1>1, <1>10 DEF Resume, RollForward, GoWith, Go, d1
    <2> QED BY <2>1 DEF Attended, Working
  <1>11. ASSUME NEW r \in Requests, Decline(r) PROVE Attended'
    <2>1. /\ stale' = stale /\ pc[r] = "declining"
          /\ \A q \in Requests : q # r => pc'[q] = pc[q]
          /\ signer' = signer \/ signer' = [signer EXCEPT ![For[r]] = [signer[For[r]] EXCEPT !.status = "declined"]]
      BY <1>1, <1>11 DEF Decline, Put, RollForward, GoWith, Go
    <2>2. [signer[For[r]] EXCEPT !.status = "declined"].status = "declined"
      BY <1>1 DEF Row
    <2>3. \A s \in Signers : signer'[s] = signer[s] \/ signer'[s].status = "declined"
      BY <1>1, <2>1, <2>2
    <2> QED BY <2>1, <2>3 DEF Attended, Working
  <1>12. ASSUME NEW r \in Requests, View(r) PROVE Attended'
    BY <1>1, <1>12, SignableIs DEF View, Put, RollForward, GoWith, Go, Ended, d1,
       Attended, Working, Memo, Row
  <1>13. ASSUME NEW r \in Requests, Load(r) PROVE Attended'
    BY <1>1, <1>13, SignableIs DEF Load, Loaded, GoWith, Go, Ended, d1, Attended, Working,
       Memo, Row
  <1>14. ASSUME NEW r \in Requests, Roll(r) PROVE Attended'
    BY <1>1, <1>14, SignableIs DEF Roll, Rolls, Completes, GoWith, Go, Ended, d1,
       Attended, Working, Memo, Row
  <1>15. ASSUME NEW r \in Requests, Complete(r) PROVE Attended'
    BY <1>1, <1>15, SignableIs DEF Complete, GoWith, Go, Ended, d1, Attended, Working,
       Memo, Row
  <1>16. ASSUME NEW r \in Requests, Die(r) PROVE Attended'
    BY <1>1, <1>16, SignableIs DEF Die, GoWith, Go, Ended, d1, Attended, Working, Memo,
       Row
  <1>17. ASSUME NEW r \in Requests, Age(r) PROVE Attended'
    BY <1>1, <1>17, SignableIs DEF Age, d1, Attended, Working, Memo, Row
  <1>18. CASE Probe
    BY <1>1, <1>18, SignableIs DEF Probe, d1, Attended, Working, Memo, Row
  <1>19. CASE ExpireEnvelope
    BY <1>1, <1>19, SignableIs DEF ExpireEnvelope, d1, Attended, Working, Memo, Row
  <1>20. CASE ExpireSigners
    BY <1>1, <1>20, SignableIs DEF ExpireSigners, d1, Attended, Working, Memo, Row
  <1>21. CASE Redeliver
    BY <1>1, <1>21, SignableIs DEF Redeliver, d1, Attended, Working, Memo, Row
  <1>22. CASE UNCHANGED vars
    BY <1>1, <1>22, SignableIs DEF vars, d1, Attended, Working, Memo, Row
  <1> QED
    BY <1>2, <1>3, <1>4, <1>5, <1>6, <1>7, <1>8, <1>9, <1>10, <1>11, <1>12, <1>13,
       <1>14, <1>15, <1>16, <1>17, <1>18, <1>19, <1>20, <1>21, <1>22 DEF Next, Step
LEMMA SweptStep == TypeOK /\ Justified /\ Swept /\ [Next]_vars => Swept'
  <1> SUFFICES ASSUME TypeOK, Justified, Swept, [Next]_vars PROVE Swept'
    OBVIOUS
  <1>1. /\ \A r \in Requests : For[r] \in Signers /\ signer[For[r]] \in Row /\ mine[r] \in Memo
        /\ pc \in [Requests -> Labels] /\ mine \in [Requests -> Memo] /\ signer \in [Signers -> Row]
    BY Links DEF TypeOK
  <1>2. ASSUME NEW r \in Requests, NEW op \in May[r], Arrive(r, op) PROVE Swept'
    <2>1. UNCHANGED <<signer, envelope, cron>> /\ pc[r] = "idle"
      BY <1>2, Arrives DEF d1
    <2>2. \A q \in Requests : q # r => pc'[q] = pc[q]
      BY <1>2, Arrives
    <2>3. Lost => Lost'
      BY <2>1, <2>2 DEF Lost
    <2> QED BY <2>1, <2>2, <2>3 DEF Swept
  <1>3. ASSUME NEW r \in Requests, Claim(r) PROVE Swept'
    BY <1>1, <1>3, SignableIs DEF Claim, Pinned, Put, GoWith, Go, Ended, d1, Swept, Lost,
       Justified, Memo, Row
  <1>4. ASSUME NEW r \in Requests, Reread(r) PROVE Swept'
    BY <1>1, <1>4, SignableIs DEF Reread, Signable, GoWith, Go, Ended, d1, Swept, Lost,
       Justified, Memo, Row
  <1>5. ASSUME NEW r \in Requests, Record(r) PROVE Swept'
    BY <1>1, <1>5, SignableIs DEF Record, Append1, GoWith, Go, Ended, d1, Swept, Lost,
       Justified, Memo, Row
  <1>6. ASSUME NEW r \in Requests, Confirm(r) PROVE Swept'
    BY <1>1, <1>6, SignableIs DEF Confirm, SameClaim, Put, RollForward, GoWith, Go, Ended,
       d1, Swept, Lost, Justified, Memo, Row
  <1>7. ASSUME NEW r \in Requests, Check(r) PROVE Swept'
    BY <1>1, <1>7, SignableIs DEF Check, GoWith, Go, Ended, d1, Swept, Lost, Justified,
       Memo, Row
  <1>8. ASSUME NEW r \in Requests, Release(r) PROVE Swept'
    BY <1>1, <1>8, SignableIs DEF Release, Released, SameClaim, Put, GoWith, Go, Ended,
       d1, Swept, Lost, Justified, Memo, Row
  <1>9. ASSUME NEW r \in Requests, ExpireReleased(r) PROVE Swept'
    BY <1>1, <1>9, SignableIs DEF ExpireReleased, Put, GoWith, Go, Ended, d1, Swept, Lost,
       Justified, Memo, Row
  <1>10. ASSUME NEW r \in Requests, Resume(r) PROVE Swept'
    BY <1>1, <1>10, SignableIs DEF Resume, RollForward, GoWith, Go, Ended, d1, Swept,
       Lost, Justified, Memo, Row
  <1>11. ASSUME NEW r \in Requests, Decline(r) PROVE Swept'
    BY <1>1, <1>11, SignableIs DEF Decline, Put, RollForward, GoWith, Go, Ended, d1,
       Swept, Lost, Justified, Memo, Row
  <1>12. ASSUME NEW r \in Requests, View(r) PROVE Swept'
    BY <1>1, <1>12, SignableIs DEF View, Put, RollForward, GoWith, Go, Ended, d1, Swept,
       Lost, Justified, Memo, Row
  <1>13. ASSUME NEW r \in Requests, Load(r) PROVE Swept'
    BY <1>1, <1>13, SignableIs DEF Load, Loaded, GoWith, Go, Ended, d1, Swept, Lost,
       Justified, Memo, Row
  <1>14. ASSUME NEW r \in Requests, Roll(r) PROVE Swept'
    BY <1>1, <1>14, SignableIs DEF Roll, Rolls, Completes, GoWith, Go, Ended, d1, Swept,
       Lost, Justified, Memo, Row
  <1>15. ASSUME NEW r \in Requests, Complete(r) PROVE Swept'
    BY <1>1, <1>15, SignableIs DEF Complete, GoWith, Go, Ended, d1, Swept, Lost,
       Justified, Memo, Row
  <1>16. ASSUME NEW r \in Requests, Die(r) PROVE Swept'
    BY <1>1, <1>16, SignableIs DEF Die, GoWith, Go, Ended, d1, Swept, Lost, Justified,
       Memo, Row
  <1>17. ASSUME NEW r \in Requests, Age(r) PROVE Swept'
    BY <1>1, <1>17, SignableIs DEF Age, d1, Swept, Lost, Justified, Memo, Row
  <1>18. CASE Probe
    BY <1>1, <1>18, SignableIs DEF Probe, d1, Swept, Lost, Justified, Memo, Row
  <1>19. CASE ExpireEnvelope
    BY <1>1, <1>19, SignableIs DEF ExpireEnvelope, d1, Swept, Lost, Justified, Memo, Row
  <1>20. CASE ExpireSigners
    BY <1>1, <1>20, SignableIs DEF ExpireSigners, d1, Swept, Lost, Justified, Memo, Row
  <1>21. CASE Redeliver
    BY <1>1, <1>21, SignableIs DEF Redeliver, d1, Swept, Lost, Justified, Memo, Row
  <1>22. CASE UNCHANGED vars
    BY <1>1, <1>22, SignableIs DEF vars, d1, Swept, Lost, Justified, Memo, Row
  <1> QED
    BY <1>2, <1>3, <1>4, <1>5, <1>6, <1>7, <1>8, <1>9, <1>10, <1>11, <1>12, <1>13,
       <1>14, <1>15, <1>16, <1>17, <1>18, <1>19, <1>20, <1>21, <1>22 DEF Next, Step

LEMMA UnderWay == Spec => [](IInv /\ Signing /\ Carried /\ PutsBack /\ GivesUp /\ Attended /\ Swept)
  <1>1. Init => Signing /\ Carried /\ PutsBack /\ GivesUp /\ Attended /\ Swept
    <2> SUFFICES ASSUME Init PROVE Signing /\ Carried /\ PutsBack /\ GivesUp /\ Attended /\ Swept
      OBVIOUS
    <2>1. /\ \A r \in Requests : pc[r] = "idle"
          /\ \A s \in Signers : signer[s].status = "sent"
          /\ envelope = "sent"
      BY Links DEF Init, NoRow
    <2>2. ~Promise!Agreed
      BY <2>1, Links DEF Promise!Agreed
    <2> QED BY <2>1, <2>2 DEF Signing, Carried, PutsBack, GivesUp, Attended, Swept
  <1>2. /\ IInv /\ Signing /\ Carried /\ PutsBack /\ GivesUp /\ Attended /\ Swept /\ [Next]_vars
        => IInv' /\ Signing' /\ Carried' /\ PutsBack' /\ GivesUp' /\ Attended' /\ Swept'
    BY IInvStep, SigningStep, CarriedStep, PutsBackStep, GivesUpStep, AttendedStep,
       SweptStep DEF IInv
  <1> QED BY <1>1, <1>2, IInvInit, PTL DEF Spec

\* When everything is quiet, an envelope its signers agreed on has been closed,
\* whoever finished last and whatever the others had read, unless a request
\* that had signed was lost before it closed the envelope.
THEOREM AgreementCloses == Spec => []EnvelopeRolledForward
  <1>1. TypeOK /\ Carried => EnvelopeRolledForward
    <2> SUFFICES ASSUME TypeOK, Carried, Quiet, Aggregate = "signed", envelope \notin Decided, ~Lost
                 PROVE  FALSE
      BY DEF EnvelopeRolledForward
    <2>1. PICK r \in Requests : Closing(r)
      BY AgreedShows DEF Carried, TypeOK
    <2> QED BY <2>1 DEF Closing, Quiet
  <1> QED BY <1>1, UnderWay, PTL DEF IInv

\* When everything is quiet under an expired envelope, nobody is left who looks
\* able to sign: neither by the job, which skips a signature in progress, nor
\* by the release of that signature.
THEOREM ExpiryIsComplete == Spec => []ExpiryReachedSigners
  <1>1. TypeOK /\ Attended /\ Swept => ExpiryReachedSigners
    <2> SUFFICES ASSUME TypeOK, Attended, Swept, Quiet, envelope = "expired", ~Lost, NEW s \in Signers
                 PROVE  \/ signer[s].status \in Decided
                        \/ signer[s].status = "signing" /\ signer[s].by \in stale
      BY DEF ExpiryReachedSigners
    <2>1. signer[s].status \in Waiting \cup Decided \cup {"signing"}
      BY DEF TypeOK, Row
    <2>2. signer[s].status \notin Waiting
      BY DEF Swept, Quiet
    <2>3. signer[s].status = "signing" => signer[s].by \in stale
      BY DEF Attended, Working, Quiet, Lost
    <2> QED BY <2>1, <2>2, <2>3
  <1> QED BY <1>1, UnderWay, PTL DEF IInv
================================================================================
