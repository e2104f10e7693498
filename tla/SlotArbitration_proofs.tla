----------------------- MODULE SlotArbitration_proofs -----------------------
(***************************************************************************)
(* Theorems about SlotArbitration, for any number of bookings and any      *)
(* windows: types, the one order of events that lets two colliding         *)
(* bookings stand, and what a retracted booking leaves behind.             *)
(*                                                                         *)
(* For the first, a booking remembers which others it could see when it    *)
(* was admitted and when it was judged; what it saw had its stamp already, *)
(* and stamps do not change.  For the second, the tables are determined by *)
(* the stages of the requests, except for what dead requests left.  That   *)
(* somebody keeps the slot follows because a booking is lost to one that   *)
(* was linked, a link goes only with a booking that lost or that time off  *)
(* covers, and of the bookings of a group that lost one is the earliest.   *)
(***************************************************************************)
EXTENDS SlotArbitration, FiniteSetTheorems, TLAPS

-----------------------------------------------------------------------------
\* The inductive invariant

Shape ==
    /\ clock \in 0 .. MaxClock
    /\ at \in [Bookings -> Stage]
    /\ stamp \in [Bookings -> 0 .. MaxClock]
    /\ rows \in SUBSET Bookings /\ links \in SUBSET Bookings
    /\ cancelled \in SUBSET Bookings /\ off \in SUBSET Bookings
    /\ saw \in [Bookings -> [admitted : SUBSET Bookings, judged : SUBSET Bookings]]

Live(stages) == {b \in Bookings : at[b] \in stages}

Written == Stage \ {"new", "admitted", "refused"}
Posted  == {"inserted", "linked", "judged", "losing", "unlinked", "won", "unseen"}
Linked  == {"linked", "judged", "losing", "won"}
Counted == Posted \cup {"paid", "deleted"}

\* What was seen had been stamped.
Seen ==
    /\ links \subseteq Live(Written)
    /\ \A b \in Bookings : saw[b].judged \subseteq Live(Written)

Admission ==
    \A b \in Bookings : \A c \in saw[b].admitted \ {b} : ~Collides(b, c)

Judgement ==
    \A b \in Live({"judged", "won"}) :
        \A c \in saw[b].judged \ {b} : Collides(b, c) => ~Earlier(c, b)

Tables ==
    /\ rows \ Live({"dead"}) = Live(Posted)
    /\ links \ Live({"dead"}) = Live(Linked)

Count ==
    \E left \in SUBSET Live({"dead"}) : counter = Cardinality(left \cup Live(Counted))

\* Nobody has seen its rivals before it is judged.
Waiting == {"new", "admitted", "refused", "stamped", "paid", "inserted", "linked"}
Unjudged == \A b \in Live(Waiting) : saw[b].judged = {}

\* A booking that is losing lost to another one, or to time off; and one that
\* somebody saw is linked, unless it lost.
Beaten == \A b \in Live({"losing"}) : LostTo(b) \/ b \in off
Stays  == \A b \in Bookings : \A c \in saw[b].judged : c \in links \/ LostTo(c) \/ c \in off

IInv == Shape /\ Seen /\ Admission /\ Judgement /\ Unjudged /\ Beaten /\ Stays /\ Tables /\ Count

-----------------------------------------------------------------------------
LEMMA CollidesSymmetric ==
    ASSUME NEW b \in Bookings, NEW c \in Bookings
    PROVE  Collides(b, c) <=> Collides(c, b)
BY Calendar DEF Calendar, Collides

LEMMA Init_IInv == Init => IInv
<1> SUFFICES ASSUME Init PROVE IInv
  OBVIOUS
<1>1. Shape
  BY Calendar DEF Calendar, Init, Shape, Stage
<1>2. Seen /\ Admission /\ Judgement /\ Unjudged /\ Beaten /\ Stays
  BY DEF Init, Seen, Admission, Judgement, Unjudged, Beaten, Stays, Live
<1>3. Tables
  BY DEF Init, Tables, Live, Posted, Linked
<1>4. Count
  <2>1. Live(Counted) = {}
    BY DEF Init, Live, Counted, Posted
  <2>2. {} \in SUBSET Live({"dead"}) /\ {} \cup Live(Counted) = {} /\ counter = 0
    BY <2>1 DEF Init
  <2> QED BY <2>2, FS_EmptySet DEF Count
<1> QED BY <1>1, <1>2, <1>3, <1>4 DEF IInv

-----------------------------------------------------------------------------
\* Types

LEMMA ShapeNext == Shape /\ [Next]_vars => Shape'
<1> SUFFICES ASSUME Shape, [Next]_vars PROVE Shape'
  OBVIOUS
<1> USE DEF Stage
<1>1. CASE Tick
  BY <1>1, Calendar DEF Tick, Shape, Calendar
<1>2. ASSUME NEW b \in Bookings, Admit(b) PROVE Shape'
  <2>1. Standing \in SUBSET Bookings
    BY DEF Shape, Standing
  <2>2. at' \in [Bookings -> Stage]
    BY <1>2 DEF Shape, Admit, Goto
  <2>3. saw' \in [Bookings -> [admitted : SUBSET Bookings, judged : SUBSET Bookings]]
    <3>1. [saw[b] EXCEPT !.admitted = Standing] \in [admitted : SUBSET Bookings, judged : SUBSET Bookings]
      BY <1>2, <2>1 DEF Shape
    <3>2. saw' = saw \/ saw' = [saw EXCEPT ![b] = [saw[b] EXCEPT !.admitted = Standing]]
      BY <1>2 DEF Admit
    <3> QED BY <1>2, <3>1, <3>2 DEF Shape
  <2>4. UNCHANGED <<clock, stamp, rows, links, cancelled, off>>
    BY <1>2 DEF Admit
  <2> QED BY <2>2, <2>3, <2>4 DEF Shape
<1>3. ASSUME NEW b \in Bookings, Stamp(b) PROVE Shape'
  BY <1>3 DEF Shape, Stamp, Goto, Now
<1>4. ASSUME NEW b \in Bookings, Consume(b) \/ Insert(b) \/ Link(b) PROVE Shape'
  BY <1>4 DEF Shape, Consume, Insert, Link, Goto
<1>5. ASSUME NEW b \in Bookings, Judge(b) PROVE Shape'
  <2>1. Standing \in SUBSET Bookings
    BY DEF Shape, Standing
  <2> QED BY <1>5, <2>1 DEF Shape, Judge, Goto
<1>6. ASSUME NEW b \in Bookings, CheckTimeOff(b) \/ Unlink(b) \/ Delete(b) \/ Release(b)
      PROVE  Shape'
  BY <1>6 DEF Shape, CheckTimeOff, Unlink, Delete, Deleted, Release, Goto
<1>7. ASSUME NEW b \in Bookings, LinkFails(b) \/ Die(b) \/ Cancel(b) PROVE Shape'
  BY <1>7 DEF Shape, LinkFails, Die, Cancel, Goto
<1>8. ASSUME NEW S \in SUBSET Bookings, TakeOff(S) PROVE Shape'
  BY <1>8 DEF Shape, TakeOff
<1>9. CASE UNCHANGED vars
  BY <1>9 DEF Shape, vars
<1> QED BY <1>1, <1>2, <1>3, <1>4, <1>5, <1>6, <1>7, <1>8, <1>9 DEF Next

-----------------------------------------------------------------------------
\* The order of events

\* A booking that has written keeps its stamp and stays written.
LEMMA WrittenStays ==
    ASSUME Shape, [Next]_vars, NEW b \in Live(Written)
    PROVE  b \in Live(Written)' /\ stamp'[b] = stamp[b]
<1> USE DEF Live, Written, Stage
<1>1. CASE Tick
  BY <1>1 DEF Tick
<1>2. ASSUME NEW c \in Bookings, Admit(c) PROVE b \in Live(Written)' /\ stamp'[b] = stamp[b]
  BY <1>2 DEF Shape, Admit, Goto
<1>3. ASSUME NEW c \in Bookings, Stamp(c) PROVE b \in Live(Written)' /\ stamp'[b] = stamp[b]
  BY <1>3 DEF Shape, Stamp, Goto
<1>4. ASSUME NEW c \in Bookings, Consume(c) \/ Insert(c) \/ Link(c) \/ Judge(c)
      PROVE  b \in Live(Written)' /\ stamp'[b] = stamp[b]
  BY <1>4 DEF Shape, Consume, Insert, Link, Judge, Goto
<1>5. ASSUME NEW c \in Bookings, CheckTimeOff(c) \/ Unlink(c) \/ Delete(c) \/ Release(c)
      PROVE  b \in Live(Written)' /\ stamp'[b] = stamp[b]
  BY <1>5 DEF Shape, CheckTimeOff, Unlink, Delete, Release, Goto
<1>6. ASSUME NEW c \in Bookings, LinkFails(c) \/ Die(c) \/ Cancel(c)
      PROVE  b \in Live(Written)' /\ stamp'[b] = stamp[b]
  BY <1>6 DEF Shape, LinkFails, Die, Cancel, Goto
<1>7. ASSUME NEW S \in SUBSET Bookings, TakeOff(S)
      PROVE  b \in Live(Written)' /\ stamp'[b] = stamp[b]
  BY <1>7 DEF TakeOff
<1>8. CASE UNCHANGED vars
  BY <1>8 DEF vars
<1> QED BY <1>1, <1>2, <1>3, <1>4, <1>5, <1>6, <1>7, <1>8 DEF Next

\* Only Admit and Judge look, and each for its own booking.
LEMMA WhoLooks ==
    ASSUME Shape, [Next]_vars, NEW b \in Bookings
    PROVE  \/ saw'[b] = saw[b]
           \/ /\ Admit(b) /\ saw'[b].judged = saw[b].judged
              /\ Free(b) /\ saw'[b].admitted = Standing
           \/ /\ Judge(b) /\ saw'[b].admitted = saw[b].admitted
              /\ saw'[b].judged = Standing
<1>1. CASE Tick
  BY <1>1 DEF Tick
<1>2. ASSUME NEW c \in Bookings, Admit(c) PROVE saw'[b] = saw[b] \/ b = c
  BY <1>2 DEF Shape, Admit
<1>3. ASSUME Admit(b)
      PROVE  \/ saw'[b] = saw[b]
             \/ /\ saw'[b].judged = saw[b].judged
                /\ Free(b) /\ saw'[b].admitted = Standing
  BY <1>3 DEF Shape, Admit
<1>4. ASSUME NEW c \in Bookings, Judge(c) PROVE saw'[b] = saw[b] \/ b = c
  BY <1>4 DEF Shape, Judge
<1>5. ASSUME Judge(b)
      PROVE  saw'[b].admitted = saw[b].admitted /\ saw'[b].judged = Standing
  BY <1>5 DEF Shape, Judge
<1>6. ASSUME NEW c \in Bookings, Stamp(c) \/ Consume(c) \/ Insert(c) \/ Link(c)
      PROVE  saw' = saw
  BY <1>6 DEF Stamp, Consume, Insert, Link
<1>7. ASSUME NEW c \in Bookings, CheckTimeOff(c) \/ Unlink(c) \/ Delete(c) \/ Release(c)
      PROVE  saw' = saw
  BY <1>7 DEF CheckTimeOff, Unlink, Delete, Release
<1>8. ASSUME NEW c \in Bookings, LinkFails(c) \/ Die(c) \/ Cancel(c) PROVE saw' = saw
  BY <1>8 DEF LinkFails, Die, Cancel
<1>9. ASSUME NEW S \in SUBSET Bookings, TakeOff(S) PROVE saw' = saw
  BY <1>9 DEF TakeOff
<1>10. CASE UNCHANGED vars
  BY <1>10 DEF vars
<1> QED BY <1>1, <1>2, <1>3, <1>4, <1>5, <1>6, <1>7, <1>8, <1>9, <1>10 DEF Next

LEMMA SeenNext == Shape /\ Seen /\ [Next]_vars => Seen'
<1> SUFFICES ASSUME Shape, Seen, [Next]_vars PROVE Seen'
  OBVIOUS
<1>1. \A b \in Live(Written) : b \in Live(Written)'
  BY WrittenStays
<1>2. Standing \subseteq Live(Written)
  BY DEF Seen, Standing
<1>3. \A b \in Bookings : saw'[b].judged \subseteq Live(Written)'
  BY <1>1, <1>2, WhoLooks DEF Seen
<1>4. links' \subseteq links \/ \E b \in Bookings : Link(b)
  BY DEF Next, Tick, Admit, Stamp, Consume, Insert, Judge, CheckTimeOff, Unlink, Delete,
         Release, LinkFails, Die, Cancel, TakeOff, vars
<1>5. ASSUME NEW b \in Bookings, Link(b) PROVE links' \subseteq Live(Written)'
  <2>1. links' = links \cup {b} /\ b \in Live(Written)
    BY <1>5 DEF Link, Live, Written, Stage
  <2> QED BY <2>1, <1>1 DEF Seen
<1>6. links' \subseteq Live(Written)'
  BY <1>1, <1>4, <1>5 DEF Seen
<1> QED BY <1>3, <1>6 DEF Seen

LEMMA AdmissionNext == Shape /\ Admission /\ [Next]_vars => Admission'
<1> SUFFICES ASSUME Shape, Admission, [Next]_vars,
                    NEW b \in Bookings, NEW c \in saw'[b].admitted \ {b}
             PROVE  ~Collides(b, c)
  BY DEF Admission, Collides
<1>1. CASE saw'[b].admitted = saw[b].admitted
  BY <1>1 DEF Admission
<1>2. CASE Free(b) /\ saw'[b].admitted = Standing
  BY <1>2 DEF Free, Rivals
<1> QED BY <1>1, <1>2, WhoLooks

\* Who stands after Judge, stood against everybody it saw; and from there on
\* neither the stamps nor what was seen change.
LEMMA JudgementNext == Shape /\ Seen /\ Judgement /\ [Next]_vars => Judgement'
<1> SUFFICES ASSUME Shape, Seen, Judgement, [Next]_vars,
                    NEW b \in Live({"judged", "won"})', NEW c \in saw'[b].judged \ {b},
                    Collides(b, c)
             PROVE  ~Earlier(c, b)'
  BY DEF Judgement, Collides
<1>0. b \in Bookings
  BY DEF Live
<1>1. CASE Judge(b)
  <2>1. saw'[b].judged = Standing /\ stamp' = stamp
    BY <1>0, <1>1 DEF Judge, Shape
  <2>2. ~\E d \in Rivals(b) : Earlier(d, b)
    BY <1>0, <1>1 DEF Judge, Goto, Live, Shape
  <2> QED BY <2>1, <2>2 DEF Rivals, Earlier
<1>2. CASE ~Judge(b)
  <2>1. b \in Live({"judged", "won"})
    <3>1. ASSUME NEW d \in Bookings, Admit(d) \/ Stamp(d) \/ Consume(d) \/ Insert(d) \/ Link(d)
          PROVE  b \in Live({"judged", "won"})
      BY <1>0, <3>1 DEF Live, Shape, Admit, Stamp, Consume, Insert, Link, Goto
    <3>2. ASSUME NEW d \in Bookings, Judge(d) PROVE b \in Live({"judged", "won"})
      <4>1. b # d
        BY <1>2, <3>2
      <4>2. at'[b] = at[b]
        BY <1>0, <3>2, <4>1 DEF Shape, Judge, Goto
      <4> QED BY <4>2 DEF Live
    <3>3. ASSUME NEW d \in Bookings, CheckTimeOff(d) \/ Unlink(d) \/ Delete(d) \/ Release(d)
          PROVE  b \in Live({"judged", "won"})
      BY <1>0, <3>3 DEF Live, Shape, CheckTimeOff, Unlink, Delete, Release, Goto
    <3>4. ASSUME NEW d \in Bookings, LinkFails(d) \/ Die(d) \/ Cancel(d)
          PROVE  b \in Live({"judged", "won"})
      BY <1>0, <3>4 DEF Live, Shape, LinkFails, Die, Cancel, Goto
    <3>5. CASE Tick \/ (\E S \in SUBSET Bookings : TakeOff(S)) \/ UNCHANGED vars
      BY <3>5 DEF Live, Tick, TakeOff, vars
    <3> QED BY <3>1, <3>2, <3>3, <3>4, <3>5 DEF Next
  <2>2. saw'[b].judged = saw[b].judged
    BY <1>0, <1>2, WhoLooks
  <2>3. b \in Live(Written) /\ c \in Live(Written)
    BY <1>0, <2>1, <2>2 DEF Live, Written, Stage, Seen
  <2>4. stamp'[b] = stamp[b] /\ stamp'[c] = stamp[c]
    BY <2>3, WrittenStays
  <2> QED BY <2>1, <2>2, <2>4 DEF Judgement, Earlier
<1> QED BY <1>1, <1>2

\* A request is judged once, and time off is not taken back.
LEMMA Onward ==
    ASSUME Shape, [Next]_vars, NEW b \in Bookings
    PROVE  /\ off \subseteq off'
           /\ at'[b] \in Waiting => at[b] \in Waiting
           /\ at'[b] = "losing" => \/ at[b] = "losing"
                                   \/ Judge(b)
                                   \/ CheckTimeOff(b) /\ b \in off
           /\ links \subseteq links' \/ \E c \in Bookings : Unlink(c)
<1> USE DEF Waiting
<1>1. ASSUME NEW c \in Bookings, Admit(c) \/ Stamp(c) \/ Consume(c) \/ Insert(c) \/ Link(c)
      PROVE  /\ off' = off /\ links \subseteq links' /\ (at'[b] \in Waiting => at[b] \in Waiting)
             /\ at'[b] = "losing" => at[b] = "losing"
  BY <1>1 DEF Shape, Admit, Stamp, Consume, Insert, Link, Goto
<1>2. ASSUME NEW c \in Bookings, Judge(c)
      PROVE  /\ off' = off /\ links' = links /\ (at'[b] \in Waiting => at[b] \in Waiting)
             /\ at'[b] = "losing" => at[b] = "losing" \/ b = c
  BY <1>2 DEF Shape, Judge, Goto
<1>3. ASSUME NEW c \in Bookings, CheckTimeOff(c)
      PROVE  /\ off' = off /\ links' = links /\ (at'[b] \in Waiting => at[b] \in Waiting)
             /\ at'[b] = "losing" => at[b] = "losing" \/ (b = c /\ b \in off)
  BY <1>3 DEF Shape, CheckTimeOff, Goto
<1>4. ASSUME NEW c \in Bookings, Unlink(c) \/ Delete(c) \/ Release(c)
      PROVE  /\ off' = off /\ (Unlink(c) \/ links' = links)
             /\ (at'[b] \in Waiting => at[b] \in Waiting)
             /\ at'[b] = "losing" => at[b] = "losing"
  BY <1>4 DEF Shape, Unlink, Delete, Release, Goto
<1>5. ASSUME NEW c \in Bookings, LinkFails(c) \/ Die(c) \/ Cancel(c)
      PROVE  /\ off' = off /\ links' = links /\ (at'[b] \in Waiting => at[b] \in Waiting)
             /\ at'[b] = "losing" => at[b] = "losing"
  BY <1>5 DEF Shape, LinkFails, Die, Cancel, Goto
<1>6. CASE Tick \/ (\E S \in SUBSET Bookings : TakeOff(S)) \/ UNCHANGED vars
  BY <1>6 DEF Tick, TakeOff, vars
<1> QED BY <1>1, <1>2, <1>3, <1>4, <1>5, <1>6 DEF Next

LEMMA UnjudgedNext == Shape /\ Unjudged /\ [Next]_vars => Unjudged'
<1> SUFFICES ASSUME Shape, Unjudged, [Next]_vars, NEW b \in Live(Waiting)'
             PROVE  saw'[b].judged = {}
  BY DEF Unjudged
<1>1. b \in Bookings /\ at'[b] \in Waiting
  BY DEF Live
<1>2. b \in Live(Waiting) /\ ~Judge(b)
  BY <1>1, Onward DEF Live, Judge, Goto, Shape, Waiting
<1> QED BY <1>1, <1>2, WhoLooks DEF Unjudged

\* Who lost has lost: what it saw and the stamps stay as they are.
LEMMA LostStays ==
    ASSUME Shape, Seen, Unjudged, [Next]_vars, NEW b \in Bookings, LostTo(b)
    PROVE  LostTo(b)'
<1>1. PICK c \in saw[b].judged \ {b} : Collides(b, c) /\ Earlier(c, b)
  BY DEF LostTo
<1>2. at[b] \notin Waiting
  BY <1>1 DEF Unjudged, Live
<1>3. b \in Live(Written) /\ c \in Live(Written)
  <2>1. c \in Live(Written)
    BY <1>1 DEF Seen, Live
  <2>2. at[b] \in Stage
    BY DEF Shape
  <2>3. at[b] \in Written
    BY <1>2, <2>2 DEF Written, Stage, Waiting
  <2> QED BY <2>1, <2>3 DEF Live
<1>4. stamp'[b] = stamp[b] /\ stamp'[c] = stamp[c]
  BY <1>3, WrittenStays
<1>5. ~Admit(b) /\ ~Judge(b)
  BY <1>2 DEF Admit, Judge, Waiting
<1>6. saw'[b] = saw[b]
  BY <1>5, WhoLooks
<1> QED BY <1>1, <1>4, <1>6 DEF LostTo, Collides, Earlier

LEMMA BeatenNext == Shape /\ Seen /\ Unjudged /\ Beaten /\ [Next]_vars => Beaten'
<1> SUFFICES ASSUME Shape, Seen, Unjudged, Beaten, [Next]_vars, NEW b \in Live({"losing"})'
             PROVE  LostTo(b)' \/ b \in off'
  BY DEF Beaten
<1>1. b \in Bookings /\ at'[b] = "losing" /\ off \subseteq off'
  BY Onward DEF Live
<1>2. CASE at[b] = "losing" \/ (CheckTimeOff(b) /\ b \in off)
  BY <1>1, <1>2, LostStays DEF Beaten, Live
<1>3. CASE Judge(b)
  <2>1. \E c \in Rivals(b) : Earlier(c, b)
    BY <1>1, <1>3 DEF Judge, Goto, Shape
  <2>2. saw'[b].judged = Standing /\ stamp' = stamp
    BY <1>1, <1>3 DEF Judge, Shape
  <2> QED BY <2>1, <2>2 DEF Rivals, LostTo, Collides, Earlier
<1> QED BY <1>1, <1>2, <1>3, Onward

LEMMA StaysNext == Shape /\ Seen /\ Unjudged /\ Beaten /\ Stays /\ [Next]_vars => Stays'
<1> SUFFICES ASSUME Shape, Seen, Unjudged, Beaten, Stays, [Next]_vars,
                    NEW b \in Bookings, NEW c \in saw'[b].judged
             PROVE  c \in links' \/ LostTo(c)' \/ c \in off'
  BY DEF Stays
<1>1. c \in links \/ LostTo(c) \/ c \in off
  BY WhoLooks DEF Stays, Standing
<1>2. c \in Bookings
  BY WhoLooks DEF Seen, Live, Standing, Shape
<1>3. off \subseteq off' /\ (LostTo(c) => LostTo(c)')
  BY <1>2, Onward, LostStays
<1>4. CASE links \subseteq links'
  BY <1>1, <1>3, <1>4
<1>5. ASSUME NEW d \in Bookings, Unlink(d) PROVE c \in links' \/ LostTo(c)' \/ c \in off'
  <2>1. CASE c = d
    <3>1. LostTo(c) \/ c \in off
      BY <1>5, <2>1 DEF Unlink, Beaten, Live
    <3> QED BY <1>3, <3>1
  <2>2. CASE c # d
    <3>1. links' = links \ {d}
      BY <1>5 DEF Unlink
    <3> QED BY <1>1, <1>3, <2>2, <3>1
  <2> QED BY <2>1, <2>2
<1> QED BY <1>2, <1>4, <1>5, Onward

-----------------------------------------------------------------------------
\* What the tables hold

LEMMA TablesNext == Shape /\ Tables /\ [Next]_vars => Tables'
<1> SUFFICES ASSUME Shape, Tables, [Next]_vars PROVE Tables'
  OBVIOUS
<1> USE DEF Live, Posted, Linked, Stage
<1>1. ASSUME NEW b \in Bookings, Admit(b) \/ Stamp(b) \/ Consume(b) PROVE Tables'
  BY <1>1 DEF Shape, Tables, Admit, Stamp, Consume, Goto
<1>2. ASSUME NEW b \in Bookings, Insert(b) PROVE Tables'
  BY <1>2 DEF Shape, Tables, Insert, Goto
<1>3. ASSUME NEW b \in Bookings, Link(b) PROVE Tables'
  BY <1>3 DEF Shape, Tables, Link, Goto
<1>4. ASSUME NEW b \in Bookings, Judge(b) PROVE Tables'
  BY <1>4 DEF Shape, Tables, Judge, Goto
<1>5. ASSUME NEW b \in Bookings, CheckTimeOff(b) PROVE Tables'
  BY <1>5 DEF Shape, Tables, CheckTimeOff, Goto
<1>6. ASSUME NEW b \in Bookings, Unlink(b) PROVE Tables'
  BY <1>6 DEF Shape, Tables, Unlink, Goto
<1>7. ASSUME NEW b \in Bookings, Delete(b) PROVE Tables'
  BY <1>7 DEF Shape, Tables, Delete, Deleted, Goto
<1>8. ASSUME NEW b \in Bookings, Release(b) PROVE Tables'
  BY <1>8 DEF Shape, Tables, Release, Goto
<1>9. ASSUME NEW b \in Bookings, LinkFails(b) PROVE Tables'
  BY <1>9 DEF Shape, Tables, LinkFails, Goto
<1>10. ASSUME NEW b \in Bookings, Die(b) PROVE Tables'
  BY <1>10 DEF Shape, Tables, Die, Done, Goto
<1>11. CASE \/ Tick \/ \E b \in Bookings : Cancel(b)
            \/ \E S \in SUBSET Bookings : TakeOff(S)
            \/ UNCHANGED vars
  BY <1>11 DEF Shape, Tables, Tick, Cancel, TakeOff, vars
<1> QED BY <1>1, <1>2, <1>3, <1>4, <1>5, <1>6, <1>7, <1>8, <1>9, <1>10, <1>11 DEF Next

LEMMA LiveFinite ==
    ASSUME NEW left \in SUBSET Live({"dead"})
    PROVE  IsFiniteSet(left \cup Live(Counted)) /\ IsFiniteSet(left \cup Live(Counted))'
<1>1. left \cup Live(Counted) \in SUBSET Bookings /\ (left \cup Live(Counted))' \in SUBSET Bookings
  BY DEF Live
<1> QED BY <1>1, Calendar, FS_Subset DEF Calendar

\* Nothing that leaves the dead and the counted bookings alone changes the count.
LEMMA CountSame ==
    ASSUME Count, counter' = counter, Live(Counted)' = Live(Counted),
           Live({"dead"})' = Live({"dead"})
    PROVE  Count'
BY DEF Count

LEMMA CountNext == Shape /\ Count /\ [Next]_vars => Count'
<1> SUFFICES ASSUME Shape, Count, [Next]_vars PROVE Count'
  OBVIOUS
<1> USE DEF Live, Counted, Posted, Stage
<1>1. ASSUME NEW b \in Bookings, Consume(b) PROVE Count'
  <2>1. PICK left \in SUBSET Live({"dead"}) : counter = Cardinality(left \cup Live(Counted))
    BY DEF Count
  <2>2. b \notin left \cup Live(Counted)
    BY <1>1 DEF Consume
  <2>3. Live(Counted)' = Live(Counted) \cup {b} /\ Live({"dead"})' = Live({"dead"})
    BY <1>1 DEF Shape, Consume, Goto
  <2>4. counter' = counter + 1
    BY <1>1 DEF Consume
  <2>5. (left \cup Live(Counted)) \cup {b} = left \cup Live(Counted)'
    BY <2>3
  <2>6. counter' = Cardinality(left \cup Live(Counted)')
    BY <2>1, <2>2, <2>4, <2>5, LiveFinite, FS_AddElement
  <2> QED BY <2>3, <2>6 DEF Count
<1>2. ASSUME NEW b \in Bookings, Release(b) PROVE Count'
  <2>1. PICK left \in SUBSET Live({"dead"}) : counter = Cardinality(left \cup Live(Counted))
    BY DEF Count
  <2>2. b \in left \cup Live(Counted) /\ b \notin left
    BY <1>2 DEF Release
  <2>3. Live(Counted)' = Live(Counted) \ {b} /\ Live({"dead"})' = Live({"dead"})
    BY <1>2 DEF Shape, Release, Goto
  <2>4. counter' = counter - 1
    BY <1>2 DEF Release, Released
  <2>5. (left \cup Live(Counted)) \ {b} = left \cup Live(Counted)'
    BY <2>2, <2>3
  <2>6. counter' = Cardinality(left \cup Live(Counted)')
    <3> DEFINE counted == left \cup Live(Counted)
    <3>1. IsFiniteSet(counted) /\ b \in counted /\ counter = Cardinality(counted)
      BY <2>1, <2>2, LiveFinite
    <3> HIDE DEF counted
    <3>2. Cardinality(counted \ {b}) = Cardinality(counted) - 1
      BY <3>1, FS_RemoveElement
    <3> QED BY <2>4, <2>5, <3>1, <3>2 DEF counted
  <2> QED BY <2>3, <2>6 DEF Count
<1>3. ASSUME NEW b \in Bookings, Die(b) PROVE Count'
  <2>1. PICK left \in SUBSET Live({"dead"}) : counter = Cardinality(left \cup Live(Counted))
    BY DEF Count
  <2>2. at[b] # "dead"
    BY <1>3 DEF Die, Done
  <2>3. Live(Counted)' = Live(Counted) \ {b} /\ Live({"dead"})' = Live({"dead"}) \cup {b}
    BY <1>3 DEF Shape, Die, Goto
  <2> DEFINE more == IF b \in Live(Counted) THEN left \cup {b} ELSE left
  <2>4. more \in SUBSET Live({"dead"})'
    BY <2>3
  <2>5. more \cup Live(Counted)' = left \cup Live(Counted)
    BY <2>3
  <2>6. counter' = Cardinality(more \cup Live(Counted)')
    BY <1>3, <2>1, <2>5 DEF Die
  <2> HIDE DEF more
  <2> QED BY <2>4, <2>6 DEF Count
<1>4. ASSUME NEW b \in Bookings, Admit(b) \/ Stamp(b) \/ Insert(b) \/ Link(b) \/ Judge(b)
      PROVE  Count'
  <2>1. /\ counter' = counter
        /\ Live(Counted)' = Live(Counted) /\ Live({"dead"})' = Live({"dead"})
    BY <1>4 DEF Shape, Admit, Stamp, Insert, Link, Judge, Goto
  <2> QED BY <2>1, CountSame
<1>5. ASSUME NEW b \in Bookings, CheckTimeOff(b) \/ Unlink(b) \/ Delete(b) \/ LinkFails(b)
      PROVE  Count'
  <2>1. /\ counter' = counter
        /\ Live(Counted)' = Live(Counted) /\ Live({"dead"})' = Live({"dead"})
    BY <1>5 DEF Shape, CheckTimeOff, Unlink, Delete, LinkFails, Goto
  <2> QED BY <2>1, CountSame
<1>6. CASE \/ Tick \/ \E b \in Bookings : Cancel(b)
           \/ \E S \in SUBSET Bookings : TakeOff(S)
           \/ UNCHANGED vars
  <2>1. /\ counter' = counter
        /\ Live(Counted)' = Live(Counted) /\ Live({"dead"})' = Live({"dead"})
    BY <1>6 DEF Tick, Cancel, TakeOff, vars
  <2> QED BY <2>1, CountSame
<1> QED BY <1>1, <1>2, <1>3, <1>4, <1>5, <1>6 DEF Next

-----------------------------------------------------------------------------
LEMMA Next_IInv == IInv /\ [Next]_vars => IInv'
BY ShapeNext, SeenNext, AdmissionNext, JudgementNext, UnjudgedNext, BeatenNext, StaysNext,
   TablesNext, CountNext DEF IInv

LEMMA Invariance == Spec => []IInv
BY Init_IInv, Next_IInv, PTL DEF Spec

LEMMA CountTyped == IInv => counter \in 0 .. Cardinality(Bookings)
<1> SUFFICES ASSUME IInv PROVE counter \in 0 .. Cardinality(Bookings)
  OBVIOUS
<1>1. PICK left \in SUBSET Live({"dead"}) : counter = Cardinality(left \cup Live(Counted))
  BY DEF IInv, Count
<1>2. left \cup Live(Counted) \in SUBSET Bookings
  BY DEF Live
<1>3. /\ IsFiniteSet(left \cup Live(Counted))
      /\ Cardinality(left \cup Live(Counted)) <= Cardinality(Bookings)
  BY <1>2, Calendar, FS_Subset DEF Calendar
<1>4. Cardinality(left \cup Live(Counted)) \in Nat /\ Cardinality(Bookings) \in Nat
  BY <1>3, Calendar, FS_CardinalityType DEF Calendar
<1> QED BY <1>1, <1>3, <1>4

\* Every variable of the booking requests keeps its type.
THEOREM TypeCorrect == Spec => []TypeOK
<1>1. IInv => TypeOK
  BY CountTyped DEF IInv, Shape, TypeOK
<1> QED BY <1>1, Invariance, PTL

\* Two colliding bookings both stand only if neither could see the other when
\* it was admitted, and the later one could not see the earlier when judged.
THEOREM DoubleBookingOrder == Spec => []DoubleOnlyIfLinkedLate
<1>1. IInv => DoubleOnlyIfLinkedLate
  <2> SUFFICES ASSUME IInv, NEW b \in Won \ cancelled, NEW c \in Won \ cancelled,
                      b # c, Collides(b, c)
               PROVE  /\ b \notin saw[c].admitted /\ c \notin saw[b].admitted
                      /\ Earlier(b, c) => b \notin saw[c].judged
    BY DEF DoubleOnlyIfLinkedLate
  <2>1. b \in Bookings /\ c \in Bookings
    BY DEF Won
  <2>2. Collides(c, b)
    BY <2>1, CollidesSymmetric
  <2>3. b \notin saw[c].admitted /\ c \notin saw[b].admitted
    BY <2>1, <2>2 DEF IInv, Admission
  <2>4. c \in Live({"judged", "won"})
    BY DEF Won, Live
  <2>5. Earlier(b, c) => b \notin saw[c].judged
    BY <2>2, <2>4 DEF IInv, Judgement
  <2> QED BY <2>3, <2>5
<1> QED BY <1>1, Invariance, PTL

\* Among finitely many bookings one is behind none of the others.
LEMMA SomeoneIsFirst ==
    ASSUME Shape, NEW group \in SUBSET Bookings, group # {}
    PROVE  \E m \in group : \A c \in group : ~Earlier(c, m)
<1> DEFINE Bad == {T \in SUBSET group : T # {} /\ \A m \in T : \E c \in T : Earlier(c, m)}
<1>1. SUFFICES ASSUME group \in Bad PROVE FALSE
  OBVIOUS
<1>2. IsFiniteSet(group)
  BY Calendar, FS_Subset DEF Calendar
<1>3. IsWellFoundedOn(StrictSubsetOrdering(group), SUBSET group)
  BY <1>2, FS_StrictSubsetOrderingWellFounded, FS_FiniteSubsetsOfFinite
<1>4. PICK T \in Bad : \A U \in Bad : ~(<<U, T>> \in StrictSubsetOrdering(group))
  BY <1>1, <1>3, WFMin
<1>5. PICK x \in T : TRUE
  OBVIOUS
<1>6. \A c, d \in Bookings :
        /\ stamp[c] \in Nat /\ Id[c] \in Nat
        /\ Earlier(c, d) => ~Earlier(d, c) /\ c # d
        /\ \A e \in Bookings : Earlier(c, d) /\ Earlier(d, e) => Earlier(c, e)
  BY Calendar DEF Calendar, Shape, Earlier
<1>7. T \ {x} \notin Bad
  BY <1>4, <1>5 DEF StrictSubsetOrdering
<1>8. CASE T = {x}
  BY <1>5, <1>6, <1>8
<1>9. CASE T # {x}
  <2>1. PICK m \in T \ {x} : \A c \in T \ {x} : ~Earlier(c, m)
    BY <1>5, <1>7, <1>9
  <2>2. Earlier(x, m)
    BY <2>1
  <2>3. PICK c \in T : Earlier(c, x)
    BY <1>5
  <2>4. Earlier(c, m) /\ c # x
    BY <1>5, <1>6, <2>1, <2>2, <2>3
  <2> QED BY <2>1, <2>4
<1> QED BY <1>8, <1>9

\* The racers of a group never all lose to each other: the first of those that
\* lost was behind one that did not, and that one is linked, or time off covers
\* its window.
THEOREM SlotIsKept == Spec => []SomeoneKeepsTheSlot
<1>1. IInv => SomeoneKeepsTheSlot
  <2> SUFFICES ASSUME IInv, NEW group \in SUBSET Bookings,
                      \A b \in group, c \in Bookings \ group : ~Collides(b, c),
                      NEW b \in group, LostTo(b)
               PROVE  \E c \in group : Earlier(c, b) /\ ~LostTo(c) /\ c \in links \cup off
    BY DEF SomeoneKeepsTheSlot
  <2> DEFINE losers == {c \in group : LostTo(c) /\ (c = b \/ Earlier(c, b))}
  <2>1. PICK m \in losers : \A c \in losers : ~Earlier(c, m)
    <3>1. losers \in SUBSET Bookings /\ losers # {}
      OBVIOUS
    <3> QED BY <3>1, SomeoneIsFirst DEF IInv
  <2>2. PICK c \in saw[m].judged \ {m} : Collides(m, c) /\ Earlier(c, m)
    BY <2>1 DEF LostTo
  <2>3. c \in Bookings
    BY <2>1, <2>2 DEF IInv, Seen, Live
  <2>4. c \in group
    BY <2>1, <2>2, <2>3
  <2>5. Earlier(c, b)
    BY <2>1, <2>2, <2>3, Calendar DEF Calendar, IInv, Shape, Earlier
  <2>6. ~LostTo(c)
    BY <2>1, <2>2, <2>4, <2>5
  <2>7. c \in links \cup off
    BY <2>1, <2>2, <2>6 DEF IInv, Stays
  <2> QED BY <2>4, <2>5, <2>6, <2>7
<1> QED BY <1>1, Invariance, PTL

\* A booking that lost leaves no row, no link and no count behind.
THEOREM NothingLeft == Spec => []LosersLeaveNothing
<1>1. IInv => LosersLeaveNothing
  <2> SUFFICES ASSUME IInv, \A b \in Bookings : at[b] \in Done \ {"dead"}
               PROVE  rows = Won \cup Unseen /\ links = Won /\ counter = Cardinality(rows)
    BY DEF LosersLeaveNothing
  <2>1. Live({"dead"}) = {}
    BY DEF Live
  <2>2. Live(Posted) = Won \cup Unseen /\ Live(Linked) = Won /\ Live(Counted) = Live(Posted)
    BY DEF Live, Posted, Linked, Counted, Won, Unseen, Done
  <2>3. rows = Won \cup Unseen /\ links = Won
    BY <2>1, <2>2 DEF IInv, Tables
  <2>4. PICK left \in SUBSET Live({"dead"}) : counter = Cardinality(left \cup Live(Counted))
    BY DEF IInv, Count
  <2>5. left \cup Live(Counted) = rows
    BY <2>1, <2>2, <2>3
  <2> QED BY <2>3, <2>4, <2>5
<1> QED BY <1>1, Invariance, PTL
=============================================================================
