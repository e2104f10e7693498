-------------------------- MODULE SlotArbitration ---------------------------
(***************************************************************************)
(* Public bookings of one inspector on one day (fulfill-booking.ts): the   *)
(* advisory check of admission, the rows a booking inserts one statement   *)
(* after the other, the arbitration that follows the last of them, and the *)
(* retraction of the losers (slot-arbitration.ts).                         *)
(*                                                                         *)
(* A booking is one inspection; the siblings of a multi-service booking    *)
(* are written, judged and retracted together.  Time is counted in the     *)
(* ticks of the clock that stamps createdAt.  The company is on a plan     *)
(* that meters inspections without a cap.                                  *)
(***************************************************************************)
EXTENDS Naturals, FiniteSets

CONSTANTS
    Bookings,
    Start, Length,  \* the window of each booking; length 0: none was recorded
    Id,             \* the order of the inspection ids
    MaxClock,       \* ticks of the clock
    MaxFaults,      \* requests that die on the way or write no link
    MaxOff          \* time-off blocks added meanwhile

ASSUME Calendar ==
    /\ IsFiniteSet(Bookings)
    /\ Start \in [Bookings -> Nat] /\ Length \in [Bookings -> Nat]
    /\ Id \in [Bookings -> Nat]
    /\ \A b, c \in Bookings : Id[b] = Id[c] => b = c
    /\ {MaxClock, MaxFaults, MaxOff} \subseteq Nat

VARIABLES
    clock,
    at,         \* where each booking request stands
    stamp,      \* createdAt of the booking's rows
    rows,       \* bookings with an inspections row
    links,      \* bookings with an inspection_inspectors row
    cancelled,  \* bookings the office has cancelled
    counter,    \* the inspections usage counter
    off,        \* bookings whose window time off covers
    saw         \* the bookings each one saw when it was admitted, and when it was judged

vars == <<clock, at, stamp, rows, links, cancelled, counter, off, saw>>

-----------------------------------------------------------------------------
Stage == {"new", "admitted", "stamped", "paid", "inserted", "linked", "judged", "losing",
          "unlinked", "deleted", "won", "unseen", "lost", "off", "refused", "dead"}
Done  == {"new", "won", "unseen", "lost", "off", "refused", "dead"}

Init ==
    /\ clock = 0
    /\ at = [b \in Bookings |-> "new"]
    /\ stamp = [b \in Bookings |-> 0]
    /\ rows = {} /\ links = {} /\ cancelled = {} /\ counter = 0 /\ off = {}
    /\ saw = [b \in Bookings |-> [admitted |-> {}, judged |-> {}]]

\* Two windows that both have a length collide when they overlap; otherwise
\* when they start together.
Collides(b, c) ==
    IF Length[b] > 0 /\ Length[c] > 0
    THEN Start[b] < Start[c] + Length[c] /\ Start[c] < Start[b] + Length[b]
    ELSE Start[b] = Start[c]

\* The order of (createdAt, id).
FaultyEarlier(b, c) == stamp[b] <= stamp[c]
Earlier(b, c) == stamp[b] < stamp[c] \/ (stamp[b] = stamp[c] /\ Id[b] < Id[c])

Standing == links \ cancelled
Rivals(b) == {c \in Standing \ {b} : Collides(b, c)}
Goto(b, stage) == at' = [at EXCEPT ![b] = stage]

-----------------------------------------------------------------------------
Tick == /\ clock < MaxClock /\ clock' = clock + 1
        /\ UNCHANGED <<at, stamp, rows, links, cancelled, counter, off, saw>>

\* admitBooking: the slot map is advisory.
FaultyFree(b) == b \notin off
Free(b) == Rivals(b) = {} /\ b \notin off

Admit(b) ==
    /\ at[b] = "new"
    /\ \/ /\ Free(b) /\ Goto(b, "admitted")
          /\ saw' = [saw EXCEPT ![b].admitted = Standing]
       \/ ~Free(b) /\ Goto(b, "refused") /\ UNCHANGED saw
    /\ UNCHANGED <<clock, stamp, rows, links, cancelled, counter, off>>

\* createdAt is read from the clock here; three statements later the row can
\* be seen by others.
Now == clock

Stamp(b) ==
    /\ at[b] = "admitted" /\ Goto(b, "stamped")
    /\ stamp' = [stamp EXCEPT ![b] = Now]
    /\ UNCHANGED <<clock, rows, links, cancelled, counter, off, saw>>

Consume(b) ==
    /\ at[b] = "stamped" /\ Goto(b, "paid")
    /\ counter' = counter + 1
    /\ UNCHANGED <<clock, stamp, rows, links, cancelled, off, saw>>

Insert(b) ==
    /\ at[b] = "paid" /\ Goto(b, "inserted")
    /\ rows' = rows \cup {b}
    /\ UNCHANGED <<clock, stamp, links, cancelled, counter, off, saw>>

Link(b) ==
    /\ at[b] = "inserted" /\ Goto(b, "linked")
    /\ links' = links \cup {b}
    /\ UNCHANGED <<clock, stamp, rows, cancelled, counter, off, saw>>

\* arbitrateSlotRace: the competitors are read, and the earliest stays ...
Judge(b) ==
    /\ at[b] = "linked"
    /\ Goto(b, IF \E c \in Rivals(b) : Earlier(c, b) THEN "losing" ELSE "judged")
    /\ saw' = [saw EXCEPT ![b].judged = Standing]
    /\ UNCHANGED <<clock, stamp, rows, links, cancelled, counter, off>>

\* ... and a winner is held against the time off added meanwhile.
CheckTimeOff(b) ==
    /\ at[b] = "judged"
    /\ Goto(b, IF b \in off THEN "losing" ELSE "won")
    /\ UNCHANGED <<clock, stamp, rows, links, cancelled, counter, off, saw>>

\* revokeBooking and releaseInspection, one statement after the other.
Unlink(b) ==
    /\ at[b] = "losing" /\ Goto(b, "unlinked")
    /\ links' = links \ {b}
    /\ UNCHANGED <<clock, stamp, rows, cancelled, counter, off, saw>>

FaultyDeleted(b) == rows
Deleted(b) == rows \ {b}

Delete(b) ==
    /\ at[b] = "unlinked" /\ Goto(b, "deleted")
    /\ rows' = Deleted(b)
    /\ UNCHANGED <<clock, stamp, links, cancelled, counter, off, saw>>

\* b was judged behind an earlier booking; else it is retracted for time off.
LostTo(b) == \E c \in saw[b].judged \ {b} : Collides(b, c) /\ Earlier(c, b)

Released == counter - 1

Release(b) ==
    /\ at[b] = "deleted" /\ Goto(b, IF LostTo(b) THEN "lost" ELSE "off")
    /\ counter' = Released
    /\ UNCHANGED <<clock, stamp, rows, links, cancelled, off, saw>>

MayFail == Cardinality({b \in Bookings : at[b] \in {"dead", "unseen"}}) < MaxFaults

\* A single-service booking survives a failing link: it finds no row of its own
\* to arbitrate, and stands.
LinkFails(b) ==
    /\ at[b] = "inserted" /\ MayFail /\ Goto(b, "unseen")
    /\ UNCHANGED <<clock, stamp, rows, links, cancelled, counter, off, saw>>

\* The request dies: what it has written stays.
Die(b) ==
    /\ at[b] \notin Done /\ MayFail
    /\ Goto(b, "dead")
    /\ UNCHANGED <<clock, stamp, rows, links, cancelled, counter, off, saw>>

\* Somebody blocks the time under some of the windows; the office cancels.
TakeOff(S) ==
    /\ S # {} /\ off = {} /\ Cardinality(S) <= MaxOff
    /\ off' = S
    /\ UNCHANGED <<clock, at, stamp, rows, links, cancelled, counter, saw>>

Cancel(b) ==
    /\ at[b] = "won" /\ b \notin cancelled
    /\ cancelled' = cancelled \cup {b}
    /\ UNCHANGED <<clock, at, stamp, rows, links, counter, off, saw>>

Next ==
    \/ Tick
    \/ \E b \in Bookings :
          \/ Admit(b) \/ Stamp(b) \/ Consume(b) \/ Insert(b) \/ Link(b) \/ LinkFails(b)
          \/ Judge(b) \/ CheckTimeOff(b) \/ Unlink(b) \/ Delete(b) \/ Release(b) \/ Die(b) \/ Cancel(b)
    \/ \E S \in SUBSET Bookings : TakeOff(S)

Spec == Init /\ [][Next]_vars

-----------------------------------------------------------------------------
\* Every value has its type.
TypeOK ==
    /\ clock \in 0 .. MaxClock
    /\ at \in [Bookings -> Stage]
    /\ stamp \in [Bookings -> 0 .. MaxClock]
    /\ rows \in SUBSET Bookings /\ links \in SUBSET Bookings
    /\ cancelled \in SUBSET Bookings /\ off \in SUBSET Bookings
    /\ counter \in 0 .. Cardinality(Bookings)
    /\ saw \in [Bookings -> [admitted : SUBSET Bookings, judged : SUBSET Bookings]]

Won    == {b \in Bookings : at[b] = "won"}
Unseen == {b \in Bookings : at[b] = "unseen"}

\* The racers never all lose the slot to each other: in a group of bookings that
\* collide with none outside it, whoever lost the race is behind an earlier one
\* that did not lose it and whose link is still there, be its request alive or
\* dead, and be it cancelled since; unless time off covers the window of that
\* one.  Then it may retract after the others have lost to it, and nobody stays.
SomeoneKeepsTheSlot ==
    \A group \in SUBSET Bookings :
        (\A b \in group, c \in Bookings \ group : ~Collides(b, c)) =>
            \A b \in group :
                LostTo(b) =>
                    \E c \in group : Earlier(c, b) /\ ~LostTo(c) /\ c \in links \cup off

\* Two linked bookings that collide both stand only in one order of events: both
\* were admitted before either was linked, and the one stamped first was linked
\* after the other had been judged.
DoubleOnlyIfLinkedLate ==
    \A b, c \in Won \ cancelled :
        b # c /\ Collides(b, c) =>
            /\ b \notin saw[c].admitted /\ c \notin saw[b].admitted
            /\ Earlier(b, c) => b \notin saw[c].judged

\* When no request is on its way and none has died, the rows and the usage
\* counter are those of the bookings that stand, and the links those of the
\* bookings that won.
LosersLeaveNothing ==
    (\A b \in Bookings : at[b] \in Done \ {"dead"}) =>
        rows = Won \cup Unseen /\ links = Won /\ counter = Cardinality(rows)
=============================================================================
