------------------------ MODULE ResultsDocConnection ------------------------
(***************************************************************************)
(* The clients of a results document and their sockets                     *)
(* (results-doc-connection.ts), against the part of the Durable Object     *)
(* they talk to (inspection-doc.ts): the sync handshake, updates and their *)
(* relay, reconnecting, and a version restore, which the object announces  *)
(* with a control frame and each client answers by dropping its local      *)
(* state.                                                                  *)
(*                                                                         *)
(* A document is the set of the things merged into it: edits, and the base *)
(* it started from, a number that a restore raises (a restored projection  *)
(* is loaded as new content).  Merging is union.  A socket is the pair of  *)
(* channels of one client; frames still in them are lost when it closes.   *)
(* The object's storage is abstracted to one durable copy.                 *)
(***************************************************************************)
EXTENDS Naturals, Sequences, FiniteSets

CONSTANTS
    Clients,
    Edits,
    MaxRestores,
    MaxMishaps      \* in all: lost sockets, reloaded pages, crashes of the object, local
                    \* databases that refuse to be deleted, and publishing the report

ASSUME ConnectionBounds ==
    /\ MaxRestores \in Nat /\ MaxMishaps \in Nat
    /\ Edits \cap Nat = {}

VARIABLES
    server,   \* the document in memory, its durable copy, and whether the report is locked
    conn,     \* clients whose socket the object has accepted
    up, down, \* frames on their way to the object, and to a client
    client,   \* the state of each connection
    tally,    \* restores and mishaps so far
    ghost     \* what became of the edits and of the restores, for the properties

vars == <<server, conn, up, down, client, tally, ghost>>

-----------------------------------------------------------------------------
Base == 0 .. MaxRestores
Item == Edits \cup Base
Frame == [t : {"step1", "step2", "update", "restore", "close"}, items : SUBSET Item]

Step1(doc)  == [t |-> "step1", items |-> doc]
Step2(diff) == [t |-> "step2", items |-> diff]
Update(new) == [t |-> "update", items |-> new]
FaultyControl(t) == [t |-> t]
Control(t)  == [t |-> t, items |-> {}]

\* A page that has just been opened; its local database survives.
FaultyFresh(kept) == [doc |-> {}, store |-> {}, ready |-> FALSE, ws |-> "none", timer |-> FALSE,
                      restoring |-> "no", locked |-> FALSE]
Fresh(kept) == [doc |-> {}, store |-> kept, ready |-> FALSE, ws |-> "none", timer |-> FALSE,
                restoring |-> "no", locked |-> FALSE]

Init ==
    /\ server = [doc |-> {0}, stored |-> {0}, locked |-> FALSE]
    /\ conn = {} /\ up = [c \in Clients |-> <<>>] /\ down = [c \in Clients |-> <<>>]
    /\ client = [c \in Clients |-> Fresh({})]
    /\ tally = [restores |-> 0, mishaps |-> 0, crashes |-> 0]
    /\ ghost = [made |-> {}, replaced |-> {}, dropped |-> {}, missed |-> {}, cut |-> {},
                again |-> {}]

Mishap == tally.mishaps < MaxMishaps /\ tally' = [tally EXCEPT !.mishaps = @ + 1]

Live(c) == client[c].ws \in {"open", "connecting"}

-----------------------------------------------------------------------------
(* The connection of one client.                                           *)

\* The local database has loaded, and only then is the socket opened.
Load(c) ==
    /\ ~client[c].ready
    /\ client' = [client EXCEPT ![c].ready = TRUE, ![c].doc = @ \cup client[c].store,
                                ![c].ws = "connecting"]
    /\ UNCHANGED <<server, conn, up, down, tally, ghost>>

\* scheduleReconnect, from the close handler; a close that is not answered
\* while the client is restoring is not answered later either.
FaultyClosed(c, code) == [client[c] EXCEPT !.ws = "closed"]
Closed(c, code) ==
    IF client[c].restoring # "no" THEN [client[c] EXCEPT !.ws = "closed"]
    ELSE IF code = "published" THEN [client[c] EXCEPT !.ws = "closed", !.timer = FALSE, !.locked = TRUE]
    ELSE [client[c] EXCEPT !.ws = "closed", !.timer = ~client[c].locked]

CloseSocket(S, code) ==
    /\ conn' = conn \ S
    /\ up' = [c \in Clients |-> IF c \in S THEN <<>> ELSE up[c]]
    /\ down' = [c \in Clients |-> IF c \in S THEN <<>> ELSE down[c]]
    /\ client' = [c \in Clients |-> IF c \in S THEN Closed(c, code) ELSE client[c]]

\* A restore that a client has not finished when its socket closes.
Unheard(S) == {c \in S : client[c].restoring # "no"
                         \/ \E i \in DOMAIN down[c] : down[c][i].t = "restore"}
Lost(S) == [ghost EXCEPT !.missed = @ \cup Unheard(S),
                         !.cut = @ \cup {c \in S : client[c].restoring # "no"}]

Drop(c) ==
    /\ Live(c) /\ Mishap
    /\ CloseSocket({c}, "lost") /\ ghost' = Lost({c})
    /\ UNCHANGED server

\* The delayed reopen.
TimerFires(c) ==
    /\ client[c].timer
    /\ client' = [client EXCEPT ![c].timer = FALSE,
                    ![c].ws = IF client[c].restoring = "no" /\ ~Live(c) THEN "connecting" ELSE @]
    /\ UNCHANGED <<server, conn, up, down, tally, ghost>>

\* "The network is back": reopen now.
Online(c) ==
    /\ client[c].ready /\ ~client[c].locked /\ ~Live(c)
    /\ client' = [client EXCEPT ![c].timer = FALSE, ![c].ws = "connecting"]
    /\ UNCHANGED <<server, conn, up, down, tally, ghost>>

\* The socket is open: send what we have.
Opened(c) ==
    /\ client[c].ws = "connecting" /\ c \in conn
    /\ client' = [client EXCEPT ![c].ws = "open"]
    /\ up' = [up EXCEPT ![c] = Append(@, Step1(client[c].doc))]
    /\ UNCHANGED <<server, conn, down, tally, ghost>>

\* A local edit.  While the client restores, it goes to the document that is
\* about to be thrown away.
Edit(c, e) ==
    /\ client[c].ready /\ ~client[c].locked /\ e \notin ghost.made
    /\ \/ /\ client[c].restoring = "no"
          /\ client' = [client EXCEPT ![c].doc = @ \cup {e}, ![c].store = @ \cup {e}]
          /\ up' = IF client[c].ws = "open" THEN [up EXCEPT ![c] = Append(@, Update({e}))] ELSE up
          /\ ghost' = [ghost EXCEPT !.made = @ \cup {e}]
       \/ /\ client[c].restoring # "no"
          /\ client' = [client EXCEPT ![c].doc = @ \cup {e}]
          /\ ghost' = [ghost EXCEPT !.made = @ \cup {e}, !.dropped = @ \cup {e}]
          /\ UNCHANGED up
    /\ UNCHANGED <<server, conn, down, tally>>

\* Content from the socket; a destroyed database no longer follows the document.
Merged(c, items) ==
    [client[c] EXCEPT !.doc = @ \cup items,
                      !.store = IF client[c].restoring = "no" THEN @ \cup items ELSE @]

FaultyMissing(c, vector) == {}
Missing(c, vector) == client[c].doc \ vector

Hear(c) ==
    /\ client[c].ws = "open" /\ down[c] # <<>>
    /\ LET f == Head(down[c]) IN
       \/ /\ f.t = "step1"
          /\ up' = [up EXCEPT ![c] = Append(@, Step2(Missing(c, f.items)))]
          /\ down' = [down EXCEPT ![c] = Tail(@)]
          /\ UNCHANGED <<conn, client, ghost>>
       \/ /\ f.t \in {"step2", "update"}
          /\ client' = [client EXCEPT ![c] = Merged(c, f.items)]
          /\ down' = [down EXCEPT ![c] = Tail(@)]
          /\ UNCHANGED <<conn, up, ghost>>
       \/ /\ f.t = "restore"
          /\ client' = [client EXCEPT ![c].restoring = IF @ = "no" THEN "closing" ELSE @]
          /\ down' = [down EXCEPT ![c] = Tail(@)]
          /\ UNCHANGED <<conn, up, ghost>>
       \/ f.t = "close" /\ CloseSocket({c}, "published") /\ ghost' = Lost({c})
    /\ UNCHANGED <<server, tally>>

\* handleRestore: the database is closed, then deleted, and a fresh document
\* takes the place of the old one.  The deletion is best-effort.
StoreClosed(c) ==
    /\ client[c].restoring = "closing"
    /\ client' = [client EXCEPT ![c].restoring = "clearing"]
    /\ UNCHANGED <<server, conn, up, down, tally, ghost>>

FaultyCleared(c) == [client[c] EXCEPT !.doc = {}, !.restoring = "no"]
Cleared(c) == [client[c] EXCEPT !.doc = {}, !.store = {}, !.restoring = "no"]

Rebuild(c) ==
    /\ client[c].restoring = "clearing"
    /\ client' = [client EXCEPT ![c] = Cleared(c)]
    /\ up' = IF client[c].ws = "open" THEN [up EXCEPT ![c] = Append(@, Step1({}))] ELSE up
    /\ ghost' = [ghost EXCEPT !.dropped = @ \cup (client[c].doc \cap Edits)]
    /\ UNCHANGED <<server, conn, down, tally>>

\* The old database is opened again under the fresh document.
RebuildUncleared(c) ==
    /\ Mishap /\ client[c].restoring = "clearing"
    /\ client' = [client EXCEPT ![c].doc = client[c].store, ![c].restoring = "no"]
    /\ up' = IF client[c].ws = "open"
             THEN [up EXCEPT ![c] = @ \o <<Step1({}), Update(client[c].store)>>] ELSE up
    /\ ghost' = [ghost EXCEPT !.missed = @ \cup {c}]
    /\ UNCHANGED <<server, conn, down>>

\* The page is closed and opened again.
Reload(c) ==
    /\ client[c].ready /\ Mishap
    /\ client' = [client EXCEPT ![c] = Fresh(client[c].store)]
    /\ conn' = conn \ {c}
    /\ up' = [up EXCEPT ![c] = <<>>] /\ down' = [down EXCEPT ![c] = <<>>]
    /\ ghost' = [ghost EXCEPT !.missed = @ \cup Unheard({c}), !.cut = @ \ {c}]
    /\ UNCHANGED server

-----------------------------------------------------------------------------
(* The Durable Object.                                                     *)

\* The upgrade is accepted with the object's state vector, or answered with
\* the close code of a published report.
Accept(c) ==
    /\ client[c].ws = "connecting" /\ c \notin conn
    /\ \/ /\ ~server.locked
          /\ conn' = conn \cup {c}
          /\ down' = [down EXCEPT ![c] = <<Step1(server.doc)>>]
          /\ UNCHANGED <<up, client>>
       \/ server.locked /\ CloseSocket({c}, "published")
    /\ UNCHANGED <<server, tally, ghost>>

\* A relayed update goes to every socket but the one it came from.
Relayed(c, new) ==
    [d \in Clients |-> IF d \in conn \ {c} /\ new # {} THEN Append(down[d], Update(new)) ELSE down[d]]

Serve(c) ==
    /\ c \in conn /\ up[c] # <<>>
    /\ LET f == Head(up[c])
           new == f.items \ server.doc
       IN
       \/ /\ server.locked
          /\ conn' = conn \ {c} /\ up' = [up EXCEPT ![c] = <<>>]
          /\ down' = [down EXCEPT ![c] = Append(@, Control("close"))]
          /\ UNCHANGED server
       \/ /\ ~server.locked /\ f.t = "step1"
          /\ up' = [up EXCEPT ![c] = Tail(@)]
          /\ down' = [down EXCEPT ![c] = Append(@, Step2(server.doc \ f.items))]
          /\ UNCHANGED <<server, conn>>
       \/ /\ ~server.locked /\ f.t \in {"step2", "update"}
          /\ server' = [server EXCEPT !.doc = @ \cup new]
          /\ up' = [up EXCEPT ![c] = Tail(@)]
          /\ down' = Relayed(c, new)
          /\ UNCHANGED conn
    /\ UNCHANGED <<client, tally, ghost>>

\* What a client has sent and the object has not read, and what it will answer
\* to the object's vector.
Coming(c) ==
    {x \in Item : \/ \E i \in DOMAIN up[c] : up[c][i].t \in {"step2", "update"} /\ x \in up[c][i].items
                  \/ \E i \in DOMAIN down[c] : /\ down[c][i].t = "step1"
                                               /\ x \in Missing(c, down[c][i].items)}

\* restoreSnapshot: the document is replaced, and every socket is told.
Told == [c \in Clients |-> IF c \in conn THEN Append(down[c], Control("restore")) ELSE down[c]]

Restore ==
    /\ ~server.locked /\ tally.restores < MaxRestores
    /\ tally' = [tally EXCEPT !.restores = @ + 1]
    /\ server' = [server EXCEPT !.doc = {tally.restores + 1}]
    /\ down' = Told
    /\ LET old == server.doc \cap ghost.made IN
       ghost' = [ghost EXCEPT !.replaced = @ \cup old,
                              !.missed = @ \cup (Clients \ conn),
                              !.again = @ \cup {c \in conn : Coming(c) \cap old # {}}]
    /\ UNCHANGED <<conn, up, client>>

Persist ==
    /\ server.stored # server.doc
    /\ server' = [server EXCEPT !.stored = server.doc]
    /\ UNCHANGED <<conn, up, down, client, tally, ghost>>

\* The object is evicted without warning: every socket closes.
Crash ==
    /\ tally.mishaps < MaxMishaps
    /\ tally' = [tally EXCEPT !.mishaps = @ + 1, !.crashes = @ + 1]
    /\ server' = [server EXCEPT !.doc = server.stored]
    /\ CloseSocket(conn, "lost") /\ ghost' = Lost(conn)

\* The report is published: what is in memory is final.
Lock ==
    /\ ~server.locked /\ Mishap
    /\ server' = [server EXCEPT !.locked = TRUE, !.stored = server.doc]
    /\ UNCHANGED <<conn, up, down, client, ghost>>

-----------------------------------------------------------------------------
Next ==
    \/ \E c \in Clients :
          \/ Load(c) \/ Drop(c) \/ TimerFires(c) \/ Online(c) \/ Opened(c)
          \/ (\E e \in Edits : Edit(c, e))
          \/ Hear(c) \/ StoreClosed(c) \/ Rebuild(c) \/ RebuildUncleared(c) \/ Reload(c)
          \/ Accept(c) \/ Serve(c)
    \/ Restore \/ Persist \/ Crash \/ Lock

Spec == Init /\ [][Next]_vars

-----------------------------------------------------------------------------
\* Every value has its type.
TypeOK ==
    /\ server \in [doc : SUBSET Item, stored : SUBSET Item, locked : BOOLEAN]
    /\ conn \in SUBSET Clients
    /\ up \in [Clients -> Seq(Frame)] /\ down \in [Clients -> Seq(Frame)]
    /\ client \in [Clients -> [doc : SUBSET Item, store : SUBSET Item, ready : BOOLEAN,
                               ws : {"none", "connecting", "open", "closed"}, timer : BOOLEAN,
                               restoring : {"no", "closing", "clearing"}, locked : BOOLEAN]]
    /\ tally \in [restores : Nat, mishaps : Nat, crashes : Nat]
    /\ ghost \in [made : SUBSET Edits, replaced : SUBSET Edits, dropped : SUBSET Edits,
                  missed : SUBSET Clients, cut : SUBSET Clients, again : SUBSET Clients]

\* Every client is connected, and there is nothing on the way.
Settled ==
    \A c \in Clients : /\ client[c].ws = "open" /\ client[c].restoring = "no" /\ c \in conn
                       /\ up[c] = <<>> /\ down[c] = <<>>

\* Once everything has arrived, every client shows what the object holds:
\* after lost sockets, reloads, a crash that forgot the latest edits, and a
\* restore, whose frame may have met edits coming the other way.
Converged == Settled => \A c \in Clients : client[c].doc = server.doc

\* Once everything has arrived, the object holds every edit that was made,
\* offline, on a socket that was lost, or just before a crash; except those a
\* restore replaced, and those a client held, or made, while it dropped its
\* document for a restore.
EditsArrive == Settled => ghost.made \subseteq server.doc \cup ghost.replaced \cup ghost.dropped

\* A client that is not connected will try again, unless the report is
\* locked, or its socket closed while it was restoring.
NeverStranded ==
    \A c \in Clients \ ghost.cut :
        client[c].ws = "closed" => client[c].timer \/ client[c].locked

\* The version a restore replaced does not come back, neither its base nor
\* its edits: unless a client was not connected at a restore, did not hear of
\* it, or could not clear its database; or the object crashed before it stored
\* the restored version; or, for edits, a client was sending for a second time
\* what the object already held, which happens in a handshake: the edit of a
\* socket just opened goes up at once, and again in the answer to the vector.
ReplacedStaysGone ==
    ghost.missed = {} /\ tally.crashes = 0 =>
        /\ Cardinality(server.doc \cap Base) = 1
        /\ ghost.again = {} => server.doc \cap ghost.replaced = {}
=============================================================================
