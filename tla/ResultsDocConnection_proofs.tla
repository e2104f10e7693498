--------------------- MODULE ResultsDocConnection_proofs ---------------------
(***************************************************************************)
(* Proofs about the clients of a results document and their sockets, for   *)
(* any set of clients and edits and any number of restores and mishaps.    *)
(*                                                                         *)
(* The theorems speak of the state in which everything has arrived, or of  *)
(* the object's document alone; the invariant they need speaks of what is  *)
(* still on its way.  For one client it says, beside how a socket and its  *)
(* channels go together (Wired) and when it waits for a reopen (Waits):    *)
(*   - what is on its way to either side is contained in the document it   *)
(*     comes from, or a restore, or a new state vector, is behind it in    *)
(*     the same channel (Queued);                                          *)
(*   - whatever one side has and the other lacks is on its way in an       *)
(*     update, or the other side's state vector, which asks for it, is on  *)
(*     its way, or the client is about to be told to drop what it has      *)
(*     (Synced);                                                           *)
(*   - while every restore was heard, a client that is through with it     *)
(*     holds no base but the restored one, and sends none (Based).         *)
(* Of all clients together it says that an edit that was not dropped is in *)
(* some client's local database (Kept).  What restores replaced is followed *)
(* by a second invariant on top of this one (Clean).                        *)
(***************************************************************************)
EXTENDS ResultsDocConnection, FiniteSetTheorems, TLAPS


-----------------------------------------------------------------------------
(* What is said of the frames in a channel.                                *)

Content == {"step1", "step2", "update"}

Sends(s, x)  == \E i \in DOMAIN s : s[i].t \in {"step2", "update"} /\ x \in s[i].items
Asks(s, x)   == \E i \in DOMAIN s : s[i].t = "step1" /\ x \notin s[i].items
Restores(s)  == \E i \in DOMAIN s : s[i].t = "restore"
Changed(s, i) == \E j \in DOMAIN s : j > i /\ s[j].t = "restore"

\* What is on its way to a client is part of the object's document, or there
\* is a restore behind it.
Current(s, doc) ==
    \A i \in DOMAIN s : s[i].t \in Content => s[i].items \subseteq doc \/ Changed(s, i)

\* What is on its way to the object is part of the client's document, or the
\* client asks for it behind it.
Backed(s, doc) ==
    \A i \in DOMAIN s : s[i].t \in {"step2", "update"} =>
        \A x \in s[i].items \ doc :
            \E j \in DOMAIN s : j > i /\ s[j].t = "step1" /\ x \notin s[j].items

LEMMA AppendAt ==
  ASSUME NEW s \in Seq(Frame), NEW f \in Frame
  PROVE  /\ Append(s, f) \in Seq(Frame) /\ Append(s, f) # <<>>
         /\ DOMAIN s = 1 .. Len(s) /\ Len(s) \in Nat
         /\ DOMAIN Append(s, f) = 1 .. (Len(s) + 1)
         /\ \A i \in DOMAIN s : Append(s, f)[i] = s[i]
         /\ Append(s, f)[Len(s) + 1] = f
  OBVIOUS

LEMMA TailAt ==
  ASSUME NEW s \in Seq(Frame), s # <<>>
  PROVE  /\ Tail(s) \in Seq(Frame)
         /\ DOMAIN s = 1 .. Len(s) /\ Len(s) \in Nat \ {0}
         /\ DOMAIN Tail(s) = 1 .. (Len(s) - 1)
         /\ \A i \in DOMAIN Tail(s) : Tail(s)[i] = s[i + 1]
         /\ Head(s) = s[1] /\ Head(s) \in Frame
  OBVIOUS

LEMMA NoFrames ==
  /\ <<>> \in Seq(Frame) /\ DOMAIN <<>> = {}
  /\ \A doc : Current(<<>>, doc) /\ Backed(<<>>, doc)
  /\ ~Restores(<<>>) /\ \A x : ~Sends(<<>>, x) /\ ~Asks(<<>>, x)
  BY DEF Current, Backed, Restores, Sends, Asks

LEMMA AppendSays ==
  ASSUME NEW s \in Seq(Frame), NEW f \in Frame
  PROVE  /\ \A x : Sends(Append(s, f), x) <=>
                       Sends(s, x) \/ (f.t \in {"step2", "update"} /\ x \in f.items)
         /\ \A x : Asks(Append(s, f), x) <=> Asks(s, x) \/ (f.t = "step1" /\ x \notin f.items)
         /\ Restores(Append(s, f)) <=> Restores(s) \/ f.t = "restore"
  <1> DEFINE S == Append(s, f)
             n == Len(s) + 1
  <1>1. /\ DOMAIN S = DOMAIN s \cup {n} /\ S[n] = f /\ \A i \in DOMAIN s : S[i] = s[i]
    BY AppendAt
  <1> HIDE DEF S, n
  <1>2. /\ \A x : Sends(S, x) <=>
                       Sends(s, x) \/ (f.t \in {"step2", "update"} /\ x \in f.items)
        /\ \A x : Asks(S, x) <=> Asks(s, x) \/ (f.t = "step1" /\ x \notin f.items)
        /\ Restores(S) <=> Restores(s) \/ f.t = "restore"
    BY <1>1 DEF Sends, Asks, Restores
  <1> QED BY <1>2 DEF S

LEMMA TailSays ==
  ASSUME NEW s \in Seq(Frame), s # <<>>
  PROVE  /\ \A x : Sends(s, x) <=>
                       Sends(Tail(s), x) \/ (Head(s).t \in {"step2", "update"} /\ x \in Head(s).items)
         /\ \A x : Asks(s, x) <=> Asks(Tail(s), x) \/ (Head(s).t = "step1" /\ x \notin Head(s).items)
         /\ Restores(s) <=> Restores(Tail(s)) \/ Head(s).t = "restore"
  <1> DEFINE S == Tail(s)
             f == Head(s)
  <1>1. /\ 1 \in DOMAIN s /\ s[1] = f
        /\ \A i \in DOMAIN S : i + 1 \in DOMAIN s /\ S[i] = s[i + 1]
        /\ \A j \in DOMAIN s : j = 1 \/ \E i \in DOMAIN S : j = i + 1
    <2>1. \A j \in DOMAIN s : j = 1 \/ j - 1 \in DOMAIN S
      BY TailAt
    <2>2. \A j \in DOMAIN s : j = (j - 1) + 1
      BY TailAt
    <2> QED BY <2>1, <2>2, TailAt
  <1> HIDE DEF S, f
  <1>2. /\ \A x : Sends(s, x) <=>
                       Sends(S, x) \/ (f.t \in {"step2", "update"} /\ x \in f.items)
        /\ \A x : Asks(s, x) <=> Asks(S, x) \/ (f.t = "step1" /\ x \notin f.items)
        /\ Restores(s) <=> Restores(S) \/ f.t = "restore"
    BY <1>1 DEF Sends, Asks, Restores
  <1> QED BY <1>2 DEF S, f

LEMMA AppendCurrent ==
  ASSUME NEW s \in Seq(Frame), NEW f \in Frame, NEW doc,
         \/ Current(s, doc) /\ (f.t \in Content => f.items \subseteq doc)
         \/ f.t = "restore"
  PROVE  Current(Append(s, f), doc)
  <1> DEFINE S == Append(s, f)
             n == Len(s) + 1
  <1>1. /\ DOMAIN S = DOMAIN s \cup {n} /\ S[n] = f /\ (\A i \in DOMAIN s : S[i] = s[i])
        /\ \A i \in DOMAIN s : n > i
    BY AppendAt
  <1> HIDE DEF S, n
  <1>2. Current(S, doc)
    BY <1>1 DEF Current, Changed, Content
  <1> QED BY <1>2 DEF S

LEMMA TailCurrent ==
  ASSUME NEW s \in Seq(Frame), s # <<>>, NEW doc, Current(s, doc)
  PROVE  /\ Current(Tail(s), doc)
         /\ Head(s).t \in Content => Head(s).items \subseteq doc \/ Restores(Tail(s))
  <1> DEFINE S == Tail(s)
  <1>1. \A i \in DOMAIN S : i + 1 \in DOMAIN s /\ S[i] = s[i + 1]
    BY TailAt
  <1>2. \A j \in DOMAIN s : j > 1 => j - 1 \in DOMAIN S /\ S[j - 1] = s[j]
    BY TailAt
  <1>3. 1 \in DOMAIN s /\ s[1] = Head(s) /\ \A i \in DOMAIN S, j \in DOMAIN s :
              j > i + 1 => j > 1 /\ j - 1 > i
    BY TailAt
  <1> HIDE DEF S
  <1>4. \A i \in DOMAIN S : Changed(s, i + 1) => Changed(S, i)
    BY <1>2, <1>3 DEF Changed
  <1>5. Changed(s, 1) => Restores(S)
    BY <1>2 DEF Changed, Restores
  <1>6. Current(S, doc)
    BY <1>1, <1>4 DEF Current
  <1>7. Head(s).t \in Content => Head(s).items \subseteq doc \/ Restores(S)
    BY <1>3, <1>5 DEF Current
  <1> QED BY <1>6, <1>7 DEF S

LEMMA AppendBacked ==
  ASSUME NEW s \in Seq(Frame), NEW f \in Frame, NEW doc,
         \/ Backed(s, doc) /\ (f.t \in {"step2", "update"} => f.items \subseteq doc)
         \/ f.t = "step1" /\ f.items = {}
  PROVE  Backed(Append(s, f), doc)
  <1> DEFINE S == Append(s, f)
             n == Len(s) + 1
  <1>1. /\ DOMAIN S = DOMAIN s \cup {n} /\ S[n] = f /\ (\A i \in DOMAIN s : S[i] = s[i])
        /\ \A i \in DOMAIN s : n > i
    BY AppendAt
  <1> HIDE DEF S, n
  <1>2. Backed(S, doc)
    BY <1>1 DEF Backed
  <1> QED BY <1>2 DEF S

LEMMA TailBacked ==
  ASSUME NEW s \in Seq(Frame), s # <<>>, NEW doc, Backed(s, doc)
  PROVE  /\ Backed(Tail(s), doc)
         /\ Head(s).t \in {"step2", "update"} => \A x \in Head(s).items \ doc : Asks(Tail(s), x)
  <1> DEFINE S == Tail(s)
             After(i, x) == \E j \in DOMAIN s : j > i /\ s[j].t = "step1" /\ x \notin s[j].items
  <1>1. \A i \in DOMAIN S : i + 1 \in DOMAIN s /\ S[i] = s[i + 1]
    BY TailAt
  <1>2. \A j \in DOMAIN s : j > 1 => j - 1 \in DOMAIN S /\ S[j - 1] = s[j]
    BY TailAt
  <1>3. 1 \in DOMAIN s /\ s[1] = Head(s) /\ \A i \in DOMAIN S, j \in DOMAIN s :
              j > i + 1 => j > 1 /\ j - 1 > i
    BY TailAt
  <1> HIDE DEF S
  <1>4. \A i \in DOMAIN S : \A x : After(i + 1, x) =>
            \E j \in DOMAIN S : j > i /\ S[j].t = "step1" /\ x \notin S[j].items
    BY <1>2, <1>3
  <1>5. \A x : After(1, x) => Asks(S, x)
    BY <1>2 DEF Asks
  <1>6. \A i \in DOMAIN s : s[i].t \in {"step2", "update"} => \A x \in s[i].items \ doc : After(i, x)
    BY DEF Backed
  <1> HIDE DEF After
  <1>7. Backed(S, doc)
    BY <1>1, <1>4, <1>6 DEF Backed
  <1>8. Head(s).t \in {"step2", "update"} => \A x \in Head(s).items \ doc : Asks(S, x)
    BY <1>3, <1>5, <1>6
  <1> QED BY <1>7, <1>8 DEF S

LEMMA Grows ==
  ASSUME NEW s, NEW doc, NEW more, doc \subseteq more
  PROVE  /\ Current(s, doc) => Current(s, more)
         /\ Backed(s, doc) => Backed(s, more)
  <1>1. Current(s, doc) => Current(s, more)
    BY DEF Current
  <1>2. Backed(s, doc) => Backed(s, more)
    BY DEF Backed
  <1> QED BY <1>1, <1>2

-----------------------------------------------------------------------------
(* The inductive invariant, client by client.                              *)

\* A socket's channels are used only while it is open, and the object's state
\* vector comes first; a client loads before it connects.
Wired(c) ==
    /\ c \in conn => Live(c)
    /\ up[c] # <<>> => client[c].ws = "open"
    /\ down[c] # <<>> => Live(c)
    /\ client[c].ws = "connecting" =>
          IF c \in conn THEN down[c] # <<>> /\ down[c][1].t = "step1" ELSE down[c] = <<>>
    /\ \A i \in DOMAIN down[c] : down[c][i].t = "step1" => i = 1
    /\ ~client[c].ready => client[c].ws = "none" /\ client[c].restoring = "no" /\ ~client[c].timer
    /\ client[c].ready => client[c].store \subseteq client[c].doc
    /\ client[c].restoring # "no" => client[c].ws = "open" \/ c \in ghost.cut

Queued(c) ==
    /\ c \in conn => Current(down[c], server.doc)
    /\ client[c].restoring = "no" => Backed(up[c], client[c].doc)

\* What only one side has is on its way to the other, or asked for, or the
\* client is about to drop what it has.
Reaches(c) == \A x \in client[c].doc \ server.doc :
                  Sends(up[c], x) \/ Asks(down[c], x) \/ Restores(down[c])
Learns(c)  == \A x \in server.doc \ client[c].doc :
                  Sends(down[c], x) \/ Asks(up[c], x) \/ Restores(down[c])
Synced(c) == c \in conn /\ client[c].ws = "open" /\ client[c].restoring = "no"
                 => Reaches(c) /\ Learns(c)

Waits(c) == c \in ghost.cut \/ (client[c].ws = "closed" => client[c].timer \/ client[c].locked)

\* As long as no client has missed a restore: who is through with it holds no
\* base but the current one, and nobody sends one.
Sound == ghost.missed = {} /\ tally.crashes = 0
Mine  == Edits \cup {tally.restores}
NoBase(s) == \A i \in DOMAIN s : s[i].t \in {"step2", "update"} => s[i].items \subseteq Edits
Knows(s, doc) == \A i \in DOMAIN s : s[i].t = "step1" => doc \subseteq Edits \cup s[i].items
Based(c) ==
    /\ client[c].restoring = "no" /\ ~Restores(down[c]) =>
          client[c].doc \subseteq Mine /\ client[c].store \subseteq Mine
    /\ NoBase(up[c])
    /\ Current(down[c], Mine)
    /\ Knows(down[c], client[c].doc)
    /\ client[c].restoring # "no" => \A i \in DOMAIN down[c] : down[c][i].t # "step1"

Part(c) == Wired(c) /\ Queued(c) /\ Synced(c) /\ Waits(c) /\ (Sound => Based(c))

\* Every edit that was not dropped is kept by some client.
Kept == \A e \in ghost.made \ ghost.dropped : \E c \in Clients : e \in client[c].store

Whole ==
    /\ ghost.cut \subseteq ghost.missed /\ tally.restores <= MaxRestores
    /\ Kept
    /\ Sound => server.doc \subseteq Mine /\ tally.restores \in server.doc

IInv == TypeOK /\ Whole /\ \A c \in Clients : Part(c)

LEMMA AppendBase ==
  ASSUME NEW s \in Seq(Frame), NEW f \in Frame
  PROVE  /\ NoBase(s) /\ (f.t \in {"step2", "update"} => f.items \subseteq Edits)
              => NoBase(Append(s, f))
         /\ \A doc : Knows(s, doc) /\ (f.t = "step1" => doc \subseteq Edits \cup f.items)
              => Knows(Append(s, f), doc)
  <1> DEFINE S == Append(s, f)
             n == Len(s) + 1
  <1>1. DOMAIN S = DOMAIN s \cup {n} /\ S[n] = f /\ (\A i \in DOMAIN s : S[i] = s[i])
    BY AppendAt
  <1> HIDE DEF S, n
  <1>2. NoBase(s) /\ (f.t \in {"step2", "update"} => f.items \subseteq Edits) => NoBase(S)
    BY <1>1 DEF NoBase
  <1>3. ASSUME NEW doc, Knows(s, doc), f.t = "step1" => doc \subseteq Edits \cup f.items
        PROVE  Knows(S, doc)
    BY <1>1, <1>3 DEF Knows
  <1> QED BY <1>2, <1>3 DEF S

LEMMA TailBase ==
  ASSUME NEW s \in Seq(Frame), s # <<>>
  PROVE  /\ NoBase(s) => NoBase(Tail(s))
                         /\ (Head(s).t \in {"step2", "update"} => Head(s).items \subseteq Edits)
         /\ \A doc : Knows(s, doc) =>
                Knows(Tail(s), doc) /\ (Head(s).t = "step1" => doc \subseteq Edits \cup Head(s).items)
  <1> DEFINE S == Tail(s)
  <1>1. /\ 1 \in DOMAIN s /\ s[1] = Head(s)
        /\ \A i \in DOMAIN S : i + 1 \in DOMAIN s /\ S[i] = s[i + 1]
    BY TailAt
  <1> HIDE DEF S
  <1>2. NoBase(s) => NoBase(S) /\ (Head(s).t \in {"step2", "update"} => Head(s).items \subseteq Edits)
    BY <1>1 DEF NoBase
  <1>3. ASSUME NEW doc, Knows(s, doc)
        PROVE  Knows(S, doc) /\ (Head(s).t = "step1" => doc \subseteq Edits \cup Head(s).items)
    BY <1>1, <1>3 DEF Knows
  <1> QED BY <1>2, <1>3 DEF S

LEMMA EmptyBase == NoBase(<<>>) /\ \A doc : Knows(<<>>, doc)
  BY NoFrames DEF NoBase, Knows

-----------------------------------------------------------------------------
(* What the actions' proofs share.                                         *)

Connection == [doc : SUBSET Item, store : SUBSET Item, ready : BOOLEAN,
               ws : {"none", "connecting", "open", "closed"}, timer : BOOLEAN,
               restoring : {"no", "closing", "clearing"}, locked : BOOLEAN]

LEMMA Types ==
  ASSUME TypeOK, NEW c \in Clients
  PROVE  /\ up[c] \in Seq(Frame) /\ down[c] \in Seq(Frame)
         /\ client[c].doc \subseteq Item /\ client[c].store \subseteq Item
         /\ client[c].ready \in BOOLEAN /\ client[c].timer \in BOOLEAN
         /\ client[c].locked \in BOOLEAN
         /\ client[c].ws \in {"none", "connecting", "open", "closed"}
         /\ client[c].restoring \in {"no", "closing", "clearing"}
         /\ server.doc \subseteq Item /\ server.stored \subseteq Item
  BY DEF TypeOK

LEMMA MishapTypes ==
  ASSUME TypeOK, tally' = [tally EXCEPT !.mishaps = @ + 1]
  PROVE  /\ tally' \in [restores : Nat, mishaps : Nat, crashes : Nat]
         /\ tally'.restores = tally.restores /\ tally'.crashes = tally.crashes
  <1>1. tally \in [restores : Nat, mishaps : Nat, crashes : Nat]
    BY DEF TypeOK
  <1> QED BY <1>1

\* Nothing that a client's part of the invariant speaks of has changed.
LEMMA Others ==
  ASSUME NEW d \in Clients, Part(d), Sound' => Sound,
         tally'.restores = tally.restores, d \in conn => server'.doc = server.doc,
         client'[d] = client[d], up'[d] = up[d], down'[d] = down[d],
         d \in conn' <=> d \in conn, d \in ghost'.cut <=> d \in ghost.cut
  PROVE  Part(d)'
  <1>1. Wired(d)'
    BY DEF Part, Wired, Live
  <1>2. Queued(d)'
    BY DEF Part, Queued
  <1>3. Synced(d)'
    BY DEF Part, Synced, Reaches, Learns
  <1>4. Waits(d)'
    BY DEF Part, Waits
  <1>5. (Sound => Based(d))'
    BY DEF Part, Based, Mine
  <1> QED BY <1>1, <1>2, <1>3, <1>4, <1>5 DEF Part

\* What is kept stays kept while no client's database loses anything.
LEMMA KeptStays ==
  ASSUME Kept, \A d \in Clients : client[d].store \subseteq client'[d].store,
         ghost'.made \ ghost'.dropped \subseteq ghost.made \ ghost.dropped
  PROVE  Kept'
  BY DEF Kept

\* The rest of what is said of the whole, when only clients act.
LEMMA WholeStays ==
  ASSUME Whole, Kept', ghost'.cut \subseteq ghost'.missed, Sound' => Sound,
         tally'.restores = tally.restores, server'.doc = server.doc
  PROVE  Whole'
  BY DEF Whole, Mine

-----------------------------------------------------------------------------
(* Each action preserves the invariant.                                    *)

\* A client reopens its socket, or lets its timer go.
LEMMA Reopened ==
  ASSUME NEW c \in Clients, Part(c), TypeOK,
         UNCHANGED <<server, conn, up, down, tally, ghost>>,
         client'[c].doc = client[c].doc, client'[c].store = client[c].store,
         client'[c].ready = client[c].ready, client'[c].restoring = client[c].restoring,
         client[c].ready,
         \/ client'[c].ws = "connecting" /\ ~Live(c) /\ client[c].restoring = "no"
         \/ client'[c].ws = client[c].ws /\ (client[c].ws = "closed" => client[c].restoring # "no")
         \/ client'[c].ws = "connecting" /\ ~Live(c) /\ c \in ghost.cut
  PROVE  Part(c)'
  <1>1. (up[c] = <<>> /\ down[c] = <<>> /\ c \notin conn) \/ client'[c].ws = client[c].ws
    BY DEF Part, Wired, Live
  <1>2. Wired(c)'
    BY <1>1 DEF Part, Wired, Live
  <1>3. Queued(c)'
    BY DEF Part, Queued
  <1>4. Synced(c)'
    BY DEF Part, Synced, Reaches, Learns
  <1>5. Waits(c)'
    BY DEF Part, Waits, Wired
  <1>6. (Sound => Based(c))'
    BY DEF Part, Based, Mine, Sound
  <1> QED BY <1>2, <1>3, <1>4, <1>5, <1>6 DEF Part

LEMMA LoadIInv == ASSUME IInv, NEW c \in Clients, Load(c) PROVE IInv'
  <1>1. /\ TypeOK /\ Whole /\ Part(c) /\ \A d \in Clients : Part(d)
        /\ UNCHANGED <<server, conn, up, down, tally, ghost>>
    BY DEF IInv, Load
  <1>2. /\ client'[c] = [client[c] EXCEPT !.ready = TRUE, !.doc = @ \cup client[c].store,
                                          !.ws = "connecting"]
        /\ \A d \in Clients \ {c} : client'[d] = client[d]
        /\ ~client[c].ready
    BY <1>1 DEF Load, TypeOK
  <1>3. /\ client'[c].doc = client[c].doc \cup client[c].store
        /\ client'[c].store = client[c].store /\ client'[c].ready
        /\ client'[c].ws = "connecting" /\ client'[c].restoring = "no"
        /\ c \notin conn /\ up[c] = <<>> /\ down[c] = <<>>
    BY <1>1, <1>2, Types DEF TypeOK, Part, Wired, Live
  <1>4. TypeOK'
    <2>1. client'[c] \in Connection
      <3>1. client[c] \in Connection
        BY <1>1 DEF TypeOK, Connection
      <3> QED BY <1>2, <3>1 DEF Connection
    <2> QED BY <1>1, <2>1 DEF TypeOK, Load, Connection
  <1>5. Sound' => Sound
    BY <1>1 DEF Sound
  <1>6. Whole'
    <2>1. Kept'
      BY <1>1, <1>2, <1>3, KeptStays DEF Whole
    <2> QED BY <1>1, <1>5, <2>1, WholeStays DEF Whole
  <1>7. Part(c)'
    <2>1. Wired(c)'
      BY <1>1, <1>3, NoFrames DEF Wired, Live
    <2>2. Queued(c)'
      BY <1>1, <1>3, NoFrames DEF Queued
    <2>3. Synced(c)' /\ Waits(c)'
      BY <1>1, <1>3 DEF Synced, Waits
    <2>4. (Sound => Based(c))'
      BY <1>1, <1>3, <1>5, NoFrames, EmptyBase DEF Part, Based, Mine, Wired
    <2> QED BY <2>1, <2>2, <2>3, <2>4 DEF Part
  <1>8. ASSUME NEW d \in Clients \ {c} PROVE Part(d)'
    BY <1>1, <1>2, <1>5, Others
  <1> QED BY <1>4, <1>6, <1>7, <1>8 DEF IInv

\* The sockets of S close.
LEMMA Shut ==
  ASSUME IInv, NEW S \in SUBSET Clients, NEW code, CloseSocket(S, code),
         \A c \in S : Live(c) /\ (client[c].restoring # "no" => c \in ghost'.cut),
         \A c \in Clients \ S : c \in ghost'.cut <=> c \in ghost.cut,
         \A c \in conn \ S : server'.doc = server.doc,
         tally'.restores = tally.restores, Sound' => Sound,
         Sound' => \A c \in S : client[c].restoring = "no" /\ ~Restores(down[c])
  PROVE  /\ conn' \in SUBSET Clients /\ up' \in [Clients -> Seq(Frame)]
         /\ down' \in [Clients -> Seq(Frame)] /\ client' \in [Clients -> Connection]
         /\ \A d \in Clients : client'[d].store = client[d].store
         /\ \A d \in Clients : Part(d)'
  <1>1. /\ TypeOK /\ \A d \in Clients : Part(d)
        /\ client \in [Clients -> Connection]
        /\ conn' = conn \ S /\ up' \in [Clients -> Seq(Frame)] /\ down' \in [Clients -> Seq(Frame)]
        /\ \A c \in S : up'[c] = <<>> /\ down'[c] = <<>> /\ client'[c] = Closed(c, code)
        /\ \A d \in Clients \ S : up'[d] = up[d] /\ down'[d] = down[d] /\ client'[d] = client[d]
        /\ client' = [c \in Clients |-> IF c \in S THEN Closed(c, code) ELSE client[c]]
    BY NoFrames DEF IInv, CloseSocket, TypeOK, Connection
  <1>2. ASSUME NEW c \in Clients
        PROVE  /\ Closed(c, code) \in Connection
               /\ Closed(c, code).ws = "closed"
               /\ Closed(c, code).doc = client[c].doc /\ Closed(c, code).store = client[c].store
               /\ Closed(c, code).ready = client[c].ready
               /\ Closed(c, code).restoring = client[c].restoring
               /\ client[c].restoring = "no" => Closed(c, code).timer \/ Closed(c, code).locked
    <2>1. client[c] \in Connection
      BY <1>1
    <2>2. CASE client[c].restoring # "no"
      BY <2>1, <2>2 DEF Closed, Connection
    <2>3. CASE client[c].restoring = "no" /\ code = "published"
      BY <2>1, <2>3 DEF Closed, Connection
    <2>4. CASE client[c].restoring = "no" /\ code # "published"
      BY <2>1, <2>4 DEF Closed, Connection
    <2> QED BY <2>2, <2>3, <2>4
  <1>3. client' \in [Clients -> Connection]
    BY <1>1, <1>2
  <1>4. \A d \in Clients : client'[d].store = client[d].store
    BY <1>1, <1>2
  <1>5. ASSUME NEW c \in S PROVE Part(c)'
    <2>1. /\ c \in Clients /\ Part(c) /\ c \notin conn' /\ up'[c] = <<>> /\ down'[c] = <<>>
          /\ client'[c].ws = "closed" /\ client'[c].doc = client[c].doc
          /\ client'[c].store = client[c].store /\ client'[c].ready = client[c].ready
          /\ client'[c].restoring = client[c].restoring
          /\ client[c].restoring = "no" => client'[c].timer \/ client'[c].locked
          /\ client[c].ws # "none"
      BY <1>1, <1>2 DEF Live
    <2>2. Wired(c)'
      BY <2>1, NoFrames DEF Part, Wired
    <2>3. Queued(c)'
      BY <2>1, NoFrames DEF Queued
    <2>4. Synced(c)' /\ Waits(c)'
      BY <2>1 DEF Synced, Waits
    <2>5. (Sound => Based(c))'
      BY <2>1, NoFrames, EmptyBase DEF Part, Based, Mine
    <2> QED BY <2>2, <2>3, <2>4, <2>5 DEF Part
  <1>6. ASSUME NEW d \in Clients \ S PROVE Part(d)'
    BY <1>1, Others
  <1> QED BY <1>1, <1>3, <1>4, <1>5, <1>6 DEF TypeOK

LEMMA DropIInv == ASSUME IInv, NEW c \in Clients, Drop(c) PROVE IInv'
  <1>1. /\ TypeOK /\ Whole /\ Live(c) /\ CloseSocket({c}, "lost") /\ ghost' = Lost({c})
        /\ server' = server /\ tally' = [tally EXCEPT !.mishaps = @ + 1]
    BY DEF IInv, Drop, Mishap
  <1>2. /\ ghost'.made = ghost.made /\ ghost'.dropped = ghost.dropped
        /\ ghost'.missed = ghost.missed \cup Unheard({c})
        /\ ghost'.cut = ghost.cut \cup {d \in {c} : client[d].restoring # "no"}
        /\ ghost' \in [made : SUBSET Edits, replaced : SUBSET Edits, dropped : SUBSET Edits,
                       missed : SUBSET Clients, cut : SUBSET Clients, again : SUBSET Clients]
        /\ tally' \in [restores : Nat, mishaps : Nat, crashes : Nat]
        /\ tally'.restores = tally.restores /\ tally'.crashes = tally.crashes
    <2>1. /\ tally' \in [restores : Nat, mishaps : Nat, crashes : Nat]
          /\ tally'.restores = tally.restores /\ tally'.crashes = tally.crashes
      BY <1>1, MishapTypes
    <2>2. /\ ghost'.made = ghost.made /\ ghost'.dropped = ghost.dropped
          /\ ghost'.missed = ghost.missed \cup Unheard({c})
          /\ ghost'.cut = ghost.cut \cup {d \in {c} : client[d].restoring # "no"}
          /\ ghost' \in [made : SUBSET Edits, replaced : SUBSET Edits, dropped : SUBSET Edits,
                         missed : SUBSET Clients, cut : SUBSET Clients, again : SUBSET Clients]
      BY <1>1 DEF TypeOK, Lost, Unheard
    <2> QED BY <2>1, <2>2
  <1>3. /\ Sound' => Sound /\ client[c].restoring = "no" /\ ~Restores(down[c])
        /\ ghost'.cut \subseteq ghost'.missed
    BY <1>1, <1>2 DEF Sound, Unheard, Restores, Whole
  <1>4. /\ conn' \in SUBSET Clients /\ up' \in [Clients -> Seq(Frame)]
        /\ down' \in [Clients -> Seq(Frame)] /\ client' \in [Clients -> Connection]
        /\ \A d \in Clients : client'[d].store = client[d].store
        /\ \A d \in Clients : Part(d)'
    BY <1>1, <1>2, <1>3, Shut
  <1>5. Whole'
    <2>1. Kept'
      BY <1>1, <1>2, <1>4, KeptStays DEF Whole
    <2> QED BY <1>1, <1>2, <1>3, <2>1, WholeStays
  <1>6. TypeOK'
    BY <1>1, <1>2, <1>4 DEF TypeOK, Connection
  <1> QED BY <1>4, <1>5, <1>6 DEF IInv

LEMMA TimerFiresIInv == ASSUME IInv, NEW c \in Clients, TimerFires(c) PROVE IInv'
  <1>1. /\ TypeOK /\ Whole /\ Part(c) /\ \A d \in Clients : Part(d)
        /\ UNCHANGED <<server, conn, up, down, tally, ghost>>
    BY DEF IInv, TimerFires
  <1>2. /\ client'[c] = [client[c] EXCEPT !.timer = FALSE,
                    !.ws = IF client[c].restoring = "no" /\ ~Live(c) THEN "connecting" ELSE @]
        /\ \A d \in Clients \ {c} : client'[d] = client[d]
        /\ client[c].ready
    BY <1>1 DEF TimerFires, TypeOK, Part, Wired
  <1>3. /\ client'[c].doc = client[c].doc /\ client'[c].store = client[c].store
        /\ client'[c].ready = client[c].ready /\ client'[c].restoring = client[c].restoring
        /\ client[c].restoring = "no" /\ ~Live(c) => client'[c].ws = "connecting"
        /\ ~(client[c].restoring = "no" /\ ~Live(c)) => client'[c].ws = client[c].ws
        /\ client'[c] \in Connection
    <2>1. client[c] \in Connection
      BY <1>1 DEF TypeOK, Connection
    <2> QED BY <1>2, <2>1 DEF Connection
  <1>4. TypeOK'
    BY <1>1, <1>3 DEF TypeOK, TimerFires, Connection
  <1>5. Sound' => Sound
    BY <1>1 DEF Sound
  <1>6. Whole'
    <2>1. Kept'
      BY <1>1, <1>2, <1>3, KeptStays DEF Whole
    <2> QED BY <1>1, <1>5, <2>1, WholeStays DEF Whole
  <1>7. Part(c)'
    <2>1. client[c].ws = "closed" => ~Live(c)
      BY DEF Live
    <2> QED BY <1>1, <1>2, <1>3, <2>1, Reopened
  <1>8. ASSUME NEW d \in Clients \ {c} PROVE Part(d)'
    BY <1>1, <1>2, <1>5, Others
  <1> QED BY <1>4, <1>6, <1>7, <1>8 DEF IInv

LEMMA OnlineIInv == ASSUME IInv, NEW c \in Clients, Online(c) PROVE IInv'
  <1>1. /\ TypeOK /\ Whole /\ Part(c) /\ \A d \in Clients : Part(d)
        /\ UNCHANGED <<server, conn, up, down, tally, ghost>>
    BY DEF IInv, Online
  <1>2. /\ client'[c] = [client[c] EXCEPT !.timer = FALSE, !.ws = "connecting"]
        /\ \A d \in Clients \ {c} : client'[d] = client[d]
        /\ client[c].ready /\ ~Live(c)
    BY <1>1 DEF Online, TypeOK
  <1>3. /\ client'[c].doc = client[c].doc /\ client'[c].store = client[c].store
        /\ client'[c].ready = client[c].ready /\ client'[c].restoring = client[c].restoring
        /\ client'[c].ws = "connecting" /\ client'[c] \in Connection
    <2>1. client[c] \in Connection
      BY <1>1 DEF TypeOK, Connection
    <2> DEFINE off == FALSE
    <2>2. off \in BOOLEAN /\ client'[c] = [client[c] EXCEPT !.timer = off, !.ws = "connecting"]
      BY <1>2
    <2> HIDE DEF off
    <2> QED BY <2>1, <2>2 DEF Connection
  <1>4. TypeOK'
    BY <1>1, <1>3 DEF TypeOK, Online, Connection
  <1>5. Sound' => Sound
    BY <1>1 DEF Sound
  <1>6. Whole'
    <2>1. Kept'
      BY <1>1, <1>2, <1>3, KeptStays DEF Whole
    <2> QED BY <1>1, <1>5, <2>1, WholeStays DEF Whole
  <1>7. Part(c)'
    <2>1. client[c].restoring = "no" \/ c \in ghost.cut
      BY <1>1, <1>2 DEF Part, Wired, Live
    <2> QED BY <1>1, <1>2, <1>3, <2>1, Reopened
  <1>8. ASSUME NEW d \in Clients \ {c} PROVE Part(d)'
    BY <1>1, <1>2, <1>5, Others
  <1> QED BY <1>4, <1>6, <1>7, <1>8 DEF IInv

LEMMA OpenedIInv == ASSUME IInv, NEW c \in Clients, Opened(c) PROVE IInv'
  <1> DEFINE hello == Step1(client[c].doc)
  <1>1. /\ TypeOK /\ Whole /\ Part(c) /\ \A d \in Clients : Part(d)
        /\ UNCHANGED <<server, conn, down, tally, ghost>>
        /\ client[c].ws = "connecting" /\ c \in conn
    BY DEF IInv, Opened
  <1>2. /\ client'[c] = [client[c] EXCEPT !.ws = "open"] /\ up'[c] = Append(up[c], hello)
        /\ \A d \in Clients \ {c} : client'[d] = client[d] /\ up'[d] = up[d]
    BY <1>1 DEF Opened, TypeOK
  <1>3. /\ client'[c].doc = client[c].doc /\ client'[c].store = client[c].store
        /\ client'[c].ready = client[c].ready /\ client'[c].restoring = client[c].restoring
        /\ client'[c].ws = "open" /\ client'[c] \in Connection
    <2>1. client[c] \in Connection
      BY <1>1 DEF TypeOK, Connection
    <2> QED BY <1>2, <2>1 DEF Connection
  <1>4. /\ hello \in Frame /\ hello.t = "step1" /\ hello.items = client[c].doc
        /\ up[c] = <<>> /\ down[c] # <<>> /\ down[c][1].t = "step1" /\ client[c].ready
        /\ up'[c] \in Seq(Frame) /\ down[c] \in Seq(Frame) /\ up[c] \in Seq(Frame)
    <2>1. hello \in Frame /\ hello.t = "step1" /\ hello.items = client[c].doc
      BY <1>1, Types DEF Frame, Step1
    <2> QED BY <1>1, <1>2, <2>1, Types, AppendAt DEF Part, Wired
  <1> HIDE DEF hello
  <1>5. TypeOK'
    BY <1>1, <1>3, <1>4 DEF TypeOK, Opened, Connection, hello
  <1>6. Sound' => Sound
    BY <1>1 DEF Sound
  <1>7. Whole'
    <2>1. Kept'
      BY <1>1, <1>2, <1>3, KeptStays DEF Whole
    <2> QED BY <1>1, <1>6, <2>1, WholeStays DEF Whole
  <1>8. Part(c)'
    <2>1. Wired(c)'
      BY <1>1, <1>3, <1>4 DEF Part, Wired, Live
    <2>2. Queued(c)'
      <3>1. Backed(up[c], client[c].doc)
        BY <1>4, NoFrames
      <3>2. Backed(Append(up[c], hello), client[c].doc)
        BY <1>4, <3>1, AppendBacked
      <3> QED BY <1>1, <1>2, <1>3, <3>2 DEF Part, Queued
    <2>3. Synced(c)'
      <3>1. ASSUME NEW x \in client[c].doc \ server.doc
            PROVE  Asks(down[c], x) \/ Restores(down[c])
        <4>1. 1 \in DOMAIN down[c]
          BY <1>4, TailAt
        <4>2. down[c][1].items \subseteq server.doc \/ Changed(down[c], 1)
          BY <1>1, <1>4, <4>1 DEF Part, Queued, Current, Content
        <4> QED BY <1>4, <4>1, <4>2 DEF Asks, Restores, Changed
      <3>2. ASSUME NEW x \in server.doc \ client[c].doc PROVE Asks(up'[c], x)
        <4>1. Asks(Append(up[c], hello), x)
          BY <1>4, AppendSays
        <4> QED BY <1>2, <4>1
      <3> QED BY <1>1, <1>3, <3>1, <3>2 DEF Synced, Reaches, Learns
    <2>4. Waits(c)'
      BY <1>3 DEF Waits
    <2>5. (Sound => Based(c))'
      <3>1. NoBase(up'[c])
        <4>1. NoBase(up[c])
          BY <1>4, EmptyBase
        <4>2. NoBase(Append(up[c], hello))
          BY <1>4, <4>1, AppendBase
        <4> QED BY <1>2, <4>2
      <3> QED BY <1>1, <1>3, <1>6, <3>1 DEF Part, Based, Mine
    <2> QED BY <2>1, <2>2, <2>3, <2>4, <2>5 DEF Part
  <1>9. ASSUME NEW d \in Clients \ {c} PROVE Part(d)'
    BY <1>1, <1>2, <1>6, Others
  <1> QED BY <1>5, <1>7, <1>8, <1>9 DEF IInv

LEMMA EditIInv == ASSUME IInv, NEW c \in Clients, NEW e \in Edits, Edit(c, e) PROVE IInv'
  <1>1. /\ TypeOK /\ Whole /\ Part(c) /\ \A d \in Clients : Part(d)
        /\ UNCHANGED <<server, conn, down, tally>> /\ client[c].ready
    BY DEF IInv, Edit
  <1>2. CASE client[c].restoring = "no"
    <2> DEFINE said == Update({e})
    <2>1. /\ client' = [client EXCEPT ![c].doc = @ \cup {e}, ![c].store = @ \cup {e}]
          /\ up' = IF client[c].ws = "open" THEN [up EXCEPT ![c] = Append(@, said)] ELSE up
          /\ ghost' = [ghost EXCEPT !.made = @ \cup {e}]
      BY <1>2 DEF Edit
    <2>2. /\ client'[c] = [client[c] EXCEPT !.doc = @ \cup {e}, !.store = @ \cup {e}]
          /\ up'[c] = IF client[c].ws = "open" THEN Append(up[c], said) ELSE up[c]
          /\ \A d \in Clients \ {c} : client'[d] = client[d] /\ up'[d] = up[d]
      BY <1>1, <2>1 DEF TypeOK
    <2>3. /\ client'[c].doc = client[c].doc \cup {e} /\ client'[c].store = client[c].store \cup {e}
          /\ client'[c].ready = client[c].ready /\ client'[c].restoring = client[c].restoring
          /\ client'[c].ws = client[c].ws /\ client'[c].timer = client[c].timer
          /\ client'[c].locked = client[c].locked
          /\ client'[c] \in Connection
      <3>1. client[c] \in Connection
        BY <1>1 DEF TypeOK, Connection
      <3> DEFINE more == client[c].doc \cup {e}
                 kept == client[c].store \cup {e}
      <3>2. more \in SUBSET Item /\ kept \in SUBSET Item
        BY <3>1 DEF Item, Connection
      <3>3. client'[c] = [client[c] EXCEPT !.doc = more, !.store = kept]
        BY <2>2
      <3>4. more = client[c].doc \cup {e} /\ kept = client[c].store \cup {e}
        OBVIOUS
      <3> HIDE DEF more, kept
      <3> QED BY <3>1, <3>2, <3>3, <3>4 DEF Connection
    <2>4. /\ said \in Frame /\ said.t = "update" /\ said.items = {e}
          /\ up[c] \in Seq(Frame) /\ down[c] \in Seq(Frame) /\ up'[c] \in Seq(Frame)
      <3>1. said \in Frame /\ said.t = "update" /\ said.items = {e}
        BY DEF Frame, Update, Item
      <3>2. up[c] \in Seq(Frame) /\ down[c] \in Seq(Frame)
        BY <1>1, Types
      <3> HIDE DEF said
      <3>3. Append(up[c], said) \in Seq(Frame)
        BY <3>1, <3>2, AppendAt
      <3> QED BY <2>2, <3>1, <3>2, <3>3
    <2> HIDE DEF said
    <2>5. TypeOK'
      <3>1. up' \in [Clients -> Seq(Frame)]
        BY <1>1, <2>1, <2>2, <2>4 DEF TypeOK
      <3>2. client' \in [Clients -> Connection]
        BY <1>1, <2>1, <2>3 DEF TypeOK, Connection
      <3>3. ghost' \in [made : SUBSET Edits, replaced : SUBSET Edits, dropped : SUBSET Edits,
                        missed : SUBSET Clients, cut : SUBSET Clients, again : SUBSET Clients]
        BY <1>1, <2>1 DEF TypeOK
      <3> QED BY <1>1, <3>1, <3>2, <3>3 DEF TypeOK, Connection
    <2>6. /\ ghost'.made = ghost.made \cup {e} /\ ghost'.dropped = ghost.dropped
          /\ ghost'.missed = ghost.missed /\ ghost'.cut = ghost.cut
          /\ Sound' => Sound
      BY <1>1, <2>1 DEF Sound, TypeOK
    <2>7. Whole'
      <3>1. Kept'
        BY <1>1, <2>2, <2>3, <2>6 DEF Whole, Kept
      <3> QED BY <1>1, <2>6, <3>1, WholeStays DEF Whole
    <2>8. Part(c)'
      <3>1. Wired(c)'
        BY <1>1, <2>2, <2>3, <2>6 DEF Part, Wired, Live
      <3>2. Queued(c)'
        <4>1. Backed(up[c], client'[c].doc)
          BY <1>1, <1>2, <2>3, Grows DEF Part, Queued
        <4>2. Backed(up'[c], client'[c].doc)
          BY <2>2, <2>3, <2>4, <4>1, AppendBacked
        <4> QED BY <1>1, <4>2 DEF Part, Queued
      <3>3. Synced(c)'
        <4>1. /\ \A x : Sends(up[c], x) => Sends(up'[c], x)
              /\ \A x : Asks(up[c], x) => Asks(up'[c], x)
              /\ client[c].ws = "open" => Sends(up'[c], e)
          BY <2>2, <2>4, AppendSays
        <4> QED BY <1>1, <2>3, <4>1 DEF Part, Synced, Reaches, Learns
      <3>4. Waits(c)'
        BY <1>1, <2>3, <2>6 DEF Part, Waits
      <3>5. (Sound => Based(c))'
        <4>1. ASSUME Sound PROVE NoBase(up'[c])
          BY <1>1, <2>2, <2>4, <4>1, AppendBase DEF Part, Based
        <4>2. ASSUME Sound PROVE Knows(down[c], client'[c].doc)
          BY <1>1, <2>3, <4>2 DEF Part, Based, Knows
        <4> QED BY <1>1, <2>3, <2>6, <4>1, <4>2 DEF Part, Based, Mine
      <3> QED BY <3>1, <3>2, <3>3, <3>4, <3>5 DEF Part
    <2>9. ASSUME NEW d \in Clients \ {c} PROVE Part(d)'
      BY <1>1, <2>2, <2>6, Others
    <2> QED BY <2>5, <2>7, <2>8, <2>9 DEF IInv
  <1>3. CASE client[c].restoring # "no"
    <2>1. /\ client' = [client EXCEPT ![c].doc = @ \cup {e}] /\ up' = up
          /\ ghost' = [ghost EXCEPT !.made = @ \cup {e}, !.dropped = @ \cup {e}]
      BY <1>3 DEF Edit
    <2>2. /\ client'[c] = [client[c] EXCEPT !.doc = @ \cup {e}]
          /\ \A d \in Clients \ {c} : client'[d] = client[d]
      BY <1>1, <2>1 DEF TypeOK
    <2>3. /\ client'[c].doc = client[c].doc \cup {e} /\ client'[c].store = client[c].store
          /\ client'[c].ready = client[c].ready /\ client'[c].restoring = client[c].restoring
          /\ client'[c].ws = client[c].ws /\ client'[c].timer = client[c].timer
          /\ client'[c].locked = client[c].locked
          /\ client'[c] \in Connection
      <3>1. client[c] \in Connection
        BY <1>1 DEF TypeOK, Connection
      <3> QED BY <2>2, <3>1 DEF Connection, Item
    <2>5. TypeOK'
      <3>2. client' \in [Clients -> Connection]
        BY <1>1, <2>1, <2>3 DEF TypeOK, Connection
      <3>3. ghost' \in [made : SUBSET Edits, replaced : SUBSET Edits, dropped : SUBSET Edits,
                        missed : SUBSET Clients, cut : SUBSET Clients, again : SUBSET Clients]
        BY <1>1, <2>1 DEF TypeOK
      <3> QED BY <1>1, <2>1, <3>2, <3>3 DEF TypeOK, Connection
    <2>6. /\ ghost'.made = ghost.made \cup {e} /\ ghost'.dropped = ghost.dropped \cup {e}
          /\ ghost'.missed = ghost.missed /\ ghost'.cut = ghost.cut
          /\ Sound' => Sound
      BY <1>1, <2>1 DEF Sound, TypeOK
    <2>7. Whole'
      <3>1. Kept'
        BY <1>1, <2>2, <2>3, <2>6, KeptStays DEF Whole
      <3> QED BY <1>1, <2>6, <3>1, WholeStays DEF Whole
    <2>8. Part(c)'
      <3>1. Wired(c)'
        BY <1>1, <2>1, <2>3, <2>6 DEF Part, Wired, Live
      <3>2. Queued(c)'
        BY <1>1, <1>3, <2>3 DEF Part, Queued
      <3>3. Synced(c)'
        BY <1>3, <2>3 DEF Synced
      <3>4. Waits(c)'
        BY <1>1, <2>3, <2>6 DEF Part, Waits
      <3>5. (Sound => Based(c))'
        <4>2. ASSUME Sound PROVE Knows(down[c], client'[c].doc)
          BY <1>1, <2>3, <4>2 DEF Part, Based, Knows
        <4> QED BY <1>1, <1>3, <2>1, <2>3, <2>6, <4>2 DEF Part, Based, Mine
      <3> QED BY <3>1, <3>2, <3>3, <3>4, <3>5 DEF Part
    <2>9. ASSUME NEW d \in Clients \ {c} PROVE Part(d)'
      BY <1>1, <2>1, <2>2, <2>6, Others
    <2> QED BY <2>5, <2>7, <2>8, <2>9 DEF IInv
  <1> QED BY <1>2, <1>3

\* Behind its head a client's channel has no state vector.
LEMMA NoVectorBehind ==
  ASSUME NEW c \in Clients, TypeOK, Wired(c), down[c] # <<>>
  PROVE  \A i \in DOMAIN Tail(down[c]) : Tail(down[c])[i].t # "step1"
  <1>1. /\ \A i \in DOMAIN Tail(down[c]) : Tail(down[c])[i] = down[c][i + 1]
        /\ \A i \in DOMAIN Tail(down[c]) : i + 1 \in DOMAIN down[c] /\ i + 1 # 1
    BY Types, TailAt
  <1> QED BY <1>1 DEF Wired

LEMMA HearVector ==
  ASSUME IInv, NEW c \in Clients, Hear(c), Head(down[c]).t = "step1"
  PROVE  IInv'
  <1> DEFINE f == Head(down[c])
             said == Step2(client[c].doc \ f.items)
  <1>1. /\ TypeOK /\ Whole /\ Part(c) /\ (\A d \in Clients : Part(d))
        /\ UNCHANGED <<server, conn, client, tally, ghost>>
        /\ client[c].ws = "open" /\ down[c] # <<>>
        /\ up' = [up EXCEPT ![c] = Append(@, said)] /\ down' = [down EXCEPT ![c] = Tail(@)]
    BY DEF IInv, Hear, Missing
  <1>2. /\ up'[c] = Append(up[c], said) /\ down'[c] = Tail(down[c])
        /\ \A d \in Clients \ {c} : up'[d] = up[d] /\ down'[d] = down[d]
    BY <1>1 DEF TypeOK
  <1>3. /\ f \in Frame /\ f.t = "step1" /\ said \in Frame /\ said.t = "step2"
        /\ said.items = client[c].doc \ f.items
        /\ up[c] \in Seq(Frame) /\ down[c] \in Seq(Frame)
        /\ up'[c] \in Seq(Frame) /\ down'[c] \in Seq(Frame)
    <2>1. f \in Frame /\ f.t = "step1" /\ down[c] \in Seq(Frame)
      BY <1>1, Types, TailAt
    <2>2. said \in Frame /\ said.t = "step2" /\ said.items = client[c].doc \ f.items
      BY <1>1, Types DEF Frame, Step2
    <2> HIDE DEF f, said
    <2>3. up[c] \in Seq(Frame) /\ Append(up[c], said) \in Seq(Frame)
      BY <1>1, <2>2, Types, AppendAt
    <2>4. Tail(down[c]) \in Seq(Frame)
      BY <1>1, <2>1, TailAt
    <2> QED BY <1>2, <2>1, <2>2, <2>3, <2>4
  <1> HIDE DEF f, said
  <1>4. TypeOK'
    BY <1>1, <1>2, <1>3 DEF TypeOK
  <1>5. Sound' => Sound
    BY <1>1 DEF Sound
  <1>6. Whole'
    <2>1. Kept'
      BY <1>1, KeptStays DEF Whole
    <2> QED BY <1>1, <1>5, <2>1, WholeStays DEF Whole
  <1>7. Part(c)'
    <2>1. Wired(c)'
      BY <1>1, <1>2, NoVectorBehind DEF Part, Wired, Live
    <2>2. Queued(c)'
      <3>1. c \in conn => Current(down'[c], server.doc)
        BY <1>1, <1>2, <1>3, TailCurrent DEF Part, Queued
      <3>2. client[c].restoring = "no" => Backed(up'[c], client[c].doc)
        <4>1. said.items \subseteq client[c].doc
          BY <1>3
        <4> QED BY <1>1, <1>2, <1>3, <4>1, AppendBacked DEF Part, Queued
      <3> QED BY <1>1, <3>1, <3>2 DEF Queued
    <2>3. Synced(c)'
      <3>1. /\ \A x : Sends(up[c], x) => Sends(up'[c], x)
            /\ \A x : Asks(up[c], x) => Asks(up'[c], x)
            /\ \A x \in client[c].doc : x \notin f.items => Sends(up'[c], x)
        BY <1>2, <1>3, AppendSays
      <3>2. /\ \A x : Sends(down[c], x) => Sends(down'[c], x)
            /\ \A x : Asks(down[c], x) => Asks(down'[c], x) \/ x \notin f.items
            /\ Restores(down[c]) => Restores(down'[c])
        BY <1>1, <1>2, <1>3, TailSays DEF f
      <3> QED BY <1>1, <3>1, <3>2 DEF Part, Synced, Reaches, Learns
    <2>4. Waits(c)'
      BY <1>1 DEF Part, Waits
    <2>5. (Sound => Based(c))'
      <3> SUFFICES ASSUME Sound PROVE Based(c)'
        BY <1>5
      <3>1. NoBase(up'[c])
        <4>1. said.items \subseteq Edits
          BY <1>1, <1>3, TailBase DEF Part, Based, f
        <4> QED BY <1>1, <1>2, <1>3, <4>1, AppendBase DEF Part, Based
      <3>2. Current(down'[c], Mine) /\ Knows(down'[c], client[c].doc)
        BY <1>1, <1>2, <1>3, TailCurrent, TailBase DEF Part, Based
      <3>3. Restores(down[c]) => Restores(down'[c])
        BY <1>1, <1>2, <1>3, TailSays DEF f
      <3>4. \A i \in DOMAIN down'[c] : down'[c][i].t # "step1"
        BY <1>1, <1>2, NoVectorBehind DEF Part
      <3> QED BY <1>1, <3>1, <3>2, <3>3, <3>4 DEF Part, Based, Mine
    <2> QED BY <2>1, <2>2, <2>3, <2>4, <2>5 DEF Part
  <1>8. ASSUME NEW d \in Clients \ {c} PROVE Part(d)'
    BY <1>1, <1>2, <1>5, Others
  <1> QED BY <1>4, <1>6, <1>7, <1>8 DEF IInv

LEMMA HearContent ==
  ASSUME IInv, NEW c \in Clients, Hear(c), Head(down[c]).t \in {"step2", "update"}
  PROVE  IInv'
  <1> DEFINE f == Head(down[c])
  <1>1. /\ TypeOK /\ Whole /\ Part(c) /\ (\A d \in Clients : Part(d))
        /\ UNCHANGED <<server, conn, up, tally, ghost>>
        /\ client[c].ws = "open" /\ down[c] # <<>>
        /\ client' = [client EXCEPT ![c] = Merged(c, f.items)]
        /\ down' = [down EXCEPT ![c] = Tail(@)]
    BY DEF IInv, Hear
  <1>2. /\ client'[c] = Merged(c, f.items) /\ down'[c] = Tail(down[c])
        /\ \A d \in Clients \ {c} : client'[d] = client[d] /\ down'[d] = down[d]
    BY <1>1 DEF TypeOK
  <1>3. /\ f \in Frame /\ f.t \in {"step2", "update"}
        /\ up[c] \in Seq(Frame) /\ down[c] \in Seq(Frame) /\ down'[c] \in Seq(Frame)
    BY <1>1, <1>2, Types, TailAt
  <1>4. /\ client'[c].doc = client[c].doc \cup f.items
        /\ client'[c].store \subseteq client[c].store \cup f.items
        /\ client[c].store \subseteq client'[c].store
        /\ client'[c].ready = client[c].ready /\ client'[c].restoring = client[c].restoring
        /\ client'[c].ws = client[c].ws /\ client'[c].timer = client[c].timer
        /\ client'[c].locked = client[c].locked
        /\ client'[c] \in Connection
    <2>1. client[c] \in Connection
      BY <1>1 DEF TypeOK, Connection
    <2>2. f.items \subseteq Item
      BY <1>3 DEF Frame
    <2> HIDE DEF f
    <2> DEFINE more == client[c].doc \cup f.items
               kept == IF client[c].restoring = "no" THEN client[c].store \cup f.items
                       ELSE client[c].store
    <2>3. more \in SUBSET Item /\ kept \in SUBSET Item
      BY <2>1, <2>2 DEF Connection
    <2>4. client'[c] = [client[c] EXCEPT !.doc = more, !.store = kept]
      BY <1>2 DEF Merged
    <2>5. /\ more = client[c].doc \cup f.items
          /\ kept \subseteq client[c].store \cup f.items /\ client[c].store \subseteq kept
      OBVIOUS
    <2> HIDE DEF more, kept
    <2> QED BY <2>1, <2>3, <2>4, <2>5 DEF Connection
  <1> HIDE DEF f
  <1>5. TypeOK'
    BY <1>1, <1>2, <1>3, <1>4 DEF TypeOK, Connection
  <1>6. Sound' => Sound
    BY <1>1 DEF Sound
  <1>7. Whole'
    <2>1. Kept'
      BY <1>1, <1>2, <1>4, KeptStays DEF Whole
    <2> QED BY <1>1, <1>6, <2>1, WholeStays DEF Whole
  <1>8. Part(c)'
    <2>1. Wired(c)'
      BY <1>1, <1>2, <1>4, NoVectorBehind DEF Part, Wired, Live
    <2>2. Queued(c)'
      <3>1. c \in conn => Current(down'[c], server.doc)
        BY <1>1, <1>2, <1>3, TailCurrent DEF Part, Queued
      <3>2. client[c].restoring = "no" => Backed(up[c], client'[c].doc)
        <4>1. client[c].doc \subseteq client'[c].doc
          BY <1>4
        <4>2. client[c].restoring = "no" => Backed(up[c], client[c].doc)
          BY <1>1 DEF Part, Queued
        <4> QED BY <4>1, <4>2, Grows
      <3> QED BY <1>1, <1>4, <3>1, <3>2 DEF Queued
    <2>3. Synced(c)'
      <3>1. /\ \A x : Sends(down[c], x) => Sends(down'[c], x) \/ x \in f.items
            /\ \A x : Asks(down[c], x) => Asks(down'[c], x)
            /\ Restores(down[c]) => Restores(down'[c])
        BY <1>1, <1>2, <1>3, TailSays DEF f
      <3>2. c \in conn => f.items \subseteq server.doc \/ Restores(down'[c])
        BY <1>1, <1>2, <1>3, TailCurrent DEF Part, Queued, Content, f
      <3> QED BY <1>1, <1>4, <3>1, <3>2 DEF Part, Synced, Reaches, Learns
    <2>4. Waits(c)'
      BY <1>1, <1>4 DEF Part, Waits
    <2>5. (Sound => Based(c))'
      <3> SUFFICES ASSUME Sound PROVE Based(c)'
        BY <1>6
      <3>1. /\ Current(down'[c], Mine)
            /\ f.items \subseteq Mine \/ Restores(down'[c])
        BY <1>1, <1>2, <1>3, TailCurrent DEF Part, Based, Content, f
      <3>2. \A i \in DOMAIN down'[c] : down'[c][i].t # "step1"
        BY <1>1, <1>2, NoVectorBehind DEF Part
      <3>3. Restores(down[c]) => Restores(down'[c])
        BY <1>1, <1>2, <1>3, TailSays DEF f
      <3> QED BY <1>1, <1>4, <3>1, <3>2, <3>3 DEF Part, Based, Mine, Knows
    <2> QED BY <2>1, <2>2, <2>3, <2>4, <2>5 DEF Part
  <1>9. ASSUME NEW d \in Clients \ {c} PROVE Part(d)'
    BY <1>1, <1>2, <1>6, Others
  <1> QED BY <1>5, <1>7, <1>8, <1>9 DEF IInv

LEMMA HearRestore ==
  ASSUME IInv, NEW c \in Clients, Hear(c), Head(down[c]).t = "restore"
  PROVE  IInv'
  <1>1. /\ TypeOK /\ Whole /\ Part(c) /\ (\A d \in Clients : Part(d))
        /\ UNCHANGED <<server, conn, up, tally, ghost>>
        /\ client[c].ws = "open" /\ down[c] # <<>>
        /\ client' = [client EXCEPT ![c].restoring = IF @ = "no" THEN "closing" ELSE @]
        /\ down' = [down EXCEPT ![c] = Tail(@)]
    BY DEF IInv, Hear
  <1>2. /\ client'[c] = [client[c] EXCEPT !.restoring = IF @ = "no" THEN "closing" ELSE @]
        /\ down'[c] = Tail(down[c])
        /\ \A d \in Clients \ {c} : client'[d] = client[d] /\ down'[d] = down[d]
    BY <1>1 DEF TypeOK
  <1>3. /\ up[c] \in Seq(Frame) /\ down[c] \in Seq(Frame) /\ down'[c] \in Seq(Frame)
    BY <1>1, <1>2, Types, TailAt
  <1>4. /\ client'[c].doc = client[c].doc /\ client'[c].store = client[c].store
        /\ client'[c].ready = client[c].ready /\ client'[c].restoring # "no"
        /\ client'[c].ws = client[c].ws /\ client'[c].timer = client[c].timer
        /\ client'[c].locked = client[c].locked
        /\ client'[c] \in Connection
    <2>1. client[c] \in Connection
      BY <1>1 DEF TypeOK, Connection
    <2> QED BY <1>2, <2>1 DEF Connection
  <1>5. TypeOK'
    BY <1>1, <1>2, <1>3, <1>4 DEF TypeOK, Connection
  <1>6. Sound' => Sound
    BY <1>1 DEF Sound
  <1>7. Whole'
    <2>1. Kept'
      BY <1>1, <1>2, <1>4, KeptStays DEF Whole
    <2> QED BY <1>1, <1>6, <2>1, WholeStays DEF Whole
  <1>8. Part(c)'
    <2>1. Wired(c)'
      BY <1>1, <1>2, <1>4, NoVectorBehind DEF Part, Wired, Live
    <2>2. Queued(c)'
      BY <1>1, <1>2, <1>3, <1>4, TailCurrent DEF Part, Queued
    <2>3. Synced(c)' /\ Waits(c)'
      BY <1>1, <1>4 DEF Part, Synced, Waits
    <2>5. (Sound => Based(c))'
      <3>1. Sound => Current(down'[c], Mine) /\ Knows(down'[c], client[c].doc)
        BY <1>1, <1>2, <1>3, TailCurrent, TailBase DEF Part, Based
      <3>2. \A i \in DOMAIN down'[c] : down'[c][i].t # "step1"
        <4>1. Wired(c)
          BY <1>1 DEF Part
        <4>2. \A i \in DOMAIN Tail(down[c]) : Tail(down[c])[i].t # "step1"
          BY <1>1, <4>1, NoVectorBehind
        <4> QED BY <1>2, <4>2
      <3> QED BY <1>1, <1>4, <1>6, <3>1, <3>2 DEF Part, Based, Mine
    <2> QED BY <2>1, <2>2, <2>3, <2>5 DEF Part
  <1>9. ASSUME NEW d \in Clients \ {c} PROVE Part(d)'
    BY <1>1, <1>2, <1>6, Others
  <1> QED BY <1>5, <1>7, <1>8, <1>9 DEF IInv

LEMMA HearClose ==
  ASSUME IInv, NEW c \in Clients, Hear(c), Head(down[c]).t = "close"
  PROVE  IInv'
  <1>1. /\ TypeOK /\ Whole /\ Live(c) /\ CloseSocket({c}, "published") /\ ghost' = Lost({c})
        /\ server' = server /\ tally' = tally
    BY DEF IInv, Hear, Live
  <1>2. /\ ghost'.made = ghost.made /\ ghost'.dropped = ghost.dropped
        /\ ghost'.missed = ghost.missed \cup Unheard({c})
        /\ ghost'.cut = ghost.cut \cup {d \in {c} : client[d].restoring # "no"}
        /\ ghost' \in [made : SUBSET Edits, replaced : SUBSET Edits, dropped : SUBSET Edits,
                       missed : SUBSET Clients, cut : SUBSET Clients, again : SUBSET Clients]
    BY <1>1 DEF TypeOK, Lost, Unheard
  <1>3. /\ Sound' => Sound /\ client[c].restoring = "no" /\ ~Restores(down[c])
        /\ ghost'.cut \subseteq ghost'.missed
    BY <1>1, <1>2 DEF Sound, Unheard, Restores, Whole
  <1>4. /\ conn' \in SUBSET Clients /\ up' \in [Clients -> Seq(Frame)]
        /\ down' \in [Clients -> Seq(Frame)] /\ client' \in [Clients -> Connection]
        /\ \A d \in Clients : client'[d].store = client[d].store
        /\ \A d \in Clients : Part(d)'
    BY <1>1, <1>2, <1>3, Shut
  <1>5. Whole'
    <2>1. Kept'
      BY <1>1, <1>2, <1>4, KeptStays DEF Whole
    <2> QED BY <1>1, <1>2, <1>3, <2>1, WholeStays
  <1>6. TypeOK'
    BY <1>1, <1>2, <1>4 DEF TypeOK, Connection
  <1> QED BY <1>4, <1>5, <1>6 DEF IInv

LEMMA HearIInv == ASSUME IInv, NEW c \in Clients, Hear(c) PROVE IInv'
  <1>1. Head(down[c]).t \in {"step1", "step2", "update", "restore", "close"}
    BY Zenon DEF Hear
  <1> QED BY <1>1, HearVector, HearContent, HearRestore, HearClose

LEMMA StoreClosedIInv == ASSUME IInv, NEW c \in Clients, StoreClosed(c) PROVE IInv'
  <1>1. /\ TypeOK /\ Whole /\ Part(c) /\ (\A d \in Clients : Part(d))
        /\ UNCHANGED <<server, conn, up, down, tally, ghost>>
        /\ client[c].restoring = "closing"
        /\ client' = [client EXCEPT ![c].restoring = "clearing"]
    BY DEF IInv, StoreClosed
  <1>2. /\ client'[c] = [client[c] EXCEPT !.restoring = "clearing"]
        /\ \A d \in Clients \ {c} : client'[d] = client[d]
    BY <1>1 DEF TypeOK
  <1>3. /\ client'[c].doc = client[c].doc /\ client'[c].store = client[c].store
        /\ client'[c].ready = client[c].ready /\ client'[c].restoring = "clearing"
        /\ client'[c].ws = client[c].ws /\ client'[c].timer = client[c].timer
        /\ client'[c].locked = client[c].locked /\ client'[c] \in Connection
    <2>1. client[c] \in Connection
      BY <1>1 DEF TypeOK, Connection
    <2> QED BY <1>2, <2>1 DEF Connection
  <1>4. TypeOK'
    BY <1>1, <1>3 DEF TypeOK, Connection
  <1>5. Sound' => Sound
    BY <1>1 DEF Sound
  <1>6. Whole'
    <2>1. Kept'
      BY <1>1, <1>2, <1>3, KeptStays DEF Whole
    <2> QED BY <1>1, <1>5, <2>1, WholeStays DEF Whole
  <1>7. Part(c)'
    <2>1. Wired(c)'
      BY <1>1, <1>3 DEF Part, Wired, Live
    <2>2. Queued(c)' /\ Synced(c)' /\ Waits(c)'
      BY <1>1, <1>3 DEF Part, Queued, Synced, Waits
    <2>3. (Sound => Based(c))'
      BY <1>1, <1>3, <1>5 DEF Part, Based, Mine
    <2> QED BY <2>1, <2>2, <2>3 DEF Part
  <1>8. ASSUME NEW d \in Clients \ {c} PROVE Part(d)'
    BY <1>1, <1>2, <1>5, Others
  <1> QED BY <1>4, <1>6, <1>7, <1>8 DEF IInv

LEMMA RebuildIInv == ASSUME IInv, NEW c \in Clients, Rebuild(c) PROVE IInv'
  <1> DEFINE hello == Step1({})
  <1>1. /\ TypeOK /\ Whole /\ Part(c) /\ (\A d \in Clients : Part(d))
        /\ UNCHANGED <<server, conn, down, tally>>
        /\ client[c].restoring = "clearing"
        /\ client' = [client EXCEPT ![c] = Cleared(c)]
        /\ up' = IF client[c].ws = "open" THEN [up EXCEPT ![c] = Append(@, hello)] ELSE up
        /\ ghost' = [ghost EXCEPT !.dropped = @ \cup (client[c].doc \cap Edits)]
    BY DEF IInv, Rebuild
  <1>2. /\ client'[c] = Cleared(c)
        /\ up'[c] = IF client[c].ws = "open" THEN Append(up[c], hello) ELSE up[c]
        /\ \A d \in Clients \ {c} : client'[d] = client[d] /\ up'[d] = up[d]
    BY <1>1 DEF TypeOK
  <1>3. /\ client'[c].doc = {} /\ client'[c].store = {} /\ client'[c].restoring = "no"
        /\ client'[c].ready = client[c].ready /\ client'[c].ws = client[c].ws
        /\ client'[c].timer = client[c].timer /\ client'[c].locked = client[c].locked
        /\ client'[c] \in Connection
    <2>1. client[c] \in Connection
      BY <1>1 DEF TypeOK, Connection
    <2> QED BY <1>2, <2>1 DEF Connection, Cleared
  <1>4. /\ hello \in Frame /\ hello.t = "step1" /\ hello.items = {}
        /\ up[c] \in Seq(Frame) /\ down[c] \in Seq(Frame) /\ up'[c] \in Seq(Frame)
        /\ client[c].ready
    <2>1. hello \in Frame /\ hello.t = "step1" /\ hello.items = {}
      BY DEF Frame, Step1
    <2>2. client[c].ready
      BY <1>1 DEF Part, Wired
    <2> QED BY <1>1, <1>2, <2>1, <2>2, Types, AppendAt
  <1> HIDE DEF hello
  <1>5. /\ ghost'.made = ghost.made /\ ghost'.missed = ghost.missed /\ ghost'.cut = ghost.cut
        /\ ghost'.dropped = ghost.dropped \cup (client[c].doc \cap Edits)
        /\ Sound' => Sound
    BY <1>1 DEF TypeOK, Sound
  <1>6. TypeOK'
    <2>1. up' \in [Clients -> Seq(Frame)] /\ client' \in [Clients -> Connection]
      BY <1>1, <1>2, <1>3, <1>4 DEF TypeOK, Connection
    <2>2. ghost' \in [made : SUBSET Edits, replaced : SUBSET Edits, dropped : SUBSET Edits,
                      missed : SUBSET Clients, cut : SUBSET Clients, again : SUBSET Clients]
      BY <1>1 DEF TypeOK
    <2> QED BY <1>1, <2>1, <2>2 DEF TypeOK, Connection
  <1>7. Whole'
    <2>1. Kept'
      <3>1. ASSUME NEW e \in ghost'.made \ ghost'.dropped
            PROVE  \E d \in Clients : e \in client'[d].store
        <4>1. PICK d \in Clients : e \in client[d].store
          BY <1>1, <1>5 DEF Whole, Kept
        <4>2. e \notin client[c].store
          BY <1>1, <1>4, <1>5 DEF Part, Wired, TypeOK
        <4> QED BY <1>2, <4>1, <4>2
      <3> QED BY <3>1 DEF Kept
    <2> QED BY <1>1, <1>5, <2>1, WholeStays DEF Whole
  <1>8. Part(c)'
    <2>1. Wired(c)'
      BY <1>1, <1>2, <1>3, <1>4 DEF Part, Wired, Live
    <2>2. Queued(c)'
      <3>1. Backed(up'[c], {})
        <4>1. CASE client[c].ws = "open"
          BY <1>2, <1>4, <4>1, AppendBacked
        <4>2. CASE client[c].ws # "open"
          BY <1>1, <1>2, <4>2, NoFrames DEF Part, Wired
        <4> QED BY <4>1, <4>2
      <3> QED BY <1>1, <1>3, <3>1 DEF Part, Queued
    <2>3. Synced(c)'
      <3>1. client[c].ws = "open" => \A x : Asks(up'[c], x)
        BY <1>2, <1>4, AppendSays
      <3> QED BY <1>1, <1>3, <3>1 DEF Synced, Reaches, Learns
    <2>4. Waits(c)'
      BY <1>1, <1>3, <1>5 DEF Part, Waits
    <2>5. (Sound => Based(c))'
      <3>1. Sound => NoBase(up'[c])
        BY <1>1, <1>2, <1>4, AppendBase DEF Part, Based
      <3>2. Knows(down[c], {})
        BY DEF Knows
      <3> QED BY <1>1, <1>3, <1>5, <3>1, <3>2 DEF Part, Based, Mine
    <2> QED BY <2>1, <2>2, <2>3, <2>4, <2>5 DEF Part
  <1>9. ASSUME NEW d \in Clients \ {c} PROVE Part(d)'
    BY <1>1, <1>2, <1>5, Others
  <1> QED BY <1>6, <1>7, <1>8, <1>9 DEF IInv

LEMMA RebuildUnclearedIInv ==
  ASSUME IInv, NEW c \in Clients, RebuildUncleared(c) PROVE IInv'
  <1> DEFINE hello == Step1({})
             said == Update(client[c].store)
  <1>1. /\ TypeOK /\ Whole /\ Part(c) /\ (\A d \in Clients : Part(d))
        /\ UNCHANGED <<server, conn, down>>
        /\ client[c].restoring = "clearing"
        /\ client' = [client EXCEPT ![c].doc = client[c].store, ![c].restoring = "no"]
        /\ up' = IF client[c].ws = "open" THEN [up EXCEPT ![c] = @ \o <<hello, said>>] ELSE up
        /\ ghost' = [ghost EXCEPT !.missed = @ \cup {c}]
        /\ tally' = [tally EXCEPT !.mishaps = @ + 1]
    BY DEF IInv, RebuildUncleared, Mishap
  <1>2. /\ hello \in Frame /\ hello.t = "step1" /\ hello.items = {}
        /\ said \in Frame /\ said.t = "update" /\ said.items = client[c].store
        /\ up[c] \in Seq(Frame) /\ down[c] \in Seq(Frame)
        /\ client[c].ready
    <2>1. hello \in Frame /\ hello.t = "step1" /\ hello.items = {}
      BY DEF Frame, Step1
    <2>2. said \in Frame /\ said.t = "update" /\ said.items = client[c].store
      BY <1>1, Types DEF Frame, Update
    <2>3. client[c].ready
      BY <1>1 DEF Part, Wired
    <2> QED BY <1>1, <2>1, <2>2, <2>3, Types
  <1> HIDE DEF hello, said
  <1>3. /\ client'[c] = [client[c] EXCEPT !.doc = client[c].store, !.restoring = "no"]
        /\ up'[c] = IF client[c].ws = "open" THEN Append(Append(up[c], hello), said) ELSE up[c]
        /\ \A d \in Clients \ {c} : client'[d] = client[d] /\ up'[d] = up[d]
    <2>1. up[c] \o <<hello, said>> = Append(Append(up[c], hello), said)
      BY <1>2
    <2> QED BY <1>1, <2>1 DEF TypeOK
  <1>4. /\ client'[c].doc = client[c].store /\ client'[c].store = client[c].store
        /\ client'[c].restoring = "no"
        /\ client'[c].ready = client[c].ready /\ client'[c].ws = client[c].ws
        /\ client'[c].timer = client[c].timer /\ client'[c].locked = client[c].locked
        /\ client'[c] \in Connection
    <2>1. client[c] \in Connection
      BY <1>1 DEF TypeOK, Connection
    <2> QED BY <1>3, <2>1 DEF Connection
  <1>5. /\ ghost'.made = ghost.made /\ ghost'.missed = ghost.missed \cup {c}
        /\ ghost'.cut = ghost.cut /\ ghost'.dropped = ghost.dropped
        /\ tally'.restores = tally.restores
        /\ ~Sound'
    BY <1>1 DEF TypeOK, Sound
  <1>6. /\ Append(up[c], hello) \in Seq(Frame)
        /\ Append(Append(up[c], hello), said) \in Seq(Frame)
    BY <1>2, AppendAt
  <1>7. TypeOK'
    <2>1. up' \in [Clients -> Seq(Frame)]
      BY <1>1, <1>3, <1>6 DEF TypeOK
    <2>2. ghost' \in [made : SUBSET Edits, replaced : SUBSET Edits, dropped : SUBSET Edits,
                      missed : SUBSET Clients, cut : SUBSET Clients, again : SUBSET Clients]
      BY <1>1 DEF TypeOK
    <2>3. client' \in [Clients -> Connection]
      BY <1>1, <1>4 DEF TypeOK, Connection
    <2> QED BY <1>1, <2>1, <2>2, <2>3 DEF TypeOK, Connection
  <1>8. Whole'
    <2>1. Kept'
      BY <1>1, <1>3, <1>4, <1>5, KeptStays DEF Whole
    <2> QED BY <1>1, <1>5, <2>1, WholeStays DEF Whole
  <1>9. Part(c)'
    <2>1. Wired(c)'
      BY <1>1, <1>2, <1>3, <1>4 DEF Part, Wired, Live
    <2>2. Queued(c)'
      <3>1. Backed(up'[c], client'[c].doc)
        <4>1. CASE client[c].ws = "open"
          <5>1. Backed(Append(up[c], hello), client'[c].doc)
            BY <1>2, AppendBacked
          <5>2. said.items \subseteq client'[c].doc
            BY <1>2, <1>4
          <5>3. Backed(Append(Append(up[c], hello), said), client'[c].doc)
            BY <1>2, <1>6, <5>1, <5>2, AppendBacked
          <5> QED BY <1>3, <4>1, <5>3
        <4>2. CASE client[c].ws # "open"
          BY <1>1, <1>3, <4>2, NoFrames DEF Part, Wired
        <4> QED BY <4>1, <4>2
      <3> QED BY <1>1, <3>1 DEF Part, Queued
    <2>3. Synced(c)'
      <3>1. ASSUME client[c].ws = "open", NEW x
            PROVE  Asks(up'[c], x) /\ (x \in client[c].store => Sends(up'[c], x))
        <4>1. Asks(Append(up[c], hello), x)
          BY <1>2, AppendSays
        <4> QED BY <1>2, <1>3, <1>6, <3>1, <4>1, AppendSays, ZenonT(40)
      <3> QED BY <1>1, <1>4, <3>1 DEF Synced, Reaches, Learns
    <2>4. Waits(c)'
      BY <1>1, <1>4, <1>5 DEF Part, Waits
    <2> QED BY <1>5, <2>1, <2>2, <2>3, <2>4 DEF Part
  <1>10. ASSUME NEW d \in Clients \ {c} PROVE Part(d)'
    BY <1>1, <1>3, <1>5, Others
  <1> QED BY <1>7, <1>8, <1>9, <1>10 DEF IInv

LEMMA ReloadIInv == ASSUME IInv, NEW c \in Clients, Reload(c) PROVE IInv'
  <1>1. /\ TypeOK /\ Whole /\ Part(c) /\ (\A d \in Clients : Part(d))
        /\ server' = server /\ conn' = conn \ {c}
        /\ client' = [client EXCEPT ![c] = Fresh(client[c].store)]
        /\ up' = [up EXCEPT ![c] = <<>>] /\ down' = [down EXCEPT ![c] = <<>>]
        /\ ghost' = [ghost EXCEPT !.missed = @ \cup Unheard({c}), !.cut = @ \ {c}]
        /\ tally' = [tally EXCEPT !.mishaps = @ + 1]
    BY DEF IInv, Reload, Mishap
  <1>2. /\ client'[c] = Fresh(client[c].store) /\ up'[c] = <<>> /\ down'[c] = <<>>
        /\ \A d \in Clients \ {c} : client'[d] = client[d] /\ up'[d] = up[d] /\ down'[d] = down[d]
    BY <1>1 DEF TypeOK
  <1>3. /\ client'[c].doc = {} /\ client'[c].store = client[c].store
        /\ client'[c].restoring = "no" /\ ~client'[c].ready /\ client'[c].ws = "none"
        /\ ~client'[c].timer /\ client'[c] \in Connection
    <2>1. client[c] \in Connection
      BY <1>1 DEF TypeOK, Connection
    <2> QED BY <1>2, <2>1 DEF Connection, Fresh
  <1>4. /\ ghost'.made = ghost.made /\ ghost'.dropped = ghost.dropped
        /\ ghost'.missed = ghost.missed \cup Unheard({c}) /\ ghost'.cut = ghost.cut \ {c}
        /\ tally'.restores = tally.restores /\ tally'.crashes = tally.crashes
    BY <1>1 DEF TypeOK
  <1>5. Sound' => Sound /\ client[c].restoring = "no" /\ ~Restores(down[c])
    BY <1>4 DEF Sound, Unheard, Restores
  <1>6. TypeOK'
    <2>1. up' \in [Clients -> Seq(Frame)] /\ down' \in [Clients -> Seq(Frame)]
      BY <1>1, NoFrames DEF TypeOK
    <2>2. client' \in [Clients -> Connection]
      BY <1>1, <1>3 DEF TypeOK, Connection
    <2>3. ghost' \in [made : SUBSET Edits, replaced : SUBSET Edits, dropped : SUBSET Edits,
                      missed : SUBSET Clients, cut : SUBSET Clients, again : SUBSET Clients]
      BY <1>1 DEF TypeOK, Unheard
    <2>4. tally' \in [restores : Nat, mishaps : Nat, crashes : Nat] /\ conn' \in SUBSET Clients
      BY <1>1, MishapTypes DEF TypeOK
    <2>5. server' \in [doc : SUBSET Item, stored : SUBSET Item, locked : BOOLEAN]
      BY <1>1 DEF TypeOK
    <2> QED BY <2>1, <2>2, <2>3, <2>4, <2>5 DEF TypeOK, Connection
  <1>7. Whole'
    <2>1. Kept'
      BY <1>1, <1>2, <1>3, <1>4, KeptStays DEF Whole
    <2> QED BY <1>1, <1>4, <1>5, <2>1, WholeStays DEF Whole
  <1>8. Part(c)'
    <2>1. Wired(c)'
      BY <1>1, <1>2, <1>3, NoFrames DEF Wired, Live
    <2>2. Queued(c)' /\ Synced(c)' /\ Waits(c)'
      BY <1>1, <1>2, <1>3, NoFrames DEF Queued, Synced, Waits
    <2>3. (Sound => Based(c))'
      BY <1>1, <1>2, <1>3, <1>4, <1>5, NoFrames, EmptyBase DEF Part, Based, Mine
    <2> QED BY <2>1, <2>2, <2>3 DEF Part
  <1>9. ASSUME NEW d \in Clients \ {c} PROVE Part(d)'
    BY <1>1, <1>2, <1>4, <1>5, Others
  <1> QED BY <1>6, <1>7, <1>8, <1>9 DEF IInv

\* While every client has heard of every restore, none of them is restoring
\* with its socket closed.
LEMMA AtEase ==
  ASSUME NEW c \in Clients, Whole, Part(c), client[c].restoring # "no", client[c].ws # "open"
  PROVE  c \in ghost.cut /\ ~Sound
  BY DEF Whole, Part, Wired, Sound

LEMMA Accepted ==
  ASSUME IInv, NEW c \in Clients, Accept(c), ~server.locked
  PROVE  IInv'
  <1> DEFINE hello == Step1(server.doc)
  <1>1. /\ TypeOK /\ Whole /\ Part(c) /\ (\A d \in Clients : Part(d))
        /\ UNCHANGED <<server, up, client, tally, ghost>>
        /\ client[c].ws = "connecting" /\ c \notin conn
        /\ conn' = conn \cup {c} /\ down' = [down EXCEPT ![c] = <<hello>>]
    BY DEF IInv, Accept
  <1>2. /\ hello \in Frame /\ hello.t = "step1" /\ hello.items = server.doc
        /\ down[c] = <<>> /\ up[c] \in Seq(Frame)
    <2>1. hello \in Frame /\ hello.t = "step1" /\ hello.items = server.doc
      BY <1>1, Types DEF Frame, Step1
    <2> QED BY <1>1, <2>1, Types DEF Part, Wired
  <1>3. /\ down'[c] = Append(<<>>, hello) /\ down'[c] # <<>> /\ down'[c] \in Seq(Frame)
        /\ DOMAIN down'[c] = {1} /\ down'[c][1] = hello
        /\ \A d \in Clients \ {c} : down'[d] = down[d]
    <2>1. down'[c] = <<hello>> /\ \A d \in Clients \ {c} : down'[d] = down[d]
      BY <1>1 DEF TypeOK
    <2> HIDE DEF hello
    <2>2. <<hello>> = Append(<<>>, hello) /\ <<hello>> # <<>> /\ <<hello>> \in Seq(Frame)
          /\ DOMAIN <<hello>> = {1} /\ <<hello>>[1] = hello
      BY <1>2
    <2> QED BY <2>1, <2>2
  <1> HIDE DEF hello
  <1>4. TypeOK'
    <2>1. down' \in [Clients -> Seq(Frame)]
      BY <1>1, <1>3 DEF TypeOK
    <2> QED BY <1>1, <2>1 DEF TypeOK
  <1>5. Sound' => Sound
    BY <1>1 DEF Sound
  <1>6. Whole'
    <2>1. Kept'
      BY <1>1, KeptStays DEF Whole
    <2> QED BY <1>1, <1>5, <2>1, WholeStays DEF Whole
  <1>7. Part(c)'
    <2>1. Wired(c)'
      BY <1>1, <1>2, <1>3 DEF Part, Wired, Live
    <2>2. Queued(c)'
      BY <1>1, <1>2, <1>3, NoFrames, AppendCurrent DEF Part, Queued
    <2>3. Synced(c)' /\ Waits(c)'
      BY <1>1 DEF Part, Synced, Waits
    <2>4. (Sound => Based(c))'
      <3> SUFFICES ASSUME Sound PROVE Based(c)'
        BY <1>5
      <3>1. client[c].restoring = "no" /\ ~Restores(down[c])
        BY <1>1, <1>2, AtEase, NoFrames
      <3>2. client[c].doc \subseteq Mine /\ client[c].store \subseteq Mine
        BY <1>1, <3>1 DEF Part, Based
      <3>3. server.doc \subseteq Mine /\ Mine \subseteq Edits \cup server.doc
        BY <1>1 DEF Whole, Mine
      <3>4. Current(down'[c], Mine)
        BY <1>2, <1>3, <3>3, NoFrames, AppendCurrent
      <3>5. Knows(down'[c], client[c].doc)
        BY <1>2, <1>3, <3>2, <3>3 DEF Knows
      <3> QED BY <1>1, <3>1, <3>2, <3>4, <3>5 DEF Part, Based, Mine
    <2> QED BY <2>1, <2>2, <2>3, <2>4 DEF Part
  <1>8. ASSUME NEW d \in Clients \ {c} PROVE Part(d)'
    BY <1>1, <1>3, <1>5, Others
  <1> QED BY <1>4, <1>6, <1>7, <1>8 DEF IInv

LEMMA Refused ==
  ASSUME IInv, NEW c \in Clients, Accept(c), server.locked
  PROVE  IInv'
  <1>1. /\ TypeOK /\ Whole /\ Part(c) /\ Live(c) /\ CloseSocket({c}, "published")
        /\ UNCHANGED <<server, tally, ghost>>
        /\ client[c].ws = "connecting" /\ c \notin conn /\ down[c] = <<>>
    BY DEF IInv, Accept, Live, Part, Wired
  <1>2. /\ Sound' => Sound /\ client[c].restoring = "no" /\ ~Restores(down[c])
        /\ client[c].restoring # "no" => c \in ghost'.cut
    <2>1. Sound' => Sound
      BY <1>1 DEF Sound
    <2> QED BY <1>1, <2>1, AtEase, NoFrames
  <1>3. /\ conn' \in SUBSET Clients /\ up' \in [Clients -> Seq(Frame)]
        /\ down' \in [Clients -> Seq(Frame)] /\ client' \in [Clients -> Connection]
        /\ \A d \in Clients : client'[d].store = client[d].store
        /\ \A d \in Clients : Part(d)'
    <2>1. \A d \in {c} : Live(d) /\ (client[d].restoring # "no" => d \in ghost'.cut)
      BY <1>1, <1>2
    <2>2. Sound' => \A d \in {c} : client[d].restoring = "no" /\ ~Restores(down[d])
      BY <1>2
    <2>3. ghost'.cut = ghost.cut /\ server'.doc = server.doc /\ tally'.restores = tally.restores
      BY <1>1
    <2>4. {c} \in SUBSET Clients
      OBVIOUS
    <2> QED BY <1>1, <1>2, <2>1, <2>2, <2>3, <2>4, Shut
  <1>4. Whole'
    <2>1. Kept'
      BY <1>1, <1>3, KeptStays DEF Whole
    <2> QED BY <1>1, <1>2, <2>1, WholeStays DEF Whole
  <1>5. TypeOK'
    BY <1>1, <1>3 DEF TypeOK, Connection
  <1> QED BY <1>3, <1>4, <1>5 DEF IInv

LEMMA AcceptIInv == ASSUME IInv, NEW c \in Clients, Accept(c) PROVE IInv'
  BY Accepted, Refused

LEMMA ServedLocked ==
  ASSUME IInv, NEW c \in Clients, Serve(c), server.locked
  PROVE  IInv'
  <1> DEFINE said == Control("close")
  <1>1. /\ TypeOK /\ Whole /\ Part(c) /\ (\A d \in Clients : Part(d))
        /\ UNCHANGED <<server, client, tally, ghost>>
        /\ c \in conn /\ up[c] # <<>>
        /\ conn' = conn \ {c} /\ up' = [up EXCEPT ![c] = <<>>]
        /\ down' = [down EXCEPT ![c] = Append(@, said)]
    BY DEF IInv, Serve
  <1>2. /\ said \in Frame /\ said.t = "close" /\ said.items = {}
        /\ down[c] \in Seq(Frame) /\ Append(down[c], said) \in Seq(Frame)
        /\ client[c].ws = "open"
    <2>1. said \in Frame /\ said.t = "close" /\ said.items = {}
      BY DEF Frame, Control
    <2> QED BY <1>1, <2>1, Types, AppendAt DEF Part, Wired
  <1> HIDE DEF said
  <1>3. /\ down'[c] = Append(down[c], said) /\ up'[c] = <<>> /\ down'[c] # <<>>
        /\ \A d \in Clients \ {c} : up'[d] = up[d] /\ down'[d] = down[d]
    BY <1>1, <1>2, AppendAt DEF TypeOK
  <1>4. TypeOK'
    <2>1. down' \in [Clients -> Seq(Frame)] /\ up' \in [Clients -> Seq(Frame)]
      BY <1>1, <1>2, <1>3, NoFrames DEF TypeOK
    <2> QED BY <1>1, <2>1 DEF TypeOK
  <1>5. Sound' => Sound
    BY <1>1 DEF Sound
  <1>6. Whole'
    <2>1. Kept'
      BY <1>1, KeptStays DEF Whole
    <2> QED BY <1>1, <1>5, <2>1, WholeStays DEF Whole
  <1>7. Part(c)'
    <2>1. Wired(c)'
      <3>1. \A i \in DOMAIN down'[c] : down'[c][i].t = "step1" => i = 1
        BY <1>1, <1>2, <1>3, AppendAt DEF Part, Wired
      <3> QED BY <1>1, <1>2, <1>3, <3>1 DEF Part, Wired, Live
    <2>2. Queued(c)' /\ Synced(c)' /\ Waits(c)'
      BY <1>1, <1>2, <1>3, NoFrames DEF Queued, Synced, Waits, Part
    <2>3. (Sound => Based(c))'
      <3> SUFFICES ASSUME Sound PROVE Based(c)'
        BY <1>5
      <3>1. Current(down'[c], Mine) /\ Knows(down'[c], client[c].doc)
        BY <1>1, <1>2, <1>3, AppendCurrent, AppendBase DEF Part, Based, Content
      <3>2. Restores(down'[c]) <=> Restores(down[c])
        BY <1>2, <1>3, AppendSays
      <3>3. (\A i \in DOMAIN down[c] : down[c][i].t # "step1")
               => \A i \in DOMAIN down'[c] : down'[c][i].t # "step1"
        BY <1>2, <1>3, AppendAt
      <3> QED BY <1>1, <1>3, <3>1, <3>2, <3>3, EmptyBase DEF Part, Based, Mine
    <2> QED BY <2>1, <2>2, <2>3 DEF Part
  <1>8. ASSUME NEW d \in Clients \ {c} PROVE Part(d)'
    BY <1>1, <1>3, <1>5, Others
  <1> QED BY <1>4, <1>6, <1>7, <1>8 DEF IInv

LEMMA ServedVector ==
  ASSUME IInv, NEW c \in Clients, Serve(c), ~server.locked, Head(up[c]).t = "step1"
  PROVE  IInv'
  <1> DEFINE f == Head(up[c])
             said == Step2(server.doc \ f.items)
  <1>1. /\ TypeOK /\ Whole /\ Part(c) /\ (\A d \in Clients : Part(d))
        /\ UNCHANGED <<server, conn, client, tally, ghost>>
        /\ c \in conn /\ up[c] # <<>>
        /\ up' = [up EXCEPT ![c] = Tail(@)]
        /\ down' = [down EXCEPT ![c] = Append(@, said)]
    BY DEF IInv, Serve
  <1>2. /\ f \in Frame /\ f.t = "step1"
        /\ said \in Frame /\ said.t = "step2" /\ said.items = server.doc \ f.items
        /\ down[c] \in Seq(Frame) /\ Append(down[c], said) \in Seq(Frame)
        /\ up[c] \in Seq(Frame) /\ Tail(up[c]) \in Seq(Frame)
        /\ client[c].ws = "open"
    <2>1. said \in Frame /\ said.t = "step2" /\ said.items = server.doc \ f.items
      BY <1>1, Types DEF Frame, Step2
    <2> QED BY <1>1, <2>1, Types, AppendAt, TailAt DEF Part, Wired
  <1> HIDE DEF said
  <1>3. /\ down'[c] = Append(down[c], said) /\ up'[c] = Tail(up[c]) /\ down'[c] # <<>>
        /\ \A d \in Clients \ {c} : up'[d] = up[d] /\ down'[d] = down[d]
    <2>1. up \in [Clients -> Seq(Frame)] /\ down \in [Clients -> Seq(Frame)]
      BY <1>1 DEF TypeOK
    <2>2. Append(down[c], said) # <<>>
      BY <1>2, AppendAt
    <2> QED BY <1>1, <2>1, <2>2
  <1>4. TypeOK'
    <2>1. down' \in [Clients -> Seq(Frame)] /\ up' \in [Clients -> Seq(Frame)]
      BY <1>1, <1>2, <1>3 DEF TypeOK
    <2> QED BY <1>1, <2>1 DEF TypeOK
  <1>5. Sound' => Sound
    BY <1>1 DEF Sound
  <1>6. Whole'
    <2>1. Kept'
      BY <1>1, KeptStays DEF Whole
    <2> QED BY <1>1, <1>5, <2>1, WholeStays DEF Whole
  <1>7. Part(c)'
    <2>1. Wired(c)'
      <3>1. \A i \in DOMAIN down'[c] : down'[c][i].t = "step1" => i = 1
        BY <1>1, <1>2, <1>3, AppendAt DEF Part, Wired
      <3> QED BY <1>1, <1>2, <1>3, <3>1 DEF Part, Wired, Live
    <2>2. Queued(c)'
      <3>1. Current(down'[c], server.doc)
        BY <1>1, <1>2, <1>3, AppendCurrent DEF Part, Queued
      <3>2. client[c].restoring = "no" => Backed(up'[c], client[c].doc)
        BY <1>1, <1>2, <1>3, TailBacked DEF Part, Queued
      <3> QED BY <1>1, <3>1, <3>2 DEF Queued
    <2>3. Synced(c)'
      <3>1. /\ \A x : Sends(up[c], x) => Sends(up'[c], x)
            /\ \A x : Asks(up[c], x) => Asks(up'[c], x) \/ x \notin f.items
        <4>1. f.t = "step1" /\ up'[c] = Tail(up[c]) /\ up[c] # <<>> /\ up[c] \in Seq(Frame)
          BY <1>1, <1>2, <1>3
        <4> QED BY <4>1, TailSays
      <3>2. /\ \A x : Sends(down[c], x) => Sends(down'[c], x)
            /\ \A x : Asks(down[c], x) => Asks(down'[c], x)
            /\ Restores(down[c]) => Restores(down'[c])
            /\ \A x \in server.doc : x \notin f.items => Sends(down'[c], x)
        BY <1>2, <1>3, AppendSays
      <3> HIDE DEF f
      <3> QED BY <1>1, <3>1, <3>2 DEF Part, Synced, Reaches, Learns
    <2>4. Waits(c)'
      BY <1>1 DEF Part, Waits
    <2>5. (Sound => Based(c))'
      <3> SUFFICES ASSUME Sound PROVE Based(c)'
        BY <1>5
      <3>1. Current(down'[c], Mine) /\ Knows(down'[c], client[c].doc)
        <4>1. said.items \subseteq Mine
          BY <1>1, <1>2 DEF Whole
        <4> QED BY <1>1, <1>2, <1>3, <4>1, AppendCurrent, AppendBase DEF Part, Based
      <3>2. Restores(down'[c]) <=> Restores(down[c])
        BY <1>2, <1>3, AppendSays
      <3>3. (\A i \in DOMAIN down[c] : down[c][i].t # "step1")
               => \A i \in DOMAIN down'[c] : down'[c][i].t # "step1"
        BY <1>2, <1>3, AppendAt
      <3>4. NoBase(up'[c])
        BY <1>1, <1>2, <1>3, TailBase DEF Part, Based
      <3> QED BY <1>1, <1>3, <3>1, <3>2, <3>3, <3>4 DEF Part, Based, Mine
    <2> QED BY <2>1, <2>2, <2>3, <2>4, <2>5 DEF Part
  <1>8. ASSUME NEW d \in Clients \ {c} PROVE Part(d)'
    BY <1>1, <1>3, <1>5, Others
  <1> QED BY <1>4, <1>6, <1>7, <1>8 DEF IInv

\* A frame that is no state vector goes behind what is in the channel.
LEMMA Pushed ==
  ASSUME NEW s \in Seq(Frame), NEW f \in Frame, f.t # "step1"
  PROVE  /\ Append(s, f) # <<>> /\ (s # <<>> => Append(s, f)[1] = s[1])
         /\ (\A i \in DOMAIN s : s[i].t = "step1" => i = 1)
                => \A i \in DOMAIN Append(s, f) : Append(s, f)[i].t = "step1" => i = 1
         /\ (\A i \in DOMAIN s : s[i].t # "step1")
                => \A i \in DOMAIN Append(s, f) : Append(s, f)[i].t # "step1"
  <1>1. s # <<>> => 1 \in DOMAIN s
    OBVIOUS
  <1>2. \A i \in DOMAIN Append(s, f) :
            \/ i \in DOMAIN s /\ Append(s, f)[i] = s[i]
            \/ Append(s, f)[i] = f
    BY AppendAt
  <1> QED BY <1>1, <1>2, AppendAt

LEMMA ServedContent ==
  ASSUME IInv, NEW c \in Clients, Serve(c), ~server.locked,
         Head(up[c]).t \in {"step2", "update"}
  PROVE  IInv'
  <1> DEFINE f == Head(up[c])
             new == f.items \ server.doc
             said == Update(new)
  <1>1. /\ TypeOK /\ Whole /\ Part(c) /\ (\A d \in Clients : Part(d))
        /\ UNCHANGED <<conn, client, tally, ghost>>
        /\ c \in conn /\ up[c] # <<>>
        /\ server' = [server EXCEPT !.doc = @ \cup new]
        /\ up' = [up EXCEPT ![c] = Tail(@)]
        /\ down' = Relayed(c, new)
    BY DEF IInv, Serve
  <1>2. /\ f \in Frame /\ f.t \in {"step2", "update"} /\ f.items \subseteq Item
        /\ said \in Frame /\ said.t = "update" /\ said.items = new
        /\ up[c] \in Seq(Frame) /\ Tail(up[c]) \in Seq(Frame)
        /\ client[c].ws = "open"
    <2>1. f \in Frame /\ f.items \subseteq Item
      BY <1>1, Types, TailAt DEF Frame
    <2>2. said \in Frame /\ said.t = "update" /\ said.items = new
      BY <2>1 DEF Frame, Update
    <2> QED BY <1>1, <2>1, <2>2, Types, TailAt DEF Part, Wired
  <1>3. /\ server'.doc = server.doc \cup new /\ up'[c] = Tail(up[c]) /\ down'[c] = down[c]
        /\ server' \in [doc : SUBSET Item, stored : SUBSET Item, locked : BOOLEAN]
        /\ \A d \in Clients \ {c} : up'[d] = up[d]
        /\ \A d \in Clients \ {c} :
              down'[d] = IF d \in conn /\ new # {} THEN Append(down[d], said) ELSE down[d]
    BY <1>1, <1>2 DEF TypeOK, Relayed
  <1> HIDE DEF said
  <1>4. TypeOK'
    <2>1. up' \in [Clients -> Seq(Frame)]
      BY <1>1, <1>2, <1>3 DEF TypeOK
    <2>2. down' \in [Clients -> Seq(Frame)]
      <3>1. ASSUME NEW d \in Clients PROVE down'[d] \in Seq(Frame)
        <4>1. down[d] \in Seq(Frame) /\ Append(down[d], said) \in Seq(Frame)
          BY <1>1, <1>2, Types, AppendAt
        <4> QED BY <1>3, <4>1
      <3> QED BY <1>1, <3>1 DEF Relayed
    <2> QED BY <1>1, <1>3, <2>1, <2>2 DEF TypeOK
  <1>5. Sound' => Sound
    BY <1>1 DEF Sound
  <1>6. Sound => new \subseteq Edits
    BY <1>1, <1>2, TailBase DEF Part, Based
  <1>7. Whole'
    <2>1. Kept'
      BY <1>1, KeptStays DEF Whole
    <2>2. (Sound => server.doc \subseteq Mine /\ tally.restores \in server.doc)'
      BY <1>1, <1>3, <1>5, <1>6 DEF Whole, Mine
    <2> QED BY <1>1, <2>1, <2>2 DEF Whole
  <1> HIDE DEF new
  <1>8. Part(c)'
    <2>1. Wired(c)'
      BY <1>1, <1>2, <1>3 DEF Part, Wired, Live
    <2>2. Queued(c)'
      <3>1. Current(down'[c], server'.doc)
        BY <1>1, <1>3, Grows DEF Part, Queued
      <3>2. client[c].restoring = "no" => Backed(up'[c], client[c].doc)
        BY <1>1, <1>2, <1>3, TailBacked DEF Part, Queued
      <3> QED BY <1>1, <3>1, <3>2 DEF Queued
    <2>3. Synced(c)'
      <3> SUFFICES ASSUME client[c].restoring = "no" PROVE Reaches(c)' /\ Learns(c)'
        BY <1>1 DEF Synced
      <3>1. /\ \A x : Sends(up[c], x) => Sends(up'[c], x) \/ x \in f.items
            /\ \A x : Asks(up[c], x) => Asks(up'[c], x)
        BY <1>1, <1>2, <1>3, TailSays
      <3>2. \A x \in new : x \in client[c].doc \/ Asks(up'[c], x)
        <4>1. Backed(up[c], client[c].doc)
          BY <1>1 DEF Part, Queued
        <4>2. \A x \in f.items \ client[c].doc : Asks(Tail(up[c]), x)
          BY <1>1, <1>2, <4>1, TailBacked
        <4> QED BY <1>3, <4>2 DEF new
      <3>3. \A x \in f.items : x \in server'.doc
        BY <1>3 DEF new
      <3> HIDE DEF f
      <3>4. Reaches(c)'
        BY <1>1, <1>2, <1>3, <3>1, <3>3 DEF Part, Synced, Reaches
      <3>5. Learns(c)'
        BY <1>1, <1>2, <1>3, <3>1, <3>2 DEF Part, Synced, Learns
      <3> QED BY <3>4, <3>5
    <2>4. Waits(c)'
      BY <1>1 DEF Part, Waits
    <2>5. (Sound => Based(c))'
      <3>1. Sound => NoBase(up'[c])
        BY <1>1, <1>2, <1>3, TailBase DEF Part, Based
      <3> QED BY <1>1, <1>3, <1>5, <3>1 DEF Part, Based, Mine
    <2> QED BY <2>1, <2>2, <2>3, <2>4, <2>5 DEF Part
  <1>9. ASSUME NEW d \in Clients \ {c} PROVE Part(d)'
    <2>1. CASE d \notin conn \/ new = {}
      <3>1. down'[d] = down[d] /\ (d \in conn => server'.doc = server.doc)
        BY <1>3, <2>1
      <3> QED BY <1>1, <1>3, <1>5, <3>1, Others
    <2>2. CASE d \in conn /\ new # {}
      <3>1. /\ Part(d) /\ down[d] \in Seq(Frame) /\ up[d] \in Seq(Frame)
            /\ down'[d] = Append(down[d], said) /\ up'[d] = up[d]
        BY <1>1, <1>3, <2>2, Types
      <3>2. Wired(d)'
        <4>1. /\ down'[d] # <<>> /\ (down[d] # <<>> => down'[d][1] = down[d][1])
              /\ (\A i \in DOMAIN down[d] : down[d][i].t = "step1" => i = 1)
                    => \A i \in DOMAIN down'[d] : down'[d][i].t = "step1" => i = 1
          BY <1>2, <3>1, Pushed
        <4> QED BY <1>1, <2>2, <3>1, <4>1 DEF Part, Wired, Live
      <3>3. Queued(d)'
        <4>1. Current(down'[d], server'.doc)
          BY <1>2, <1>3, <2>2, <3>1, Grows, AppendCurrent DEF Part, Queued
        <4> QED BY <1>1, <3>1, <4>1 DEF Part, Queued
      <3>4. Synced(d)'
        <4>1. /\ \A x : Sends(down[d], x) => Sends(down'[d], x)
              /\ \A x : Asks(down[d], x) => Asks(down'[d], x)
              /\ Restores(down[d]) => Restores(down'[d])
              /\ \A x \in new : Sends(down'[d], x)
          BY <1>2, <3>1, AppendSays
        <4> QED BY <1>1, <1>3, <3>1, <4>1 DEF Part, Synced, Reaches, Learns
      <3>5. Waits(d)'
        BY <1>1 DEF Part, Waits
      <3>6. (Sound => Based(d))'
        <4> SUFFICES ASSUME Sound PROVE Based(d)'
          BY <1>5
        <4>1. Current(down'[d], Mine)
          <5>1. said.items \subseteq Mine
            BY <1>2, <1>6 DEF Mine
          <5> QED BY <1>1, <1>2, <3>1, <5>1, AppendCurrent DEF Part, Based
        <4>2. Knows(down'[d], client[d].doc)
          BY <1>1, <1>2, <3>1, AppendBase DEF Part, Based
        <4>3. Restores(down[d]) => Restores(down'[d])
          BY <1>2, <3>1, AppendSays
        <4>4. (\A i \in DOMAIN down[d] : down[d][i].t # "step1")
                 => \A i \in DOMAIN down'[d] : down'[d][i].t # "step1"
          BY <1>2, <3>1, Pushed
        <4> QED BY <1>1, <3>1, <4>1, <4>2, <4>3, <4>4 DEF Part, Based, Mine
      <3> QED BY <3>2, <3>3, <3>4, <3>5, <3>6 DEF Part
    <2> QED BY <2>1, <2>2
  <1> QED BY <1>4, <1>7, <1>8, <1>9 DEF IInv

LEMMA ServeIInv == ASSUME IInv, NEW c \in Clients, Serve(c) PROVE IInv'
  <1>1. server.locked \/ Head(up[c]).t \in {"step1", "step2", "update"}
    BY Zenon DEF Serve
  <1> QED BY <1>1, ServedLocked, ServedVector, ServedContent

LEMMA RestoreIInv == ASSUME IInv, Restore PROVE IInv'
  <1> DEFINE said == Control("restore")
             next == tally.restores + 1
  <1>1. /\ TypeOK /\ Whole /\ (\A d \in Clients : Part(d))
        /\ UNCHANGED <<conn, up, client>>
        /\ tally.restores < MaxRestores /\ tally' = [tally EXCEPT !.restores = @ + 1]
        /\ server' = [server EXCEPT !.doc = {next}]
        /\ down' = [c \in Clients |-> IF c \in conn THEN Append(down[c], said) ELSE down[c]]
        /\ ghost' = [ghost EXCEPT !.replaced = @ \cup (server.doc \cap ghost.made),
                                  !.missed = @ \cup (Clients \ conn),
                                  !.again = @ \cup {c \in conn : Coming(c) \cap
                                                       (server.doc \cap ghost.made) # {}}]
    BY DEF IInv, Restore, Told
  <1>2. /\ tally.restores \in Nat /\ next \in Item /\ next <= MaxRestores
        /\ tally'.restores = next /\ tally'.crashes = tally.crashes
        /\ tally' \in [restores : Nat, mishaps : Nat, crashes : Nat]
    BY <1>1, ConnectionBounds DEF TypeOK, Item, Base
  <1> HIDE DEF next
  <1>3. /\ said \in Frame /\ said.t = "restore" /\ said.items = {}
        /\ server'.doc = {next}
        /\ server' \in [doc : SUBSET Item, stored : SUBSET Item, locked : BOOLEAN]
    BY <1>1, <1>2 DEF Frame, Control, TypeOK
  <1> HIDE DEF said
  <1>4. /\ ghost'.made = ghost.made /\ ghost'.dropped = ghost.dropped
        /\ ghost'.cut = ghost.cut /\ ghost'.missed = ghost.missed \cup (Clients \ conn)
        /\ ghost' \in [made : SUBSET Edits, replaced : SUBSET Edits, dropped : SUBSET Edits,
                       missed : SUBSET Clients, cut : SUBSET Clients, again : SUBSET Clients]
    BY <1>1 DEF TypeOK
  <1>5. TypeOK'
    <2>1. down' \in [Clients -> Seq(Frame)]
      <3>1. ASSUME NEW d \in Clients PROVE down[d] \in Seq(Frame) /\ Append(down[d], said) \in Seq(Frame)
        BY <1>1, <1>3, Types, AppendAt
      <3> QED BY <1>1, <3>1
    <2> QED BY <1>1, <1>2, <1>3, <1>4, <2>1 DEF TypeOK
  <1>6. Sound' => Sound /\ Clients \subseteq conn
    BY <1>2, <1>4 DEF Sound
  <1>7. Whole'
    <2>1. Kept'
      BY <1>1, <1>4, KeptStays DEF Whole
    <2>2. (Sound => server.doc \subseteq Mine /\ tally.restores \in server.doc)'
      BY <1>2, <1>3 DEF Mine
    <2> QED BY <1>1, <1>2, <1>4, <2>1, <2>2 DEF Whole
  <1>8. ASSUME NEW d \in Clients PROVE Part(d)'
    <2>1. CASE d \notin conn
      <3>1. Part(d) /\ down'[d] = down[d] /\ ~Sound'
        BY <1>1, <1>6, <2>1
      <3>2. Wired(d)'
        BY <1>1, <1>4, <3>1, ZenonT(40) DEF Part, Wired, Live
      <3>3. Queued(d)' /\ Synced(d)' /\ Waits(d)'
        BY <1>1, <1>4, <2>1, <3>1 DEF Part, Queued, Synced, Waits
      <3> QED BY <3>1, <3>2, <3>3 DEF Part
    <2>2. CASE d \in conn
      <3>1. Part(d) /\ down[d] \in Seq(Frame) /\ down'[d] = Append(down[d], said)
        BY <1>1, <2>2, Types
      <3>2. Wired(d)'
        <4>1. /\ down'[d] # <<>> /\ (down[d] # <<>> => down'[d][1] = down[d][1])
              /\ (\A i \in DOMAIN down[d] : down[d][i].t = "step1" => i = 1)
                    => \A i \in DOMAIN down'[d] : down'[d][i].t = "step1" => i = 1
          BY <1>3, <3>1, Pushed
        <4>2. d \in ghost'.cut <=> d \in ghost.cut
          BY <1>4
        <4> QED BY <1>1, <2>2, <3>1, <4>1, <4>2 DEF Part, Wired, Live
      <3>3. Restores(down'[d])
        BY <1>3, <3>1, AppendSays
      <3>4. Queued(d)' /\ Synced(d)' /\ Waits(d)'
        BY <1>1, <1>3, <1>4, <3>1, <3>3, AppendCurrent
           DEF Part, Queued, Synced, Reaches, Learns, Waits
      <3>5. (Sound => Based(d))'
        <4> SUFFICES ASSUME Sound PROVE Based(d)'
          BY <1>6
        <4>1. Current(down'[d], Mine')
          BY <1>3, <3>1, AppendCurrent
        <4>2. Knows(down'[d], client[d].doc)
          BY <1>3, <3>1, AppendBase DEF Part, Based
        <4>3. (\A i \in DOMAIN down[d] : down[d][i].t # "step1")
                 => \A i \in DOMAIN down'[d] : down'[d][i].t # "step1"
          BY <1>3, <3>1, Pushed
        <4> QED BY <1>1, <3>1, <3>3, <4>1, <4>2, <4>3 DEF Part, Based
      <3> QED BY <3>2, <3>4, <3>5 DEF Part
    <2> QED BY <2>1, <2>2
  <1> QED BY <1>5, <1>7, <1>8 DEF IInv

LEMMA PersistIInv == ASSUME IInv, Persist PROVE IInv'
  <1>1. /\ TypeOK /\ Whole /\ (\A d \in Clients : Part(d))
        /\ UNCHANGED <<conn, up, down, client, tally, ghost>>
        /\ server' = [server EXCEPT !.stored = server.doc]
    BY DEF IInv, Persist
  <1>2. TypeOK' /\ server'.doc = server.doc
    BY <1>1 DEF TypeOK
  <1>3. Sound' => Sound
    BY <1>1 DEF Sound
  <1>4. Whole'
    BY <1>1, <1>2, <1>3, KeptStays, WholeStays DEF Whole
  <1>5. ASSUME NEW d \in Clients PROVE Part(d)'
    BY <1>1, <1>2, <1>3, Others
  <1> QED BY <1>2, <1>4, <1>5 DEF IInv

LEMMA LockIInv == ASSUME IInv, Lock PROVE IInv'
  <1>1. /\ TypeOK /\ Whole /\ (\A d \in Clients : Part(d))
        /\ UNCHANGED <<conn, up, down, client, ghost>>
        /\ server' = [server EXCEPT !.locked = TRUE, !.stored = server.doc]
        /\ tally' = [tally EXCEPT !.mishaps = @ + 1]
    BY DEF IInv, Lock, Mishap
  <1>2. /\ TypeOK' /\ server'.doc = server.doc
        /\ tally'.restores = tally.restores /\ tally'.crashes = tally.crashes
    <2>1. /\ tally' \in [restores : Nat, mishaps : Nat, crashes : Nat]
          /\ tally'.restores = tally.restores /\ tally'.crashes = tally.crashes
      BY <1>1, MishapTypes
    <2>2. server \in [doc : SUBSET Item, stored : SUBSET Item, locked : BOOLEAN]
      BY <1>1 DEF TypeOK
    <2>3. /\ server' \in [doc : SUBSET Item, stored : SUBSET Item, locked : BOOLEAN]
          /\ server'.doc = server.doc
      BY <1>1, <2>2
    <2> QED BY <1>1, <2>1, <2>3 DEF TypeOK
  <1>3. Sound' => Sound
    BY <1>1, <1>2 DEF Sound
  <1>4. Whole'
    BY <1>1, <1>2, <1>3, KeptStays, WholeStays DEF Whole
  <1>5. ASSUME NEW d \in Clients PROVE Part(d)'
    BY <1>1, <1>2, <1>3, Others
  <1> QED BY <1>2, <1>4, <1>5 DEF IInv

LEMMA CrashIInv == ASSUME IInv, Crash PROVE IInv'
  <1>1. /\ TypeOK /\ Whole /\ (\A d \in Clients : Part(d))
        /\ tally' = [tally EXCEPT !.mishaps = @ + 1, !.crashes = @ + 1]
        /\ server' = [server EXCEPT !.doc = server.stored]
        /\ CloseSocket(conn, "lost") /\ ghost' = Lost(conn)
    BY DEF IInv, Crash
  <1>2. /\ conn \in SUBSET Clients /\ tally.crashes \in Nat
        /\ tally' \in [restores : Nat, mishaps : Nat, crashes : Nat]
        /\ tally'.restores = tally.restores /\ tally'.crashes = tally.crashes + 1
        /\ server' \in [doc : SUBSET Item, stored : SUBSET Item, locked : BOOLEAN]
        /\ \A c \in conn : Live(c)
    <2>1. /\ tally' \in [restores : Nat, mishaps : Nat, crashes : Nat]
          /\ tally'.restores = tally.restores /\ tally'.crashes = tally.crashes + 1
          /\ conn \in SUBSET Clients /\ tally.crashes \in Nat
      <3>1. tally \in [restores : Nat, mishaps : Nat, crashes : Nat] /\ conn \in SUBSET Clients
        BY <1>1 DEF TypeOK
      <3>2. tally' = [tally EXCEPT !.mishaps = tally.mishaps + 1, !.crashes = tally.crashes + 1]
        BY <1>1
      <3>3. tally.mishaps + 1 \in Nat /\ tally.crashes + 1 \in Nat
        BY <3>1
      <3> QED BY <3>1, <3>2, <3>3
    <2>2. server' \in [doc : SUBSET Item, stored : SUBSET Item, locked : BOOLEAN]
      BY <1>1 DEF TypeOK
    <2>3. \A c \in conn : Live(c)
      BY <1>1, <2>1 DEF Part, Wired
    <2> QED BY <2>1, <2>2, <2>3
  <1>3. ~Sound'
    BY <1>2 DEF Sound
  <1>4. /\ ghost'.made = ghost.made /\ ghost'.dropped = ghost.dropped
        /\ ghost'.missed = ghost.missed \cup Unheard(conn)
        /\ ghost'.cut = ghost.cut \cup {d \in conn : client[d].restoring # "no"}
        /\ ghost'.cut \subseteq ghost'.missed
        /\ ghost' \in [made : SUBSET Edits, replaced : SUBSET Edits, dropped : SUBSET Edits,
                       missed : SUBSET Clients, cut : SUBSET Clients, again : SUBSET Clients]
    BY <1>1, <1>2 DEF TypeOK, Lost, Unheard, Whole
  <1>5. /\ conn' \in SUBSET Clients /\ up' \in [Clients -> Seq(Frame)]
        /\ down' \in [Clients -> Seq(Frame)] /\ client' \in [Clients -> Connection]
        /\ \A d \in Clients : client'[d].store = client[d].store
        /\ \A d \in Clients : Part(d)'
    BY <1>1, <1>2, <1>3, <1>4, Shut
  <1>6. Whole'
    <2>1. Kept'
      BY <1>1, <1>4, <1>5, KeptStays DEF Whole
    <2> QED BY <1>1, <1>2, <1>3, <1>4, <2>1 DEF Whole
  <1>7. TypeOK'
    BY <1>2, <1>4, <1>5 DEF TypeOK, Connection
  <1> QED BY <1>5, <1>6, <1>7 DEF IInv

-----------------------------------------------------------------------------
(* The invariant of the specification, and what it gives.                  *)

LEMMA InitIInv == ASSUME Init PROVE IInv
  <1> DEFINE none == 0
  <1>1. none \in Base /\ none \in Nat /\ none <= MaxRestores
    BY ConnectionBounds DEF Base
  <1>2. /\ server = [doc |-> {none}, stored |-> {none}, locked |-> FALSE]
        /\ conn = {} /\ up = [c \in Clients |-> <<>>] /\ down = [c \in Clients |-> <<>>]
        /\ client = [c \in Clients |-> Fresh({})]
        /\ tally = [restores |-> none, mishaps |-> none, crashes |-> none]
        /\ ghost = [made |-> {}, replaced |-> {}, dropped |-> {}, missed |-> {}, cut |-> {},
                   again |-> {}]
    BY DEF Init
  <1> HIDE DEF none
  <1>3. Fresh({}) \in Connection
    BY DEF Fresh, Connection
  <1>4. TypeOK
    <2>1. /\ server \in [doc : SUBSET Item, stored : SUBSET Item, locked : BOOLEAN]
          /\ tally \in [restores : Nat, mishaps : Nat, crashes : Nat]
      BY <1>1, <1>2 DEF Item
    <2>2. ghost \in [made : SUBSET Edits, replaced : SUBSET Edits, dropped : SUBSET Edits,
                     missed : SUBSET Clients, cut : SUBSET Clients, again : SUBSET Clients]
      BY <1>2
    <2>3. /\ conn \in SUBSET Clients
          /\ up \in [Clients -> Seq(Frame)] /\ down \in [Clients -> Seq(Frame)]
          /\ client \in [Clients -> Connection]
      BY <1>2, <1>3, NoFrames
    <2> QED BY <2>1, <2>2, <2>3 DEF TypeOK, Connection
  <1>5. Whole
    BY <1>1, <1>2 DEF Whole, Kept, Sound, Mine
  <1>6. ASSUME NEW c \in Clients PROVE Part(c)
    <2>1. /\ client[c].doc = {} /\ client[c].store = {} /\ client[c].ready = FALSE
          /\ client[c].ws = "none" /\ client[c].timer = FALSE /\ client[c].restoring = "no"
          /\ up[c] = <<>> /\ down[c] = <<>> /\ c \notin conn
      BY <1>2 DEF Fresh
    <2>2. Wired(c)
      BY <2>1, NoFrames DEF Wired, Live
    <2>3. Queued(c) /\ Synced(c) /\ Waits(c)
      BY <2>1, NoFrames DEF Queued, Synced, Waits
    <2>4. Based(c)
      BY <2>1, NoFrames, EmptyBase DEF Based
    <2> QED BY <2>2, <2>3, <2>4 DEF Part
  <1> QED BY <1>4, <1>5, <1>6 DEF IInv

LEMMA StutterIInv == ASSUME IInv, UNCHANGED vars PROVE IInv'
  <1>1. /\ TypeOK /\ Whole /\ (\A d \in Clients : Part(d))
        /\ UNCHANGED <<server, conn, up, down, client, tally, ghost>>
    BY DEF IInv, vars
  <1>2. TypeOK'
    BY <1>1 DEF TypeOK
  <1>3. Sound' => Sound
    BY <1>1 DEF Sound
  <1>4. Whole'
    BY <1>1, <1>3, KeptStays, WholeStays DEF Whole
  <1>5. ASSUME NEW d \in Clients PROVE Part(d)'
    BY <1>1, <1>3, Others
  <1> QED BY <1>2, <1>4, <1>5 DEF IInv

LEMMA NextIInv == ASSUME IInv, [Next]_vars PROVE IInv'
  <1>1. ASSUME NEW c \in Clients,
               \/ Load(c) \/ Drop(c) \/ TimerFires(c) \/ Online(c) \/ Opened(c)
               \/ (\E e \in Edits : Edit(c, e))
               \/ Hear(c) \/ StoreClosed(c) \/ Rebuild(c) \/ RebuildUncleared(c) \/ Reload(c)
               \/ Accept(c) \/ Serve(c)
        PROVE  IInv'
    BY <1>1, LoadIInv, DropIInv, TimerFiresIInv, OnlineIInv, OpenedIInv, EditIInv, HearIInv,
       StoreClosedIInv, RebuildIInv, RebuildUnclearedIInv, ReloadIInv, AcceptIInv, ServeIInv
  <1>2. CASE Restore \/ Persist \/ Crash \/ Lock
    BY <1>2, RestoreIInv, PersistIInv, CrashIInv, LockIInv
  <1>3. CASE UNCHANGED vars
    BY <1>3, StutterIInv
  <1> QED BY <1>1, <1>2, <1>3 DEF Next

LEMMA Invariant == Spec => []IInv
  BY InitIInv, NextIInv, PTL DEF Spec

-----------------------------------------------------------------------------
(* The edits a restore replaced, on top of that invariant: as long as no    *)
(* client missed a restore or was sending something twice when it came, no  *)
(* channel and no document brings one back that no restore frame covers.    *)

Pure == Sound /\ ghost.again = {}
Tidy(c) ==
    /\ \A x \in ghost.replaced : ~Sends(up[c], x) /\ ~(x \in client[c].doc /\ Asks(down[c], x))
    /\ Current(down[c], Item \ ghost.replaced)
    /\ client[c].restoring = "no" /\ ~Restores(down[c]) =>
          \A x \in ghost.replaced : x \notin client[c].doc /\ x \notin client[c].store
Clean ==
    /\ ghost.replaced \subseteq ghost.made
    /\ Pure => /\ \A x \in ghost.replaced : x \notin server.doc
               /\ \A c \in Clients : Tidy(c)

\* Nothing that a client's part speaks of comes back.
LEMMA TidyKept ==
  ASSUME NEW d \in Clients, Tidy(d), ghost'.replaced = ghost.replaced,
         \A x \in ghost.replaced : Sends(up'[d], x) => Sends(up[d], x),
         \A x \in ghost.replaced : Asks(down'[d], x) => Asks(down[d], x),
         Current(down'[d], Item \ ghost.replaced),
         Restores(down[d]) => Restores(down'[d]),
         client'[d].restoring = "no" => client[d].restoring = "no",
         \A x \in ghost.replaced :
            /\ x \in client'[d].doc => x \in client[d].doc
            /\ x \in client'[d].store => x \in client[d].store
  PROVE  Tidy(d)'
  BY DEF Tidy

\* One client acts, alone or with the object.
LEMMA OneActs ==
  ASSUME Clean, NEW c \in Clients, ghost'.replaced = ghost.replaced,
         ghost.made \subseteq ghost'.made, Pure' => Pure,
         Pure' => Tidy(c)' /\ \A x \in ghost.replaced : x \notin server'.doc,
         \A d \in Clients \ {c} : client'[d] = client[d] /\ up'[d] = up[d] /\ down'[d] = down[d]
  PROVE  Clean'
  <1>1. ASSUME NEW d \in Clients \ {c}, Pure' PROVE Tidy(d)'
    BY <1>1 DEF Clean, Tidy
  <1> QED BY <1>1 DEF Clean

\* The socket of a client closes; no restore is under way there.
LEMMA ShutClean ==
  ASSUME IInv, Clean, NEW c \in Clients, NEW code, CloseSocket({c}, code),
         ghost'.replaced = ghost.replaced, ghost.made \subseteq ghost'.made,
         server'.doc = server.doc, Pure' => Pure, Pure' => ~Restores(down[c])
  PROVE  Clean'
  <1>1. /\ up'[c] = <<>> /\ down'[c] = <<>> /\ client'[c] = Closed(c, code)
        /\ \A d \in Clients \ {c} : up'[d] = up[d] /\ down'[d] = down[d] /\ client'[d] = client[d]
    BY DEF CloseSocket
  <1>2. /\ Closed(c, code).doc = client[c].doc /\ Closed(c, code).store = client[c].store
        /\ Closed(c, code).restoring = client[c].restoring
    <2>1. client[c] \in Connection
      BY DEF IInv, TypeOK, Connection
    <2>2. CASE client[c].restoring # "no"
      BY <2>1, <2>2 DEF Closed, Connection
    <2>3. CASE client[c].restoring = "no" /\ code = "published"
      BY <2>1, <2>3 DEF Closed, Connection
    <2>4. CASE client[c].restoring = "no" /\ code # "published"
      BY <2>1, <2>4 DEF Closed, Connection
    <2> QED BY <2>2, <2>3, <2>4
  <1>3. ASSUME Pure' PROVE Tidy(c)'
    BY <1>1, <1>2, <1>3, NoFrames, TidyKept DEF Clean
  <1> QED BY <1>1, <1>3, OneActs DEF Clean

\* A client changes nothing but its socket, or reads its database again.
LEMMA ReopensClean ==
  ASSUME IInv, Clean, NEW c \in Clients,
         Load(c) \/ TimerFires(c) \/ Online(c) \/ Opened(c) \/ StoreClosed(c)
  PROVE  Clean'
  <1>1. /\ TypeOK /\ Part(c) /\ UNCHANGED <<server, down, tally, ghost>>
    BY DEF IInv, Load, TimerFires, Online, Opened, StoreClosed
  <1>2. \A d \in Clients \ {c} : client'[d] = client[d] /\ up'[d] = up[d] /\ down'[d] = down[d]
    BY <1>1 DEF TypeOK, Load, TimerFires, Online, Opened, StoreClosed
  <1>3. /\ client'[c].store = client[c].store
        /\ client'[c].restoring = "no" => client[c].restoring = "no"
        /\ \/ client'[c].doc = client[c].doc
           \/ /\ client'[c].doc = client[c].doc \cup client[c].store
              /\ client[c].restoring = "no" /\ down[c] = <<>>
    <2>1. client[c] \in Connection
      BY <1>1 DEF TypeOK, Connection
    <2>2. CASE Load(c)
      <3>1. client'[c] = [client[c] EXCEPT !.ready = TRUE, !.doc = @ \cup client[c].store,
                                           !.ws = "connecting"]
            /\ ~client[c].ready
        BY <1>1, <2>2 DEF Load, TypeOK
      <3>2. client[c].restoring = "no" /\ down[c] = <<>>
        BY <1>1, <3>1 DEF Part, Wired, Live
      <3> QED BY <2>1, <3>1, <3>2 DEF Connection
    <2>3. CASE TimerFires(c)
      BY <1>1, <2>1, <2>3 DEF TimerFires, TypeOK, Connection
    <2>4. CASE Online(c)
      BY <1>1, <2>1, <2>4 DEF Online, TypeOK, Connection
    <2>5. CASE Opened(c)
      BY <1>1, <2>1, <2>5 DEF Opened, TypeOK, Connection
    <2>6. CASE StoreClosed(c)
      BY <1>1, <2>1, <2>6 DEF StoreClosed, TypeOK, Connection
    <2> QED BY <2>2, <2>3, <2>4, <2>5, <2>6
  <1>4. \A x : Sends(up'[c], x) => Sends(up[c], x)
    <2>1. CASE Opened(c)
      <3>1. up[c] \in Seq(Frame) /\ Step1(client[c].doc) \in Frame
            /\ Step1(client[c].doc).t = "step1"
        BY <1>1, Types DEF Frame, Step1
      <3>2. up'[c] = Append(up[c], Step1(client[c].doc))
        BY <1>1, <2>1 DEF Opened, TypeOK
      <3> QED BY <3>1, <3>2, AppendSays
    <2>2. CASE ~Opened(c)
      BY <2>2 DEF Load, TimerFires, Online, StoreClosed
    <2> QED BY <2>1, <2>2
  <1>5. Pure' => Pure
    BY <1>1 DEF Pure, Sound
  <1>6. ASSUME Pure' PROVE Tidy(c)'
    <2>1. Tidy(c)
      BY <1>5, <1>6 DEF Clean
    <2>2. \A x \in ghost.replaced : x \in client'[c].doc => x \in client[c].doc
      BY <1>3, <2>1, NoFrames DEF Tidy
    <2>3. Current(down'[c], Item \ ghost.replaced) /\ down'[c] = down[c]
      BY <1>1, <2>1 DEF Tidy
    <2> QED BY <1>1, <1>3, <1>4, <2>1, <2>2, <2>3, TidyKept
  <1> QED BY <1>1, <1>2, <1>5, <1>6, OneActs DEF Clean

LEMMA DropClean == ASSUME IInv, Clean, NEW c \in Clients, Drop(c) PROVE Clean'
  <1>1. /\ CloseSocket({c}, "lost") /\ ghost' = Lost({c}) /\ server' = server
        /\ tally' = [tally EXCEPT !.mishaps = @ + 1] /\ TypeOK
    BY DEF IInv, Drop, Mishap
  <1>2. /\ ghost'.replaced = ghost.replaced /\ ghost'.made = ghost.made
        /\ ghost'.missed = ghost.missed \cup Unheard({c}) /\ ghost'.again = ghost.again
        /\ tally'.crashes = tally.crashes
    BY <1>1, MishapTypes DEF TypeOK, Lost
  <1>3. Pure' => Pure /\ ~Restores(down[c])
    BY <1>2 DEF Pure, Sound, Unheard, Restores
  <1> QED BY <1>1, <1>2, <1>3, ShutClean

LEMMA HearCloseClean ==
  ASSUME IInv, Clean, NEW c \in Clients, Hear(c), Head(down[c]).t = "close" PROVE Clean'
  <1>1. /\ CloseSocket({c}, "published") /\ ghost' = Lost({c}) /\ server' = server
        /\ tally' = tally /\ TypeOK
    BY DEF IInv, Hear
  <1>2. /\ ghost'.replaced = ghost.replaced /\ ghost'.made = ghost.made
        /\ ghost'.missed = ghost.missed \cup Unheard({c}) /\ ghost'.again = ghost.again
    BY <1>1 DEF TypeOK, Lost
  <1>3. Pure' => Pure /\ ~Restores(down[c])
    BY <1>1, <1>2 DEF Pure, Sound, Unheard, Restores
  <1> QED BY <1>1, <1>2, <1>3, ShutClean

LEMMA EditClean ==
  ASSUME IInv, Clean, NEW c \in Clients, NEW e \in Edits, Edit(c, e) PROVE Clean'
  <1>1. /\ TypeOK /\ UNCHANGED <<server, conn, down, tally>> /\ e \notin ghost.made
        /\ client[c] \in Connection
    BY DEF IInv, Edit, TypeOK, Connection
  <1>2. /\ ghost'.replaced = ghost.replaced /\ ghost'.made = ghost.made \cup {e}
        /\ ghost'.missed = ghost.missed /\ ghost'.again = ghost.again
    BY <1>1 DEF Edit, TypeOK
  <1>3. /\ client'[c].doc = client[c].doc \cup {e}
        /\ client'[c].store \subseteq client[c].store \cup {e}
        /\ client'[c].restoring = client[c].restoring
        /\ \A d \in Clients \ {c} : client'[d] = client[d] /\ up'[d] = up[d] /\ down'[d] = down[d]
    <2>1. client \in [Clients -> Connection] /\ up \in [Clients -> Seq(Frame)]
      BY <1>1 DEF TypeOK, Connection
    <2>2. CASE client[c].restoring = "no"
      <3>1. /\ client' = [client EXCEPT ![c].doc = @ \cup {e}, ![c].store = @ \cup {e}]
            /\ up' = up \/ up' = [up EXCEPT ![c] = Append(@, Update({e}))]
        BY <2>2 DEF Edit
      <3>2. client'[c] = [client[c] EXCEPT !.doc = @ \cup {e}, !.store = @ \cup {e}]
        BY <2>1, <3>1
      <3> QED BY <1>1, <2>1, <3>1, <3>2 DEF Connection
    <2>3. CASE client[c].restoring # "no"
      <3>1. client' = [client EXCEPT ![c].doc = @ \cup {e}] /\ up' = up
        BY <2>3 DEF Edit
      <3>2. client'[c] = [client[c] EXCEPT !.doc = @ \cup {e}]
        BY <2>1, <3>1
      <3> QED BY <1>1, <2>1, <3>1, <3>2 DEF Connection
    <2> QED BY <2>2, <2>3
  <1>4. \A x \in ghost.replaced : x # e
    BY <1>1 DEF Clean
  <1>5. \A x \in ghost.replaced : Sends(up'[c], x) => Sends(up[c], x)
    <2>1. CASE up'[c] = up[c]
      BY <2>1
    <2>2. CASE up'[c] = Append(up[c], Update({e}))
      <3>1. up[c] \in Seq(Frame) /\ Update({e}) \in Frame /\ Update({e}).items = {e}
        BY <1>1, Types DEF Frame, Update, Item
      <3> QED BY <1>4, <2>2, <3>1, AppendSays
    <2>3. up'[c] = up[c] \/ up'[c] = Append(up[c], Update({e}))
      BY <1>1 DEF Edit, TypeOK
    <2> QED BY <2>1, <2>2, <2>3
  <1>6. Pure' => Pure
    BY <1>1, <1>2 DEF Pure, Sound
  <1>7. ASSUME Pure' PROVE Tidy(c)'
    <2>1. Tidy(c) /\ down'[c] = down[c]
      BY <1>1, <1>6, <1>7 DEF Clean
    <2>2. Current(down'[c], Item \ ghost.replaced)
      BY <2>1 DEF Tidy
    <2> QED BY <1>2, <1>3, <1>4, <1>5, <2>1, <2>2, TidyKept
  <1> QED BY <1>1, <1>2, <1>3, <1>6, <1>7, OneActs DEF Clean

LEMMA HearVectorClean ==
  ASSUME IInv, Clean, NEW c \in Clients, Hear(c), Head(down[c]).t = "step1" PROVE Clean'
  <1> DEFINE f == Head(down[c])
             said == Step2(client[c].doc \ f.items)
  <1>1. /\ TypeOK /\ Part(c) /\ UNCHANGED <<server, conn, client, tally, ghost>>
        /\ down[c] # <<>>
        /\ up' = [up EXCEPT ![c] = Append(@, said)] /\ down' = [down EXCEPT ![c] = Tail(@)]
    BY DEF IInv, Hear, Missing
  <1>2. /\ up'[c] = Append(up[c], said) /\ down'[c] = Tail(down[c])
        /\ \A d \in Clients \ {c} : up'[d] = up[d] /\ down'[d] = down[d]
        /\ up[c] \in Seq(Frame) /\ down[c] \in Seq(Frame)
    BY <1>1, Types DEF TypeOK
  <1>3. said \in Frame /\ said.items = client[c].doc \ f.items /\ f.t = "step1"
    BY <1>1, Types DEF Frame, Step2
  <1> HIDE DEF said
  <1>4. /\ \A x : Asks(down'[c], x) => Asks(down[c], x)
        /\ \A x : x \notin f.items => Asks(down[c], x)
        /\ Restores(down[c]) => Restores(down'[c])
    BY <1>1, <1>2, <1>3, TailSays
  <1> HIDE DEF f
  <1>5. Pure' => Pure
    BY <1>1 DEF Pure, Sound
  <1>6. ASSUME Pure' PROVE Tidy(c)'
    <2>1. Tidy(c)
      BY <1>5, <1>6 DEF Clean
    <2>2. \A x \in ghost.replaced : Sends(up'[c], x) => Sends(up[c], x)
      BY <1>2, <1>3, <1>4, <2>1, AppendSays DEF Tidy
    <2>3. Current(down'[c], Item \ ghost.replaced)
      BY <1>1, <1>2, <2>1, TailCurrent DEF Tidy
    <2> QED BY <1>1, <1>4, <2>1, <2>2, <2>3, TidyKept
  <1> QED BY <1>1, <1>2, <1>5, <1>6, OneActs DEF Clean

LEMMA HearContentClean ==
  ASSUME IInv, Clean, NEW c \in Clients, Hear(c), Head(down[c]).t \in {"step2", "update"}
  PROVE  Clean'
  <1> DEFINE f == Head(down[c])
  <1>1. /\ TypeOK /\ Part(c) /\ UNCHANGED <<server, conn, up, tally, ghost>>
        /\ down[c] # <<>>
        /\ client' = [client EXCEPT ![c] = Merged(c, f.items)]
        /\ down' = [down EXCEPT ![c] = Tail(@)]
    BY DEF IInv, Hear
  <1>2. /\ client'[c] = Merged(c, f.items) /\ down'[c] = Tail(down[c])
        /\ \A d \in Clients \ {c} : client'[d] = client[d] /\ down'[d] = down[d]
        /\ down[c] \in Seq(Frame) /\ client[c] \in Connection
        /\ f.t \in {"step2", "update"}
    BY <1>1, Types DEF TypeOK, Connection
  <1>3. /\ \A x : ~Asks(down'[c], x)
        /\ Restores(down[c]) => Restores(down'[c])
    <2>1. \A x : ~Asks(Tail(down[c]), x)
      BY <1>1, NoVectorBehind DEF Part, Asks
    <2>2. Restores(down[c]) => Restores(Tail(down[c]))
      BY <1>1, <1>2, TailSays
    <2> QED BY <1>2, <2>1, <2>2
  <1>4. Pure' => Pure
    BY <1>1 DEF Pure, Sound
  <1>5. ASSUME Pure' PROVE Tidy(c)'
    <2>1. Tidy(c)
      BY <1>4, <1>5 DEF Clean
    <2>2. /\ Current(down'[c], Item \ ghost.replaced)
          /\ \A x \in ghost.replaced : x \in f.items => Restores(down'[c])
      <3>1. Current(down[c], Item \ ghost.replaced)
        BY <2>1 DEF Tidy
      <3>2. /\ Current(down'[c], Item \ ghost.replaced)
            /\ f.items \subseteq Item \ ghost.replaced \/ Restores(down'[c])
        BY <1>1, <1>2, <3>1, TailCurrent DEF Content
      <3> QED BY <3>2
    <2> HIDE DEF f
    <2>3. /\ client'[c].restoring = client[c].restoring
          /\ client'[c].doc = client[c].doc \cup f.items
          /\ client'[c].store \subseteq client[c].store \cup f.items
      BY <1>2 DEF Merged, Connection
    <2> QED BY <1>1, <1>3, <2>1, <2>2, <2>3 DEF Tidy
  <1> QED BY <1>1, <1>2, <1>4, <1>5, OneActs DEF Clean

LEMMA HearRestoreClean ==
  ASSUME IInv, Clean, NEW c \in Clients, Hear(c), Head(down[c]).t = "restore" PROVE Clean'
  <1>1. /\ TypeOK /\ Part(c) /\ UNCHANGED <<server, conn, up, tally, ghost>>
        /\ down[c] # <<>> /\ down[c] \in Seq(Frame)
        /\ client' = [client EXCEPT ![c].restoring = IF @ = "no" THEN "closing" ELSE @]
        /\ down' = [down EXCEPT ![c] = Tail(@)]
    BY Types DEF IInv, Hear
  <1>2. /\ client'[c].restoring # "no" /\ down'[c] = Tail(down[c])
        /\ \A d \in Clients \ {c} : client'[d] = client[d] /\ down'[d] = down[d]
    BY <1>1 DEF TypeOK
  <1>3. \A x : ~Asks(down'[c], x)
    BY <1>1, <1>2, NoVectorBehind DEF Part, Asks
  <1>4. Pure' => Pure
    BY <1>1 DEF Pure, Sound
  <1>5. ASSUME Pure' PROVE Tidy(c)'
    <2>1. Tidy(c)
      BY <1>4, <1>5 DEF Clean
    <2>2. Current(down'[c], Item \ ghost.replaced)
      BY <1>1, <1>2, <2>1, TailCurrent DEF Tidy
    <2> QED BY <1>1, <1>2, <1>3, <2>1, <2>2 DEF Tidy
  <1> QED BY <1>1, <1>2, <1>4, <1>5, OneActs DEF Clean

LEMMA HearClean == ASSUME IInv, Clean, NEW c \in Clients, Hear(c) PROVE Clean'
  <1>1. Head(down[c]).t \in {"step1", "step2", "update", "restore", "close"}
    BY Zenon DEF Hear
  <1> QED BY <1>1, HearVectorClean, HearContentClean, HearRestoreClean, HearCloseClean

\* A client drops its document, or opens the old database again, or its page
\* is opened again.
LEMMA AnewClean ==
  ASSUME IInv, Clean, NEW c \in Clients, Rebuild(c) \/ Reload(c) PROVE Clean'
  <1>1. /\ TypeOK /\ Part(c) /\ server' = server /\ tally'.crashes = tally.crashes
        /\ client[c] \in Connection
    BY MishapTypes DEF IInv, Rebuild, Reload, Mishap, TypeOK, Connection
  <1>2. /\ ghost'.replaced = ghost.replaced /\ ghost'.made = ghost.made
        /\ ghost.missed \subseteq ghost'.missed /\ ghost'.again = ghost.again
        /\ Reload(c) => ghost'.missed = ghost.missed \cup Unheard({c})
    <2>1. CASE Rebuild(c)
      <3>1. ~Reload(c) \/ ghost'.missed = ghost.missed \cup Unheard({c})
        BY <1>1 DEF Reload, TypeOK
      <3> QED BY <1>1, <2>1, <3>1 DEF Rebuild, TypeOK
    <2>2. CASE Reload(c)
      BY <1>1, <2>2 DEF Reload, TypeOK
    <2> QED BY <2>1, <2>2
  <1>3. /\ \A d \in Clients \ {c} : client'[d] = client[d] /\ up'[d] = up[d] /\ down'[d] = down[d]
        /\ client'[c].doc = {} /\ client'[c].store \subseteq client[c].store
    <2>1. /\ client \in [Clients -> Connection] /\ up \in [Clients -> Seq(Frame)]
          /\ down \in [Clients -> Seq(Frame)]
      BY <1>1 DEF TypeOK, Connection
    <2>2. CASE Rebuild(c)
      <3>1. client' = [client EXCEPT ![c] = Cleared(c)] /\ down' = down
            /\ (up' = up \/ up' = [up EXCEPT ![c] = Append(@, Step1({}))])
        BY <2>2 DEF Rebuild
      <3>2. Cleared(c).doc = {} /\ Cleared(c).store = {}
        BY <1>1 DEF Cleared, Connection
      <3> QED BY <2>1, <3>1, <3>2
    <2>3. CASE Reload(c)
      <3>1. client' = [client EXCEPT ![c] = Fresh(client[c].store)]
            /\ down' = [down EXCEPT ![c] = <<>>] /\ up' = [up EXCEPT ![c] = <<>>]
        BY <2>3 DEF Reload
      <3>2. Fresh(client[c].store).doc = {} /\ Fresh(client[c].store).store = client[c].store
        BY DEF Fresh
      <3> QED BY <2>1, <3>1, <3>2
    <2> QED BY <2>2, <2>3
  <1>4. Pure' => Pure
    BY <1>1, <1>2 DEF Pure, Sound
  <1>5. ASSUME Pure' PROVE Tidy(c)'
    <2>1. Tidy(c)
      BY <1>4, <1>5 DEF Clean
    <2>2. CASE Rebuild(c)
      <3>1. down'[c] = down[c] /\ client'[c].store = {}
        BY <1>1, <2>2 DEF Rebuild, TypeOK, Cleared, Connection
      <3>2. \A x : Sends(up'[c], x) => Sends(up[c], x)
        <4>1. up[c] \in Seq(Frame) /\ Step1({}) \in Frame /\ Step1({}).t = "step1"
          BY <1>1, Types DEF Frame, Step1
        <4>2. up'[c] = up[c] \/ up'[c] = Append(up[c], Step1({}))
          BY <1>1, <2>2 DEF Rebuild, TypeOK
        <4> QED BY <4>1, <4>2, AppendSays
      <3> QED BY <1>2, <1>3, <2>1, <3>1, <3>2 DEF Tidy
    <2>3. CASE Reload(c)
      <3>1. up'[c] = <<>> /\ down'[c] = <<>>
        BY <1>1, <2>3 DEF Reload, TypeOK
      <3>2. client[c].restoring = "no" /\ ~Restores(down[c])
        BY <1>2, <1>5, <2>3 DEF Pure, Sound, Unheard, Restores
      <3> QED BY <1>2, <1>3, <2>1, <3>1, <3>2, NoFrames DEF Tidy
    <2> QED BY <2>2, <2>3
  <1> QED BY <1>1, <1>2, <1>3, <1>4, <1>5, OneActs DEF Clean

LEMMA AcceptClean == ASSUME IInv, Clean, NEW c \in Clients, Accept(c) PROVE Clean'
  <1>1. /\ TypeOK /\ Whole /\ Part(c) /\ UNCHANGED <<server, tally, ghost>>
        /\ client[c].ws = "connecting" /\ c \notin conn /\ down[c] = <<>>
    BY DEF IInv, Accept, Part, Wired
  <1>2. Pure' => Pure
    BY <1>1 DEF Pure, Sound
  <1>3. CASE CloseSocket({c}, "published")
    BY <1>1, <1>2, <1>3, NoFrames, ShutClean
  <1>4. CASE UNCHANGED <<up, client>> /\ down' = [down EXCEPT ![c] = <<Step1(server.doc)>>]
    <2>1. /\ down'[c] = Append(<<>>, Step1(server.doc))
          /\ \A d \in Clients \ {c} : down'[d] = down[d]
          /\ Step1(server.doc) \in Frame /\ Step1(server.doc).items = server.doc
          /\ Step1(server.doc).t = "step1"
      BY <1>1, <1>4, Types DEF TypeOK, Frame, Step1
    <2>2. ASSUME Pure' PROVE Tidy(c)'
      <3>1. Tidy(c) /\ \A x \in ghost.replaced : x \notin server.doc
        BY <1>2, <2>2 DEF Clean
      <3>2. client[c].restoring = "no" /\ ~Restores(down[c])
        BY <1>1, <1>2, <2>2, AtEase, NoFrames DEF Pure
      <3>3. \A x \in ghost.replaced : x \notin client[c].doc /\ x \notin client[c].store
        BY <3>1, <3>2 DEF Tidy
      <3>4. Current(down'[c], Item \ ghost.replaced)
        <4>1. server.doc \subseteq Item \ ghost.replaced
          BY <1>1, <3>1, Types
        <4> QED BY <2>1, <4>1, NoFrames, AppendCurrent
      <3> QED BY <1>1, <1>4, <3>1, <3>3, <3>4 DEF Tidy
    <2> QED BY <1>1, <1>2, <1>4, <2>1, <2>2, OneActs DEF Clean
  <1> QED BY <1>3, <1>4 DEF Accept

\* The object answers, closes, or merges and relays.
LEMMA ServeClean == ASSUME IInv, Clean, NEW c \in Clients, Serve(c) PROVE Clean'
  <1> DEFINE f == Head(up[c])
             new == f.items \ server.doc
             back == Step2(server.doc \ f.items)
  <1>1. /\ TypeOK /\ UNCHANGED <<client, tally, ghost>> /\ up[c] # <<>>
        /\ up[c] \in Seq(Frame) /\ f \in Frame /\ f.items \subseteq Item
        /\ Tail(up[c]) \in Seq(Frame)
    <2>1. TypeOK /\ UNCHANGED <<client, tally, ghost>> /\ up[c] # <<>> /\ up[c] \in Seq(Frame)
      BY Types DEF IInv, Serve
    <2>2. f \in Frame /\ Tail(up[c]) \in Seq(Frame)
      BY <2>1, TailAt
    <2> QED BY <2>1, <2>2 DEF Frame
  <1>2. Pure' => Pure
    BY <1>1 DEF Pure, Sound
  <1>3. SUFFICES ASSUME Pure' PROVE (\A x \in ghost.replaced : x \notin server'.doc)
                                     /\ \A d \in Clients : Tidy(d)'
    BY <1>1 DEF Clean
  <1>4. (\A x \in ghost.replaced : x \notin server.doc) /\ \A d \in Clients : Tidy(d)
    BY <1>2, <1>3 DEF Clean
  <1>5. \A x : Sends(Tail(up[c]), x) => Sends(up[c], x)
    BY <1>1, TailSays
  <1>6. /\ Control("close") \in Frame /\ Control("close").t = "close"
        /\ Update(new) \in Frame /\ Update(new).t = "update" /\ Update(new).items = new
        /\ back \in Frame /\ back.t = "step2" /\ back.items \subseteq server.doc
    BY <1>1, Types DEF Frame, Control, Update, Step2
  <1>7. f.t \in {"step2", "update"} => \A x \in ghost.replaced : x \notin f.items
    BY <1>1, <1>4, TailSays DEF Tidy
  <1>8. /\ \A d \in Clients \ {c} : up'[d] = up[d]
        /\ up'[c] = <<>> \/ up'[c] = Tail(up[c])
        /\ \A d \in Clients : \/ down'[d] = down[d]
                              \/ down'[d] = Append(down[d], Control("close"))
                              \/ down'[d] = Append(down[d], back)
                              \/ /\ down'[d] = Append(down[d], Update(new))
                                 /\ f.t \in {"step2", "update"}
        /\ \/ server' = server
           \/ /\ server' = [server EXCEPT !.doc = @ \cup new]
              /\ f.t \in {"step2", "update"}
    <2> DEFINE upd == Update(new)
               cls == Control("close")
    <2> HIDE DEF f, back, upd, cls, new
    <2>1. CASE server.locked
      BY <1>1, <2>1 DEF Serve, TypeOK, f, back, upd, cls, new
    <2>2. CASE ~server.locked /\ f.t = "step1"
      BY <1>1, <2>2 DEF Serve, TypeOK, f, back, upd, cls, new
    <2>3. CASE ~server.locked /\ f.t \in {"step2", "update"}
      BY <1>1, <2>3 DEF Serve, TypeOK, Relayed, f, back, upd, cls, new
    <2> QED BY <2>1, <2>2, <2>3 DEF Serve, f, upd, cls
  <1> HIDE DEF f, new, back
  <1>9. \A x \in ghost.replaced : x \notin server'.doc
    <2>1. server \in [doc : SUBSET Item, stored : SUBSET Item, locked : BOOLEAN]
      BY <1>1 DEF TypeOK
    <2>2. server'.doc = server.doc \/ (server'.doc = server.doc \cup new /\ f.t \in {"step2", "update"})
      BY <1>8, <2>1
    <2> QED BY <1>4, <1>7, <2>2 DEF new
  <1>10. ASSUME NEW d \in Clients PROVE Tidy(d)'
    <2>1. \A x \in ghost.replaced : Sends(up'[d], x) => Sends(up[d], x)
      BY <1>5, <1>8, NoFrames
    <2>2. down[d] \in Seq(Frame) /\ Tidy(d) /\ Current(down[d], Item \ ghost.replaced)
      BY <1>1, <1>4, Types DEF Tidy
    <2>3. /\ \A x : Asks(down'[d], x) => Asks(down[d], x)
          /\ Restores(down[d]) => Restores(down'[d])
          /\ Current(down'[d], Item \ ghost.replaced)
      <3>1. CASE down'[d] = down[d]
        BY <2>2, <3>1
      <3>2. CASE down'[d] = Append(down[d], Control("close"))
        BY <1>6, <2>2, <3>2, AppendSays, AppendCurrent DEF Content
      <3>3. CASE down'[d] = Append(down[d], back)
        <4>1. back.items \subseteq Item \ ghost.replaced
          BY <1>1, <1>4, <1>6, Types
        <4> QED BY <1>6, <2>2, <3>3, <4>1, AppendSays, AppendCurrent
      <3>4. CASE down'[d] = Append(down[d], Update(new)) /\ f.t \in {"step2", "update"}
        <4>1. Update(new).items \subseteq Item \ ghost.replaced
          BY <1>1, <1>6, <1>7, <3>4 DEF new
        <4> QED BY <1>6, <2>2, <3>4, <4>1, AppendSays, AppendCurrent
      <3> QED BY <1>8, <3>1, <3>2, <3>3, <3>4
    <2> QED BY <1>1, <2>1, <2>2, <2>3, TidyKept
  <1> QED BY <1>9, <1>10

\* What the restore replaces is not on its way, or some client is sending it
\* twice; what a client holds of it goes with the restore frame.
LEMMA RestoreClean == ASSUME IInv, Clean, Restore PROVE Clean'
  <1> DEFINE said == Control("restore")
             old == server.doc \cap ghost.made
  <1>1. /\ TypeOK /\ UNCHANGED <<conn, up, client>>
        /\ tally' = [tally EXCEPT !.restores = @ + 1]
        /\ server' = [server EXCEPT !.doc = {tally.restores + 1}]
        /\ down' = [c \in Clients |-> IF c \in conn THEN Append(down[c], said) ELSE down[c]]
        /\ ghost' = [ghost EXCEPT !.replaced = @ \cup old,
                                  !.missed = @ \cup (Clients \ conn),
                                  !.again = @ \cup {c \in conn : Coming(c) \cap old # {}}]
    BY DEF IInv, Restore, Told
  <1>2. said \in Frame /\ said.t = "restore"
    BY DEF Frame, Control
  <1> HIDE DEF said, old
  <1>3. /\ ghost'.replaced = ghost.replaced \cup old /\ ghost'.made = ghost.made
        /\ ghost'.missed = ghost.missed \cup (Clients \ conn)
        /\ ghost'.again = ghost.again \cup {c \in conn : Coming(c) \cap old # {}}
        /\ tally'.crashes = tally.crashes /\ server'.doc = {tally.restores + 1}
    BY <1>1 DEF TypeOK
  <1>4. ghost'.replaced \subseteq ghost'.made /\ old \subseteq Item
    BY <1>1, <1>3, Types DEF Clean, old, TypeOK
  <1>5. Pure' => Pure /\ (\A c \in Clients : c \in conn /\ Coming(c) \cap old = {})
    BY <1>3 DEF Pure, Sound
  <1>6. ASSUME Pure' PROVE \A x \in ghost'.replaced : x \notin server'.doc
    <2>1. tally.restores + 1 \in Nat /\ ghost'.made \subseteq Edits
      BY <1>1, <1>3 DEF TypeOK
    <2> QED BY <1>3, <1>4, <2>1, ConnectionBounds
  <1>7. ASSUME Pure', NEW c \in Clients PROVE Tidy(c)'
    <2>1. Tidy(c) /\ c \in conn /\ Coming(c) \cap old = {}
      BY <1>5, <1>7 DEF Clean
    <2>2. down'[c] = Append(down[c], said) /\ down[c] \in Seq(Frame)
      BY <1>1, <2>1, Types
    <2>3. /\ Restores(down'[c]) /\ (\A x : Asks(down'[c], x) => Asks(down[c], x))
          /\ Current(down'[c], Item \ ghost'.replaced)
      BY <1>2, <2>2, AppendSays, AppendCurrent
    <2>4. \A x \in old : ~Sends(up[c], x) /\ ~(x \in client[c].doc /\ Asks(down[c], x))
      BY <1>4, <2>1 DEF Coming, Missing, Sends, Asks
    <2> QED BY <1>1, <1>3, <2>1, <2>3, <2>4 DEF Tidy
  <1> QED BY <1>4, <1>6, <1>7 DEF Clean

LEMMA StillClean ==
  ASSUME Clean, UNCHANGED <<up, down, client, ghost>>, server'.doc = server.doc, Pure' => Pure
  PROVE  Clean'
  <1>1. ASSUME NEW d \in Clients, Tidy(d) PROVE Tidy(d)'
    BY <1>1 DEF Tidy
  <1> QED BY <1>1 DEF Clean

\* Nothing is claimed after a crash, or once a client reopened a database it
\* could not clear.
LEMMA SpoiltClean ==
  ASSUME IInv, Clean, Crash \/ \E c \in Clients : RebuildUncleared(c) PROVE Clean'
  <1>1. TypeOK
    BY DEF IInv
  <1>2. CASE Crash
    <2>1. tally'.crashes = tally.crashes + 1 /\ tally.crashes \in Nat
      BY <1>1, <1>2 DEF Crash, TypeOK
    <2>2. ghost'.replaced = ghost.replaced /\ ghost'.made = ghost.made
      BY <1>1, <1>2 DEF Crash, Lost, TypeOK
    <2> QED BY <2>1, <2>2 DEF Clean, Pure, Sound
  <1>3. CASE \E c \in Clients : RebuildUncleared(c)
    <2>1. PICK c \in Clients : ghost' = [ghost EXCEPT !.missed = @ \cup {c}]
      BY <1>3 DEF RebuildUncleared
    <2>2. /\ ghost'.replaced = ghost.replaced /\ ghost'.made = ghost.made
          /\ ghost'.missed = ghost.missed \cup {c}
      BY <1>1, <2>1 DEF TypeOK
    <2> QED BY <2>2 DEF Clean, Pure, Sound
  <1> QED BY <1>2, <1>3

LEMMA PersistClean == ASSUME IInv, Clean, Persist \/ Lock \/ UNCHANGED vars PROVE Clean'
  <1>1. /\ UNCHANGED <<up, down, client, ghost>>
        /\ server'.doc = server.doc /\ tally'.crashes = tally.crashes
    BY MishapTypes DEF IInv, Persist, Lock, Mishap, TypeOK, vars
  <1> QED BY <1>1, StillClean DEF Pure, Sound

LEMMA InitClean == ASSUME Init PROVE Clean
  <1>1. ghost.replaced = {} /\ \A c \in Clients : down[c] = <<>>
    BY DEF Init
  <1> QED BY <1>1, NoFrames DEF Clean, Tidy

LEMMA NextClean == ASSUME IInv, Clean, [Next]_vars PROVE Clean'
  <1>1. ASSUME NEW c \in Clients,
               \/ Load(c) \/ Drop(c) \/ TimerFires(c) \/ Online(c) \/ Opened(c)
               \/ (\E e \in Edits : Edit(c, e))
               \/ Hear(c) \/ StoreClosed(c) \/ Rebuild(c) \/ RebuildUncleared(c) \/ Reload(c)
               \/ Accept(c) \/ Serve(c)
        PROVE  Clean'
    BY <1>1, ReopensClean, DropClean, EditClean, HearClean, AnewClean, SpoiltClean,
       AcceptClean, ServeClean
  <1>2. CASE Restore \/ Persist \/ Crash \/ Lock \/ UNCHANGED vars
    BY <1>2, RestoreClean, PersistClean, SpoiltClean
  <1> QED BY <1>1, <1>2 DEF Next

LEMMA StaysClean == Spec => []Clean
  BY InitClean, NextClean, Invariant, PTL DEF Spec

\* Every reachable state has its type: client records, frames and tallies.
THEOREM TypeCorrect == Spec => []TypeOK
  <1>1. IInv => TypeOK
    BY DEF IInv
  <1> QED BY <1>1, Invariant, PTL

LEMMA SettledShows == IInv => Converged
  <1> SUFFICES ASSUME IInv, Settled, NEW c \in Clients PROVE client[c].doc = server.doc
    BY DEF Converged
  <1>1. Synced(c) /\ client[c].ws = "open" /\ client[c].restoring = "no" /\ c \in conn
        /\ up[c] = <<>> /\ down[c] = <<>>
    BY DEF IInv, Part, Settled
  <1> QED BY <1>1, NoFrames DEF Synced, Reaches, Learns

\* Converged, for any number of clients, edits, restores and mishaps:
\* the handshake of results-doc-connection.ts and inspection-doc.ts leaves
\* no client with anything else than the object holds once all has arrived.
THEOREM ClientsConverge == Spec => []Converged
  BY Invariant, SettledShows, PTL

\* EditsArrive: what a client shows as written reaches the object, unless a
\* restore replaced it or its client dropped it for one.
THEOREM NothingIsLost == Spec => []EditsArrive
  <1>1. ASSUME IInv, Settled, NEW e \in ghost.made, e \notin ghost.dropped
        PROVE  e \in server.doc
    <2>1. PICK c \in Clients : e \in client[c].store
      BY <1>1 DEF IInv, Whole, Kept
    <2>2. client[c].ready
      BY <1>1 DEF IInv, Part, Wired, Settled
    <2>3. e \in client[c].doc
      BY <1>1, <2>1, <2>2 DEF IInv, Part, Wired
    <2> QED BY <1>1, <2>3, SettledShows DEF Converged
  <1>2. IInv => EditsArrive
    BY <1>1 DEF EditsArrive
  <1> QED BY <1>2, Invariant, PTL

\* NeverStranded: a closed socket has a reopen coming, but for a locked
\* report and a client whose socket closed while it restored.
THEOREM AlwaysReopens == Spec => []NeverStranded
  <1>1. IInv => NeverStranded
    BY DEF IInv, Part, Waits, NeverStranded
  <1> QED BY <1>1, Invariant, PTL

\* ReplacedStaysGone: after a restore that every client heard, the object
\* holds one base, the restored one, and none of the edits it replaced, unless
\* a client was sending one for the second time: none can bring them back.
THEOREM RestoreReplaces == Spec => []ReplacedStaysGone
  <1>1. ASSUME IInv, Sound PROVE Cardinality(server.doc \cap Base) = 1
    <2>1. /\ server.doc \subseteq Mine /\ tally.restores \in server.doc
          /\ tally.restores \in Nat /\ tally.restores <= MaxRestores
      BY <1>1 DEF IInv, Whole, TypeOK
    <2>2. tally.restores \in Base /\ Base \subseteq Nat
      BY <2>1, ConnectionBounds DEF Base
    <2>3. server.doc \cap Base = {tally.restores}
      BY <2>1, <2>2, ConnectionBounds DEF Mine
    <2> QED BY <2>3, FS_Singleton
  <1>2. ASSUME Clean, Pure PROVE server.doc \cap ghost.replaced = {}
    BY <1>2 DEF Clean
  <1>3. IInv /\ Clean => ReplacedStaysGone
    BY <1>1, <1>2 DEF ReplacedStaysGone, Sound, Pure
  <1> QED BY <1>3, Invariant, StaysClean, PTL
=============================================================================
