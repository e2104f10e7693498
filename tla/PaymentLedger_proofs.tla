------------------------- MODULE PaymentLedger_proofs -------------------------
(***************************************************************************)
(* Proofs about the ledger, for any set of requests, figures and total.    *)
(*                                                                         *)
(* The first part is about sums: what a fold over a finite set of rows     *)
(* computes does not depend on the order it takes them in, and adding or   *)
(* billing a row changes it by what that row says.  A sum is a recursive   *)
(* function on the subsets of the set; the induction over them is carried  *)
(* out as an argument about a smallest counterexample, which exists        *)
(* because the strict subset relation on a finite set is well-founded.     *)
(*                                                                         *)
(* The invariant then says which request stands where and what it carries  *)
(* (Base), that the ledger keeps its bounds, and that whenever the invoice *)
(* or the report does not show the ledger, some request is on its way that *)
(* sees to it (Seen).  A second one follows what a card settlement enters  *)
(* when it is delivered again (Once).                                      *)
(***************************************************************************)
EXTENDS PaymentLedger, FiniteSetTheorems, TLAPS

-----------------------------------------------------------------------------
(* Sums over finite sets of rows.                                          *)

\* A family of subsets of a finite set has a smallest one: induction on finite sets.
LEMMA SmallestSet ==
  ASSUME NEW S, IsFiniteSet(S), NEW F, \A T \in F : T \subseteq S, F # {}
  PROVE  \E T \in F : \A U \in F : U \subseteq T => U = T
  <1>0. F \subseteq SUBSET S
    OBVIOUS
  <1>1. IsWellFoundedOn(StrictSubsetOrdering(S), SUBSET S)
    BY FS_StrictSubsetOrderingWellFounded, FS_FiniteSubsetsOfFinite
  <1>2. \E T \in F : \A U \in F : ~(<<U, T>> \in StrictSubsetOrdering(S))
    BY <1>0, <1>1, WFMin
  <1> QED BY <1>0, <1>2 DEF StrictSubsetOrdering

Tally(S) == MapThenSumSet(Cents, S)
First(S) == CHOOSE x \in S : TRUE

\* What g computes for the subsets of S is what the fold computes.
Folds(S, g) ==
  g = [s \in SUBSET S |-> IF s = {} THEN 0 ELSE First(s).cents + g[s \ {First(s)}]]

LEMMA TallyIsFold == \A S : Tally(S) = (CHOOSE g : Folds(S, g))[S]
  BY DEF Tally, MapThenSumSet, MapThenFoldSet, Folds, First, Cents

LEMMA FirstIn == \A S : S # {} => First(S) \in S
  BY DEF First

LEMMA FoldsAgree ==
  ASSUME NEW S, NEW T, IsFiniteSet(S), NEW g, NEW h, Folds(S, g), Folds(T, h),
         NEW U, U \subseteq S, U \subseteq T
  PROVE  g[U] = h[U]
  <1> DEFINE F == {V \in SUBSET (S \cap T) : g[V] # h[V]}
  <1>1. SUFFICES ASSUME F # {} PROVE FALSE
    OBVIOUS
  <1>2. IsFiniteSet(S \cap T)
    BY FS_Intersection
  <1>f. \A X \in F : X \subseteq S \cap T
    OBVIOUS
  <1> HIDE DEF F
  <1>3. PICK V \in F : \A W \in F : W \subseteq V => W = V
    BY <1>1, <1>2, <1>f, SmallestSet
  <1> USE DEF F
  <1>4. V # {} => First(V) \in V
    BY FirstIn
  <1>5. V # {} => g[V \ {First(V)}] = h[V \ {First(V)}]
    BY <1>3, <1>4
  <1>6. /\ g[V] = IF V = {} THEN 0 ELSE First(V).cents + g[V \ {First(V)}]
        /\ h[V] = IF V = {} THEN 0 ELSE First(V).cents + h[V \ {First(V)}]
    BY DEF Folds
  <1> QED BY <1>5, <1>6

\* So the fold exists.
LEMMA FoldExists ==
  ASSUME NEW S, IsFiniteSet(S)
  PROVE  \E g : Folds(S, g)
  <1> DEFINE F == {T \in SUBSET S : ~\E g : Folds(T, g)}
  <1>1. SUFFICES ASSUME F # {} PROVE FALSE
    OBVIOUS
  <1>f. \A X \in F : X \subseteq S
    OBVIOUS
  <1> HIDE DEF F
  <1>2. PICK T \in F : \A U \in F : U \subseteq T => U = T
    BY <1>1, <1>f, SmallestSet
  <1> USE DEF F
  <1>3. \A U \in SUBSET T : IsFiniteSet(U)
    BY FS_Subset
  <1> DEFINE f == [U \in SUBSET T |-> CHOOSE g : Folds(U, g)]
             h == [s \in SUBSET T |-> IF s = {} THEN 0
                                      ELSE First(s).cents + f[s \ {First(s)}][s \ {First(s)}]]
  <1>4. ASSUME NEW U \in SUBSET T, U # T PROVE Folds(U, f[U])
    <2>1. \E g : Folds(U, g)
      BY <1>2, <1>4
    <2> QED BY <2>1
  <1>5. ASSUME NEW U \in SUBSET T, U # T PROVE h[U] = f[U][U]
    <2>1. Folds(U, f[U])
      BY <1>4, <1>5
    <2> DEFINE V == U \ {First(U)}
    <2>2. f[U][U] = IF U = {} THEN 0 ELSE First(U).cents + f[U][V]
      BY <2>1 DEF Folds
    <2>3. U # {} => V \in SUBSET T /\ V # T /\ V \subseteq U
      BY FirstIn
    <2>4. U # {} => f[U][V] = f[V][V]
      <3>1. SUFFICES ASSUME U # {} PROVE f[U][V] = f[V][V]
        OBVIOUS
      <3>2. V \subseteq U /\ V \subseteq V /\ IsFiniteSet(U) /\ Folds(V, f[V])
        BY <1>3, <1>4, <2>3, <3>1
      <3>3. PICK g, k : g = f[U] /\ k = f[V]
        OBVIOUS
      <3>4. Folds(U, g) /\ Folds(V, k)
        BY <2>1, <3>2, <3>3
      <3>5. g[V] = k[V]
        BY <3>2, <3>4, FoldsAgree
      <3> HIDE DEF f, V, h
      <3> QED BY <3>3, <3>5
    <2>5. h[U] = IF U = {} THEN 0 ELSE First(U).cents + f[V][V]
      OBVIOUS
    <2> HIDE DEF f, h, V
    <2> QED BY <2>2, <2>4, <2>5
  <1>6. \A s \in SUBSET T : s # {} => s \ {First(s)} \in SUBSET T /\ s \ {First(s)} # T
    BY FirstIn
  <1>7. h = [s \in SUBSET T |-> IF s = {} THEN 0 ELSE First(s).cents + h[s \ {First(s)}]]
    <2>1. \A s \in SUBSET T : s # {} => h[s \ {First(s)}] = f[s \ {First(s)}][s \ {First(s)}]
      BY <1>5, <1>6
    <2> HIDE DEF f
    <2> QED BY <2>1
  <1>8. Folds(T, h)
    BY <1>7 DEF Folds
  <1> QED BY <1>2, <1>8

LEMMA TallyUnfolds ==
  ASSUME NEW S, IsFiniteSet(S)
  PROVE  /\ S = {} => Tally(S) = 0
         /\ S # {} => Tally(S) = First(S).cents + Tally(S \ {First(S)})
  <1> DEFINE V == S \ {First(S)}
             g == CHOOSE f : Folds(S, f)
             h == CHOOSE f : Folds(V, f)
  <1>1. IsFiniteSet(V)
    BY FS_Subset
  <1>2. Folds(S, g) /\ Folds(V, h)
    BY <1>1, FoldExists
  <1>3. Tally(S) = g[S] /\ Tally(V) = h[V]
    BY TallyIsFold
  <1> HIDE DEF g, h
  <1>4. g[V] = h[V]
    <2>1. V \subseteq S /\ V \subseteq V
      OBVIOUS
    <2> HIDE DEF V
    <2> QED BY <1>2, <2>1, FoldsAgree
  <1>5. g[S] = IF S = {} THEN 0 ELSE First(S).cents + g[V]
    BY <1>2 DEF Folds
  <1> QED BY <1>3, <1>4, <1>5

\* A finite set of rows with integer figures.
Figured(S) == IsFiniteSet(S) /\ \A x \in S : x.cents \in Int

LEMMA TallyEmpty == Tally({}) = 0
  BY TallyUnfolds, FS_EmptySet

LEMMA TallyInt ==
  ASSUME NEW S, Figured(S)
  PROVE  Tally(S) \in Int
  <1> DEFINE F == {T \in SUBSET S : Tally(T) \notin Int}
  <1>1. SUFFICES ASSUME F # {} PROVE FALSE
    OBVIOUS
  <1>0. IsFiniteSet(S)
    BY DEF Figured
  <1>f. \A X \in F : X \subseteq S
    OBVIOUS
  <1> HIDE DEF F
  <1>2. PICK T \in F : \A U \in F : U \subseteq T => U = T
    BY <1>0, <1>1, <1>f, SmallestSet
  <1> USE DEF F
  <1>3. IsFiniteSet(T)
    BY <1>0, FS_Subset
  <1>4. T # {}
    BY TallyEmpty
  <1>5. Tally(T) = First(T).cents + Tally(T \ {First(T)}) /\ First(T) \in T
    BY <1>3, <1>4, TallyUnfolds, FirstIn
  <1>6. Tally(T \ {First(T)}) \in Int
    BY <1>2, <1>5
  <1> QED BY <1>2, <1>5, <1>6 DEF Figured

\* The order in which the fold takes the rows does not matter.
LEMMA TallyRemove ==
  ASSUME NEW S, Figured(S), NEW x \in S
  PROVE  Tally(S) = x.cents + Tally(S \ {x})
  <1> DEFINE F == {T \in SUBSET S : \E y \in T : Tally(T) # y.cents + Tally(T \ {y})}
  <1>1. SUFFICES ASSUME F # {} PROVE FALSE
    OBVIOUS
  <1>0. IsFiniteSet(S)
    BY DEF Figured
  <1>f. \A X \in F : X \subseteq S
    OBVIOUS
  <1> HIDE DEF F
  <1>2. PICK T \in F : \A U \in F : U \subseteq T => U = T
    BY <1>0, <1>1, <1>f, SmallestSet
  <1> USE DEF F
  <1>3. PICK y \in T : Tally(T) # y.cents + Tally(T \ {y})
    BY <1>2
  <1> DEFINE c == First(T)
             R == (T \ {c}) \ {y}
  <1>4. IsFiniteSet(T) /\ c \in T /\ R = (T \ {y}) \ {c}
    BY <1>0, FS_Subset, FirstIn
  <1>5. Tally(T) = c.cents + Tally(T \ {c})
    BY <1>4, TallyUnfolds
  <1>6. c # y
    BY <1>3, <1>5
  <1>7. Tally(T \ {c}) = y.cents + Tally(R)
    BY <1>2, <1>4, <1>6
  <1>8. Tally(T \ {y}) = c.cents + Tally(R)
    <2>1. T \ {y} \notin F
      BY <1>2
    <2> QED BY <1>4, <1>6, <2>1
  <1>9. Figured(R)
    BY <1>4, FS_Subset DEF Figured
  <1>10. c.cents \in Int /\ y.cents \in Int /\ Tally(R) \in Int
    BY <1>4, <1>9, TallyInt DEF Figured
  <1> HIDE DEF c, R
  <1> QED BY <1>3, <1>5, <1>7, <1>8, <1>10

LEMMA TallyAdd ==
  ASSUME NEW S, Figured(S), NEW x, x.cents \in Int, x \notin S
  PROVE  Figured(S \cup {x}) /\ Tally(S \cup {x}) = Tally(S) + x.cents
  <1>1. Figured(S \cup {x})
    BY FS_AddElement DEF Figured
  <1>2. (S \cup {x}) \ {x} = S
    OBVIOUS
  <1>3. Tally(S \cup {x}) = x.cents + Tally(S)
    BY <1>1, <1>2, TallyRemove
  <1>4. Tally(S) \in Int
    BY TallyInt
  <1> QED BY <1>1, <1>3, <1>4

LEMMA TallyUnion ==
  ASSUME NEW S, NEW T, Figured(S), Figured(T), S \cap T = {}
  PROVE  Tally(S \cup T) = Tally(S) + Tally(T)
  <1> DEFINE F == {U \in SUBSET T : Tally(S \cup U) # Tally(S) + Tally(U)}
  <1>1. SUFFICES ASSUME F # {} PROVE FALSE
    OBVIOUS
  <1>0. IsFiniteSet(T)
    BY DEF Figured
  <1>f. \A X \in F : X \subseteq T
    OBVIOUS
  <1> HIDE DEF F
  <1>2. PICK U \in F : \A V \in F : V \subseteq U => V = U
    BY <1>0, <1>1, <1>f, SmallestSet
  <1> USE DEF F
  <1>3. Tally(S) \in Int /\ S \cup {} = S
    BY TallyInt
  <1>a. {} \notin F
    BY <1>3, TallyEmpty
  <1>4. PICK x \in U : TRUE
    BY <1>2, <1>a
  <1> DEFINE V == U \ {x}
  <1>5. V \subseteq U /\ V # U /\ V \subseteq T /\ x \notin S \cup V
    BY <1>4
  <1>6. Figured(V) /\ Figured(S \cup V)
    <2>1. IsFiniteSet(V) /\ IsFiniteSet(S \cup V)
      BY <1>0, <1>5, FS_Subset, FS_Union DEF Figured
    <2> QED BY <1>5, <2>1 DEF Figured
  <1>7. Tally(S \cup V) = Tally(S) + Tally(V)
    BY <1>2, <1>5
  <1>8. x.cents \in Int /\ S \cup U = (S \cup V) \cup {x} /\ U = V \cup {x}
    BY <1>4 DEF Figured
  <1>9. Tally(S \cup U) = Tally(S \cup V) + x.cents /\ Tally(U) = Tally(V) + x.cents
    BY <1>5, <1>6, <1>8, TallyAdd
  <1>10. Tally(V) \in Int
    BY <1>6, TallyInt
  <1> HIDE DEF V
  <1> QED BY <1>2, <1>3, <1>7, <1>8, <1>9, <1>10

LEMMA TallySign ==
  ASSUME NEW S, Figured(S)
  PROVE  /\ (\A x \in S : x.cents >= 0) => Tally(S) >= 0
         /\ (\A x \in S : x.cents <= 0) => Tally(S) <= 0
  <1> DEFINE Bad(T) == \/ (\A x \in T : x.cents >= 0) /\ ~(Tally(T) >= 0)
                       \/ (\A x \in T : x.cents <= 0) /\ ~(Tally(T) <= 0)
             F == {T \in SUBSET S : Bad(T)}
  <1>1. SUFFICES ASSUME F # {} PROVE FALSE
    OBVIOUS
  <1>0. IsFiniteSet(S)
    BY DEF Figured
  <1>f. \A X \in F : X \subseteq S
    OBVIOUS
  <1> HIDE DEF F
  <1>2. PICK T \in F : \A U \in F : U \subseteq T => U = T
    BY <1>0, <1>1, <1>f, SmallestSet
  <1> USE DEF F
  <1>a. {} \notin F
    BY TallyEmpty
  <1>3. PICK x \in T : TRUE
    BY <1>2, <1>a
  <1>4. ~Bad(T \ {x})
    BY <1>2, <1>3
  <1>5. Figured(T) /\ Figured(T \ {x})
    BY <1>0, FS_Subset DEF Figured
  <1>6. x.cents \in Int /\ Tally(T \ {x}) \in Int /\ Tally(T) = x.cents + Tally(T \ {x})
    BY <1>3, <1>5, TallyInt, TallyRemove DEF Figured
  <1> QED BY <1>2, <1>3, <1>4, <1>6

\* Billing the rows leaves their sum.
InBill(x) == [x EXCEPT !.billed = TRUE]
Bill(S)   == {InBill(x) : x \in S}

LEMMA TallyBill ==
  ASSUME NEW S, S \subseteq Row, IsFiniteSet(S),
         \A x, y \in S : x.by = y.by /\ x.nth = y.nth => x = y
  PROVE  /\ Tally(Bill(S)) = Tally(S)
         /\ IsFiniteSet(Bill(S)) /\ Cardinality(Bill(S)) = Cardinality(S)
  <1> DEFINE Fine(T) == /\ Tally(Bill(T)) = Tally(T)
                        /\ IsFiniteSet(Bill(T)) /\ Cardinality(Bill(T)) = Cardinality(T)
             F == {T \in SUBSET S : ~Fine(T)}
  <1>1. SUFFICES ASSUME F # {} PROVE FALSE
    OBVIOUS
  <1>f. \A X \in F : X \subseteq S
    OBVIOUS
  <1> HIDE DEF F
  <1>2. PICK T \in F : \A U \in F : U \subseteq T => U = T
    BY <1>1, <1>f, SmallestSet
  <1> USE DEF F
  <1>3. Bill({}) = {}
    BY DEF Bill
  <1>4. PICK x \in T : TRUE
    BY <1>2, <1>3, TallyEmpty, FS_EmptySet
  <1> DEFINE U == T \ {x}
             b == InBill(x)
  <1>5. Fine(U)
    BY <1>2, <1>4
  <1>6. T = U \cup {x} /\ x \notin U /\ Bill(T) = Bill(U) \cup {b}
    BY <1>4 DEF Bill
  <1>7. \A y \in S : /\ InBill(y) \in Row
                      /\ InBill(y).by = y.by
                      /\ InBill(y).nth = y.nth
                      /\ InBill(y).cents = y.cents
    BY DEF Row, InBill
  <1>8. b \notin Bill(U) /\ b.cents = x.cents
    <2>1. ASSUME NEW y \in U, b = InBill(y) PROVE FALSE
      <3>1. x \in S /\ y \in S /\ x # y
        BY <1>4
      <3>2. b.by = x.by /\ b.nth = x.nth /\ b.by = y.by /\ b.nth = y.nth
        BY <1>7, <2>1, <3>1
      <3> QED BY <3>1, <3>2
    <2> QED BY <1>4, <1>7, <2>1 DEF Bill
  <1>9. \A r \in Row : r.cents \in Int
    BY DEF Row
  <1>10. Figured(U) /\ Figured(Bill(U)) /\ x.cents \in Int
    <2>1. IsFiniteSet(U) /\ U \subseteq Row /\ Bill(U) \subseteq Row
      BY <1>7, FS_Subset DEF Bill
    <2> QED BY <1>4, <1>5, <1>9, <2>1 DEF Figured
  <1> HIDE DEF U, b
  <1>11. Tally(T) = Tally(U) + x.cents
    BY <1>6, <1>10, TallyAdd
  <1>12. Tally(Bill(T)) = Tally(Bill(U)) + b.cents
    <2>1. b.cents \in Int
      BY <1>8, <1>10
    <2> QED BY <1>6, <1>8, <1>10, <2>1, TallyAdd
  <1>13. IsFiniteSet(Bill(T)) /\ Cardinality(Bill(T)) = Cardinality(T)
    <2>1. IsFiniteSet(U) /\ IsFiniteSet(Bill(U)) /\ b \notin Bill(U) /\ x \notin U
      BY <1>6, <1>8, <1>10 DEF Figured
    <2>2. Cardinality(U \cup {x}) = Cardinality(U) + 1
      BY <2>1, FS_AddElement
    <2>3. /\ IsFiniteSet(Bill(U) \cup {b})
          /\ Cardinality(Bill(U) \cup {b}) = Cardinality(Bill(U)) + 1
      BY <2>1, FS_AddElement
    <2> QED BY <1>5, <1>6, <2>2, <2>3
  <1> QED BY <1>2, <1>5, <1>8, <1>11, <1>12, <1>13

-----------------------------------------------------------------------------
(* The inductive invariant.                                                *)

\* The rows of a request are numbered, from zero up.
Of(r) == {x \in rows : x.by = r}
Numbered ==
    /\ IsFiniteSet(rows)
    /\ \A x, y \in rows : x.by = y.by /\ x.nth = y.nth => x = y
    /\ \A x \in rows : x.nth < Cardinality(Of(x.by))

\* The signs of the figures, by who entered them.
Signed ==
    \A x \in rows :
        /\ Is(x.by, {"deposit"}) => x.cents >= 0
        /\ Is(x.by, {"refund", "correct"}) => x.cents <= 0
        /\ Is(x.by, {"correct"}) => x.billed

\* Which statement belongs to which request; most of them to an invoice that exists.
Leads(r, step) ==
    /\ step = "insert" => Is(r, {"deposit"})
    /\ step = "claim"  => Is(r, {"raise"}) /\ invoice.raised
    /\ step = "load"   => Is(r, {"sync"}) /\ invoice.raised
    /\ step = "sum"    => Is(r, {"card", "offline", "sync", "refund"}) /\ invoice.raised
    /\ step = "append" => Is(r, {"card", "offline", "sync", "refund", "correct"}) /\ invoice.raised
    /\ step \in {"read", "write"} =>
          Is(r, {"card", "offline", "sync", "refund", "correct", "raise"}) /\ invoice.raised
    /\ step = "write"  => Billed # {}
    /\ step = "ask"    => Is(r, {"offline"})
    /\ step = "unlock" => Is(r, {"card", "offline"})
    /\ step \in {"check", "lower"} => Is(r, {"void", "refund", "correct", "raise"})
    /\ step \in {"held", "hold"} => Is(r, {"refund"})
    /\ step = "dead"   => ~Webhook(r)
Path(r) == Leads(r, req[r].at)
Paths == \A r \in Requests : Path(r)

\* The figures a request carries: what it will append fits what it has seen.
Fits(r, saw, cents) ==
    /\ InFull(r) => saw < Total /\ cents = Total - saw
    /\ Is(r, {"sync"}) => saw + cents <= Total /\ saw + cents >= 0
    /\ Is(r, {"offline"}) => cents >= 0 /\ saw + cents <= Total
    /\ Is(r, {"refund"}) => cents <= 0 /\ saw + cents >= 0
    /\ Is(r, {"correct"}) => cents <= 0
Bears(r) ==
    /\ req[r].rest >= 0
    /\ req[r].at = "sum" /\ Is(r, {"refund"}) => req[r].cents >= 0
    /\ req[r].at = "hold" => req[r].rest <= req[r].saw
    /\ req[r].at = "append" => Fits(r, req[r].saw, req[r].cents)
Bearing == \A r \in Requests : Bears(r)

Base == TypeOK /\ Numbered /\ Signed /\ Paths /\ Bearing

Unopened == Billed = {} => invoice.cached = 0 /\ ~invoice.paid

\* The invoice shows the ledger, or somebody is about to see to it.
Shown == invoice.cached = Net /\ (invoice.paid <=> Net >= Total)
Recomputes(r) == ~Is(r, {"card"}) /\ req[r].at \in {"read", "write", "dead"}
Settles(r)    == Is(r, {"card"}) /\ req[r].at \in {"retry", "sum", "append", "read", "write"}
Caught ==
    ~blind => \/ Shown
              \/ \E r \in Requests : Recomputes(r)
              \/ ~invoice.paid /\ \E r \in Requests : Settles(r)

\* Where QuickBooks entered nothing, an invoice paid by more than there is left
\* is seen to by the request that took it away.
NoSync == \A x \in rows : ~Is(x.by, {"sync"})
Lowers(r) == Is(r, {"refund", "correct", "raise"})
Takes(r)  == Lowers(r) /\ req[r].at \in {"read", "write", "dead"}
LastPaid ==
    ~blind /\ NoSync /\ invoice.paid /\ Net < Total => \E r \in Requests : Takes(r)

\* A report open without a paid invoice is about to be closed, ...
Closes(r) ==
    \/ Lowers(r) /\ req[r].at \in {"read", "write", "check", "lower", "dead"}
    \/ Is(r, {"void"}) /\ req[r].at \in {"check", "lower", "dead"}
Closing == ~blind /\ NoSync /\ gate /\ ~Backed => \E r \in Requests : Closes(r)

\* ... and one closed with a paid invoice is about to be opened.
Opens(r) ==
    \/ Settles(r)
    \/ Is(r, {"card", "offline"}) /\ req[r].at = "unlock"
    \/ Is(r, {"offline"}) /\ req[r].at \in {"read", "write", "dead"}
    \/ Is(r, {"offline"}) /\ req[r].at = "ask" /\ invoice.paid
Opening ==
    ~blind /\ NoSync /\ Advance < Total =>
        /\ Net >= Total /\ ~invoice.paid => \E r \in Requests : Opens(r)
        /\ Backed /\ ~gate => \E r \in Requests : Opens(r)

Seen == Unopened /\ Caught /\ LastPaid /\ Closing /\ Opening
IInv == Base /\ DepositOnce /\ InBounds /\ Seen

-----------------------------------------------------------------------------
(* What becomes of the rows and of their sums.                             *)

Deposits == {x \in rows : Is(x.by, {"deposit"})}
Fixed    == Tally(Corrected)

LEMMA Summed == Net = Tally(Billed) /\ Held = Tally(rows \ Billed) /\ Advance = Tally(Deposits)
  BY DEF Net, Held, Advance, Deposits, Tally

LEMMA SummedNext ==
  Net' = Tally(Billed') /\ Held' = Tally(rows' \ Billed') /\ Advance' = Tally(Deposits')
  /\ Fixed' = Tally(Corrected')
  BY DEF Net, Held, Advance, Deposits, Fixed, Tally

LEMMA AllFigured ==
  ASSUME rows \in SUBSET Row, IsFiniteSet(rows), NEW S, S \subseteq rows
  PROVE  Figured(S) /\ Tally(S) \in Int
  <1>1. IsFiniteSet(S)
    BY FS_Subset
  <1>2. \A x \in S : x.cents \in Int
    BY DEF Row
  <1>3. Figured(S)
    BY <1>1, <1>2 DEF Figured
  <1> QED BY <1>3, TallyInt

LEMMA SumsAreInt ==
  ASSUME rows \in SUBSET Row, IsFiniteSet(rows)
  PROVE  Net \in Int /\ Held \in Int /\ Advance \in Int /\ Fixed \in Int
  <1>1. /\ Billed \subseteq rows /\ rows \ Billed \subseteq rows
        /\ Deposits \subseteq rows /\ Corrected \subseteq rows
    BY DEF Billed, Deposits, Corrected
  <1> QED BY <1>1, Summed, AllFigured DEF Fixed

\* No more is held than was paid in advance; corrections add nothing.
LEMMA HeldIsAdvance ==
  ASSUME rows \in SUBSET Row, IsFiniteSet(rows), Signed,
         \A x \in rows : ~x.billed => Is(x.by, {"deposit", "refund"})
  PROVE  Held <= Advance /\ Fixed <= 0
  <1> DEFINE U == rows \ Billed
             D == {x \in U : Is(x.by, {"deposit"})}
             E == {x \in Deposits : x \notin D}
  <1>1. /\ Figured(D) /\ Tally(D) \in Int
        /\ Figured(U \ D) /\ Tally(U \ D) \in Int
        /\ Figured(E) /\ Tally(E) \in Int
        /\ Figured(Corrected)
    <2>1. /\ D \subseteq rows /\ U \ D \subseteq rows /\ E \subseteq rows
          /\ Corrected \subseteq rows
      BY DEF Deposits, Corrected
    <2> HIDE DEF U, D, E
    <2> QED BY <2>1, AllFigured
  <1>2. /\ U = D \cup (U \ D) /\ D \cap (U \ D) = {}
        /\ Deposits = D \cup E /\ D \cap E = {}
    BY DEF Deposits
  <1>3. /\ \A x \in U \ D : x.cents <= 0
        /\ \A x \in E : x.cents >= 0
        /\ \A x \in Corrected : x.cents <= 0
    BY DEF Signed, Billed, Is, Deposits, Corrected
  <1>4. Tally(U \ D) <= 0 /\ Tally(E) >= 0 /\ Tally(Corrected) <= 0
    <2> HIDE DEF U, D, E
    <2> QED BY <1>1, <1>3, TallySign
  <1>5. Held = Tally(D) + Tally(U \ D) /\ Advance = Tally(D) + Tally(E)
    <2>1. Held = Tally(U) /\ Advance = Tally(Deposits)
      BY Summed
    <2> HIDE DEF U, D, E
    <2> QED BY <1>1, <1>2, <2>1, TallyUnion
  <1> HIDE DEF U, D, E
  <1> QED BY <1>1, <1>4, <1>5 DEF Fixed

LEMMA NewRowIsNew ==
  ASSUME rows \in SUBSET Row, Numbered, NEW r \in Requests, NEW cents \in Int,
         NEW billed \in BOOLEAN
  PROVE  /\ NewRow(r, cents, billed) \in Row \ rows
         /\ NewRow(r, cents, billed) = [by |-> r, nth |-> Cardinality(Of(r)),
                                        cents |-> cents, billed |-> billed]
  <1>1. IsFiniteSet(Of(r))
    BY FS_Subset DEF Of, Numbered
  <1>2. Cardinality(Of(r)) \in Nat
    BY <1>1, FS_CardinalityType
  <1> DEFINE n == Cardinality(Of(r))
             x == [by |-> r, nth |-> n, cents |-> cents, billed |-> billed]
  <1>3. NewRow(r, cents, billed) = x
    BY DEF NewRow, Of
  <1> HIDE DEF n
  <1>4. x \in Row /\ x.by = r /\ x.nth = n
    BY <1>2 DEF Row, n
  <1> HIDE DEF x
  <1>5. x \notin rows
    <2>1. SUFFICES ASSUME x \in rows PROVE FALSE
      OBVIOUS
    <2>2. n < n
      BY <1>4, <2>1 DEF Numbered, n
    <2> QED BY <1>2, <2>2 DEF n
  <1> QED BY <1>3, <1>4, <1>5 DEF x, n

LEMMA Enters ==
  ASSUME rows \in SUBSET Row, Numbered, NEW r \in Requests, NEW cents \in Int,
         NEW billed \in BOOLEAN, rows' = rows \cup {NewRow(r, cents, billed)}
  PROVE  /\ rows' \in SUBSET Row /\ Numbered'
         /\ Billed' = IF billed THEN Billed \cup {NewRow(r, cents, billed)} ELSE Billed
         /\ Net' = IF billed THEN Net + cents ELSE Net
         /\ Held' = IF billed THEN Held ELSE Held + cents
         /\ Advance' = IF Kind[r] = "deposit" THEN Advance + cents ELSE Advance
         /\ Fixed' = IF Kind[r] = "correct" THEN Fixed + cents ELSE Fixed
  <1> DEFINE x == NewRow(r, cents, billed)
  <1>1. /\ x \in Row \ rows /\ x.by = r /\ x.nth = Cardinality(Of(r))
        /\ x.cents = cents /\ x.billed = billed
    BY NewRowIsNew
  <1>2. rows' = rows \cup {x} /\ IsFiniteSet(rows)
    BY DEF Numbered
  <1> HIDE DEF x
  <1>3. Figured(Billed) /\ Figured(rows \ Billed) /\ Figured(Deposits) /\ Figured(Corrected)
    <2>1. /\ Billed \subseteq rows /\ rows \ Billed \subseteq rows
          /\ Deposits \subseteq rows /\ Corrected \subseteq rows
      BY DEF Billed, Deposits, Corrected
    <2> QED BY <1>2, <2>1, AllFigured
  <1>4. /\ Billed' = IF billed THEN Billed \cup {x} ELSE Billed
        /\ rows' \ Billed' = IF billed THEN rows \ Billed ELSE (rows \ Billed) \cup {x}
        /\ Deposits' = IF Kind[r] = "deposit" THEN Deposits \cup {x} ELSE Deposits
        /\ Corrected' = IF Kind[r] = "correct" THEN Corrected \cup {x} ELSE Corrected
    BY <1>1, <1>2 DEF Billed, Deposits, Corrected, Is
  <1>5. x \notin Billed /\ x \notin rows \ Billed /\ x \notin Deposits /\ x \notin Corrected
    BY <1>1 DEF Billed, Deposits, Corrected
  <1>6. /\ Tally(Billed \cup {x}) = Tally(Billed) + cents
        /\ Tally((rows \ Billed) \cup {x}) = Tally(rows \ Billed) + cents
        /\ Tally(Deposits \cup {x}) = Tally(Deposits) + cents
        /\ Tally(Corrected \cup {x}) = Tally(Corrected) + cents
    BY <1>1, <1>3, <1>5, TallyAdd
  <1>7. /\ Net' = IF billed THEN Net + cents ELSE Net
        /\ Held' = IF billed THEN Held ELSE Held + cents
        /\ Advance' = IF Kind[r] = "deposit" THEN Advance + cents ELSE Advance
        /\ Fixed' = IF Kind[r] = "correct" THEN Fixed + cents ELSE Fixed
    BY <1>4, <1>6, Summed, SummedNext DEF Fixed
  <1>8. Of(r)' = Of(r) \cup {x} /\ \A q : q # r => Of(q)' = Of(q)
    BY <1>1, <1>2 DEF Of
  <1>9. /\ IsFiniteSet(Of(r)) /\ Cardinality(Of(r)) \in Nat
        /\ Cardinality(Of(r)') = Cardinality(Of(r)) + 1
    <2>1. IsFiniteSet(Of(r)) /\ x \notin Of(r)
      BY <1>1, <1>2, FS_Subset DEF Of
    <2> QED BY <1>8, <2>1, FS_AddElement, FS_CardinalityType
  <1>10. Numbered'
    <2>1. IsFiniteSet(rows')
      BY <1>2, FS_AddElement
    <2>2. \A y \in rows : y.nth \in Nat /\ y.nth < Cardinality(Of(y.by))
      BY DEF Numbered, Row
    <2>3. \A y \in rows' : y.nth < Cardinality(Of(y.by)')
      <3>1. SUFFICES ASSUME NEW y \in rows' PROVE y.nth < Cardinality(Of(y.by)')
        OBVIOUS
      <3>2. CASE y.by = r
        <4>1. y.nth < Cardinality(Of(r)) + 1
          BY <1>1, <1>2, <1>9, <2>2, <3>1, <3>2
        <4> QED BY <1>9, <3>2, <4>1
      <3>3. CASE y.by # r
        <4>1. y \in rows
          BY <1>1, <1>2, <3>1, <3>3
        <4> QED BY <1>8, <2>2, <3>3, <4>1
      <3> QED BY <3>2, <3>3
    <2>4. \A y \in rows : y.by = r => y.nth # x.nth
      BY <1>1, <1>9, <2>2
    <2>5. \A y, z \in rows' : y.by = z.by /\ y.nth = z.nth => y = z
      BY <1>1, <1>2, <2>4 DEF Numbered
    <2>6. \A y \in rows' : Of(y.by)' = {z \in rows' : z.by = y.by}
      BY DEF Of
    <2> QED BY <2>1, <2>3, <2>5, <2>6 DEF Numbered, Of
  <1> QED BY <1>1, <1>2, <1>4, <1>7, <1>10 DEF x

LEMMA Bills ==
  ASSUME rows \in SUBSET Row, Numbered, rows' = {[x EXCEPT !.billed = TRUE] : x \in rows}
  PROVE  /\ rows' \in SUBSET Row /\ Numbered' /\ Billed' = rows'
         /\ \A x \in rows' : \E y \in rows : x.by = y.by /\ x.cents = y.cents
         /\ \A y \in rows : \E x \in rows' : x.by = y.by /\ x.cents = y.cents
         /\ Net' = Net + Held /\ Held' = 0 /\ Advance' = Advance
         /\ (\A x \in Corrected : x.billed) => Fixed' = Fixed
  <1>1. /\ rows' = Bill(rows)
        /\ IsFiniteSet(rows) /\ \A x, y \in rows : x.by = y.by /\ x.nth = y.nth => x = y
    BY DEF Bill, InBill, Numbered
  <1>2. ASSUME NEW S, S \subseteq rows
        PROVE  /\ Tally(Bill(S)) = Tally(S) /\ IsFiniteSet(Bill(S))
               /\ Cardinality(Bill(S)) = Cardinality(S)
    <2>1. /\ S \subseteq Row /\ IsFiniteSet(S)
          /\ \A x, y \in S : x.by = y.by /\ x.nth = y.nth => x = y
      BY <1>1, <1>2, FS_Subset
    <2> QED BY <2>1, TallyBill
  <1>3. \A x \in rows : /\ InBill(x) \in Row /\ InBill(x).billed /\ InBill(x).by = x.by
                        /\ InBill(x).nth = x.nth /\ InBill(x).cents = x.cents
                        /\ x.billed => InBill(x) = x
    BY DEF Row, InBill
  <1>4. rows' \in SUBSET Row /\ Billed' = rows' /\ rows' \ Billed' = {}
    BY <1>1, <1>3 DEF Bill, Billed
  <1>5. /\ Deposits' = Bill(Deposits) /\ Deposits \subseteq rows
        /\ Corrected' = Bill(Corrected) /\ Corrected \subseteq rows
    BY <1>1, <1>3 DEF Bill, Deposits, Corrected
  <1>6. (\A x \in Corrected : x.billed) => Corrected' = Corrected
    BY <1>3, <1>5 DEF Bill
  <1>7. Net' = Tally(rows)
    BY <1>1, <1>2, <1>4, SummedNext
  <1>8. Tally(rows) = Net + Held
    <2>1. /\ Billed \subseteq rows /\ rows \ Billed \subseteq rows
          /\ Billed \cap (rows \ Billed) = {} /\ Billed \cup (rows \ Billed) = rows
      BY DEF Billed
    <2>2. Figured(Billed) /\ Figured(rows \ Billed)
      BY <1>1, <2>1, AllFigured
    <2>3. Tally(Billed \cup (rows \ Billed)) = Tally(Billed) + Tally(rows \ Billed)
      BY <2>1, <2>2, TallyUnion
    <2> QED BY <2>1, <2>3, Summed
  <1>9. /\ Held' = 0 /\ Advance' = Advance
        /\ (\A x \in Corrected : x.billed) => Fixed' = Fixed
    BY <1>2, <1>4, <1>5, <1>6, Summed, SummedNext, TallyEmpty DEF Fixed
  <1>10. \A r : Of(r)' = Bill(Of(r)) /\ Cardinality(Of(r)') = Cardinality(Of(r))
    <2>1. ASSUME NEW r PROVE Of(r)' = Bill(Of(r)) /\ Of(r) \subseteq rows
      BY <1>1, <1>3 DEF Bill, Of
    <2> QED BY <1>2, <2>1
  <1>11. Numbered'
    <2>1. ASSUME NEW x \in rows' PROVE x.nth < Cardinality(Of(x.by)')
      <3>1. PICK y \in rows : x = InBill(y)
        BY <1>1 DEF Bill
      <3>2. x.by = y.by /\ x.nth = y.nth
        BY <1>3, <3>1
      <3>3. y.nth < Cardinality(Of(y.by))
        BY DEF Numbered
      <3> QED BY <1>10, <3>2, <3>3
    <2>2. \A x, y \in rows' : x.by = y.by /\ x.nth = y.nth => x = y
      <3> SUFFICES ASSUME NEW v \in rows, NEW w \in rows, NEW x, NEW y,
                          x = InBill(v), y = InBill(w),
                          x.by = y.by, x.nth = y.nth
                   PROVE  x = y
        BY <1>1 DEF Bill
      <3>1. v.by = w.by /\ v.nth = w.nth
        BY <1>3
      <3>2. v = w
        BY <1>1, <3>1
      <3> QED BY <3>2
    <2>3. IsFiniteSet(rows')
      BY <1>1, <1>2
    <2>4. \A x : Of(x.by)' = {z \in rows' : z.by = x.by}
      BY DEF Of
    <2> QED BY <2>1, <2>2, <2>3, <2>4 DEF Numbered, Of
  <1>12. /\ \A x \in rows' : \E y \in rows : x.by = y.by /\ x.cents = y.cents
         /\ \A y \in rows : \E x \in rows' : x.by = y.by /\ x.cents = y.cents
    BY <1>1, <1>3 DEF Bill
  <1> QED BY <1>4, <1>7, <1>8, <1>9, <1>11, <1>12

LEMMA RowsStay ==
  ASSUME rows' = rows
  PROVE  /\ Billed' = Billed /\ Net' = Net /\ Held' = Held /\ Advance' = Advance
         /\ Fixed' = Fixed /\ (Numbered => Numbered') /\ (Signed => Signed')
         /\ (DepositOnce => DepositOnce') /\ (NoSync' => NoSync)
  <1>1. /\ Billed' = Billed /\ Deposits' = Deposits /\ Corrected' = Corrected
        /\ \A r : Of(r)' = Of(r)
    BY DEF Billed, Deposits, Corrected, Of
  <1>2. Net' = Net /\ Held' = Held /\ Advance' = Advance /\ Fixed' = Fixed
    BY <1>1, Summed, SummedNext DEF Fixed
  <1> QED BY <1>1, <1>2 DEF Numbered, Signed, DepositOnce, NoSync, Of

-----------------------------------------------------------------------------
(* What becomes of a request.                                              *)

Standing == [at : At, cents : Int, rest : Int, saw : Int]

LEMMA Replaces ==
  ASSUME req \in [Requests -> Standing], NEW r \in Requests, NEW q \in Standing,
         req' = [req EXCEPT ![r] = q]
  PROVE  /\ req' \in [Requests -> Standing] /\ req'[r] = q
         /\ \A p \in Requests \ {r} : req'[p] = req[p]
  OBVIOUS

LEMMA Goes ==
  ASSUME req \in [Requests -> Standing], NEW r \in Requests, NEW step \in At, Goto(r, step)
  PROVE  /\ req' \in [Requests -> Standing]
         /\ \A p \in Requests \ {r} : req'[p] = req[p]
         /\ req'[r].at = step
         /\ req'[r].rest = IF step \in Over THEN 0 ELSE req[r].rest
         /\ req'[r].cents = IF step \in Over THEN 0 ELSE req[r].cents
         /\ req'[r].saw = IF step \in Over THEN 0 ELSE req[r].saw
  <1> DEFINE q == IF step \in Over THEN Fresh(step) ELSE [req[r] EXCEPT !.at = step]
  <1>1. /\ q \in Standing /\ q.at = step
        /\ q.rest = IF step \in Over THEN 0 ELSE req[r].rest
        /\ q.cents = IF step \in Over THEN 0 ELSE req[r].cents
        /\ q.saw = IF step \in Over THEN 0 ELSE req[r].saw
    BY DEF Fresh, Standing
  <1>2. req' = [req EXCEPT ![r] = q]
    BY DEF Goto
  <1> HIDE DEF q
  <1> QED BY <1>1, <1>2, Replaces

LEMMA Carries ==
  ASSUME req \in [Requests -> Standing], NEW r \in Requests, NEW step \in At,
         NEW cents \in Int, Net \in Int, Carry(r, step, cents)
  PROVE  /\ req' \in [Requests -> Standing]
         /\ \A p \in Requests \ {r} : req'[p] = req[p]
         /\ req'[r].at = step /\ req'[r].cents = cents /\ req'[r].saw = Net
         /\ req'[r].rest = req[r].rest
  <1> DEFINE q == [req[r] EXCEPT !.at = step, !.cents = cents, !.saw = Net]
  <1>1. /\ q \in Standing /\ q.at = step /\ q.cents = cents /\ q.saw = Net
        /\ q.rest = req[r].rest
    BY DEF Standing
  <1>2. req' = [req EXCEPT ![r] = q]
    BY DEF Carry
  <1> HIDE DEF q
  <1> QED BY <1>1, <1>2, Replaces

\* The other requests stay on their paths, and what they carry still fits.
LEMMA OthersStay ==
  ASSUME Base, NEW r \in Requests, \A p \in Requests \ {r} : req'[p] = req[p],
         invoice.raised => invoice'.raised, Billed # {} => Billed' # {}, Path(r)', Bears(r)'
  PROVE  Paths' /\ Bearing'
  <1>1. ASSUME NEW p \in Requests, p # r PROVE Path(p)' /\ Bears(p)'
    <2>1. req'[p] = req[p] /\ Path(p) /\ Bears(p)
      BY <1>1 DEF Base, Paths, Bearing
    <2> QED BY <2>1 DEF Path, Leads, Bears
  <1>2. \A p \in Requests : Path(p)' /\ Bears(p)'
    BY <1>1
  <1> QED BY <1>2 DEF Paths, Bearing

-----------------------------------------------------------------------------
(* Every step keeps the types, the paths and the bounds of the ledger.     *)

Safe == Base /\ DepositOnce /\ InBounds

Typed ==
    /\ gate \in BOOLEAN /\ faults \in 0 .. MaxFaults /\ blind \in BOOLEAN
    /\ invoice \in [raised : BOOLEAN, voided : BOOLEAN, paid : BOOLEAN, cached : Int]
    /\ req \in [Requests -> Standing]

LEMMA BaseFacts ==
  ASSUME Base
  PROVE  /\ Typed /\ rows \in SUBSET Row /\ Numbered /\ IsFiniteSet(rows)
         /\ Net \in Int /\ Held \in Int /\ Advance \in Int /\ Fixed \in Int
         /\ Held <= Advance /\ Fixed <= 0
         /\ Net > 0 => invoice.raised
         /\ Billed = {} => Net = 0
         /\ \A r \in Requests : Path(r) /\ Bears(r)
         /\ Total \in Nat \ {0} /\ \A r \in Requests : Amount[r] \in Nat
  <1>1. Typed /\ rows \in SUBSET Row /\ Numbered /\ IsFiniteSet(rows)
    BY DEF Base, Typed, TypeOK, Standing, Numbered
  <1>2. Billed = {} => Net = 0
    BY Summed, TallyEmpty
  <1>3. Net > 0 => invoice.raised
    BY <1>2 DEF Billed, Base, TypeOK
  <1>4. Held <= Advance /\ Fixed <= 0
    <2>1. \A x \in rows : ~x.billed => Is(x.by, {"deposit", "refund"})
      BY DEF Base, TypeOK
    <2> QED BY <1>1, <2>1, HeldIsAdvance DEF Base
  <1> QED BY <1>1, <1>2, <1>3, <1>4, SumsAreInt, Money DEF Base, Paths, Bearing

\* A step that leaves the ledger.
LEMMA Stays ==
  ASSUME Safe, NEW r \in Requests, rows' = rows, Typed', \A p \in Requests \ {r} : req'[p] = req[p],
         invoice.raised => invoice'.raised, blind => blind', Path(r)', Bears(r)'
  PROVE  Safe'
  <1>1. Billed' = Billed /\ Net' = Net /\ Held' = Held /\ Advance' = Advance /\ Fixed' = Fixed
        /\ Numbered' /\ Signed' /\ DepositOnce'
    BY RowsStay DEF Safe, Base
  <1>2. Paths' /\ Bearing'
    BY <1>1, OthersStay DEF Safe
  <1>3. TypeOK'
    BY DEF Safe, Base, TypeOK, Typed, Standing
  <1>4. InBounds'
    BY <1>1 DEF Safe, InBounds, Fixed, Tally
  <1> QED BY <1>1, <1>2, <1>3, <1>4 DEF Safe, Base

\* A step that enters a row.
LEMMA Adds ==
  ASSUME Safe, NEW r \in Requests, NEW cents \in Int, NEW billed \in BOOLEAN,
         rows' = rows \cup {NewRow(r, cents, billed)}, Typed',
         \A p \in Requests \ {r} : req'[p] = req[p],
         invoice' = invoice, Path(r)', Bears(r)',
         IF billed THEN invoice.raised ELSE Is(r, {"deposit", "refund"}),
         Is(r, {"deposit"}) => cents >= 0 /\ ~Known(r),
         Is(r, {"refund", "correct"}) => cents <= 0,
         Is(r, {"correct"}) => billed
  PROVE  Base' /\ DepositOnce'
  <1> DEFINE x == NewRow(r, cents, billed)
  <1>1. /\ x \in Row \ rows /\ x.by = r /\ x.cents = cents /\ x.billed = billed
    BY BaseFacts, NewRowIsNew DEF Safe
  <1>2. /\ rows' \in SUBSET Row /\ Numbered' /\ rows' = rows \cup {x}
        /\ Billed # {} => Billed' # {}
    <2>1. rows' \in SUBSET Row /\ Numbered' /\ rows' = rows \cup {x}
      BY BaseFacts, Enters DEF Safe
    <2> QED BY <2>1 DEF Billed
  <1> HIDE DEF x
  <1>3. Signed'
    BY <1>1, <1>2 DEF Safe, Base, Signed, Is
  <1>4. TypeOK'
    BY <1>1, <1>2 DEF Safe, Base, TypeOK, Typed, Standing, Is
  <1>5. Paths' /\ Bearing'
    BY <1>2, OthersStay DEF Safe
  <1>6. DepositOnce'
    <2>1. Is(r, {"deposit"}) => \A y \in rows : Is(y.by, {"deposit"}) => Ref[y.by] # Ref[r]
      BY DEF Known
    <2> QED BY <1>1, <1>2, <2>1 DEF Safe, DepositOnce, Is
  <1> QED BY <1>2, <1>3, <1>4, <1>5, <1>6 DEF Base

LEMMA BoundsAre ==
  InBounds <=> (~blind => (Net <= Total \/ Net <= Advance) /\ Held >= 0 /\ Net - Fixed >= 0)
  BY DEF InBounds, Fixed, Tally

LEMMA BoundsAreNext ==
  InBounds' <=> (~blind' => (Net' <= Total \/ Net' <= Advance') /\ Held' >= 0 /\ Net' - Fixed' >= 0)
  BY DEF InBounds, Fixed, Tally

LEMMA DepositSafe ==
  ASSUME Safe, NEW r \in Requests, Deposit(r)
  PROVE  Safe'
  <1> DEFINE step == IF Known(r) THEN "done" ELSE "insert"
  <1>1. Goto(r, step) /\ step \in {"done", "insert"} /\ Is(r, {"deposit"})
        /\ UNCHANGED <<rows, invoice, gate, faults, blind>>
    BY DEF Deposit
  <1> HIDE DEF step
  <1>2. Typed /\ Bears(r) /\ step \in At
    BY <1>1, BaseFacts DEF Safe, At
  <1>3. /\ req' \in [Requests -> Standing] /\ \A p \in Requests \ {r} : req'[p] = req[p]
        /\ req'[r].at = step /\ req'[r].rest = IF step \in Over THEN 0 ELSE req[r].rest
    BY <1>1, <1>2, Goes DEF Typed
  <1>4. Typed' /\ Path(r)' /\ Bears(r)'
    BY <1>1, <1>2, <1>3 DEF Typed, Path, Leads, Bears, Is
  <1> QED BY <1>1, <1>3, <1>4, Stays

LEMMA InsertDepositSafe ==
  ASSUME Safe, NEW r \in Requests, InsertDeposit(r)
  PROVE  Safe' /\ (rows' = rows \/ rows' = rows \cup {NewRow(r, Amount[r], FALSE)})
         /\ Is(r, {"deposit"})
  <1>1. /\ Goto(r, "done") /\ rows' = Deposited(r) /\ Is(r, {"deposit"})
        /\ UNCHANGED <<invoice, gate, faults, blind>>
    BY BaseFacts DEF InsertDeposit, Safe, Path, Leads
  <1>2. Typed /\ Amount[r] \in Nat
    BY BaseFacts DEF Safe
  <1>3. /\ req' \in [Requests -> Standing] /\ \A p \in Requests \ {r} : req'[p] = req[p]
        /\ req'[r].at = "done" /\ req'[r].rest = 0
    <2>1. "done" \in At /\ "done" \in Over
      BY DEF At, Over
    <2> QED BY <1>1, <1>2, <2>1, Goes DEF Typed
  <1>4. Typed' /\ Path(r)' /\ Bears(r)'
    BY <1>1, <1>2, <1>3 DEF Typed, Path, Leads, Bears
  <1>5. CASE Known(r)
    <2>1. rows' = rows
      BY <1>1, <1>5 DEF Deposited
    <2> QED BY <1>1, <1>3, <1>4, <2>1, Stays
  <1>6. CASE ~Known(r)
    <2>1. rows' = rows \cup {NewRow(r, Amount[r], FALSE)}
      BY <1>1, <1>6 DEF Deposited
    <2>2. Base' /\ DepositOnce'
      <3>1. /\ Amount[r] \in Int /\ Amount[r] >= 0 /\ Is(r, {"deposit", "refund"})
            /\ ~Is(r, {"refund", "correct"}) /\ ~Is(r, {"correct"})
        BY <1>1, <1>2 DEF Is
      <3> QED BY <1>1, <1>3, <1>4, <1>6, <2>1, <3>1, Adds
    <2>3. /\ Net' = Net /\ Held' = Held + Amount[r] /\ Fixed' = Fixed
          /\ Advance' = Advance + Amount[r]
      <3>1. /\ rows \in SUBSET Row /\ Numbered /\ Amount[r] \in Int /\ FALSE \in BOOLEAN
            /\ Kind[r] = "deposit"
        BY <1>1, <1>2, BaseFacts DEF Safe, Is
      <3> QED BY <2>1, <3>1, Enters
    <2>4. InBounds'
      <3>1. Net \in Int /\ Held \in Int /\ Advance \in Int /\ InBounds /\ Total \in Int
        BY BaseFacts DEF Safe
      <3> QED BY <1>1, <1>2, <2>3, <3>1, BoundsAre, BoundsAreNext
    <2> QED BY <1>1, <2>1, <2>2, <2>4 DEF Safe
  <1> QED BY <1>5, <1>6

LEMMA RaiseSafe ==
  ASSUME Safe, NEW r \in Requests, Raise(r)
  PROVE  Safe'
  <1>1. /\ Goto(r, "claim") /\ Is(r, {"raise"}) /\ rows' = rows
        /\ invoice' = [invoice EXCEPT !.raised = TRUE]
        /\ UNCHANGED <<gate, faults, blind>>
    BY DEF Raise
  <1>2. Typed /\ Bears(r) /\ "claim" \in At
    BY BaseFacts DEF Safe, At
  <1>3. /\ req' \in [Requests -> Standing] /\ \A p \in Requests \ {r} : req'[p] = req[p]
        /\ req'[r].at = "claim" /\ req'[r].rest >= 0
    BY <1>1, <1>2, Goes DEF Typed, Bears, Over
  <1>4. Typed' /\ Path(r)' /\ Bears(r)' /\ invoice'.raised
    BY <1>1, <1>2, <1>3 DEF Typed, Path, Leads, Bears
  <1> QED BY <1>1, <1>3, <1>4, Stays

LEMMA ClaimSafe ==
  ASSUME Safe, NEW r \in Requests, Claim(r)
  PROVE  Safe'
  <1> DEFINE step == IF rows = Billed THEN "done" ELSE Claimed
  <1>1. /\ Goto(r, step) /\ step \in {"done", "read"} /\ Is(r, {"raise"}) /\ invoice.raised
        /\ rows' = {[x EXCEPT !.billed = TRUE] : x \in rows}
        /\ blind' = (blind \/ ~(rows = Billed \/ Net = 0))
        /\ UNCHANGED <<invoice, gate, faults>>
    BY BaseFacts DEF Claim, Claimed, Safe, Path, Leads, Sure
  <1> HIDE DEF step
  <1>2. Typed /\ Bears(r) /\ step \in At
    BY <1>1, BaseFacts DEF Safe, At
  <1>3. /\ req' \in [Requests -> Standing] /\ \A p \in Requests \ {r} : req'[p] = req[p]
        /\ req'[r].at = step /\ req'[r].rest >= 0
    BY <1>1, <1>2, Goes DEF Typed, Bears, Over
  <1>4. Typed' /\ Path(r)' /\ Bears(r)'
    BY <1>1, <1>2, <1>3 DEF Typed, Path, Leads, Bears, Is
  <1>5. rows \in SUBSET Row /\ Numbered
    BY BaseFacts DEF Safe
  <1>6. /\ rows' \in SUBSET Row /\ Numbered' /\ Billed' = rows'
        /\ \A x \in rows' : \E y \in rows : x.by = y.by /\ x.cents = y.cents
        /\ \A x \in rows' : x.billed
        /\ rows # {} => rows' # {}
        /\ Net' = Net + Held /\ Held' = 0 /\ Advance' = Advance /\ Fixed' = Fixed
    <2>1. \A x \in Corrected : x.billed
      BY DEF Corrected, Safe, Base, Signed
    <2>2. rows' \in SUBSET Row /\ Numbered' /\ Billed' = rows'
          /\ (\A x \in rows' : \E y \in rows : x.by = y.by /\ x.cents = y.cents)
          /\ (\A y \in rows : \E x \in rows' : x.by = y.by /\ x.cents = y.cents)
          /\ Net' = Net + Held /\ Held' = 0 /\ Advance' = Advance /\ Fixed' = Fixed
      BY <1>1, <1>5, <2>1, Bills
    <2> QED BY <2>2 DEF Billed
  <1>7. Signed'
    BY <1>6 DEF Safe, Base, Signed
  <1>8. TypeOK'
    BY <1>1, <1>4, <1>6 DEF TypeOK, Typed, Standing
  <1>9. Paths' /\ Bearing'
    <2>1. Billed # {} => Billed' # {}
      BY <1>1, <1>6 DEF Billed
    <2> QED BY <1>1, <1>3, <1>4, <2>1, OthersStay DEF Safe
  <1>10. DepositOnce'
    <2> SUFFICES ASSUME NEW v \in rows, NEW w \in rows, NEW x, NEW y,
                        x = InBill(v), y = InBill(w),
                        Is(x.by, {"deposit"}), Is(y.by, {"deposit"}), Ref[x.by] = Ref[y.by]
                 PROVE  x = y
      BY <1>1 DEF InBill, DepositOnce
    <2>1. x.by = v.by /\ y.by = w.by
      BY <1>5 DEF InBill, Row
    <2>2. v = w
      BY <2>1 DEF Safe, DepositOnce
    <2> QED BY <2>2
  <1>11. InBounds'
    <2>1. rows = Billed => Held = 0
      <3>1. rows = Billed => rows \ Billed = {}
        OBVIOUS
      <3> QED BY <3>1, Summed, TallyEmpty
    <2>2. /\ Net \in Int /\ Held \in Int /\ Advance \in Int /\ Fixed \in Int /\ Held <= Advance
          /\ InBounds /\ Total \in Nat
      BY BaseFacts DEF Safe
    <2>3. ~blind' => ~blind /\ (Held = 0 \/ Net = 0)
      BY <1>1, <2>1
    <2> QED BY <1>6, <2>2, <2>3, BoundsAre, BoundsAreNext
  <1> QED BY <1>6, <1>7, <1>8, <1>9, <1>10, <1>11 DEF Safe, Base

LEMMA VoidSafe ==
  ASSUME Safe, NEW r \in Requests, Void(r)
  PROVE  Safe'
  <1> DEFINE step == IF invoice.voided THEN "done" ELSE "check"
  <1>1. /\ Goto(r, step) /\ step \in {"done", "check"} /\ Is(r, {"void"}) /\ rows' = rows
        /\ invoice' = [invoice EXCEPT !.voided = TRUE]
        /\ UNCHANGED <<gate, faults, blind>>
    BY DEF Void
  <1> HIDE DEF step
  <1>2. Typed /\ Bears(r) /\ step \in At
    BY <1>1, BaseFacts DEF Safe, At
  <1>3. /\ req' \in [Requests -> Standing] /\ \A p \in Requests \ {r} : req'[p] = req[p]
        /\ req'[r].at = step /\ req'[r].rest >= 0
    BY <1>1, <1>2, Goes DEF Typed, Bears, Over
  <1>4. Typed' /\ Path(r)' /\ Bears(r)' /\ invoice'.raised = invoice.raised
    BY <1>1, <1>2, <1>3 DEF Typed, Path, Leads, Bears, Is
  <1> QED BY <1>1, <1>3, <1>4, Stays

\* A request that goes on to another statement, and leaves the ledger.
LEMMA Moves ==
  ASSUME Safe, NEW r \in Requests, NEW step \in At, Goto(r, step), rows' = rows,
         gate' \in BOOLEAN, faults' \in 0 .. MaxFaults, blind' \in BOOLEAN, blind => blind',
         invoice' \in [raised : BOOLEAN, voided : BOOLEAN, paid : BOOLEAN, cached : Int],
         invoice.raised => invoice'.raised, Leads(r, step)',
         step \in {"append", "hold"} => FALSE, step = "sum" => ~Is(r, {"refund"})
  PROVE  Safe'
  <1>1. Typed /\ Bears(r)
    BY BaseFacts DEF Safe
  <1>2. /\ req' \in [Requests -> Standing] /\ \A p \in Requests \ {r} : req'[p] = req[p]
        /\ req'[r].at = step /\ req'[r].rest >= 0
    BY <1>1, Goes DEF Typed, Bears
  <1>3. Typed' /\ Path(r)' /\ Bears(r)'
    BY <1>2 DEF Typed, Path, Bears
  <1> QED BY <1>2, <1>3, Stays

\* One that takes what it has read of the ledger with it.
LEMMA Looks ==
  ASSUME Safe, NEW r \in Requests, NEW step \in {"append", "write"}, NEW cents \in Int,
         Carry(r, step, cents), UNCHANGED <<rows, invoice, gate, faults, blind>>,
         Leads(r, step), step = "append" => Fits(r, Net, cents)
  PROVE  Safe'
  <1>1. Typed /\ Bears(r) /\ Net \in Int /\ step \in At
    BY BaseFacts DEF Safe, At
  <1>2. /\ req' \in [Requests -> Standing] /\ \A p \in Requests \ {r} : req'[p] = req[p]
        /\ req'[r].at = step /\ req'[r].rest >= 0 /\ req'[r].saw = Net /\ req'[r].cents = cents
    BY <1>1, Carries DEF Typed, Bears
  <1>3. Billed' = Billed
    BY DEF Billed
  <1>4. Typed' /\ Path(r)' /\ Bears(r)'
    BY <1>1, <1>2, <1>3 DEF Typed, Path, Leads, Bears, Fits, InFull
  <1> QED BY <1>2, <1>4, Stays

LEMMA OpenSafe ==
  ASSUME Safe, NEW r \in Requests, Open(r)
  PROVE  Safe'
  <1>1. /\ invoice.raised /\ UNCHANGED <<rows, invoice, gate, faults, blind>>
        /\ \/ Is(r, {"card"}) /\ (Goto(r, "unlock") \/ Goto(r, "sum"))
           \/ Is(r, {"offline"}) /\ (Goto(r, "refused") \/ Goto(r, "sum"))
           \/ Is(r, {"sync"}) /\ (Goto(r, "done") \/ Goto(r, "load") \/ Goto(r, "sum"))
    BY DEF Open
  <1>2. PICK step \in {"unlock", "sum", "refused", "done", "load"} :
           /\ Goto(r, step)
           /\ step = "unlock" => Is(r, {"card"})
           /\ step = "load" => Is(r, {"sync"})
           /\ step = "sum" => Is(r, {"card", "offline", "sync"}) /\ ~Is(r, {"refund"})
    BY <1>1 DEF Is
  <1>3. Leads(r, step)' /\ step \in At
    BY <1>1, <1>2 DEF Leads, At, Is
  <1> QED BY <1>1, <1>2, <1>3, BaseFacts, Moves DEF Safe, Typed

LEMMA LoadSafe ==
  ASSUME Safe, NEW r \in Requests, Load(r)
  PROVE  Safe'
  <1>1. PICK step \in {"done", "sum"} :
           Goto(r, step) /\ UNCHANGED <<rows, invoice, gate, faults, blind>>
    BY DEF Load
  <1>2. Is(r, {"sync"}) /\ invoice.raised
    BY BaseFacts DEF Safe, Load, Path, Leads
  <1>3. Leads(r, step)' /\ step \in At /\ ~Is(r, {"refund"})
    BY <1>1, <1>2 DEF Leads, At, Is
  <1> QED BY <1>1, <1>3, BaseFacts, Moves DEF Safe, Typed

LEMMA SumSafe ==
  ASSUME Safe, NEW r \in Requests, Sum(r)
  PROVE  /\ Safe'
         /\ \/ \E step \in {"read", "refused"} :
                  Goto(r, step) /\ (step = "refused" => Is(r, {"offline", "refund"}))
            \/ \E cents \in Int : Carry(r, "append", cents)
  <1>1. /\ Net \in Int /\ Total \in Nat \ {0} /\ Amount[r] \in Nat /\ Bears(r)
        /\ req[r].at = "sum" /\ Is(r, {"card", "offline", "sync", "refund"}) /\ invoice.raised
        /\ req[r].cents \in Int /\ UNCHANGED <<rows, invoice, gate, faults, blind>>
    BY BaseFacts DEF Safe, Sum, Path, Leads, Typed, Standing
  <1>2. ASSUME NEW step \in {"read", "refused"}, Goto(r, step) PROVE Safe'
    <2>1. Leads(r, step)' /\ step \in At
      BY <1>1, <1>2 DEF Leads, At, Is
    <2> QED BY <1>1, <1>2, <2>1, BaseFacts, Moves DEF Safe, Typed
  <1>3. ASSUME NEW cents \in Int, Fits(r, Net, cents), Carry(r, "append", cents) PROVE Safe'
    <2>1. Leads(r, "append")
      BY <1>1 DEF Leads, Is
    <2> QED BY <1>1, <1>3, <2>1, Looks
  <1>4. \/ \E step \in {"read", "refused"} :
              Goto(r, step) /\ (step = "refused" => Is(r, {"offline", "refund"}))
        \/ \E cents \in Int : Fits(r, Net, cents) /\ Carry(r, "append", cents)
    <2>1. CASE InFull(r) /\ Outstanding > 0 /\ Carry(r, "append", Outstanding)
      <3>1. Fits(r, Net, Outstanding) /\ Outstanding \in Int
        BY <1>1, <2>1 DEF Fits, Outstanding, InFull, Is
      <3> QED BY <2>1, <3>1
    <2>2. CASE InFull(r) /\ Outstanding <= 0 /\ Goto(r, "read")
      BY <2>2
    <2>3. CASE Is(r, {"sync"}) /\ ~InFull(r) /\ Amount[r] = Net /\ Goto(r, "read")
      BY <2>3
    <2>4. CASE Is(r, {"sync"}) /\ ~InFull(r) /\ Carry(r, "append", Amount[r] - Net)
      <3>1. Amount[r] <= Total
        BY <2>4, Money DEF Is
      <3>2. Fits(r, Net, Amount[r] - Net) /\ Amount[r] - Net \in Int
        BY <1>1, <2>4, <3>1 DEF Fits, InFull, Is
      <3> QED BY <2>4, <3>2
    <2>5. CASE Is(r, {"offline"}) /\ Goto(r, "refused")
      BY <2>5 DEF Is
    <2>6. CASE Is(r, {"offline"}) /\ ~(Amount[r] > Outstanding) /\ Carry(r, "append", Amount[r])
      <3>1. Fits(r, Net, Amount[r])
        BY <1>1, <2>6 DEF Fits, Outstanding, InFull, Is
      <3> QED BY <1>1, <2>6, <3>1
    <2>7. CASE Is(r, {"refund"}) /\ Goto(r, "refused")
      BY <2>7 DEF Is
    <2>8. CASE Is(r, {"refund"}) /\ ~(req[r].cents > Net) /\ Carry(r, "append", -req[r].cents)
      <3>1. Fits(r, Net, -req[r].cents) /\ -req[r].cents \in Int
        BY <1>1, <2>8 DEF Fits, Bears, InFull, Is
      <3> QED BY <2>8, <3>1
    <2> QED BY <2>1, <2>2, <2>3, <2>4, <2>5, <2>6, <2>7, <2>8 DEF Sum
  <1> QED BY <1>2, <1>3, <1>4

LEMMA CorrectSafe ==
  ASSUME Safe, NEW r \in Requests, Correct(r)
  PROVE  Safe' /\ (Goto(r, "refused") \/ \E cents \in Int : Carry(r, "append", cents))
  <1>1. Is(r, {"correct"}) /\ UNCHANGED <<rows, invoice, gate, faults, blind>>
    BY DEF Correct
  <1>2. PICK x \in Billed : \/ Goto(r, "refused")
                            \/ Amount[r] < x.cents /\ Carry(r, "append", Amount[r] - x.cents)
    <2>1. \A x \in Billed : x.cents \in Int /\ Amount[r] \in Nat
      BY BaseFacts DEF Safe, Billed, Row
    <2> QED BY <2>1 DEF Correct
  <1>3. x.cents \in Int /\ Amount[r] \in Nat /\ invoice.raised /\ Net \in Int
    BY BaseFacts DEF Safe, Billed, Row, Base, TypeOK
  <1>4. CASE Goto(r, "refused")
    <2>1. Leads(r, "refused")' /\ "refused" \in At
      BY DEF Leads, At
    <2> QED BY <1>1, <1>4, <2>1, BaseFacts, Moves DEF Safe, Typed
  <1>5. CASE Amount[r] < x.cents /\ Carry(r, "append", Amount[r] - x.cents)
    <2>1. Leads(r, "append") /\ Fits(r, Net, Amount[r] - x.cents) /\ Amount[r] - x.cents \in Int
      BY <1>1, <1>3, <1>5 DEF Leads, Fits, InFull, Is
    <2> QED BY <1>1, <1>5, <2>1, Looks
  <1> QED BY <1>2, <1>4, <1>5

LEMMA QuoteSafe ==
  ASSUME Safe, NEW r \in Requests, Quote(r)
  PROVE  /\ Safe' /\ \A p \in Requests \ {r} : req'[p] = req[p]
         /\ req'[r].at \in {"done", "sum", "held"}
  <1>1. Is(r, {"refund"}) /\ UNCHANGED <<rows, invoice, gate, faults, blind>>
    BY DEF Quote
  <1>2. /\ Typed /\ Net \in Int /\ Held \in Int /\ Amount[r] \in Nat
        /\ Net > 0 => invoice.raised
    BY BaseFacts DEF Safe
  <1>3. CASE Goto(r, "done")
    <2>1. Leads(r, "done")' /\ "done" \in At
      BY DEF Leads, At
    <2>2. Safe'
      BY <1>1, <1>2, <1>3, <2>1, Moves DEF Typed
    <2> QED BY <1>2, <1>3, <2>1, <2>2, Goes DEF Typed
  <1> DEFINE owed == Lesser(Amount[r], Net + Held)
             back == Lesser(owed, Net)
             step == IF back > 0 THEN "sum" ELSE "held"
             q    == [req[r] EXCEPT !.at = step, !.cents = back, !.rest = owed - back]
  <1>4. CASE req' = [req EXCEPT ![r] = q]
    <2>1. /\ owed \in Int /\ back \in Int /\ owed - back >= 0
          /\ step = "sum" => back >= 0 /\ invoice.raised
      BY <1>2 DEF Lesser
    <2>2. step \in {"sum", "held"}
      OBVIOUS
    <2> HIDE DEF owed, back, step
    <2>3. /\ q \in Standing /\ q.at = step /\ q.cents = back /\ q.rest = owed - back
      <3>1. req[r] \in Standing /\ step \in At /\ back \in Int /\ owed - back \in Int
        BY <1>2, <2>1, <2>2 DEF Typed, At
      <3> QED BY <3>1 DEF Standing
    <2> HIDE DEF q
    <2>4. /\ req' \in [Requests -> Standing] /\ req'[r] = q
          /\ \A p \in Requests \ {r} : req'[p] = req[p]
      BY <1>2, <1>4, <2>3, Replaces DEF Typed
    <2>5. Typed' /\ Path(r)' /\ Bears(r)'
      BY <1>1, <1>2, <2>1, <2>2, <2>3, <2>4 DEF Typed, Path, Leads, Bears, Is
    <2> QED BY <1>1, <2>2, <2>3, <2>4, <2>5, Stays
  <1> QED BY <1>3, <1>4 DEF Quote

LEMMA AppendSafe ==
  ASSUME Safe, NEW r \in Requests, Append(r)
  PROVE  /\ Safe'
         /\ req[r].cents \in Int /\ Net' = Net + req[r].cents /\ Billed' # {}
         /\ Advance' = Advance
         /\ NoSync' => NoSync /\ ~Is(r, {"sync"})
         /\ ~blind' => ~blind /\ Fits(r, Net, req[r].cents)
  <1>1. /\ req[r].at = "append" /\ Goto(r, "read")
        /\ rows' = rows \cup {NewRow(r, req[r].cents, TRUE)}
        /\ blind' = (blind \/ ~(req[r].saw = Net))
        /\ UNCHANGED <<invoice, gate, faults>>
    BY DEF Append, Sure
  <1>2. /\ Typed /\ rows \in SUBSET Row /\ Numbered /\ invoice.raised
        /\ Is(r, {"card", "offline", "sync", "refund", "correct"})
        /\ Fits(r, req[r].saw, req[r].cents)
        /\ req[r].cents \in Int /\ req[r].rest >= 0
    BY <1>1, BaseFacts DEF Safe, Path, Leads, Bears, Typed, Standing
  <1>3. /\ req' \in [Requests -> Standing] /\ \A p \in Requests \ {r} : req'[p] = req[p]
        /\ req'[r].at = "read" /\ req'[r].rest >= 0
    BY <1>1, <1>2, Goes DEF Typed, At, Over
  <1> DEFINE x == NewRow(r, req[r].cents, TRUE)
  <1>4. /\ Billed' = Billed \cup {x} /\ Net' = Net + req[r].cents /\ Held' = Held
        /\ Advance' = Advance
        /\ Fixed' = IF Kind[r] = "correct" THEN Fixed + req[r].cents ELSE Fixed
    <2>1. Kind[r] # "deposit" /\ TRUE \in BOOLEAN
      BY <1>2 DEF Is
    <2> QED BY <1>1, <1>2, <2>1, Enters
  <1>5. Typed' /\ Path(r)' /\ Bears(r)'
    BY <1>1, <1>2, <1>3 DEF Typed, Path, Leads, Bears, Is
  <1>6. Base' /\ DepositOnce'
    <2>1. /\ ~Is(r, {"deposit"}) /\ TRUE \in BOOLEAN
          /\ Is(r, {"refund", "correct"}) => req[r].cents <= 0
      BY <1>2 DEF Is, Fits
    <2> QED BY <1>1, <1>2, <1>3, <1>5, <2>1, Adds
  <1>7. ~blind' => ~blind /\ Fits(r, Net, req[r].cents)
    BY <1>1, <1>2
  <1>8. InBounds'
    <2>1. SUFFICES ASSUME ~blind'
                   PROVE  (Net' <= Total \/ Net' <= Advance') /\ Held' >= 0 /\ Net' - Fixed' >= 0
      BY BoundsAreNext
    <2>2. /\ Net \in Int /\ Held \in Int /\ Advance \in Int /\ Fixed \in Int /\ Fixed <= 0
          /\ Total \in Nat /\ InBounds
      BY BaseFacts DEF Safe
    <2>3. (Net <= Total \/ Net <= Advance) /\ Held >= 0 /\ Net - Fixed >= 0
      BY <1>7, <2>1, <2>2, BoundsAre
    <2>4. Fits(r, Net, req[r].cents)
      BY <1>7, <2>1
    <2>5. CASE Is(r, {"card"})
      BY <1>2, <1>4, <2>2, <2>3, <2>4, <2>5 DEF Fits, Is, InFull
    <2>6. CASE Is(r, {"offline"})
      BY <1>2, <1>4, <2>2, <2>3, <2>4, <2>6 DEF Fits, Is
    <2>7. CASE Is(r, {"sync"})
      BY <1>2, <1>4, <2>2, <2>3, <2>4, <2>7 DEF Fits, Is
    <2>8. CASE Is(r, {"refund"})
      BY <1>2, <1>4, <2>2, <2>3, <2>4, <2>8 DEF Fits, Is
    <2>9. CASE Is(r, {"correct"})
      BY <1>2, <1>4, <2>2, <2>3, <2>4, <2>9 DEF Fits, Is
    <2> QED BY <1>2, <2>5, <2>6, <2>7, <2>8, <2>9 DEF Is
  <1>9. NoSync' => NoSync /\ ~Is(r, {"sync"})
    <2>1. x.by = r
      <3>1. TRUE \in BOOLEAN
        OBVIOUS
      <3>2. x = [by |-> r, nth |-> Cardinality(Of(r)), cents |-> req[r].cents, billed |-> TRUE]
        BY <1>2, <3>1, NewRowIsNew
      <3> DEFINE n == Cardinality(Of(r))
                 c == req[r].cents
      <3>3. x = [by |-> r, nth |-> n, cents |-> c, billed |-> TRUE]
        BY <3>2
      <3> HIDE DEF n, c, x
      <3> QED BY <3>3
    <2> QED BY <1>1, <2>1 DEF NoSync
  <1> QED BY <1>2, <1>4, <1>6, <1>7, <1>8, <1>9 DEF Safe

LEMMA Afterwards ==
  ASSUME NEW r \in Requests
  PROVE  /\ Is(r, {"card"}) => After(r) = "unlock"
         /\ Is(r, {"offline"}) => After(r) = "ask"
         /\ Is(r, {"sync"}) => After(r) = "done"
         /\ Is(r, {"refund", "correct", "raise", "void"}) => After(r) = "check"
  BY DEF After, Is

LEMMA ReadSafe ==
  ASSUME Safe, NEW r \in Requests, Read(r)
  PROVE  Safe'
  <1>1. /\ req[r].at = "read" /\ UNCHANGED <<rows, invoice, gate, faults, blind>>
        /\ \/ Billed = {} /\ Goto(r, After(r))
           \/ Billed # {} /\ Carry(r, "write", req[r].cents)
    BY DEF Read
  <1>2. /\ Typed /\ req[r].cents \in Int /\ invoice.raised
        /\ Is(r, {"card", "offline", "sync", "refund", "correct", "raise"})
    BY <1>1, BaseFacts DEF Safe, Path, Leads, Typed, Standing
  <1>3. CASE Billed = {} /\ Goto(r, After(r))
    <2>1. Leads(r, After(r))' /\ After(r) \in {"unlock", "ask", "done", "check"}
      BY <1>2, Afterwards DEF Leads, Is
    <2>2. After(r) \in At
      BY <2>1 DEF At
    <2> QED BY <1>1, <1>2, <1>3, <2>1, <2>2, Moves DEF Typed
  <1>4. CASE Billed # {} /\ Carry(r, "write", req[r].cents)
    <2>1. Leads(r, "write")
      BY <1>2, <1>4 DEF Leads
    <2> QED BY <1>1, <1>2, <1>4, <2>1, Looks
  <1> QED BY <1>1, <1>3, <1>4

LEMMA WriteSafe ==
  ASSUME Safe, NEW r \in Requests, Write(r)
  PROVE  Safe'
  <1>1. /\ req[r].at = "write" /\ Goto(r, After(r)) /\ rows' = rows
        /\ invoice' = [invoice EXCEPT !.cached = req[r].saw, !.paid = req[r].saw >= Total]
        /\ blind' = (blind \/ ~(req[r].saw = Net))
        /\ UNCHANGED <<gate, faults>>
    BY DEF Write, Sure
  <1>2. /\ Typed /\ req[r].saw \in Int
        /\ Is(r, {"card", "offline", "sync", "refund", "correct", "raise"})
    BY <1>1, BaseFacts DEF Safe, Path, Leads, Typed, Standing
  <1>3. /\ invoice' \in [raised : BOOLEAN, voided : BOOLEAN, paid : BOOLEAN, cached : Int]
        /\ invoice'.raised = invoice.raised
    <2> DEFINE full == req[r].saw >= Total
    <2>1. full \in BOOLEAN
      BY <1>2, Money
    <2>2. invoice' = [invoice EXCEPT !.cached = req[r].saw, !.paid = full]
      BY <1>1
    <2> HIDE DEF full
    <2> QED BY <1>2, <2>1, <2>2 DEF Typed
  <1>4. Leads(r, After(r))' /\ After(r) \in {"unlock", "ask", "done", "check"}
    BY <1>2, Afterwards DEF Leads, Is
  <1>5. After(r) \in At /\ blind' \in BOOLEAN /\ (blind => blind')
    BY <1>1, <1>2, <1>4 DEF At, Typed
  <1> QED BY <1>1, <1>2, <1>3, <1>4, <1>5, Moves DEF Typed

LEMMA AskSafe ==
  ASSUME Safe, NEW r \in Requests, Ask(r)
  PROVE  Safe'
  <1>1. /\ Is(r, {"offline"}) /\ UNCHANGED <<rows, invoice, gate, faults, blind>>
        /\ Typed
    BY BaseFacts DEF Safe, Ask, Path, Leads
  <1>2. PICK step \in {"unlock", "done"} : Goto(r, step)
    BY DEF Ask
  <1>3. Leads(r, step)' /\ step \in At
    BY <1>1, <1>2 DEF Leads, At, Is
  <1> QED BY <1>1, <1>2, <1>3, Moves DEF Typed

LEMMA UnlockSafe ==
  ASSUME Safe, NEW r \in Requests, Unlock(r)
  PROVE  Safe'
  <1>1. /\ Goto(r, "done") /\ gate' = TRUE /\ blind' = (blind \/ ~Backed)
        /\ UNCHANGED <<rows, invoice, faults>> /\ Typed
    BY BaseFacts DEF Safe, Unlock, Sure
  <1>2. Leads(r, "done")' /\ "done" \in At /\ blind' \in BOOLEAN /\ (blind => blind')
    BY <1>1 DEF Leads, At, Typed
  <1> QED BY <1>1, <1>2, Moves DEF Typed

LEMMA CheckSafe ==
  ASSUME Safe, NEW r \in Requests, Check(r) \/ Lower(r)
  PROVE  Safe' /\ \E step \in {"held", "done", "lower"} :
                     Goto(r, step) /\ (step # "lower" => Lower(r) \/ Backed)
  <1>1. /\ Is(r, {"void", "refund", "correct", "raise"}) /\ Typed
        /\ UNCHANGED <<rows, invoice, faults>> /\ gate' \in BOOLEAN
        /\ blind' \in BOOLEAN /\ (blind => blind')
    <2>1. Typed /\ Path(r) /\ req[r].at \in {"check", "lower"}
      BY BaseFacts DEF Safe, Check, Lower
    <2>2. UNCHANGED <<rows, invoice, faults>> /\ gate' \in BOOLEAN
      BY <2>1 DEF Check, Lower, Lowered, Typed
    <2>3. blind' = blind \/ blind' = (blind \/ ~~Backed)
      BY DEF Check, Lower, Sure
    <2>4. blind' \in BOOLEAN /\ (blind => blind')
      BY <2>1, <2>3 DEF Typed
    <2> QED BY <2>1, <2>2, <2>4 DEF Path, Leads
  <1>2. PICK step \in {"held", "done", "lower"} :
          /\ Goto(r, step) /\ (step = "held" => Is(r, {"refund"}))
          /\ step # "lower" => Lower(r) \/ Backed
    BY DEF Check, Lower, Onward
  <1>3. Leads(r, step)' /\ step \in At
    BY <1>1, <1>2 DEF Leads, At, Is
  <1>4. Safe'
    BY <1>1, <1>2, <1>3, Moves DEF Typed
  <1> QED BY <1>2, <1>4

LEMMA LookHeldSafe ==
  ASSUME Safe, NEW r \in Requests, LookHeld(r)
  PROVE  /\ Safe' /\ \A p \in Requests \ {r} : req'[p] = req[p]
         /\ req'[r].at \in {"refused", "hold"} /\ Is(r, {"refund"})
  <1>1. /\ Is(r, {"refund"}) /\ UNCHANGED <<rows, invoice, gate, faults, blind>>
        /\ Typed /\ Bears(r) /\ Held \in Int
    BY BaseFacts DEF Safe, LookHeld, Path, Leads
  <1>2. CASE Goto(r, "refused")
    <2>1. Leads(r, "refused")' /\ "refused" \in At
      BY DEF Leads, At
    <2>2. Safe'
      BY <1>1, <1>2, <2>1, Moves DEF Typed
    <2> QED BY <1>1, <1>2, <2>1, <2>2, Goes DEF Typed
  <1> DEFINE q == [req[r] EXCEPT !.at = "hold", !.saw = Held]
  <1>3. CASE ~(req[r].rest > Held) /\ req' = [req EXCEPT ![r] = q]
    <2>1. /\ q \in Standing /\ q.at = "hold" /\ q.saw = Held /\ q.rest = req[r].rest
      BY <1>1 DEF Typed, Standing, At
    <2> HIDE DEF q
    <2>2. /\ req' \in [Requests -> Standing] /\ req'[r] = q
          /\ \A p \in Requests \ {r} : req'[p] = req[p]
      BY <1>1, <1>3, <2>1, Replaces DEF Typed
    <2>3. req[r].rest \in Int
      BY <1>1 DEF Typed, Standing
    <2>4. Typed' /\ Path(r)' /\ Bears(r)'
      BY <1>1, <1>3, <2>1, <2>2, <2>3 DEF Typed, Path, Leads, Bears, Is
    <2> QED BY <1>1, <2>1, <2>2, <2>4, Stays
  <1> QED BY <1>2, <1>3 DEF LookHeld

LEMMA RefundHeldSafe ==
  ASSUME Safe, NEW r \in Requests, RefundHeld(r)
  PROVE  /\ Safe' /\ \A p \in Requests \ {r} : req'[p] = req[p]
         /\ req'[r].at = "check" /\ Is(r, {"refund"})
         /\ Net' = Net /\ Billed' = Billed /\ Advance' = Advance /\ (NoSync' => NoSync)
  <1>1. /\ Is(r, {"refund"}) /\ Typed /\ Bears(r) /\ req[r].at = "hold"
        /\ rows' = rows \cup {NewRow(r, -req[r].rest, FALSE)}
        /\ blind' = (blind \/ ~(req[r].saw = Held))
        /\ UNCHANGED <<invoice, gate, faults>>
    BY BaseFacts DEF Safe, RefundHeld, Path, Leads, Sure
  <1> DEFINE q == [req[r] EXCEPT !.at = "check", !.rest = 0]
  <1>2. q \in Standing /\ q.at = "check" /\ q.rest = 0 /\ req' = [req EXCEPT ![r] = q]
    <2>1. req' = [req EXCEPT ![r] = q]
      BY DEF RefundHeld
    <2> DEFINE none == 0
    <2>2. req[r] \in Standing /\ "check" \in At /\ none \in Int
      BY <1>1 DEF Typed, At
    <2>3. q = [req[r] EXCEPT !.at = "check", !.rest = none]
      OBVIOUS
    <2> HIDE DEF none, q
    <2>4. q \in Standing /\ q.at = "check" /\ q.rest = none
      BY <2>2, <2>3 DEF Standing
    <2> QED BY <2>1, <2>4 DEF none
  <1> HIDE DEF q
  <1>3. /\ req' \in [Requests -> Standing] /\ req'[r] = q
        /\ \A p \in Requests \ {r} : req'[p] = req[p]
    BY <1>1, <1>2, Replaces DEF Typed
  <1>4. Typed' /\ Path(r)' /\ Bears(r)'
    BY <1>1, <1>2, <1>3 DEF Typed, Path, Leads, Bears, Is
  <1>5. /\ rows \in SUBSET Row /\ Numbered /\ Kind[r] # "deposit" /\ Kind[r] # "correct"
        /\ -req[r].rest \in Int /\ -req[r].rest <= 0 /\ FALSE \in BOOLEAN
        /\ req[r].rest <= req[r].saw /\ req[r].rest \in Int
        /\ Is(r, {"deposit", "refund"}) /\ ~Is(r, {"deposit"}) /\ ~Is(r, {"correct"})
    BY <1>1, BaseFacts DEF Safe, Is, Typed, Standing, Bears
  <1>6. /\ Billed' = Billed /\ Net' = Net /\ Held' = Held - req[r].rest
        /\ Advance' = Advance /\ Fixed' = Fixed
    <2>1. /\ Billed' = Billed /\ Net' = Net /\ Held' = Held + (-req[r].rest)
          /\ Advance' = Advance /\ Fixed' = Fixed
      BY <1>1, <1>5, Enters
    <2>2. Held \in Int
      BY BaseFacts DEF Safe
    <2> QED BY <1>5, <2>1, <2>2
  <1>7. Base' /\ DepositOnce'
    BY <1>1, <1>3, <1>4, <1>5, Adds
  <1>8. InBounds'
    <2>1. Held \in Int /\ InBounds
      BY BaseFacts DEF Safe
    <2>2. ~blind' => ~blind /\ req[r].saw = Held
      BY <1>1
    <2> QED BY <1>5, <1>6, <2>1, <2>2, BoundsAre, BoundsAreNext
  <1>9. NoSync' => NoSync
    BY <1>1 DEF NoSync
  <1> QED BY <1>1, <1>2, <1>3, <1>6, <1>7, <1>8, <1>9 DEF Safe

LEMMA FailSafe ==
  ASSUME Safe, NEW r \in Requests, Fail(r)
  PROVE  Safe'
  <1>1. /\ faults < MaxFaults /\ faults' = faults + 1 /\ Typed
        /\ UNCHANGED <<rows, invoice, gate, blind>>
    BY BaseFacts DEF Safe, Fail
  <1>2. PICK step \in {"retry", "dead"} : Goto(r, step) /\ (step = "dead" => ~Webhook(r))
    BY DEF Fail
  <1>3. Leads(r, step)' /\ step \in At
    BY <1>2 DEF Leads, At, Webhook, Is
  <1>4. faults' \in 0 .. MaxFaults
    BY <1>1, Money DEF Typed
  <1> QED BY <1>1, <1>2, <1>3, <1>4, Moves DEF Typed

-----------------------------------------------------------------------------
(* Every step leaves somebody to see to the invoice and to the report.     *)

Around(r) == \A p \in Requests \ {r} : req'[p] = req[p]

LEMMA GoesTo ==
  ASSUME Safe, NEW r \in Requests, NEW step \in At, Goto(r, step)
  PROVE  Around(r) /\ req'[r].at = step
  BY BaseFacts, Goes DEF Safe, Typed, Around

LEMMA CarriesTo ==
  ASSUME Safe, NEW r \in Requests, NEW step \in At, NEW cents \in Int, Carry(r, step, cents)
  PROVE  Around(r) /\ req'[r].at = step
  BY BaseFacts, Carries DEF Safe, Typed, Around

\* The part of the request that goes on is passed on to its next statement,
\* as far as anything hangs on it.
PassedOn(r) ==
    /\ Recomputes(r) => Recomputes(r)'
    /\ Settles(r) /\ ~invoice.paid => Settles(r)'
    /\ Takes(r) => Takes(r)'
    /\ Closes(r) /\ ~Backed => Closes(r)'
    /\ Opens(r) => Opens(r)'

\* The other requests play the parts they played.
LEMMA OthersPlay ==
  ASSUME NEW r \in Requests, Around(r), NEW q \in Requests, q # r
  PROVE  /\ Recomputes(q)' <=> Recomputes(q)
         /\ Settles(q)' <=> Settles(q)
         /\ Takes(q)' <=> Takes(q)
         /\ Closes(q)' <=> Closes(q)
         /\ Opens(q) /\ (invoice.paid => invoice'.paid) => Opens(q)'
  BY DEF Around, Recomputes, Settles, Takes, Closes, Opens

LEMMA PassesOn ==
  ASSUME Seen, NEW r \in Requests, Around(r), PassedOn(r),
         Net' = Net, Billed' = {} => Billed = {}, Advance' < Total => Advance < Total,
         NoSync' => NoSync, gate' = gate, blind => blind',
         invoice'.paid = invoice.paid, invoice'.voided = invoice.voided,
         invoice'.cached = invoice.cached
  PROVE  Seen'
  <1>1. Shown' <=> Shown
    BY DEF Shown
  <1>2. Backed' <=> Backed
    BY DEF Backed
  <1>3. Unopened'
    BY DEF Seen, Unopened
  <1>4. Caught'
    BY <1>1, OthersPlay DEF Seen, Caught, PassedOn
  <1>5. LastPaid'
    BY OthersPlay DEF Seen, LastPaid, PassedOn
  <1>6. Closing'
    BY <1>2, OthersPlay DEF Seen, Closing, PassedOn
  <1>7. Opening'
    BY <1>2, OthersPlay DEF Seen, Opening, PassedOn
  <1> QED BY <1>3, <1>4, <1>5, <1>6, <1>7 DEF Seen

\* A step that changes neither the ledger nor the invoice nor the report.
LEMMA OnlyGoes ==
  ASSUME Seen, NEW r \in Requests, Around(r), PassedOn(r),
         UNCHANGED <<rows, invoice, gate, blind>>
  PROVE  Seen'
  BY RowsStay, PassesOn

LEMMA DepositSeen ==
  ASSUME IInv, NEW r \in Requests, Deposit(r)
  PROVE  Seen'
  <1>1. PICK step \in {"done", "insert"} : Goto(r, step)
    BY DEF Deposit
  <1>2. Around(r) /\ Is(r, {"deposit"})
    BY <1>1, GoesTo DEF Deposit, IInv, Safe, At
  <1>3. PassedOn(r)
    BY <1>2 DEF PassedOn, Recomputes, Settles, Takes, Lowers, Closes, Opens, Deposit, Begins, Is
  <1> QED BY <1>2, <1>3, OnlyGoes DEF Deposit, IInv

LEMMA InsertDepositSeen ==
  ASSUME IInv, NEW r \in Requests, InsertDeposit(r)
  PROVE  Seen'
  <1>0. Safe
    BY DEF IInv, Safe
  <1>1. /\ Goto(r, "done") /\ req[r].at = "insert" /\ Is(r, {"deposit"})
        /\ UNCHANGED <<invoice, gate, faults, blind>>
        /\ rows' = rows \/ rows' = rows \cup {NewRow(r, Amount[r], FALSE)}
    BY <1>0, InsertDepositSafe DEF InsertDeposit
  <1>2. Around(r)
    BY <1>0, <1>1, GoesTo DEF At
  <1>3. PassedOn(r)
    BY <1>1 DEF PassedOn, Recomputes, Settles, Takes, Lowers, Closes, Opens, Is
  <1>4. CASE rows' = rows
    BY <1>1, <1>2, <1>3, <1>4, OnlyGoes DEF IInv
  <1>5. CASE rows' = rows \cup {NewRow(r, Amount[r], FALSE)}
    <2>1. /\ rows \in SUBSET Row /\ Numbered /\ Amount[r] \in Nat /\ Amount[r] \in Int
          /\ FALSE \in BOOLEAN /\ Kind[r] = "deposit" /\ Advance \in Int /\ Total \in Nat
      BY <1>0, <1>1, BaseFacts DEF Safe, Is
    <2>2. /\ Billed' = Billed /\ Net' = Net /\ Advance' = Advance + Amount[r]
      BY <1>5, <2>1, Enters
    <2>3. NoSync' => NoSync
      BY <1>5 DEF NoSync
    <2> QED BY <1>1, <1>2, <1>3, <2>1, <2>2, <2>3, PassesOn DEF IInv
  <1> QED BY <1>1, <1>4, <1>5

LEMMA RaiseSeen ==
  ASSUME IInv, NEW r \in Requests, Raise(r)
  PROVE  Seen'
  <1>1. /\ Goto(r, "claim") /\ req[r].at \in {"idle", "retry"} /\ Is(r, {"raise"})
        /\ UNCHANGED <<rows, gate, faults, blind>>
    BY DEF Raise, Begins
  <1>2. Around(r) /\ Typed
    BY <1>1, GoesTo, BaseFacts DEF IInv, Safe, At
  <1>3. /\ invoice'.paid = invoice.paid /\ invoice'.voided = invoice.voided
        /\ invoice'.cached = invoice.cached
    BY <1>2 DEF Raise, Typed
  <1>4. PassedOn(r)
    BY <1>1 DEF PassedOn, Recomputes, Settles, Takes, Lowers, Closes, Opens, Is
  <1> QED BY <1>1, <1>2, <1>3, <1>4, RowsStay, PassesOn DEF IInv

LEMMA ClaimSeen ==
  ASSUME IInv, NEW r \in Requests, Claim(r)
  PROVE  Seen'
  <1>0. Safe /\ Seen /\ rows \in SUBSET Row /\ Numbered
    BY BaseFacts DEF IInv, Safe
  <1>1. /\ req[r].at = "claim" /\ Is(r, {"raise"})
        /\ rows' = {[x EXCEPT !.billed = TRUE] : x \in rows}
        /\ blind' = (blind \/ ~(rows = Billed \/ Net = 0))
        /\ UNCHANGED <<invoice, gate, faults>>
    BY <1>0, BaseFacts DEF Claim, Safe, Path, Leads, Sure
  <1>2. /\ \A x \in rows' : \E y \in rows : x.by = y.by /\ x.cents = y.cents
        /\ \A y \in rows : \E x \in rows' : x.by = y.by /\ x.cents = y.cents
        /\ Billed' = rows' /\ Net' = Net + Held /\ Advance' = Advance
    BY <1>0, <1>1, Bills
  <1>3. /\ NoSync' => NoSync
        /\ Billed' = {} => Billed = {}
    BY <1>2 DEF NoSync, Billed
  <1>4. Net \in Int /\ Held \in Int /\ Advance \in Int /\ Held <= Advance /\ Total \in Nat
    BY <1>0, BaseFacts DEF Safe
  <1>5. CASE rows = Billed
    <2>1. Goto(r, "done")
      BY <1>5 DEF Claim
    <2>2. Around(r)
      BY <1>0, <2>1, GoesTo DEF At
    <2>3. PassedOn(r)
      BY <1>1 DEF PassedOn, Recomputes, Settles, Takes, Lowers, Closes, Opens, Is
    <2>4. Held = 0
      <3>1. rows \ Billed = {}
        BY <1>5
      <3> QED BY <3>1, Summed, TallyEmpty
    <2>5. Net' = Net
      BY <1>2, <1>4, <2>4
    <2> QED BY <1>0, <1>1, <1>2, <1>3, <2>2, <2>3, <2>5, PassesOn
  <1>6. CASE rows # Billed
    <2>1. Goto(r, "read")
      BY <1>6 DEF Claim, Claimed
    <2>2. Around(r) /\ req'[r].at = "read"
      BY <1>0, <2>1, GoesTo DEF At
    <2>3. Recomputes(r)' /\ Takes(r)' /\ Closes(r)'
      BY <1>1, <2>2 DEF Recomputes, Takes, Closes, Lowers, Is
    <2>4. ~blind' => ~blind /\ Net' = Held
      <3>1. ~blind' => ~blind /\ Net = 0
        BY <1>1, <1>6
      <3> QED BY <1>2, <1>4, <3>1
    <2>5. Unopened'
      BY <1>0, <1>1, <1>3 DEF Seen, Unopened
    <2>6. Caught' /\ LastPaid' /\ Closing'
      BY <2>3 DEF Caught, LastPaid, Closing
    <2>7. Opening'
      <3>1. SUFFICES ASSUME ~blind', NoSync', Advance' < Total
                     PROVE  /\ Net' >= Total /\ ~invoice'.paid => \E q \in Requests : Opens(q)'
                            /\ Backed' /\ ~gate' => \E q \in Requests : Opens(q)'
        BY DEF Opening
      <3>2. ~(Net' >= Total)
        BY <1>2, <1>4, <2>4, <3>1
      <3>3. Backed' /\ ~gate' => \E q \in Requests : Opens(q)
        BY <1>0, <1>1, <1>2, <1>3, <2>4, <3>1 DEF Seen, Opening, Backed
      <3>4. ~Opens(r)
        BY <1>1 DEF Opens, Settles, Is
      <3> QED BY <1>1, <2>2, <3>2, <3>3, <3>4, OthersPlay
    <2> QED BY <2>5, <2>6, <2>7 DEF Seen
  <1> QED BY <1>5, <1>6

LEMMA VoidSeen ==
  ASSUME IInv, NEW r \in Requests, Void(r)
  PROVE  Seen'
  <1>0. Safe /\ Seen /\ Typed
    BY BaseFacts DEF IInv, Safe
  <1>1. /\ req[r].at \in {"idle", "retry"} /\ Is(r, {"void"})
        /\ invoice' = [invoice EXCEPT !.voided = TRUE]
        /\ UNCHANGED <<rows, gate, faults, blind>>
    BY DEF Void, Begins
  <1>2. /\ invoice'.paid = invoice.paid /\ invoice'.voided /\ invoice'.cached = invoice.cached
    BY <1>0, <1>1 DEF Typed
  <1>3. ~Recomputes(r) /\ ~Settles(r) /\ ~Takes(r) /\ ~Closes(r) /\ ~Opens(r)
    BY <1>1 DEF Recomputes, Settles, Takes, Lowers, Closes, Opens, Is
  <1>4. CASE invoice.voided
    <2>1. Goto(r, "done") /\ invoice'.voided = invoice.voided
      BY <1>0, <1>2, <1>4 DEF Void, Typed
    <2>2. Around(r)
      BY <1>0, <2>1, GoesTo DEF At
    <2> QED BY <1>0, <1>1, <1>2, <1>3, <2>1, <2>2, RowsStay, PassesOn DEF PassedOn
  <1>5. CASE ~invoice.voided
    <2>1. Around(r) /\ req'[r].at = "check"
      BY <1>0, <1>5, GoesTo DEF Void, At
    <2>2. /\ Net' = Net /\ Billed' = Billed /\ Advance' = Advance /\ (NoSync' => NoSync)
          /\ (Shown' <=> Shown) /\ ~Backed' /\ Closes(r)'
      BY <1>1, <1>2, <2>1, RowsStay DEF Shown, Backed, Closes
    <2>3. Unopened'
      BY <1>0, <1>2, <2>2 DEF Seen, Unopened
    <2>4. Caught'
      BY <1>0, <1>1, <1>2, <1>3, <2>1, <2>2, OthersPlay DEF Seen, Caught
    <2>5. LastPaid'
      BY <1>0, <1>1, <1>2, <1>3, <2>1, <2>2, OthersPlay DEF Seen, LastPaid
    <2>6. Closing'
      BY <2>2 DEF Closing
    <2>7. Opening'
      BY <1>0, <1>1, <1>2, <1>3, <2>1, <2>2, OthersPlay DEF Seen, Opening
    <2> QED BY <2>3, <2>4, <2>5, <2>6, <2>7 DEF Seen
  <1> QED BY <1>4, <1>5

LEMMA OpenSeen ==
  ASSUME IInv, NEW r \in Requests, Open(r)
  PROVE  Seen'
  <1>0. Safe /\ Seen
    BY DEF IInv, Safe
  <1>1. /\ req[r].at \in {"idle", "retry"} /\ Is(r, {"card", "offline", "sync"})
        /\ UNCHANGED <<rows, invoice, gate, faults, blind>>
    BY DEF Open, Begins, Is
  <1>2. PICK step \in {"unlock", "sum", "refused", "done", "load"} :
           Goto(r, step) /\ (Is(r, {"card"}) => step = IF invoice.paid THEN "unlock" ELSE "sum")
    BY DEF Open, Is
  <1>3. Around(r) /\ req'[r].at = step
    <2>1. step \in At
      BY DEF At
    <2> QED BY <1>0, <1>2, <2>1, GoesTo
  <1>4. PassedOn(r)
    BY <1>1, <1>2, <1>3 DEF PassedOn, Recomputes, Settles, Takes, Lowers, Closes, Opens, Is
  <1> QED BY <1>0, <1>1, <1>3, <1>4, OnlyGoes

LEMMA LoadSeen ==
  ASSUME IInv, NEW r \in Requests, Load(r)
  PROVE  Seen'
  <1>0. Safe /\ Seen
    BY DEF IInv, Safe
  <1>1. /\ req[r].at = "load" /\ Is(r, {"sync"})
        /\ UNCHANGED <<rows, invoice, gate, faults, blind>>
    BY <1>0, BaseFacts DEF Load, Safe, Path, Leads
  <1>2. PICK step \in {"done", "sum"} : Goto(r, step)
    BY DEF Load
  <1>3. Around(r)
    BY <1>0, <1>2, GoesTo DEF At
  <1>4. PassedOn(r)
    BY <1>1 DEF PassedOn, Recomputes, Settles, Takes, Lowers, Closes, Opens, Is
  <1> QED BY <1>0, <1>1, <1>3, <1>4, OnlyGoes

LEMMA SumSeen ==
  ASSUME IInv, NEW r \in Requests, Sum(r)
  PROVE  Seen'
  <1>0. Safe /\ Seen
    BY DEF IInv, Safe
  <1>1. /\ req[r].at = "sum" /\ UNCHANGED <<rows, invoice, gate, faults, blind>>
    BY DEF Sum
  <1>2. \/ \E step \in {"read", "refused"} :
              Goto(r, step) /\ (step = "refused" => Is(r, {"offline", "refund"}))
        \/ \E cents \in Int : Carry(r, "append", cents)
    BY <1>0, SumSafe
  <1>3. /\ Around(r) /\ req'[r].at \in {"read", "append", "refused"}
        /\ req'[r].at = "refused" => Is(r, {"offline", "refund"})
    BY <1>0, <1>2, GoesTo, CarriesTo DEF At
  <1>4. PassedOn(r)
    BY <1>1, <1>3 DEF PassedOn, Recomputes, Settles, Takes, Lowers, Closes, Opens, Is
  <1> QED BY <1>0, <1>1, <1>3, <1>4, OnlyGoes

LEMMA CorrectSeen ==
  ASSUME IInv, NEW r \in Requests, Correct(r)
  PROVE  Seen'
  <1>0. Safe /\ Seen
    BY DEF IInv, Safe
  <1>1. /\ req[r].at \in {"idle", "retry"} /\ Is(r, {"correct"})
        /\ UNCHANGED <<rows, invoice, gate, faults, blind>>
    BY DEF Correct, Begins
  <1>2. Around(r)
    BY <1>0, CorrectSafe, GoesTo, CarriesTo DEF At
  <1>3. PassedOn(r)
    BY <1>1 DEF PassedOn, Recomputes, Settles, Takes, Lowers, Closes, Opens, Is
  <1> QED BY <1>0, <1>1, <1>2, <1>3, OnlyGoes

LEMMA QuoteSeen ==
  ASSUME IInv, NEW r \in Requests, Quote(r)
  PROVE  Seen'
  <1>0. Safe /\ Seen
    BY DEF IInv, Safe
  <1>1. /\ req[r].at \in {"idle", "retry"} /\ Is(r, {"refund"})
        /\ UNCHANGED <<rows, invoice, gate, faults, blind>>
    BY DEF Quote, Begins
  <1>2. Around(r)
    BY <1>0, QuoteSafe DEF Around
  <1>3. PassedOn(r)
    BY <1>1 DEF PassedOn, Recomputes, Settles, Takes, Lowers, Closes, Opens, Is
  <1> QED BY <1>0, <1>1, <1>2, <1>3, OnlyGoes

LEMMA AppendSeen ==
  ASSUME IInv, NEW r \in Requests, Append(r)
  PROVE  Seen'
  <1>0. Safe /\ Seen
    BY DEF IInv, Safe
  <1>1. /\ req[r].at = "append" /\ Goto(r, "read") /\ UNCHANGED <<invoice, gate, faults>>
        /\ Is(r, {"card", "offline", "sync", "refund", "correct"})
    BY <1>0, BaseFacts DEF Append, Safe, Path, Leads
  <1>2. Around(r) /\ req'[r].at = "read"
    BY <1>0, <1>1, GoesTo DEF At
  <1> DEFINE c == req[r].cents
  <1>3. /\ c \in Int /\ Net' = Net + c /\ Billed' # {} /\ Advance' = Advance
        /\ NoSync' => NoSync /\ ~Is(r, {"sync"})
        /\ ~blind' => ~blind /\ Fits(r, Net, c)
    BY <1>0, AppendSafe
  <1> HIDE DEF c
  <1>4. Net \in Int /\ Total \in Nat
    BY <1>0, BaseFacts DEF Safe
  <1>5. /\ Is(r, {"card"}) => Settles(r)' /\ Opens(r)'
        /\ Is(r, {"offline"}) => Opens(r)'
        /\ ~Is(r, {"card"}) => Recomputes(r)'
        /\ Is(r, {"refund", "correct"}) => Takes(r)'
        /\ ~Closes(r) /\ ~Takes(r) /\ ~Recomputes(r) /\ (Opens(r) => Is(r, {"card"}))
    BY <1>1, <1>2 DEF Recomputes, Settles, Takes, Lowers, Closes, Opens, Is
  <1>6. ~blind' => /\ Is(r, {"card"}) => Net < Total /\ Net' = Total
                   /\ Is(r, {"offline"}) => Net' >= Net
                   /\ Is(r, {"refund", "correct"}) => Net' <= Net
    BY <1>3, <1>4 DEF Fits, InFull, Is
  <1>7. Unopened'
    BY <1>3 DEF Unopened
  <1>8. Caught'
    <2>1. SUFFICES ASSUME ~blind', Is(r, {"card"}), ~\E q \in Requests : Recomputes(q)'
                   PROVE  ~invoice'.paid
      BY <1>5 DEF Caught
    <2>2. ~blind /\ Net < Total
      BY <1>3, <1>6, <2>1
    <2>3. ~\E q \in Requests : Recomputes(q)
      BY <1>2, <1>5, <2>1, OthersPlay
    <2> QED BY <1>0, <1>1, <1>4, <2>2, <2>3 DEF Seen, Caught, Shown
  <1>9. LastPaid'
    <2>1. SUFFICES ASSUME ~blind', NoSync', invoice'.paid, Net' < Total
                   PROVE  \E q \in Requests : Takes(q)'
      BY DEF LastPaid
    <2>2. ~Is(r, {"sync"}) /\ NoSync /\ ~blind /\ ~Is(r, {"card"})
      BY <1>3, <1>4, <1>6, <2>1
    <2>3. CASE Is(r, {"offline"})
      <3>1. Net < Total
        BY <1>3, <1>4, <1>6, <2>1, <2>3
      <3>2. \E q \in Requests : Takes(q)
        BY <1>0, <1>1, <2>1, <2>2, <3>1 DEF Seen, LastPaid
      <3> QED BY <1>2, <1>5, <3>2, OthersPlay
    <2> QED BY <1>1, <1>5, <2>2, <2>3 DEF Is
  <1>10. Closing'
    <2>1. SUFFICES ASSUME ~blind', NoSync', gate', ~Backed' PROVE \E q \in Requests : Closes(q)'
      BY DEF Closing
    <2>2. \E q \in Requests : Closes(q)
      BY <1>0, <1>1, <1>3, <2>1 DEF Seen, Closing, Backed
    <2> QED BY <1>2, <1>5, <2>2, OthersPlay
  <1>11. Opening'
    <2>1. SUFFICES ASSUME ~blind', NoSync', Advance' < Total,
                          (Net' >= Total /\ ~invoice'.paid) \/ (Backed' /\ ~gate')
                   PROVE  \E q \in Requests : Opens(q)'
      BY DEF Opening
    <2>2. CASE Is(r, {"card", "offline"})
      BY <1>5, <2>2 DEF Is
    <2>3. CASE Is(r, {"refund", "correct"})
      <3>1. \E q \in Requests : Opens(q)
        <4>1. Net' >= Total => Net >= Total
          BY <1>3, <1>4, <1>6, <2>1, <2>3
        <4> QED BY <1>0, <1>1, <1>3, <2>1, <4>1 DEF Seen, Opening, Backed
      <3>2. ~Opens(r)
        BY <1>5, <2>3 DEF Is
      <3> QED BY <1>1, <1>2, <3>1, <3>2, OthersPlay
    <2> QED BY <1>1, <1>3, <2>1, <2>2, <2>3 DEF Is
  <1> QED BY <1>7, <1>8, <1>9, <1>10, <1>11 DEF Seen

LEMMA ReadSeen ==
  ASSUME IInv, NEW r \in Requests, Read(r)
  PROVE  Seen'
  <1>0. Safe /\ Seen
    BY DEF IInv, Safe
  <1>1. /\ req[r].at = "read" /\ UNCHANGED <<rows, invoice, gate, faults, blind>>
        /\ Is(r, {"card", "offline", "sync", "refund", "correct", "raise"})
        /\ req[r].cents \in Int /\ Net \in Int /\ Total \in Nat \ {0}
    BY <1>0, BaseFacts DEF Read, Safe, Path, Leads, Typed, Standing
  <1>2. CASE Billed # {}
    <2>1. Around(r) /\ req'[r].at = "write"
      BY <1>0, <1>1, <1>2, CarriesTo DEF Read, At
    <2>2. PassedOn(r)
      BY <1>1, <2>1 DEF PassedOn, Recomputes, Settles, Takes, Lowers, Closes, Opens, Is
    <2> QED BY <1>0, <1>1, <2>1, <2>2, OnlyGoes
  <1>3. CASE Billed = {}
    <2>1. Goto(r, After(r))
      BY <1>3 DEF Read
    <2>2. After(r) \in {"unlock", "ask", "done", "check"}
      BY <1>1, Afterwards DEF Is
    <2>3. Around(r) /\ req'[r].at = After(r)
      <3>1. After(r) \in At
        BY <2>2 DEF At
      <3> QED BY <1>0, <2>1, <3>1, GoesTo
    <2>4. Net = 0 /\ ~invoice.paid /\ invoice.cached = 0
      BY <1>0, <1>3, BaseFacts DEF Safe, Seen, Unopened
    <2>5. Net' = Net /\ (NoSync' => NoSync) /\ ~invoice'.paid /\ Unopened'
      BY <1>0, <1>1, <2>4, RowsStay DEF Seen, Unopened
    <2>6. Caught' /\ LastPaid' /\ Opening'
      BY <1>1, <2>4, <2>5 DEF Caught, Shown, LastPaid, Opening, Backed
    <2>7. Closes(r) => Closes(r)'
      BY <1>1, <2>3, Afterwards DEF Closes, Lowers, Is
    <2>8. Closing'
      BY <1>0, <1>1, <2>3, <2>5, <2>7, OthersPlay DEF Seen, Closing, Backed
    <2> QED BY <2>5, <2>6, <2>8 DEF Seen
  <1> QED BY <1>2, <1>3

LEMMA WriteSeen ==
  ASSUME IInv, NEW r \in Requests, Write(r)
  PROVE  Seen'
  <1>0. Safe /\ Seen /\ Typed /\ Path(r)
    BY BaseFacts DEF IInv, Safe
  <1>1. /\ req[r].at = "write" /\ Goto(r, After(r))
        /\ invoice' = [invoice EXCEPT !.cached = req[r].saw, !.paid = req[r].saw >= Total]
        /\ blind' = (blind \/ ~(req[r].saw = Net))
        /\ UNCHANGED <<rows, gate, faults>>
    BY DEF Write, Sure
  <1>2. /\ Is(r, {"card", "offline", "sync", "refund", "correct", "raise"}) /\ Billed # {}
        /\ Net \in Int /\ Total \in Nat
    BY <1>0, <1>1, BaseFacts DEF Path, Leads, Safe
  <1>3. /\ invoice'.voided = invoice.voided /\ invoice'.cached = req[r].saw
        /\ invoice'.paid <=> req[r].saw >= Total
    BY <1>0, <1>1 DEF Typed
  <1>4. Around(r) /\ req'[r].at = After(r)
    <2>1. After(r) \in {"unlock", "ask", "done", "check"}
      BY <1>2, Afterwards DEF Is
    <2>2. After(r) \in At
      BY <2>1 DEF At
    <2> QED BY <1>0, <1>1, <2>2, GoesTo
  <1>5. Net' = Net /\ Billed' = Billed /\ Advance' = Advance /\ (NoSync' => NoSync)
    BY <1>1, RowsStay
  <1>6. ~blind' => ~blind /\ Shown'
    BY <1>1, <1>3, <1>5 DEF Shown
  <1>7. Unopened' /\ Caught' /\ LastPaid'
    BY <1>2, <1>5, <1>6 DEF Unopened, Caught, LastPaid, Shown
  <1>8. /\ Lowers(r) => Closes(r)'
        /\ Is(r, {"card"}) => Opens(r)'
        /\ Is(r, {"offline"}) /\ invoice'.paid => Opens(r)'
        /\ Closes(r) \/ Takes(r) => Lowers(r)
        /\ Opens(r) => Is(r, {"card", "offline"})
    BY <1>1, <1>2, <1>4, Afterwards DEF Lowers, Closes, Takes, Opens, Settles, Is
  <1>9. Closing'
    <2>1. SUFFICES ASSUME ~blind', NoSync', gate', ~Backed', ~Lowers(r)
                   PROVE  \E q \in Requests : Closes(q)'
      BY <1>8 DEF Closing
    <2>2. \E q \in Requests : q # r /\ Closes(q)
      <3>1. CASE ~Backed
        BY <1>0, <1>1, <1>5, <1>6, <1>8, <2>1, <3>1 DEF Seen, Closing
      <3>2. CASE Backed
        <4>1. invoice.paid /\ Net < Total
          BY <1>2, <1>3, <1>5, <1>6, <2>1, <3>2 DEF Backed, Shown
        <4>2. PICK q \in Requests : Takes(q)
          BY <1>0, <1>5, <1>6, <2>1, <4>1 DEF Seen, LastPaid
        <4>3. q # r /\ Closes(q)
          BY <1>8, <2>1, <4>2 DEF Takes, Closes
        <4> QED BY <4>3
      <3> QED BY <3>1, <3>2
    <2> QED BY <1>4, <2>2, OthersPlay
  <1>10. Opening'
    <2>1. SUFFICES ASSUME ~blind', NoSync', Advance' < Total,
                          (Net' >= Total /\ ~invoice'.paid) \/ (Backed' /\ ~gate')
                   PROVE  \E q \in Requests : Opens(q)'
      BY DEF Opening
    <2>2. invoice'.paid /\ ~invoice'.voided /\ ~gate /\ Net >= Total
      BY <1>1, <1>5, <1>6, <2>1 DEF Shown, Backed
    <2>3. PICK q \in Requests : Opens(q)
      BY <1>0, <1>3, <1>5, <1>6, <2>1, <2>2 DEF Seen, Opening, Backed
    <2>4. CASE q = r
      BY <1>8, <2>2, <2>3, <2>4 DEF Is
    <2>5. CASE q # r
      BY <1>4, <2>2, <2>3, <2>5, OthersPlay
    <2> QED BY <2>4, <2>5
  <1> QED BY <1>7, <1>9, <1>10 DEF Seen

LEMMA AskSeen ==
  ASSUME IInv, NEW r \in Requests, Ask(r)
  PROVE  Seen'
  <1>0. Safe /\ Seen
    BY DEF IInv, Safe
  <1>1. /\ req[r].at = "ask" /\ Is(r, {"offline"})
        /\ UNCHANGED <<rows, invoice, gate, faults, blind>>
    BY <1>0, BaseFacts DEF Ask, Safe, Path, Leads
  <1>2. Around(r) /\ (invoice.paid => req'[r].at = "unlock")
    BY <1>0, GoesTo DEF Ask, At
  <1>3. PassedOn(r)
    BY <1>1, <1>2 DEF PassedOn, Recomputes, Settles, Takes, Lowers, Closes, Opens, Is
  <1> QED BY <1>0, <1>1, <1>2, <1>3, OnlyGoes

LEMMA UnlockSeen ==
  ASSUME IInv, NEW r \in Requests, Unlock(r)
  PROVE  Seen'
  <1>0. Safe /\ Seen
    BY DEF IInv, Safe
  <1>1. /\ req[r].at = "unlock" /\ Goto(r, "done") /\ gate' = TRUE
        /\ blind' = (blind \/ ~Backed) /\ UNCHANGED <<rows, invoice, faults>>
        /\ Is(r, {"card", "offline"})
    BY <1>0, BaseFacts DEF Unlock, Sure, Safe, Path, Leads
  <1>2. Around(r)
    BY <1>0, <1>1, GoesTo DEF At
  <1>3. /\ Net' = Net /\ Billed' = Billed /\ Advance' = Advance /\ (NoSync' => NoSync)
        /\ (Shown' <=> Shown) /\ (Backed' <=> Backed)
    BY <1>1, RowsStay DEF Shown, Backed
  <1>4. ~Recomputes(r) /\ ~Takes(r) /\ ~Settles(r)
    BY <1>1 DEF Recomputes, Takes, Settles
  <1>5. ~blind' => ~blind /\ Backed
    BY <1>1
  <1>6. Unopened' /\ Caught' /\ LastPaid'
    BY <1>0, <1>1, <1>2, <1>3, <1>4, <1>5, OthersPlay DEF Seen, Unopened, Caught, LastPaid
  <1>7. Closing' /\ Opening'
    BY <1>1, <1>3, <1>5 DEF Closing, Opening, Backed
  <1> QED BY <1>6, <1>7 DEF Seen

LEMMA CheckSeen ==
  ASSUME IInv, NEW r \in Requests, Check(r)
  PROVE  Seen'
  <1>0. Safe /\ Seen
    BY DEF IInv, Safe
  <1>1. /\ req[r].at = "check" /\ UNCHANGED <<rows, invoice, gate, faults, blind>>
        /\ Is(r, {"void", "refund", "correct", "raise"})
    BY <1>0, BaseFacts DEF Check, Safe, Path, Leads
  <1>2. PICK step \in {"held", "done", "lower"} : Goto(r, step) /\ (step # "lower" => Backed)
    BY DEF Check, Onward
  <1>3. Around(r) /\ req'[r].at = step
    <2>1. step \in At
      BY DEF At
    <2> QED BY <1>0, <1>2, <2>1, GoesTo
  <1>4. PassedOn(r)
    BY <1>1, <1>2, <1>3 DEF PassedOn, Recomputes, Settles, Takes, Lowers, Closes, Opens, Is
  <1> QED BY <1>0, <1>1, <1>3, <1>4, OnlyGoes

LEMMA LowerSeen ==
  ASSUME IInv, NEW r \in Requests, Lower(r)
  PROVE  Seen'
  <1>0. Safe /\ Seen
    BY DEF IInv, Safe
  <1>1. /\ req[r].at = "lower" /\ gate' = FALSE
        /\ blind' = (blind \/ ~~Backed) /\ UNCHANGED <<rows, invoice, faults>>
        /\ Is(r, {"void", "refund", "correct", "raise"})
    BY <1>0, BaseFacts DEF Lower, Lowered, Sure, Safe, Path, Leads
  <1>2. Around(r)
    BY <1>0, GoesTo DEF Lower, Onward, At
  <1>3. /\ Net' = Net /\ Billed' = Billed /\ Advance' = Advance /\ (NoSync' => NoSync)
        /\ (Shown' <=> Shown) /\ (Backed' <=> Backed)
    BY <1>1, RowsStay DEF Shown, Backed
  <1>4. ~Recomputes(r) /\ ~Takes(r) /\ ~Settles(r) /\ ~Opens(r)
    BY <1>1 DEF Recomputes, Takes, Settles, Opens
  <1>5. ~blind' => ~blind /\ ~Backed
    BY <1>1
  <1>6. Unopened' /\ Caught' /\ LastPaid'
    BY <1>0, <1>1, <1>2, <1>3, <1>4, <1>5, OthersPlay DEF Seen, Unopened, Caught, LastPaid
  <1>7. Closing'
    BY <1>1 DEF Closing
  <1>8. Opening'
    BY <1>0, <1>1, <1>2, <1>3, <1>4, <1>5, OthersPlay DEF Seen, Opening
  <1> QED BY <1>6, <1>7, <1>8 DEF Seen

LEMMA LookHeldSeen ==
  ASSUME IInv, NEW r \in Requests, LookHeld(r)
  PROVE  Seen'
  <1>0. Safe /\ Seen
    BY DEF IInv, Safe
  <1>1. /\ req[r].at = "held" /\ Is(r, {"refund"}) /\ Around(r)
        /\ UNCHANGED <<rows, invoice, gate, faults, blind>>
    BY <1>0, LookHeldSafe DEF LookHeld, Around
  <1>2. PassedOn(r)
    BY <1>1 DEF PassedOn, Recomputes, Settles, Takes, Lowers, Closes, Opens, Is
  <1> QED BY <1>0, <1>1, <1>2, OnlyGoes

LEMMA RefundHeldSeen ==
  ASSUME IInv, NEW r \in Requests, RefundHeld(r)
  PROVE  Seen'
  <1>0. Safe /\ Seen
    BY DEF IInv, Safe
  <1>1. /\ req[r].at = "hold" /\ Is(r, {"refund"}) /\ Around(r)
        /\ Net' = Net /\ Billed' = Billed /\ Advance' = Advance /\ (NoSync' => NoSync)
        /\ invoice' = invoice /\ gate' = gate
    BY <1>0, RefundHeldSafe DEF RefundHeld, Around
  <1>2. blind => blind'
    BY DEF RefundHeld, Sure
  <1>3. PassedOn(r)
    BY <1>1 DEF PassedOn, Recomputes, Settles, Takes, Lowers, Closes, Opens, Is
  <1> QED BY <1>0, <1>1, <1>2, <1>3, PassesOn

LEMMA FailSeen ==
  ASSUME IInv, NEW r \in Requests, Fail(r)
  PROVE  Seen'
  <1>0. Safe /\ Seen /\ Path(r)
    BY BaseFacts DEF IInv, Safe
  <1>1. /\ req[r].at \notin Over \/ (req[r].at = "done" /\ Webhook(r))
        /\ UNCHANGED <<rows, invoice, gate, blind>>
    BY DEF Fail
  <1>2. Around(r) /\ req'[r].at = IF Webhook(r) THEN "retry" ELSE "dead"
    BY <1>0, GoesTo DEF Fail, At
  <1>3. PassedOn(r)
    BY <1>0, <1>1, <1>2 DEF PassedOn, Recomputes, Settles, Takes, Lowers, Closes, Opens, Is,
                            Webhook, Path, Leads, Over
  <1> QED BY <1>0, <1>1, <1>2, <1>3, OnlyGoes

-----------------------------------------------------------------------------
(* The theorems.                                                           *)

LEMMA InitInv == Init => IInv
  <1> SUFFICES ASSUME Init PROVE IInv
    OBVIOUS
  <1>1. PICK batch \in Batches :
           req = [r \in Requests |-> Fresh(IF r \in batch THEN "idle" ELSE "refused")]
    BY DEF Init
  <1>2. \A step \in At : Fresh(step) \in Standing /\ Fresh(step).at = step /\ Fresh(step).rest = 0
    BY DEF Fresh, Standing
  <1>3. /\ req \in [Requests -> Standing]
        /\ \A r \in Requests : req[r].at \in {"idle", "refused"} /\ req[r].rest = 0
    BY <1>1, <1>2 DEF At
  <1>4. /\ rows = {} /\ gate = FALSE /\ faults = 0 /\ blind = FALSE /\ MaxFaults \in Nat
        /\ invoice = [raised |-> FALSE, voided |-> FALSE, paid |-> FALSE, cached |-> 0]
    BY Money DEF Init
  <1>5. TypeOK
    <2> DEFINE none == 0
               no   == FALSE
    <2>1. none \in Int /\ no \in BOOLEAN
      OBVIOUS
    <2>2. invoice = [raised |-> no, voided |-> no, paid |-> no, cached |-> none]
      BY <1>4
    <2> HIDE DEF none, no
    <2>3. invoice \in [raised : BOOLEAN, voided : BOOLEAN, paid : BOOLEAN, cached : Int]
      BY <2>1, <2>2
    <2>4. rows \in SUBSET Row /\ gate \in BOOLEAN /\ blind \in BOOLEAN /\ faults \in 0 .. MaxFaults
      <3>1. rows \in SUBSET Row /\ faults \in 0 .. MaxFaults
        BY <1>4
      <3>2. gate \in BOOLEAN /\ blind \in BOOLEAN
        BY <1>4
      <3> QED BY <3>1, <3>2
    <2> QED BY <1>3, <1>4, <2>3, <2>4 DEF TypeOK, Standing
  <1>6. Numbered /\ Signed /\ DepositOnce
    BY <1>4, FS_EmptySet DEF Numbered, Signed, DepositOnce
  <1>7. Paths /\ Bearing
    BY <1>3 DEF Paths, Bearing, Path, Leads, Bears
  <1>8. /\ Billed = {} /\ Deposits = {} /\ Corrected = {} /\ rows \ Billed = {}
    BY <1>4 DEF Billed, Deposits, Corrected
  <1>9. Net = 0 /\ Held = 0 /\ Advance = 0 /\ Fixed = 0
    BY <1>8, Summed, TallyEmpty DEF Fixed
  <1>10. InBounds
    BY <1>9, BoundsAre, Money
  <1>11. Seen
    BY <1>4, <1>9, Money DEF Seen, Unopened, Caught, Shown, LastPaid, Closing, Opening, Backed
  <1> QED BY <1>5, <1>6, <1>7, <1>10, <1>11 DEF IInv, Base

LEMMA StepInv ==
  ASSUME IInv, NEW r \in Requests,
         \/ Deposit(r) \/ InsertDeposit(r) \/ Raise(r) \/ Claim(r) \/ Void(r) \/ Open(r) \/ Load(r)
         \/ Sum(r) \/ Correct(r) \/ Quote(r) \/ Append(r) \/ Read(r) \/ Write(r) \/ Ask(r)
         \/ Unlock(r) \/ Check(r) \/ Lower(r) \/ LookHeld(r) \/ RefundHeld(r) \/ Fail(r)
  PROVE  IInv'
  <1>1. Safe
    BY DEF IInv, Safe
  <1>2. Safe' /\ Seen'
    <2>1. CASE Deposit(r)
      BY <1>1, <2>1, DepositSafe, DepositSeen
    <2>2. CASE InsertDeposit(r)
      BY <1>1, <2>2, InsertDepositSafe, InsertDepositSeen
    <2>3. CASE Raise(r)
      BY <1>1, <2>3, RaiseSafe, RaiseSeen
    <2>4. CASE Claim(r)
      BY <1>1, <2>4, ClaimSafe, ClaimSeen
    <2>5. CASE Void(r)
      BY <1>1, <2>5, VoidSafe, VoidSeen
    <2>6. CASE Open(r)
      BY <1>1, <2>6, OpenSafe, OpenSeen
    <2>7. CASE Load(r)
      BY <1>1, <2>7, LoadSafe, LoadSeen
    <2>8. CASE Sum(r)
      BY <1>1, <2>8, SumSafe, SumSeen
    <2>9. CASE Correct(r)
      BY <1>1, <2>9, CorrectSafe, CorrectSeen
    <2>10. CASE Quote(r)
      BY <1>1, <2>10, QuoteSafe, QuoteSeen
    <2>11. CASE Append(r)
      BY <1>1, <2>11, AppendSafe, AppendSeen
    <2>12. CASE Read(r)
      BY <1>1, <2>12, ReadSafe, ReadSeen
    <2>13. CASE Write(r)
      BY <1>1, <2>13, WriteSafe, WriteSeen
    <2>14. CASE Ask(r)
      BY <1>1, <2>14, AskSafe, AskSeen
    <2>15. CASE Unlock(r)
      BY <1>1, <2>15, UnlockSafe, UnlockSeen
    <2>16. CASE Check(r)
      BY <1>1, <2>16, CheckSafe, CheckSeen
    <2>17. CASE Lower(r)
      BY <1>1, <2>17, CheckSafe, LowerSeen
    <2>18. CASE LookHeld(r)
      BY <1>1, <2>18, LookHeldSafe, LookHeldSeen
    <2>19. CASE RefundHeld(r)
      BY <1>1, <2>19, RefundHeldSafe, RefundHeldSeen
    <2>20. CASE Fail(r)
      BY <1>1, <2>20, FailSafe, FailSeen
    <2> QED BY <2>1, <2>2, <2>3, <2>4, <2>5, <2>6, <2>7, <2>8, <2>9, <2>10, <2>11, <2>12, <2>13,
               <2>14, <2>15, <2>16, <2>17, <2>18, <2>19, <2>20
  <1> QED BY <1>2 DEF IInv, Safe

LEMMA NextInv == IInv /\ [Next]_vars => IInv'
  <1> SUFFICES ASSUME IInv, [Next]_vars PROVE IInv'
    OBVIOUS
  <1>1. CASE Next
    BY <1>1, StepInv DEF Next
  <1>2. CASE UNCHANGED vars
    <2>1. UNCHANGED <<rows, invoice, gate, req, faults, blind>>
      BY <1>2 DEF vars
    <2>2. /\ Net' = Net /\ Held' = Held /\ Advance' = Advance /\ Fixed' = Fixed /\ Billed' = Billed
          /\ Numbered' /\ Signed' /\ DepositOnce' /\ (NoSync' => NoSync)
      BY <2>1, RowsStay DEF IInv, Base
    <2>3. InBounds'
      BY <2>1, <2>2, BoundsAre, BoundsAreNext DEF IInv
    <2>4. TypeOK' /\ Paths' /\ Bearing'
      BY <2>1, <2>2 DEF IInv, Base, TypeOK, Paths, Bearing, Path, Leads, Bears
    <2>5. Seen'
      BY <2>1, <2>2 DEF IInv, Seen, Unopened, Caught, Shown, Recomputes, Settles, LastPaid, Takes,
                        Closing, Closes, Opening, Opens, Backed
    <2> QED BY <2>2, <2>3, <2>4, <2>5 DEF IInv, Base
  <1> QED BY <1>1, <1>2

-----------------------------------------------------------------------------
(* What a card settlement delivered again enters.                          *)

Actions(r) ==
    \/ Deposit(r) \/ InsertDeposit(r) \/ Raise(r) \/ Claim(r) \/ Void(r) \/ Open(r) \/ Load(r)
    \/ Sum(r) \/ Correct(r) \/ Quote(r) \/ Append(r) \/ Read(r) \/ Write(r) \/ Ask(r)
    \/ Unlock(r) \/ Check(r) \/ Lower(r) \/ LookHeld(r) \/ RefundHeld(r) \/ Fail(r)

\* The billed rows are first receipts, receipts of a settlement delivered again,
\* and what was taken back.
CardRows  == {x \in Billed : Is(x.by, {"card"})}
Agains(r) == {x \in Billed : x.by = r /\ x.nth > 0}
Repeats   == {x \in CardRows : x.nth > 0}
Backs     == {x \in Billed : x.cents < 0}
Firsts    == {x \in Billed : x.cents >= 0 /\ x \notin Repeats}

\* The first receipts cover the total once a card has settled, and a settlement
\* about to enter a row enters the remainder, or no more than was taken back.
Due(r) ==
    req[r].at = "append" =>
        /\ (\E x \in CardRows : x.by = r) => Tally(Agains(r)) + req[r].cents <= -Tally(Backs)
        /\ CardRows = {} => Tally(Firsts) + req[r].cents >= Total
Covers(r) == Tally(Agains(r)) <= -Tally(Backs)
Once ==
    /\ \A x \in CardRows : x.cents > 0
    /\ CardRows # {} => Tally(Firsts) >= Total
    /\ \A r \in Requests : Is(r, {"card"}) => Covers(r) /\ Due(r)

LEMMA OnceCovers == Once => SettledOnce
  BY DEF Once, Covers, SettledOnce, Again, TakenBack, Agains, Backs, Tally

LEMMA CardsAreBilled ==
  ASSUME Base, NEW x \in rows, Is(x.by, {"card"})
  PROVE  x \in CardRows
  BY DEF Base, TypeOK, Billed, CardRows, Is

LEMMA PartsFigured ==
  ASSUME rows \in SUBSET Row, IsFiniteSet(rows)
  PROVE  /\ Figured(Firsts) /\ Figured(Repeats) /\ Figured(Backs) /\ \A r : Figured(Agains(r))
         /\ Tally(Firsts) \in Int /\ Tally(Repeats) \in Int /\ Tally(Backs) \in Int
         /\ \A r : Tally(Agains(r)) \in Int
         /\ Tally(Backs) <= 0
  <1>1. /\ Firsts \subseteq rows /\ Repeats \subseteq rows /\ Backs \subseteq rows
        /\ \A r : Agains(r) \subseteq rows
    BY DEF Firsts, Repeats, CardRows, Backs, Agains, Billed
  <1>2. /\ Figured(Firsts) /\ Figured(Repeats) /\ Figured(Backs) /\ \A r : Figured(Agains(r))
        /\ Tally(Firsts) \in Int /\ Tally(Repeats) \in Int /\ Tally(Backs) \in Int
        /\ \A r : Tally(Agains(r)) \in Int
    BY <1>1, AllFigured
  <1>3. \A x \in Backs : x.cents <= 0
    BY <1>2 DEF Backs, Figured
  <1> QED BY <1>2, <1>3, TallySign

LEMMA PartsSum ==
  ASSUME Base, Once, NEW r \in Requests, Is(r, {"card"})
  PROVE  /\ Net = Tally(Firsts) + Tally(Repeats) + Tally(Backs)
         /\ Tally(Agains(r)) <= Tally(Repeats)
         /\ CardRows = {} => Tally(Repeats) = 0
  <1>1. rows \in SUBSET Row /\ IsFiniteSet(rows)
    BY BaseFacts
  <1>2. \A x \in Billed : x.cents \in Int
    BY <1>1 DEF Billed, Row
  <1>3. /\ Billed = (Firsts \cup Repeats) \cup Backs
        /\ Firsts \cap Repeats = {} /\ (Firsts \cup Repeats) \cap Backs = {}
    <2>1. \A x \in Repeats : x.cents > 0 /\ x \in Billed
      BY DEF Once, Repeats, CardRows
    <2> QED BY <1>2, <2>1 DEF Firsts, Backs
  <1>4. Figured(Firsts \cup Repeats)
    <2>1. Firsts \cup Repeats \subseteq rows
      BY <1>3 DEF Billed
    <2> QED BY <1>1, <2>1, AllFigured
  <1>5. Net = Tally(Firsts) + Tally(Repeats) + Tally(Backs)
    <2>1. Tally(Billed) = Tally(Firsts \cup Repeats) + Tally(Backs)
      BY <1>1, <1>3, <1>4, PartsFigured, TallyUnion
    <2>2. Tally(Firsts \cup Repeats) = Tally(Firsts) + Tally(Repeats)
      BY <1>1, <1>3, PartsFigured, TallyUnion
    <2> QED BY <2>1, <2>2, Summed
  <1>6. Tally(Agains(r)) <= Tally(Repeats)
    <2> DEFINE others == Repeats \ Agains(r)
    <2>1. /\ Repeats = Agains(r) \cup others /\ Agains(r) \cap others = {}
          /\ others \subseteq rows
      BY DEF Repeats, CardRows, Agains, Billed
    <2>2. Figured(others) /\ Tally(others) \in Int /\ \A x \in others : x.cents >= 0
      <3>1. Figured(others) /\ Tally(others) \in Int
        BY <1>1, <2>1, AllFigured
      <3>2. \A x \in others : x.cents > 0
        BY DEF Once, Repeats
      <3> QED BY <3>1, <3>2 DEF Figured
    <2> HIDE DEF others
    <2>3. Tally(others) >= 0
      BY <2>2, TallySign
    <2>4. Tally(Repeats) = Tally(Agains(r)) + Tally(others)
      BY <1>1, <2>1, <2>2, PartsFigured, TallyUnion
    <2> QED BY <1>1, <2>2, <2>3, <2>4, PartsFigured
  <1>7. CardRows = {} => Tally(Repeats) = 0
    <2>1. CardRows = {} => Repeats = {}
      BY DEF Repeats
    <2> QED BY <2>1, TallyEmpty
  <1> QED BY <1>5, <1>6, <1>7

\* A step that bills rows other than card settlements.
Grows ==
    /\ Billed \subseteq Billed'
    /\ \A x \in Billed' \ Billed : ~Is(x.by, {"card"})

LEMMA TallyOfMore ==
  ASSUME NEW S, NEW T, S \subseteq T, Figured(T)
  PROVE  /\ (\A x \in T \ S : x.cents >= 0) => Tally(T) >= Tally(S)
         /\ (\A x \in T \ S : x.cents <= 0) => Tally(T) <= Tally(S)
  <1> DEFINE D == T \ S
  <1>1. T = S \cup D /\ S \cap D = {}
    OBVIOUS
  <1>2. Figured(S) /\ Figured(D)
    BY FS_Subset DEF Figured
  <1> HIDE DEF D
  <1>3. Tally(T) = Tally(S) + Tally(D) /\ Tally(S) \in Int /\ Tally(D) \in Int
    BY <1>1, <1>2, TallyUnion, TallyInt
  <1>4. /\ (\A x \in D : x.cents >= 0) => Tally(D) >= 0
        /\ (\A x \in D : x.cents <= 0) => Tally(D) <= 0
    BY <1>2, TallySign
  <1> QED BY <1>3, <1>4 DEF D

LEMMA GrowsSums ==
  ASSUME Base, Base', Grows
  PROVE  /\ CardRows' = CardRows /\ \A r \in Requests : Is(r, {"card"}) => Agains(r)' = Agains(r)
         /\ Tally(Firsts') >= Tally(Firsts) /\ Tally(Backs') <= Tally(Backs)
  <1>1. /\ CardRows' = CardRows
        /\ \A r \in Requests : Is(r, {"card"}) => Agains(r)' = Agains(r)
    BY DEF Grows, CardRows, Agains, Is
  <1>2. rows' \in SUBSET Row /\ IsFiniteSet(rows')
    BY DEF Base, TypeOK, Numbered
  <1>3. /\ Firsts' \subseteq rows' /\ Backs' \subseteq rows'
        /\ \A S \in SUBSET rows' : IsFiniteSet(S)
    BY <1>2, FS_Subset DEF Firsts, Backs, Billed
  <1>4. \A x \in rows' : x.cents \in Int
    BY <1>2 DEF Row
  <1>5. Figured(Firsts') /\ Figured(Backs')
    BY <1>3, <1>4 DEF Figured
  <1>6. Firsts \subseteq Firsts' /\ Backs \subseteq Backs'
    BY <1>1 DEF Grows, Firsts, Repeats, Backs
  <1>7. (\A x \in Firsts' : x.cents >= 0) /\ (\A x \in Backs' : x.cents <= 0)
    BY <1>3, <1>4 DEF Firsts, Backs
  <1> QED BY <1>1, <1>5, <1>6, <1>7, TallyOfMore

LEMMA MostGrow ==
  ASSUME Base, NEW r \in Requests, Actions(r), ~(Append(r) /\ Is(r, {"card"}))
  PROVE  Grows
  <1>1. /\ rows \in SUBSET Row /\ Numbered /\ Amount[r] \in Int /\ -req[r].rest \in Int
        /\ req[r].cents \in Int
    BY BaseFacts DEF Typed, Standing
  <1>2. CASE InsertDeposit(r)
    <2>1. rows' = rows \/ rows' = rows \cup {NewRow(r, Amount[r], FALSE)}
      BY <1>2 DEF InsertDeposit, Deposited
    <2>2. Billed' = Billed
      BY <1>1, <2>1, RowsStay, Enters
    <2> QED BY <2>2 DEF Grows
  <1>3. CASE RefundHeld(r)
    <2>1. rows' = rows \cup {NewRow(r, -req[r].rest, FALSE)}
      BY <1>3 DEF RefundHeld
    <2>2. Billed' = Billed
      BY <1>1, <2>1, Enters
    <2> QED BY <2>2 DEF Grows
  <1>4. CASE Append(r)
    <2>1. rows' = rows \cup {NewRow(r, req[r].cents, TRUE)} /\ ~Is(r, {"card"})
      BY <1>4 DEF Append
    <2>2. Billed' = Billed \cup {NewRow(r, req[r].cents, TRUE)}
      BY <1>1, <2>1, Enters
    <2>3. NewRow(r, req[r].cents, TRUE).by = r
      BY DEF NewRow
    <2> QED BY <2>1, <2>2, <2>3 DEF Grows
  <1>5. CASE Claim(r)
    <2>1. rows' = {InBill(x) : x \in rows}
      BY <1>5 DEF Claim, InBill
    <2>2. \A x \in rows : /\ InBill(x).billed /\ InBill(x).by = x.by
                          /\ x.billed => InBill(x) = x
      BY <1>1 DEF Row, InBill
    <2>3. \A x \in rows : ~x.billed => ~Is(x.by, {"card"})
      BY DEF Base, TypeOK, Is
    <2>4. Billed \subseteq Billed'
      BY <2>1, <2>2 DEF Billed
    <2>5. ASSUME NEW x \in Billed' \ Billed PROVE ~Is(x.by, {"card"})
      <3>1. PICK y \in rows : x = InBill(y)
        BY <2>1, <2>5 DEF Billed
      <3>2. ~y.billed
        BY <2>2, <2>5, <3>1 DEF Billed
      <3> QED BY <2>2, <2>3, <3>1, <3>2
    <2> QED BY <2>4, <2>5 DEF Grows
  <1>6. CASE rows' = rows
    BY <1>6 DEF Grows, Billed
  <1> QED BY <1>2, <1>3, <1>4, <1>5, <1>6 DEF Actions, Deposit, Raise, Void, Open, Load, Sum, Correct,
                                              Quote, Read, Write, Ask, Unlock, Check, Lower, LookHeld, Fail

LEMMA OthersWait ==
  ASSUME Base, NEW q \in Requests, Actions(q), NEW r \in Requests \ {q}
  PROVE  req'[r] = req[r]
  <1>1. req \in [Requests -> Standing]
    BY BaseFacts DEF Typed
  <1>2. ASSUME NEW s, req' = [req EXCEPT ![q] = s] PROVE req'[r] = req[r]
    BY <1>1, <1>2
  <1>3. ASSUME NEW step, Goto(q, step) PROVE req'[r] = req[r]
    BY <1>2, <1>3, Zenon DEF Goto
  <1>4. ASSUME NEW step, NEW cents, Carry(q, step, cents) PROVE req'[r] = req[r]
    BY <1>2, <1>4, Zenon DEF Carry
  <1>5. CASE Deposit(q) \/ InsertDeposit(q) \/ Raise(q) \/ Claim(q) \/ Void(q) \/ Open(q) \/ Load(q)
    BY <1>2, <1>3, <1>4, <1>5 DEF Deposit, InsertDeposit, Raise, Claim, Void, Open, Load
  <1>6. CASE Sum(q) \/ Correct(q) \/ Append(q) \/ Read(q) \/ Write(q) \/ Ask(q)
    BY <1>2, <1>3, <1>4, <1>6 DEF Sum, Correct, Append, Read, Write, Ask
  <1>7. CASE Unlock(q) \/ Check(q) \/ Lower(q) \/ Fail(q)
    BY <1>2, <1>3, <1>4, <1>7 DEF Unlock, Check, Lower, Fail
  <1>8. CASE Quote(q)
    BY <1>2, <1>3, <1>4, <1>8 DEF Quote
  <1>9. CASE LookHeld(q) \/ RefundHeld(q)
    BY <1>2, <1>3, <1>4, <1>9 DEF LookHeld, RefundHeld
  <1> QED BY <1>5, <1>6, <1>7, <1>8, <1>9 DEF Actions

\* A card about to enter a row has just summed what is billed.
LEMMA AtAppend ==
  ASSUME Base, NEW r \in Requests, Actions(r), Is(r, {"card"}), req'[r].at = "append"
  PROVE  rows' = rows /\ req'[r].cents = Total - Net /\ Net < Total
  <1>1. /\ Typed /\ Path(r) /\ Net \in Int /\ Total \in Nat
        /\ ~Is(r, {"deposit", "offline", "correct", "refund", "sync", "raise", "void"})
    BY BaseFacts DEF Is
  <1>2. ~\E step \in At \ {"append"} : Goto(r, step)
    BY <1>1, Goes DEF Typed
  <1>3. ~\E step \in At \ {"append"} : Carry(r, step, req[r].cents)
    BY <1>1, Carries DEF Typed, Standing
  <1>4. Sum(r)
    BY <1>1, <1>2, <1>3 DEF Actions, Deposit, InsertDeposit, Raise, Claim, Void, Open, Load, Correct, Quote,
       Append, Read, Write, Ask, Unlock, Check, Lower, LookHeld, RefundHeld, Fail, At, Is, Path, Leads,
       After, Webhook
  <1>5. Carry(r, "append", Total - Net) /\ Net < Total /\ rows' = rows
    BY <1>1, <1>2, <1>4 DEF Sum, Outstanding, InFull, Is, At
  <1>6. Total - Net \in Int /\ "append" \in At
    BY <1>1 DEF At
  <1> QED BY <1>1, <1>5, <1>6, Carries DEF Typed

\* The step that enters the row of a card.
LEMMA CardAppends ==
  ASSUME Base, Once, NEW r \in Requests, Is(r, {"card"}), Append(r), Base'
  PROVE  Once'
  <1> DEFINE cents == req[r].cents
             x == NewRow(r, cents, TRUE)
  <1>1. /\ rows \in SUBSET Row /\ Numbered /\ IsFiniteSet(rows) /\ cents \in Int /\ cents > 0
        /\ Total \in Nat /\ req[r].at = "append" /\ TRUE \in BOOLEAN /\ Net \in Int
    <2>1. Typed /\ Bears(r) /\ Total \in Nat
      BY BaseFacts
    <2>2. req[r].at = "append" /\ req[r].saw \in Int /\ req[r].cents \in Int
      BY <2>1 DEF Append, Typed, Standing
    <2>3. req[r].saw < Total /\ cents = Total - req[r].saw
      BY <2>1, <2>2 DEF Bears, Fits, InFull
    <2> QED BY <2>1, <2>2, <2>3, BaseFacts
  <1>2. rows' = rows \cup {x} /\ Billed' = Billed \cup {x}
    <2>1. rows' = rows \cup {x}
      BY DEF Append
    <2> QED BY <1>1, <2>1, Enters
  <1>3. /\ x \in Row \ rows /\ x.by = r /\ x.cents = cents /\ x.nth = Cardinality(Of(r))
    <2>1. /\ x \in Row \ rows
          /\ x = [by |-> r, nth |-> Cardinality(Of(r)), cents |-> cents, billed |-> TRUE]
      BY <1>1, NewRowIsNew
    <2> DEFINE n == Cardinality(Of(r))
    <2>2. x = [by |-> r, nth |-> n, cents |-> cents, billed |-> TRUE]
      BY <2>1
    <2> HIDE DEF n, x, cents
    <2>3. x.by = r /\ x.cents = cents /\ x.nth = n
      BY <2>2
    <2> QED BY <2>1, <2>3 DEF n
  <1>4. x.nth \in Nat /\ (x.nth > 0 <=> \E y \in CardRows : y.by = r)
    <2>1. IsFiniteSet(Of(r)) /\ Cardinality(Of(r)) \in Nat
      BY <1>1, FS_Subset, FS_CardinalityType DEF Of
    <2>2. Cardinality(Of(r)) = 0 <=> Of(r) = {}
      BY <2>1, FS_EmptySet
    <2>3. Of(r) = {y \in CardRows : y.by = r}
      BY CardsAreBilled DEF Of, CardRows, Billed
    <2> DEFINE n == Cardinality(Of(r))
    <2>4. x.nth = n /\ n \in Nat /\ (n = 0 <=> Of(r) = {})
      BY <1>3, <2>1, <2>2
    <2> HIDE DEF n, x
    <2> QED BY <2>3, <2>4
  <1> HIDE DEF x, cents
  <1>5. /\ CardRows' = CardRows \cup {x} /\ Backs' = Backs
        /\ \A p \in Requests \ {r} : Agains(p)' = Agains(p)
        /\ Agains(r)' = IF x.nth > 0 THEN Agains(r) \cup {x} ELSE Agains(r)
        /\ Firsts' = IF x.nth > 0 THEN Firsts ELSE Firsts \cup {x}
        /\ x \notin Firsts /\ x \notin Agains(r)
    <2>1. CardRows' = CardRows \cup {x} /\ Backs' = Backs /\ x \notin Billed
      BY <1>1, <1>2, <1>3 DEF CardRows, Backs, Billed, Is
    <2>2. /\ \A p \in Requests \ {r} : Agains(p)' = Agains(p)
          /\ Agains(r)' = IF x.nth > 0 THEN Agains(r) \cup {x} ELSE Agains(r)
      BY <1>2, <1>3 DEF Agains
    <2>3. Repeats' = IF x.nth > 0 THEN Repeats \cup {x} ELSE Repeats
      BY <2>1 DEF Repeats
    <2>4. Firsts' = IF x.nth > 0 THEN Firsts ELSE Firsts \cup {x}
      BY <1>1, <1>2, <1>3, <2>1, <2>3 DEF Firsts, Repeats, CardRows
    <2> QED BY <2>1, <2>2, <2>4 DEF Firsts, Agains
  <1>6. /\ Tally(Firsts \cup {x}) = Tally(Firsts) + cents
        /\ Tally(Agains(r) \cup {x}) = Tally(Agains(r)) + cents
        /\ Tally(Firsts) \in Int /\ Tally(Agains(r)) \in Int /\ Tally(Backs) \in Int
    BY <1>1, <1>3, <1>5, PartsFigured, TallyAdd
  <1>7. Due(r) /\ Covers(r)
    BY DEF Once
  <1>8. Tally(Firsts') >= Total /\ Tally(Firsts') >= Tally(Firsts)
    BY <1>1, <1>4, <1>5, <1>6, <1>7 DEF Due, Once, cents
  <1>9. Tally(Agains(r)') <= -Tally(Backs)
    BY <1>1, <1>4, <1>5, <1>6, <1>7 DEF Due, Covers, cents
  <1>10. req'[r].at = "read"
    BY BaseFacts, Goes DEF Append, Typed, At
  <1>11. ASSUME NEW p \in Requests, Is(p, {"card"}) PROVE Covers(p)' /\ Due(p)'
    <2>1. CASE p = r
      BY <1>5, <1>9, <1>10, <2>1 DEF Covers, Due
    <2>2. CASE p # r
      <3>1. req'[p] = req[p]
        BY <2>2, OthersWait DEF Actions
      <3>2. (\E y \in CardRows' : y.by = p) <=> \E y \in CardRows : y.by = p
        BY <1>3, <1>5, <2>2
      <3>3. Covers(p) /\ Due(p) /\ CardRows' # {} /\ Agains(p)' = Agains(p) /\ Backs' = Backs
        BY <1>5, <1>11, <2>2 DEF Once
      <3> QED BY <3>1, <3>2, <3>3 DEF Covers, Due
    <2> QED BY <2>1, <2>2
  <1>12. \A y \in CardRows' : y.cents > 0
    BY <1>1, <1>3, <1>5 DEF Once
  <1> QED BY <1>8, <1>11, <1>12 DEF Once

LEMMA OnceStep ==
  ASSUME Base, Once, Base', NEW q \in Requests, Actions(q)
  PROVE  Once'
  <1>1. CASE Append(q) /\ Is(q, {"card"})
    BY <1>1, CardAppends
  <1>2. CASE ~(Append(q) /\ Is(q, {"card"}))
    <2>1. /\ CardRows' = CardRows /\ \A r \in Requests : Is(r, {"card"}) => Agains(r)' = Agains(r)
          /\ Tally(Firsts') >= Tally(Firsts) /\ Tally(Backs') <= Tally(Backs)
      BY <1>2, MostGrow, GrowsSums
    <2>2. /\ rows \in SUBSET Row /\ IsFiniteSet(rows) /\ Total \in Nat /\ Net \in Int
          /\ rows' \in SUBSET Row /\ IsFiniteSet(rows') /\ Typed /\ Typed'
      BY BaseFacts DEF Base, TypeOK, Numbered, Typed, Standing
    <2>3. /\ Tally(Firsts) \in Int /\ Tally(Backs) \in Int /\ Tally(Repeats) \in Int
          /\ Tally(Backs) <= 0 /\ \A r : Tally(Agains(r)) \in Int
      BY <2>2, PartsFigured
    <2>4. Tally(Firsts') \in Int /\ Tally(Backs') \in Int
      <3>1. Firsts' \subseteq rows' /\ Backs' \subseteq rows'
        BY DEF Firsts, Backs, Billed
      <3>2. \A S \in SUBSET rows' : Figured(S)
        BY <2>2, FS_Subset DEF Figured, Row
      <3> QED BY <3>1, <3>2, TallyInt
    <2>5. ASSUME NEW r \in Requests, Is(r, {"card"}) PROVE Covers(r)' /\ Due(r)'
      <3>1. Covers(r)' /\ Covers(r) /\ Due(r) /\ Agains(r)' = Agains(r)
        BY <2>1, <2>3, <2>4, <2>5 DEF Once, Covers
      <3>2. CASE q # r
        <4>1. req'[r] = req[r] /\ req[r].cents \in Int
          BY <2>2, <3>2, OthersWait DEF Typed, Standing
        <4> QED BY <2>1, <2>2, <2>3, <2>4, <3>1, <4>1 DEF Due
      <3>3. CASE q = r /\ req'[r].at = "append"
        <4>1. rows' = rows /\ req'[r].cents = Total - Net /\ Net < Total
          BY <2>5, <3>3, AtAppend
        <4>2. /\ Net = Tally(Firsts) + Tally(Repeats) + Tally(Backs)
              /\ Tally(Agains(r)) <= Tally(Repeats)
              /\ CardRows = {} => Tally(Repeats) = 0
          BY <2>5, PartsSum
        <4>3. (\E x \in CardRows : x.by = r) => Tally(Firsts) >= Total
          BY DEF Once
        <4> QED BY <2>1, <2>2, <2>3, <2>4, <3>1, <4>1, <4>2, <4>3 DEF Due
      <3> QED BY <3>1, <3>2, <3>3 DEF Due
    <2>6. CardRows' # {} => Tally(Firsts') >= Total
      BY <2>1, <2>2, <2>3, <2>4 DEF Once
    <2> QED BY <2>1, <2>5, <2>6 DEF Once
  <1> QED BY <1>1, <1>2

LEMMA OnceNext == IInv /\ Once /\ [Next]_vars => Once'
  <1> SUFFICES ASSUME IInv, Once, [Next]_vars PROVE Once'
    OBVIOUS
  <1>1. Base /\ Base'
    BY NextInv DEF IInv
  <1>2. CASE Next
    <2>1. PICK q \in Requests : Actions(q)
      BY <1>2 DEF Next, Actions
    <2> QED BY <1>1, <2>1, OnceStep
  <1>3. CASE UNCHANGED vars
    <2>1. Billed' = Billed /\ req' = req
      BY <1>3 DEF vars, Billed
    <2>2. /\ CardRows' = CardRows /\ Firsts' = Firsts /\ Backs' = Backs
          /\ \A r : Agains(r)' = Agains(r)
      BY <2>1 DEF CardRows, Firsts, Repeats, Backs, Agains
    <2> QED BY <2>1, <2>2 DEF Once, Covers, Due
  <1> QED BY <1>2, <1>3

LEMMA OnceInit == Init => Once
  <1> SUFFICES ASSUME Init PROVE Once
    OBVIOUS
  <1>1. CardRows = {} /\ Backs = {} /\ \A r : Agains(r) = {}
    BY DEF Init, CardRows, Backs, Agains, Billed
  <1>2. \A r \in Requests : req[r].at # "append"
    BY DEF Init, Fresh
  <1> QED BY <1>1, <1>2, TallyEmpty DEF Once, Covers, Due

\* Every figure, row and statement has its type.
THEOREM TypeCorrect == Spec => []TypeOK
  <1>1. IInv => TypeOK
    BY DEF IInv, Base
  <1> QED BY InitInv, NextInv, <1>1, PTL DEF Spec

\* However often, how late and how simultaneously Stripe reports a deposit, the
\* ledger holds it once.
THEOREM OneRowPerDeposit == Spec => []DepositOnce
  <1>1. IInv => DepositOnce
    BY DEF IInv
  <1> QED BY InitInv, NextInv, <1>1, PTL DEF Spec

\* A card settlement delivered again enters no more than was taken back; and as
\* long as no request writes on a reading that is no longer true, no more is
\* received than was billed or paid in advance, and no more given back than was
\* received.
THEOREM NeverOutOfBounds == Spec => []LedgerInBounds
  <1>1. IInv /\ Once => LedgerInBounds
    BY OnceCovers DEF IInv, LedgerInBounds
  <1>2. Init => IInv /\ Once
    BY InitInv, OnceInit
  <1>3. (IInv /\ Once) /\ [Next]_vars => (IInv /\ Once)'
    BY NextInv, OnceNext
  <1> QED BY <1>1, <1>2, <1>3, PTL DEF Spec

\* Nor does the invoice then come to rest with other figures than the ledger's.
THEOREM InvoiceAgrees == Spec => []InvoiceShowsLedger
  <1>1. IInv => InvoiceShowsLedger
    <2> SUFFICES ASSUME IInv, ~blind, AtRest PROVE invoice.cached = Net /\ invoice.paid = (Net >= Total)
      BY DEF InvoiceShowsLedger
    <2>1. \A r \in Requests : ~Recomputes(r) /\ ~Settles(r)
      BY DEF AtRest, Over, Recomputes, Settles
    <2>2. Shown
      BY <2>1 DEF IInv, Seen, Caught
    <2>3. invoice.paid \in BOOLEAN /\ (Net >= Total) \in BOOLEAN
      BY BaseFacts DEF IInv, Typed
    <2> QED BY <2>2, <2>3 DEF Shown
  <1> QED BY InitInv, NextInv, <1>1, PTL DEF Spec

\* Nor does the report stay open without a paid invoice, or closed with one.
THEOREM ReportFollowsInvoice == Spec => []ReportOpenWhilePaid
  <1>1. IInv => ReportOpenWhilePaid
    <2> SUFFICES ASSUME IInv, ~blind, AtRest, NoSync, Advance < Total PROVE gate <=> Backed
      BY DEF ReportOpenWhilePaid, NoSync
    <2>1. \A r \in Requests : ~Closes(r) /\ ~Opens(r)
      BY DEF AtRest, Over, Closes, Opens, Settles
    <2> QED BY <2>1 DEF IInv, Seen, Closing, Opening
  <1> QED BY InitInv, NextInv, <1>1, PTL DEF Spec
=============================================================================
