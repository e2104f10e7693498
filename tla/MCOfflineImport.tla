-------------------------- MODULE MCOfflineImport --------------------------
(* Small instances of OfflineImport: a package that creates an inspection,    *)
(* updates and completes it, and a package of another inspection whose        *)
(* update happens to have a key of the first one.                             *)
EXTENDS OfflineImport, TLC

CONSTANTS mk, up, fin, other, k1, k2, k3, i1, i2, r1, r2, r3, d1

Kinds(e)  == CASE e = mk -> "create" [] e = fin -> "complete" [] OTHER -> "update"
Ops       == [e \in Entries |-> Kinds(e)]
MintedBy  == [e \in Entries |-> CASE e = mk -> k1 [] e = fin -> k3 [] OTHER -> k2]
About     == [e \in Entries |-> IF e = other THEN i2 ELSE i1]
Order     == [e \in Entries |-> CASE e = mk -> 1 [] e = fin -> 3 [] OTHER -> 2]
Parcels   == [r \in Imports |-> IF r = r3 THEN Entries \cap {other} ELSE Entries \ {other}]
Dates     == [r \in Imports |-> IF r = r3 THEN 5 ELSE 2]
\* The two imports of the first package are interchangeable.
Twins     == Permutations({r1, r2})
Choice    == [d \in Directs |-> Entries \cap {mk, up}]
=============================================================================
