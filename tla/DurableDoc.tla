----------------------------- MODULE DurableDoc -----------------------------
(***************************************************************************)
(* What the results document of one report promises to the people editing  *)
(* it, with no mention of timers, alarms, databases or sockets.            *)
(*                                                                         *)
(* Content is merged into a working copy, the working copy is saved as a   *)
(* whole, and what has been saved may be acknowledged.  A crash takes the  *)
(* working copy back to what was saved, never to less.  Only a person who  *)
(* replaces the document (a version restore, a template restructure) or    *)
(* destroys it makes saved content go away.                                *)
(***************************************************************************)
EXTENDS FiniteSets

CONSTANT Fact            \* the pieces of content a document can hold

VARIABLES merged,        \* what the working copy holds
          saved,         \* what survives a crash
          acked          \* what editors were told survives a crash

vars == <<merged, saved, acked>>

TypeOK == /\ merged \in SUBSET Fact
          /\ saved  \in SUBSET Fact
          /\ acked  \in SUBSET Fact

Init == merged = {} /\ saved = {} /\ acked = {}

\* Content arrives and is merged; nothing that was there goes away.
Merge(new) == /\ merged' = merged \cup new
              /\ UNCHANGED <<saved, acked>>

\* Content arrives and the whole working copy is saved with it; editors may
\* be told about any part of what was saved.
Save(new) == /\ merged' = merged \cup new
             /\ saved'  = merged'
             /\ acked \subseteq acked'
             /\ acked' \subseteq acked \cup saved'

\* Somebody replaced the document: working copy, saved copy and what editors
\* believe move together.
Replace(new) == /\ merged' = new
                /\ saved'  = new
                /\ acked' \subseteq new

\* The process is gone and was rebuilt from what was saved.
Crash == /\ merged' = saved
         /\ UNCHANGED <<saved, acked>>

\* The report was deleted, and its content with it.
Destroy == /\ saved' = {}
           /\ acked' = {}
           /\ merged' = merged

Next == \/ \E new \in SUBSET Fact : Merge(new) \/ Save(new) \/ Replace(new)
        \/ Crash
        \/ Destroy

Spec == Init /\ [][Next]_vars

\* What an editor was told is stored really is stored.
AckedIsSaved == acked \subseteq saved
=============================================================================
