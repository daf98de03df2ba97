----------------------------- MODULE HashChain -----------------------------
(***************************************************************************)
(* What the audit log promises: one chain.  Every new entry carries the    *)
(* hash of the entry that was added last, nothing is ever removed or       *)
(* changed, and no entry is added twice.                                   *)
(***************************************************************************)
CONSTANTS Entry, Genesis

VARIABLES
  links,      \* the entries, each with its predecessor
  last        \* the entry added last

Init == links = {} /\ last = Genesis

Extend(e) ==
  /\ \A link \in links : link.id # e
  /\ links' = links \cup {[id |-> e, prev |-> last]}
  /\ last' = e

Next == \E e \in Entry : Extend(e)

Spec == Init /\ [][Next]_<<links, last>>

=============================================================================
