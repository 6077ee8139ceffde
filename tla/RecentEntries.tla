---------------------------- MODULE RecentEntries ----------------------------
(***************************************************************************)
(* What the ring buffers of the reporter promise: each one holds the last  *)
(* Size entries that were added to it, oldest first.                       *)
(***************************************************************************)
EXTENDS Naturals, Sequences

CONSTANTS
  Namespaces,  \* one buffer for each
  Size,        \* number of entries a buffer holds
  Entries      \* what can be added

VARIABLE recent

Trimmed(s) == IF Len(s) > Size THEN Tail(s) ELSE s

Init == recent = [ns \in Namespaces |-> << >>]

Add(ns, e) == recent' = [recent EXCEPT ![ns] = Trimmed(Append(recent[ns], e))]

Next == \E ns \in Namespaces, e \in Entries : Add(ns, e)

Spec == Init /\ [][Next]_recent
=============================================================================
