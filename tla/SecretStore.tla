---------------------------- MODULE SecretStore ----------------------------
(***************************************************************************)
(* What a file keystore promises: secrets in memory, a stored copy that    *)
(* changes in one step, and a crash that leaves the stored copy of some    *)
(* save that was not yet superseded by a completed one.                    *)
(***************************************************************************)
CONSTANTS
  Maps,        \* the possible contents of a keystore
  NoSecrets,   \* the empty keystore
  BestEffort   \* TRUE: a save may report success before it is durable

VARIABLES
  up,      \* a process has the keystore loaded
  mem,     \* the secrets in its memory
  dirty,   \* they changed since they were loaded or saved
  stored,  \* the contents of the keystore file
  may      \* the contents a power loss may bring back

vars == <<up, mem, dirty, stored, may>>

Init ==
  /\ up = FALSE
  /\ mem = NoSecrets
  /\ dirty = FALSE
  /\ stored = NoSecrets
  /\ may = {NoSecrets}

\* Store, Delete and the first half of Create.
Change ==
  /\ up
  /\ mem' \in Maps
  /\ dirty' = TRUE
  /\ UNCHANGED <<up, stored, may>>

\* The instant at which a save takes effect.
Commit ==
  /\ up
  /\ dirty
  /\ stored' = mem
  /\ may' = may \cup {mem}
  /\ UNCHANGED <<up, mem, dirty>>

\* A save that took effect reports success; a durable one leaves a power loss
\* nothing else to bring back.
Finish ==
  /\ up
  /\ dirty
  /\ stored = mem
  /\ dirty' = FALSE
  /\ may' = {mem} \/ (BestEffort /\ may' = may)
  /\ UNCHANGED <<up, mem, stored>>

\* The process ends and its memory is lost; when the machine goes down with it
\* the file is one of those that may come back.
Crash ==
  /\ up' = FALSE
  /\ mem' = NoSecrets
  /\ dirty' = FALSE
  /\ \/ UNCHANGED <<stored, may>>
     \/ stored' \in may /\ may' = {stored'}

Load ==
  /\ ~up
  /\ up' = TRUE
  /\ mem' = stored
  /\ dirty' = FALSE
  /\ UNCHANGED <<stored, may>>

Next == Change \/ Commit \/ Finish \/ Crash \/ Load

Spec == Init /\ [][Next]_vars
=============================================================================
