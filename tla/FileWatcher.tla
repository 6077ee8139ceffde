---------------------------- MODULE FileWatcher -----------------------------
(***************************************************************************)
(* The file watcher (src/filewatcher): Scan looks at every watched file    *)
(* and tells whether one was written, came or went since the scan before.  *)
(* Files change while a scan runs.  Times are in ticks, Second ticks to a  *)
(* second; the clock of the file system keeps only multiples of Grain.     *)
(***************************************************************************)
EXTENDS Integers, Sequences

CONSTANTS
  Files,     \* the watched paths, in order
  Second,    \* ticks in a second
  Grains,    \* the resolutions a file system may have
  MaxTime,   \* bound on the clock
  MaxWrites  \* bound on the changes

VARIABLES
  now,       \* the clock
  grain,     \* the resolution of modification times
  disk,      \* path -> [there, mtime, version]
  writes,    \* the number of changes made
  lastScan,  \* start of the scan before; 0 is the zero time
  lastList,  \* the files of the scan before: what lastHash stands for
  at,        \* the index of the next file, 0 when no scan runs
  start,     \* start of the scan that runs
  list,      \* files found by the scan that runs
  updated,   \* updatedFiles
  seen,      \* the versions the scan that runs has met
  noted,     \* the versions the last complete scan met
  changed    \* what Scan returned last, or "none"

vars == <<now, grain, disk, writes, lastScan, lastList, at, start, list, updated,
          seen, noted, changed>>
scanVars == <<lastScan, lastList, at, start, list, updated, seen, noted, changed>>

Paths == {Files[k] : k \in DOMAIN Files}
Truncate(t, unit) == t - (t % unit)

Init ==
  /\ now = 2 * Second
  /\ grain \in Grains
  /\ disk \in [Paths -> {[there |-> FALSE, mtime |-> 0, version |-> 0],
                         [there |-> TRUE, mtime |-> 2, version |-> 1]}]
  /\ writes = 0
  /\ lastScan = 0 /\ lastList = <<>>
  /\ at = 0 /\ start = 0 /\ list = <<>> /\ updated = FALSE
  /\ seen = [f \in Paths |-> 0]
  /\ noted = [f \in Paths |-> 0]
  /\ changed = "none"

Tick ==
  /\ now < MaxTime
  /\ now' = now + 1
  /\ UNCHANGED <<grain, disk, writes, scanVars>>

(* The world: a file is written (or created), or removed.                  *)
Write(f) ==
  /\ writes < MaxWrites
  /\ writes' = writes + 1
  /\ disk' = [disk EXCEPT ![f] =
                [there |-> TRUE, mtime |-> Truncate(now, grain), version |-> writes + 2]]
  /\ UNCHANGED <<now, grain, scanVars>>

Delete(f) ==
  /\ writes < MaxWrites /\ disk[f].there
  /\ writes' = writes + 1
  /\ disk' = [disk EXCEPT ![f] = [there |-> FALSE, mtime |-> 0, version |-> 0]]
  /\ UNCHANGED <<now, grain, scanVars>>

(* Scan: the time is taken before the first file is looked at.             *)
ScanBegins ==
  /\ at = 0
  /\ at' = 1
  /\ start' = now
  /\ UNCHANGED <<now, grain, disk, writes, lastScan, lastList, list, updated, seen, noted,
                 changed>>

(* A second before the last scan, cut to the second.                       *)
Since == IF lastScan = 0 THEN -1 ELSE Truncate(lastScan - Second, Second)

Stat ==
  /\ at \in DOMAIN Files
  /\ LET f == Files[at] IN
       /\ seen' = [seen EXCEPT ![f] = disk[f].version]
       /\ IF disk[f].there
          THEN /\ updated' = (updated \/ disk[f].mtime > Since)
               /\ list' = Append(list, f)
          ELSE UNCHANGED <<updated, list>>
  /\ at' = at + 1
  /\ UNCHANGED <<now, grain, disk, writes, lastScan, lastList, start, noted, changed>>

\* Mutation: the time is taken when the scan ends.
StampAtEnd == now
\* lastScan, the time taken by ScanBegins.
Stamp == start

(* The hash of the list tells lists apart; the deferred functions store    *)
(* the time and the hash.                                                  *)
ScanEnds ==
  /\ at = Len(Files) + 1
  /\ changed' = IF updated \/ list # lastList THEN "yes" ELSE "no"
  /\ lastScan' = Stamp
  /\ lastList' = list
  /\ noted' = seen
  /\ at' = 0 /\ start' = 0 /\ list' = <<>> /\ updated' = FALSE
  /\ UNCHANGED <<now, grain, disk, writes, seen>>

Next ==
  \/ Tick
  \/ \E f \in Paths : Write(f) \/ Delete(f)
  \/ ScanBegins
  \/ Stat
  \/ ScanEnds

Spec == Init /\ [][Next]_vars

(* A scan that reports no change has found every file as the scan before   *)
(* found it (Scan, filewatcher.go:50), whatever was written while either   *)
(* of them ran and as coarse as modification times may be, up to a second. *)
ChangeSeen == [][ScanEnds /\ changed' = "no" => noted' = noted]_vars
=============================================================================
