------------------------------ MODULE Rotator ------------------------------
(***************************************************************************)
(* The log file rotator (src/file/rotator.go and src/file/trigger.go): a   *)
(* mutex-protected io.WriteCloser that writes to one active file, rotates  *)
(* it when a trigger fires and purges the oldest rotated files.            *)
(*                                                                         *)
(* A file name {prefix}-{date}[-{index}].{ext} is the pair of its day and  *)
(* its index (0 when the name has none), which is all OrderLog parses out  *)
(* of it.  The contents of a file is the set of the numbers of the writes  *)
(* it holds.  Every exported method runs under r.mutex from its first to   *)
(* its last line, so each is one action; its failures are outcomes of the  *)
(* action.  A process that dies inside a method leaves on disk what the    *)
(* method leaves when the next system call fails, so Restart after a       *)
(* failed method is a crash inside it.                                     *)
(***************************************************************************)
EXTENDS Integers, FiniteSets

CONSTANTS
  MaxSizeBytes,     \* r.maxSizeBytes
  MaxBackups,       \* r.maxBackups
  HasInterval,      \* r.interval > 0
  Times,            \* the instants the clock may show
  DayOf,            \* the calendar day of an instant
  IntervalOf,       \* the rotation interval an instant lies in
  MonotoneClock,    \* TRUE when the wall clock is never set back
  RotateOnStartup,  \* r.rotateOnStartup
  Lengths,          \* len(data) of the writes
  MaxWrites,        \* bound on the writes that reach a file
  InitialFiles,     \* names that may exist before the first rotator starts
  InitialKinds      \* what these names may be

ASSUME ConstantsAssumption ==
  /\ MaxSizeBytes \in Nat \ {0}
  /\ MaxBackups \in Nat
  /\ HasInterval \in BOOLEAN
  /\ Times \subseteq Nat
  /\ DayOf \in [Times -> Nat]
  /\ IntervalOf \in [Times -> Nat]
  /\ \A s, t \in Times : s <= t => /\ DayOf[s] <= DayOf[t]
                                  /\ IntervalOf[s] <= IntervalOf[t]
  /\ MonotoneClock \in BOOLEAN
  /\ RotateOnStartup \in BOOLEAN
  /\ Lengths \subseteq Nat
  /\ MaxWrites \in Nat
  /\ InitialFiles \subseteq [day : Nat, index : Nat]
  /\ IsFiniteSet(InitialFiles)
  /\ InitialKinds \subseteq {"regular", "link", "dangling"}

VARIABLES
  now,         \* the wall clock
  disk,        \* the files of the directory: their kind and the writes in them
  active,      \* d.currentFilename
  open,        \* r.file # nil; an open r.file is always the active file
  initPending, \* there is an initTrigger and it has not triggered yet
  lastRotate,  \* intervalTrigger.lastRotate
  size,        \* sizeTrigger.size
  writes,      \* number of writes that reached a file so far
  acked,       \* the writes reported as successful
  session,     \* bytes, first and last instant written since r.file was opened
  created,     \* files created since the last purge that reported success
  res          \* what the last method returned

vars == <<now, disk, active, open, initPending, lastRotate, size, writes,
          acked, session, created, res>>

trigs == <<initPending, lastRotate, size>>

Names == [day : Nat, index : Nat]
Results == {"ok", "toolarge", "exist", "io"}
Kinds == {"regular", "link", "dangling"}
Files == DOMAIN disk

TypeOK ==
  /\ now \in Times
  /\ Files \subseteq Names
  /\ IsFiniteSet(Files)
  /\ disk \in [Files -> [kind : Kinds, ids : SUBSET Nat]]
  /\ active \in Names
  /\ open \in BOOLEAN
  /\ initPending \in BOOLEAN
  /\ lastRotate \in Times
  /\ size \in Nat
  /\ writes \in Nat
  /\ acked \subseteq Nat
  /\ session \in [bytes : Nat, first : Times, last : Times]
  /\ created \in Nat
  /\ res \in Results

-----------------------------------------------------------------------------
(* Names, the clock and the triggers.                                      *)

\* Mutation: the index is compared before the date.
BeforeByIndex(f, g) == \/ f.index < g.index
                       \/ f.index = g.index /\ f.day < g.day

\* logOrder.After: f is sorted before g.
Before(f, g) == \/ f.day < g.day
                \/ f.day = g.day /\ f.index < g.index

\* clock.Now() read once more, at or after now unless the clock is set back.
Later == {t \in Times : MonotoneClock => t >= now}

\* newSecond ... newYear and the default newInterval: the two instants lie in
\* different intervals.
newInterval(last, current) == IntervalOf[last] # IntervalOf[current]

\* Mutation: newTriggers leaves the interval trigger out.
TriggeredNoInterval(dataLen) ==
  LET full == size + dataLen > MaxSizeBytes
  IN  [reason |-> IF initPending THEN "initializing"
                  ELSE IF full THEN "filesize" ELSE "none",
       init |-> FALSE, last |-> lastRotate,
       size |-> IF initPending THEN size ELSE IF full THEN 0 ELSE size + dataLen]

\* isRotationTriggered: the triggers in the order of newTriggers; the first one
\* that fires wins and the ones after it are not consulted.
isRotationTriggered(dataLen) ==
  CASE initPending ->
         [reason |-> "initializing", init |-> FALSE, last |-> lastRotate,
          size |-> size]
    [] ~initPending /\ HasInterval /\ newInterval(lastRotate, now) ->
         [reason |-> "interval", init |-> FALSE, last |-> now, size |-> size]
    [] OTHER ->
         IF size + dataLen > MaxSizeBytes
           THEN [reason |-> "filesize", init |-> initPending,
                 last |-> lastRotate, size |-> 0]
           ELSE [reason |-> "none", init |-> initPending,
                 last |-> lastRotate, size |-> size + dataLen]

SetTriggers(tr) ==
  /\ initPending' = tr.init
  /\ lastRotate' = tr.last
  /\ size' = tr.size

\* dateRotator.Rotate: the next index of the day, or the bare name when the day
\* has no file yet.
NewNames(t) ==
  LET sameDay == {f \in Files : f.day = DayOf[t]}
      newest == {f \in sameDay : \A g \in sameDay : g.index <= f.index}
  IN  IF sameDay = {}
        THEN {[day |-> DayOf[t], index |-> 0]}
        ELSE {[day |-> DayOf[t], index |-> f.index + 1] : f \in newest}

\* newDateRotater: continue with the newest file, or start today's.
StartNames(t) ==
  IF Files = {}
    THEN {[day |-> DayOf[t], index |-> 0]}
    ELSE {f \in Files : \A g \in Files \ {f} : Before(g, f)}

-----------------------------------------------------------------------------
(* Purging and opening files.                                              *)

\* Mutation: the active file counts as a backup to keep.
ExcessLess(backups) ==
  IF Cardinality(backups) <= MaxBackups + 1
    THEN 0 ELSE Cardinality(backups) - MaxBackups - 1

\* The number of files purge has to remove.
Excess(backups) ==
  IF Cardinality(backups) <= MaxBackups
    THEN 0 ELSE Cardinality(backups) - MaxBackups

\* Mutation: the files are sorted newest first.
PurgeableNewest(name) ==
  LET backups == Files \ {name}
  IN  {gone \in SUBSET backups :
         /\ \A f \in gone, g \in backups \ gone : Before(g, f)
         /\ Cardinality(gone) <= Excess(backups)
         /\ \A f \in gone : disk[f].kind # "dangling"}

\* The sets of files purge may have removed when it returns: the oldest ones, at
\* most Excess of them, and none that os.Stat, which follows links, reports as
\* missing.
Purgeable(name) ==
  LET backups == Files \ {name}
  IN  {gone \in SUBSET backups :
         /\ \A f \in gone, g \in backups \ gone : Before(f, g)
         /\ Cardinality(gone) <= Excess(backups)
         /\ \A f \in gone : disk[f].kind # "dangling"}

\* purge returns nil when all is removed, or early when os.Stat finds the next
\* file missing.
PurgeReturnsNil(name, gone) ==
  LET backups == Files \ {name}
      rest == backups \ gone
  IN  \/ Cardinality(gone) = Excess(backups)
      \/ \E f \in rest : /\ disk[f].kind = "dangling"
                         /\ \A g \in rest \ {f} : Before(f, g)

Without(gone) == [f \in Files \ gone |-> disk[f]]

Plus(d, name) ==
  [f \in DOMAIN d \cup {name} |->
     IF f = name THEN [kind |-> "regular", ids |-> {}] ELSE d[f]]

\* A method gives up with r.file = nil and the active name set to name.
GiveUp(d, name, made, err) ==
  /\ disk' = d
  /\ active' = name
  /\ open' = FALSE
  /\ created' = made
  /\ res' = err
  /\ UNCHANGED <<writes, acked, session>>

NewSession(t) == [bytes |-> 0, first |-> t, last |-> t]

Wrote(s, n, t) == [bytes |-> s.bytes + n, first |-> s.first, last |-> t]

\* r.file.Write(data) on the file name, which is open; it may fail after
\* writing a part of the data.
WriteData(d, name, made, s, dataLen, t) ==
  /\ active' = name
  /\ open' = TRUE
  /\ created' = made
  /\ writes' = writes + 1
  /\ \/ /\ disk' = [d EXCEPT ![name].ids = @ \cup {writes + 1}]
        /\ acked' = acked \cup {writes + 1}
        /\ session' = Wrote(s, dataLen, t)
        /\ res' = "ok"
     \/ \E n \in 0 .. dataLen :
        /\ disk' = d
        /\ session' = Wrote(s, n, t)
        /\ res' = "io"
        /\ UNCHANGED acked

\* openFile (O_CREATE|O_EXCL) followed by the write.
OpenAndWrite(d, name, made, dataLen, t) ==
  \/ /\ name \notin DOMAIN d
     /\ WriteData(Plus(d, name), name, made + 1, NewSession(t), dataLen, t)
  \/ GiveUp(d, name, made, IF name \in DOMAIN d THEN "exist" ELSE "io")

\* rot.Rotate and purge, then openFile and the write: the common end of a Write
\* that rotates.
RotateAndWrite(dataLen) ==
  \E t \in Later : \E name \in NewNames(t) : \E gone \in Purgeable(name) :
    /\ now' = t
    /\ IF PurgeReturnsNil(name, gone)
         THEN OpenAndWrite(Without(gone), name, 0, dataLen, t)
         ELSE GiveUp(Without(gone), name, created, "io")

-----------------------------------------------------------------------------
(* The exported methods.                                                   *)

\* Write rejects data that can never fit.
WriteTooLarge(dataLen) ==
  /\ dataLen > MaxSizeBytes
  /\ res' = "toolarge"
  /\ UNCHANGED <<now, disk, active, open, initPending, lastRotate, size,
                 writes, acked, session, created>>

\* Write with a file open.
WriteOpen(dataLen) ==
  /\ open
  /\ writes < MaxWrites
  /\ dataLen <= MaxSizeBytes
  /\ LET tr == isRotationTriggered(dataLen)
     IN  /\ SetTriggers(tr)
         /\ \/ /\ tr.reason = "none"
               /\ WriteData(disk, active, created, session, dataLen, now)
               /\ UNCHANGED now
            \/ /\ tr.reason # "none"
               /\ RotateAndWrite(dataLen)
            \/ /\ tr.reason # "none"     \* closeFile fails
               /\ GiveUp(disk, active, created, "io")
               /\ UNCHANGED now

\* openNew gives up before it asks the triggers: MkdirAll fails, or Lstat fails
\* and then so does opening the file.
WriteFails(dataLen) ==
  /\ ~open
  /\ dataLen <= MaxSizeBytes
  /\ GiveUp(disk, active, created, "io")
  /\ UNCHANGED <<now, trigs>>

\* Write through openNew when the active file does not exist: the triggers are
\* not consulted.
WriteFirst(dataLen) ==
  /\ ~open
  /\ writes < MaxWrites
  /\ dataLen <= MaxSizeBytes
  /\ active \notin Files
  /\ OpenAndWrite(disk, active, created, dataLen, now)
  /\ UNCHANGED <<now, trigs>>

\* Write through openNew when the active file exists: the triggers are asked
\* about 0 bytes; without a reason to rotate the file is appended to, unless it
\* is a symbolic link.
WriteExisting(dataLen) ==
  /\ ~open
  /\ writes < MaxWrites
  /\ dataLen <= MaxSizeBytes
  /\ active \in Files
  /\ LET tr == isRotationTriggered(0)
         append == tr.reason = "none" /\ disk[active].kind = "regular"
     IN  /\ SetTriggers(tr)
         /\ \/ /\ append
               /\ \/ WriteData(disk, active, created, NewSession(now), dataLen,
                               now)
                  \/ GiveUp(disk, active, created, "io")
               /\ UNCHANGED now
            \/ /\ ~append
               /\ RotateAndWrite(dataLen)

\* Rotate: close the file, pick the next name and purge.  The file itself is
\* created by the next Write.
Rotate ==
  /\ UNCHANGED trigs
  /\ \/ /\ open                          \* closeFile fails
        /\ GiveUp(disk, active, created, "io")
        /\ UNCHANGED now
     \/ \E t \in Later : \E name \in NewNames(t) :
          \E gone \in Purgeable(name) :
            /\ now' = t
            /\ IF PurgeReturnsNil(name, gone)
                 THEN GiveUp(Without(gone), name, 0, "ok")
                 ELSE GiveUp(Without(gone), name, created, "io")

\* Close: r.file is nil afterwards whether or not closing it failed.
Close ==
  /\ \E err \in {"ok", "io"} :
       /\ err = "io" => open
       /\ GiveUp(disk, active, created, err)
  /\ UNCHANGED <<now, trigs>>

\* NewFileRotator in a new process, after the old one ended in any state.
\* os.Stat of the active file follows links.
Restart ==
  /\ \E name \in StartNames(now) :
       /\ GiveUp(disk, name, created, "ok")
       /\ initPending' = /\ RotateOnStartup
                         /\ name \in Files
                         /\ disk[name].kind # "dangling"
  /\ lastRotate' = now
  /\ size' = 0
  /\ UNCHANGED now

\* The wall clock moves, or is set back when that is allowed.
Tick ==
  /\ now' \in Later
  /\ now' # now
  /\ UNCHANGED <<disk, active, open, initPending, lastRotate, size, writes,
                 acked, session, created, res>>

-----------------------------------------------------------------------------

\* A directory left by earlier runs of the program, and NewFileRotator on it.
Init ==
  /\ now \in Times
  /\ \E names \in SUBSET {f \in InitialFiles : f.day <= DayOf[now]} :
       disk \in [names -> [kind : InitialKinds, ids : {{}}]]
  /\ active \in StartNames(now)
  /\ open = FALSE
  /\ initPending = /\ RotateOnStartup
                   /\ active \in Files
                   /\ disk[active].kind # "dangling"
  /\ lastRotate = now
  /\ size = 0
  /\ writes = 0
  /\ acked = {}
  /\ session = NewSession(now)
  /\ created = Cardinality(Files)
  /\ res = "ok"

Next ==
  \/ \E dataLen \in Lengths :
       \/ WriteTooLarge(dataLen)
       \/ WriteOpen(dataLen)
       \/ WriteFails(dataLen)
       \/ WriteFirst(dataLen)
       \/ WriteExisting(dataLen)
  \/ Rotate
  \/ Close
  \/ Restart
  \/ Tick

Spec == Init /\ [][Next]_vars

-----------------------------------------------------------------------------
(* Properties.                                                             *)

\* The name rot.Rotate picks is never the name of an existing file, so the
\* O_EXCL of openFile never makes a Write fail: not after failed purges, after
\* restarts, or when the wall clock was set back to a day that has files.
NeverCollides == res # "exist"

\* Between two openings of a file no more than twice MaxSizeBytes go into it:
\* the first write after the opening is not counted by the size trigger, and
\* every other one is.
SessionBounded == session.bytes <= 2 * MaxSizeBytes

\* r.file is never a symbolic link that was found in the directory: openNew
\* rotates instead of appending to it (the comment in openNew).
WritesToRegularFile == open => active \in Files /\ disk[active].kind = "regular"

\* The directory never holds more files than MaxBackups and the ones created
\* since purge last reported success: every purge that reports success has
\* brought the rotated files down to MaxBackups.  A dangling link in the directory
\* is left out: purge returns nil when it meets one, without going on.
DirectoryBounded ==
  (\A f \in Files : disk[f].kind # "dangling") => Cardinality(Files) <= MaxBackups + created

Retained == UNION {disk[f].ids : f \in Files}

\* Of the successful writes the directory keeps the latest ones without a gap:
\* purging drops older writes before newer ones, across rotations, restarts and
\* failures, as long as the clock is not set back.
RetainedIsSuffix ==
  MonotoneClock =>
    \A i \in Retained, j \in acked : j > i => j \in Retained

\* The files sorted by name are sorted by age: a write in an earlier file is
\* older than a write in a later one (clock never set back).
NamesFollowTime ==
  MonotoneClock =>
    \A f, g \in Files : Before(f, g) =>
      \A i \in disk[f].ids, j \in disk[g].ids : i < j

\* With an interval configured, the writes between two openings of the file all
\* fall into one interval (clock never set back).
SessionInOneInterval ==
  MonotoneClock /\ HasInterval =>
    ~newInterval(session.first, session.last)
=============================================================================
