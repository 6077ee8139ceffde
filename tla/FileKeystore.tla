---------------------------- MODULE FileKeystore ----------------------------
(***************************************************************************)
(* The file keystore (src/keystore/file_keystore.go): secrets in memory    *)
(* and their encrypted copy in a file, which a save replaces by writing    *)
(* Path.tmp, syncing it, renaming it over Path and syncing the directory   *)
(* (src/file/helper_other.go).                                             *)
(*                                                                         *)
(* The methods hold k.Lock throughout, so one process has at most one of   *)
(* them in progress; the steps of doSave are separate actions because the  *)
(* process or the machine may go down between any two of them.  A file is  *)
(* an inode with its contents, which is whole (a complete encrypted copy   *)
(* of some secrets) or damaged (empty, truncated).  A power loss takes the *)
(* directory back to any of its states since it was last synced, and may   *)
(* damage every file that was not synced.                                  *)
(***************************************************************************)
EXTENDS Integers

CONSTANTS
  Keys,
  Values,
  MaxSaves,          \* bound on the temporary files that are opened
  PowerLosses,       \* TRUE: the machine may go down
  FaultyWrites,      \* TRUE: writing or syncing the temporary file may fail
  ParentUnreadable   \* TRUE: SyncParent may be unable to open the directory

ASSUME ConstantsAssumption ==
  /\ MaxSaves \in Nat
  /\ PowerLosses \in BOOLEAN
  /\ FaultyWrites \in BOOLEAN
  /\ ParentUnreadable \in BOOLEAN

None == 0                                    \* no such directory entry
Inodes == 1 .. MaxSaves
Maps == UNION {[ks -> Values] : ks \in SUBSET Keys}
NoSecrets == [k \in {} |-> k]
Contents == [whole : BOOLEAN, secrets : Maps]
Damaged == [whole |-> FALSE, secrets |-> NoSecrets]
Dirs == [path : Inodes \cup {None}, tmp : Inodes \cup {None}]

VARIABLES
  up,       \* the process runs and NewFileKeystore succeeded
  mem,      \* k.secrets
  dirty,    \* k.dirty
  pc,       \* the next step of doSave, "idle" outside of it
  created,  \* the save in progress is Create(false) on an existing keystore
  res,      \* what the last method returned
  data,     \* contents of the inodes
  synced,   \* the inodes whose contents would survive a power loss
  dir,      \* the directory entries Path and Path.tmp
  lost,     \* the directories a power loss may bring back
  opened    \* number of temporary files opened so far

memVars == <<up, mem, dirty>>
diskVars == <<data, synced, dir, lost, opened>>
vars == <<memVars, pc, created, res, diskVars>>

TypeOK ==
  /\ up \in BOOLEAN
  /\ mem \in Maps
  /\ dirty \in BOOLEAN
  /\ pc \in {"idle", "write", "sync", "rename", "syncdir"}
  /\ created \in BOOLEAN
  /\ res \in {"ok", "io", "exist", "loaded", "corrupt", "down"}
  /\ data \in [Inodes -> Contents]
  /\ synced \in SUBSET Inodes
  /\ dir \in Dirs
  /\ lost \in SUBSET Dirs
  /\ opened \in 0 .. MaxSaves

Init ==
  /\ up = FALSE
  /\ mem = NoSecrets
  /\ dirty = FALSE
  /\ pc = "idle"
  /\ created = FALSE
  /\ res = "down"
  /\ data = [i \in Inodes |-> Damaged]
  /\ synced = {}
  /\ dir = [path |-> None, tmp |-> None]
  /\ lost = {dir}
  /\ opened = 0

-----------------------------------------------------------------------------
(* The methods.                                                            *)

\* load: a missing file is an empty keystore; any other failure makes
\* NewFileKeystore fail.
Load ==
  /\ ~up
  /\ \/ /\ dir.path # None => data[dir.path].whole
        /\ up' = TRUE
        /\ mem' = IF dir.path = None THEN NoSecrets ELSE data[dir.path].secrets
        /\ res' = "loaded"
     \/ /\ dir.path # None
        /\ ~data[dir.path].whole
        /\ res' = "corrupt"
        /\ UNCHANGED <<up, mem>>
     \/ /\ res' = "io"
        /\ UNCHANGED <<up, mem>>
  /\ UNCHANGED <<dirty, pc, created, diskVars>>

Store(key, value) ==
  /\ up
  /\ pc = "idle"
  /\ mem' = [k \in DOMAIN mem \cup {key} |-> IF k = key THEN value ELSE mem[k]]
  /\ dirty' = TRUE
  /\ res' = "ok"
  /\ created' = FALSE
  /\ UNCHANGED <<up, pc, diskVars>>

Delete(key) ==
  /\ up
  /\ pc = "idle"
  /\ mem' = [k \in DOMAIN mem \ {key} |-> mem[k]]
  /\ dirty' = TRUE
  /\ res' = "ok"
  /\ created' = FALSE
  /\ UNCHANGED <<up, pc, diskVars>>

\* doSave up to and including the opening of the temporary file: truncated with
\* override, refused if it exists without.
OpenTmp(override) ==
  LET i == IF dir.tmp = None THEN opened + 1 ELSE dir.tmp
      d == [path |-> dir.path, tmp |-> i]
  IN  \/ /\ opened < MaxSaves
         /\ override \/ dir.tmp = None
         /\ pc' = "write"
         /\ data' = [data EXCEPT ![i] = Damaged]
         /\ synced' = synced \ {i}
         /\ dir' = d
         /\ lost' = lost \cup {d}
         /\ opened' = opened + 1
         /\ UNCHANGED res
      \/ /\ res' = IF override \/ dir.tmp = None THEN "io" ELSE "exist"
         /\ UNCHANGED <<pc, diskVars>>

Save ==
  /\ up
  /\ pc = "idle"
  /\ created' = FALSE
  /\ IF dirty
       THEN OpenTmp(TRUE)
       ELSE res' = "ok" /\ UNCHANGED <<pc, diskVars>>
  /\ UNCHANGED memVars

Create(override) ==
  /\ up
  /\ pc = "idle"
  /\ mem' = NoSecrets
  /\ dirty' = TRUE
  /\ created' = (~override /\ dir.path # None)
  /\ OpenTmp(override)
  /\ UNCHANGED up

\* The writes to the temporary file; their errors are ignored.
WriteTmp ==
  /\ pc = "write"
  /\ pc' = "sync"
  /\ \/ data' = [data EXCEPT ![dir.tmp] = [whole |-> TRUE, secrets |-> mem]]
     \/ FaultyWrites /\ UNCHANGED data
  /\ UNCHANGED <<memVars, created, res, synced, dir, lost, opened>>

\* f.Sync and f.Close; the errors are ignored.
SyncTmp ==
  /\ pc = "sync"
  /\ pc' = "rename"
  /\ \/ synced' = synced \cup {dir.tmp}
     \/ FaultyWrites /\ UNCHANGED synced
  /\ UNCHANGED <<memVars, created, res, data, dir, lost, opened>>

\* Mutation: k.dirty is cleared on every return.
FailClean ==
  /\ pc' = "idle"
  /\ res' = "io"
  /\ dirty' = FALSE
  /\ UNCHANGED <<up, mem, created>>

\* doSave reports an error; k.dirty stays set.
Fail ==
  /\ pc' = "idle"
  /\ res' = "io"
  /\ UNCHANGED <<memVars, created>>

\* rename, and os.Remove of the temporary file when it fails.
Rename ==
  /\ pc = "rename"
  /\ \/ /\ dir' = [path |-> dir.tmp, tmp |-> None]
        /\ pc' = "syncdir"
        /\ UNCHANGED <<memVars, created, res>>
     \/ /\ dir' \in {dir, [path |-> dir.path, tmp |-> None]}
        /\ Fail
  /\ lost' = lost \cup {dir'}
  /\ UNCHANGED <<data, synced, opened>>

\* doSave reports success.
Done ==
  /\ pc' = "idle"
  /\ dirty' = FALSE
  /\ res' = "ok"
  /\ UNCHANGED <<up, mem, created>>

\* Mutation: the directory is not synced.
SyncDirNot ==
  /\ pc = "syncdir"
  /\ Done
  /\ UNCHANGED <<data, synced, dir, lost, opened>>

\* SyncParent: not being able to open the directory is no error, failing to
\* sync it is one.
SyncDir ==
  /\ pc = "syncdir"
  /\ \/ /\ lost' = {dir}
        /\ Done
     \/ /\ ParentUnreadable
        /\ Done
        /\ UNCHANGED lost
     \/ /\ Fail
        /\ UNCHANGED lost
  /\ UNCHANGED <<data, synced, dir, opened>>

-----------------------------------------------------------------------------
(* Failures of the environment.                                            *)

Stopped ==
  /\ up' = FALSE
  /\ mem' = NoSecrets
  /\ dirty' = FALSE
  /\ pc' = "idle"
  /\ created' = FALSE
  /\ res' = "down"

\* The process dies, at any step.
Crash == up /\ Stopped /\ UNCHANGED diskVars

\* The machine goes down, at any step.
PowerLoss ==
  /\ PowerLosses
  /\ Stopped
  /\ dir' \in lost
  /\ lost' = {dir'}
  /\ \E bad \in SUBSET (Inodes \ synced) :
       data' = [i \in Inodes |-> IF i \in bad THEN Damaged ELSE data[i]]
  /\ synced' = Inodes
  /\ UNCHANGED opened

Next ==
  \/ Load
  \/ \E key \in Keys : Delete(key) \/ \E value \in Values : Store(key, value)
  \/ Save
  \/ \E override \in BOOLEAN : Create(override)
  \/ WriteTmp
  \/ SyncTmp
  \/ Rename
  \/ SyncDir
  \/ Crash
  \/ PowerLoss

Spec == Init /\ [][Next]_vars

-----------------------------------------------------------------------------
(* Properties.                                                             *)

\* The secrets in the keystore file of the directory d.
SecretsIn(contents, d) ==
  IF d.path = None THEN NoSecrets ELSE contents[d.path].secrets

Secrets(d) == SecretsIn(data, d)

\* What the keystore promises, with the file Path as the stored copy and the
\* directories a power loss may bring back as the copies that may come back.
Abstract == INSTANCE SecretStore
              WITH stored <- Secrets(dir), may <- {Secrets(d) : d \in lost},
                   BestEffort <- ParentUnreadable

\* The keystore implements the abstract store: a save takes effect in one step,
\* and whatever step of it is interrupted, by a crash or by a power loss, the
\* next load finds the secrets of a save, never a mixture and never older ones
\* than the last save that reported success.
StoresAtomically == Abstract!Spec

\* NewFileKeystore never finds a damaged file, wherever the process or the
\* machine stopped before.
NeverCorrupt == res # "corrupt"

\* When k.dirty is not set the file holds the secrets in memory: Save may return
\* without writing.
CleanMeansSaved == up /\ ~dirty => Secrets(dir) = mem

\* What the comment of Create says: "if the store already exist we will return
\* an error".
CreateKeepsExisting == created /\ pc = "idle" => res # "ok"

\* What the comment of Save says: it "persists the in memory data to disk".
SavePersists == up /\ ~dirty => dir.path = None \/ data[dir.path].whole
=============================================================================
