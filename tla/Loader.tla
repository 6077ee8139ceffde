------------------------------- MODULE Loader -------------------------------
(***************************************************************************)
(* The configuration loader (src/loader): discovering files, loading and   *)
(* merging them one by one, and making a configuration from a map with     *)
(* keys that are kept from expansion.  The configuration objects are those *)
(* of go-ucfg, which is outside: merging lists goes element by element,    *)
(* and a merged element is written as the sequence of what was merged.     *)
(* A behaviour loads files, or makes a configuration from a map.           *)
(***************************************************************************)
EXTENDS Integers, Sequences, FiniteSets
LOCAL INSTANCE SequencesExt

CONSTANTS
  Globs,         \* what patterns match: "bad", or files in the order of their names
  PatternLists,  \* the patterns to discover files with, "" among them
  FileOf,        \* file -> [under, loads, parses, merges, inputs]
  Keys           \* top-level keys of a map

VARIABLES
  files,       \* the files that were discovered
  read,        \* number of files loaded
  merged,      \* merger.Config(): its inputs
  inputsList,  \* the inputs of the files of the inputs folder
  loaded,      \* "discover", "load", "ok", "none" (ErrNoConfiguration) or "error"
  data,        \* the map given to NewConfigFrom: its keys
  given,       \* the keys it was given with
  skipKeys,    \* VarSkipKeys
  skipped,     \* skippedKeys
  cfgKeys,     \* the keys of the configuration made from it
  from         \* "idle", "new", "made", "ok" or "error"

vars == <<files, read, merged, inputsList, loaded, data, given, skipKeys, skipped, cfgKeys, from>>
loadVars == <<files, read, merged, inputsList, loaded>>
keyVars == <<data, given, skipKeys, skipped, cfgKeys, from>>

Init ==
  /\ files = << >> /\ read = 0 /\ merged = << >> /\ inputsList = << >>
  /\ loaded = "discover"
  /\ \/ given = {} /\ skipKeys = {} /\ from = "idle"
     \/ given \in SUBSET Keys /\ skipKeys \in SUBSET Keys /\ from = "new"
  /\ data = given
  /\ skipped = {} /\ cfgKeys = {}

-----------------------------------------------------------------------------
(* DiscoverFiles: the files of all patterns in order; a file two patterns  *)
(* match comes twice.                                                      *)
DiscoverFiles(patterns) == FlattenSeq([i \in DOMAIN patterns |-> Globs[patterns[i]]])

(* Discoverer: empty patterns are dropped; without any there is no         *)
(* configuration.  A malformed pattern is an error.                        *)
Discoverer(patterns) ==
  LET p == SelectSeq(patterns, LAMBDA x : x # "")
  IN /\ from = "idle"
     /\ loaded = "discover"
     /\ IF p = << >> THEN loaded' = "none" /\ UNCHANGED files
        ELSE IF \E i \in DOMAIN p : p[i] \notin DOMAIN Globs
        THEN loaded' = "error" /\ UNCHANGED files
        ELSE loaded' = "load" /\ files' = DiscoverFiles(p)
     /\ UNCHANGED <<read, merged, inputsList, keyVars>>

(* Merging lists, element by element. *)
mergeLists(a, b) ==
  LET At(s, i) == IF i \in DOMAIN s THEN s[i] ELSE << >>
  IN [i \in DOMAIN a \cup DOMAIN b |-> At(a, i) \o At(b, i)]

Single(inputs) == [i \in DOMAIN inputs |-> <<inputs[i]>>]

(* The inputs of a file of the inputs folder. *)
getInput(f) == Single(f.inputs)

(* Load, a file: one that cannot be read, parsed or merged ends it; the    *)
(* inputs of one of the inputs folder are put aside, another file is       *)
(* merged into the result.                                                 *)
LoadFile ==
  /\ loaded = "load"
  /\ read < Len(files)
  /\ LET f == FileOf[files[read + 1]]
     IN \/ /\ ~f.loads \/ (IF f.under THEN ~f.parses ELSE ~f.merges)
           /\ loaded' = "error"
           /\ UNCHANGED <<read, merged, inputsList>>
        \/ /\ f.loads /\ f.under /\ f.parses
           /\ inputsList' = inputsList \o getInput(f)
           /\ read' = read + 1
           /\ UNCHANGED <<merged, loaded>>
        \/ /\ f.loads /\ ~f.under /\ f.merges
           /\ merged' = mergeLists(merged, Single(f.inputs))
           /\ read' = read + 1
           /\ UNCHANGED <<inputsList, loaded>>
  /\ UNCHANGED <<files, keyVars>>

SetChild(s, i, x) == [j \in DOMAIN s \cup {i} |-> IF j = i THEN x ELSE s[j]]

\* Mutation: the index does not go on from the inputs there are.
SetInputsFromStart(s) ==
  FoldLeftDomain(LAMBDA t, i : SetChild(t, i, inputsList[i]), s, inputsList)

(* The inputs of the folder are set behind those that were merged. *)
SetInputs(s) ==
  LET start == Len(s)
  IN FoldLeftDomain(LAMBDA t, i : SetChild(t, start + i, inputsList[i]), s, inputsList)

LoadEnds ==
  /\ loaded = "load"
  /\ read = Len(files)
  /\ merged' = IF inputsList = << >> THEN merged ELSE SetInputs(merged)
  /\ loaded' = "ok"
  /\ UNCHANGED <<files, read, inputsList, keyVars>>

-----------------------------------------------------------------------------
(* NewConfigFrom: the keys to skip are taken out of the caller's map while *)
(* the configuration is made from it; go-ucfg may refuse the rest.         *)
NewFrom ==
  /\ from = "new"
  /\ skipped' = data \cap skipKeys
  /\ data' = data \ skipKeys
  /\ \/ from' = "made" /\ cfgKeys' = data'
     \/ from' = "error" /\ UNCHANGED cfgKeys
  /\ UNCHANGED <<given, skipKeys, loadVars>>

(* The keys that were taken out are put back into the caller's map. *)
PutBack == data \cup skipped

(* They are merged without expansion, and put back whether that works. *)
MergeSkipped ==
  /\ from = "made"
  /\ IF skipped = {} THEN from' = "ok" /\ UNCHANGED <<cfgKeys, data>>
     ELSE /\ \/ from' = "ok" /\ cfgKeys' = cfgKeys \cup skipped
             \/ from' = "error" /\ UNCHANGED cfgKeys
          /\ data' = PutBack
  /\ UNCHANGED <<given, skipKeys, skipped, loadVars>>

Next ==
  \/ \E patterns \in PatternLists : Discoverer(patterns)
  \/ LoadFile \/ LoadEnds \/ NewFrom \/ MergeSkipped

Spec == Init /\ [][Next]_vars

-----------------------------------------------------------------------------
Under(i) == FileOf[files[i]].under

(* The i-th inputs of the standalone files, one over the other. *)
MergedAt(i) ==
  LET at == SelectSeq([k \in DOMAIN files |-> k],
                      LAMBDA k : ~Under(k) /\ i \in DOMAIN FileOf[files[k]].inputs)
  IN [j \in DOMAIN at |-> FileOf[files[at[j]]].inputs[i]]

(* Whatever order standalone files and files of the inputs folder come in, *)
(* Load fails if one of them does, and its result has the inputs of the    *)
(* standalone files, merged by their places, and behind them every input   *)
(* of the folder, in the order of the files: none is lost or overwritten.  *)
LoadExact ==
  loaded = "ok" =>
    LET under == FlattenSeq([k \in DOMAIN files |->
                               IF Under(k) THEN FileOf[files[k]].inputs ELSE << >>])
        standalone == {0} \cup UNION {DOMAIN FileOf[files[k]].inputs : k \in {j \in DOMAIN files : ~Under(j)}}
        n == CHOOSE m \in standalone : \A k \in standalone : k <= m
    IN /\ \A k \in DOMAIN files : LET f == FileOf[files[k]]
                                  IN f.loads /\ IF f.under THEN f.parses ELSE f.merges
       /\ DOMAIN merged = 1 .. n + Len(under)
       /\ \A i \in 1 .. n : merged[i] = MergedAt(i)
       /\ \A i \in DOMAIN under : merged[n + i] = <<under[i]>>

(* NewConfigFrom gives the caller's map back as it was, and the            *)
(* configuration has all of its keys; only if go-ucfg refuses what is left *)
(* of the map do the keys to skip stay missing from it.                    *)
MapGivenBack ==
  /\ from = "ok" => data = given /\ cfgKeys = given
  /\ from = "error" /\ cfgKeys # {} => data = given
=============================================================================
