------------------------------- MODULE Config -------------------------------
(***************************************************************************)
(* Configurations (src/config): namespaces, which hold at most one         *)
(* section; the flags of the command line; and the global options, which   *)
(* every call passes to go-ucfg.  A behaviour exercises one subject.       *)
(***************************************************************************)
EXTENDS Integers, Sequences

CONSTANTS
  Sections,    \* the configurations of a namespace: name -> "value", "disabled" or "enabled"
  FlagValues,  \* the values of a flag
  Mergers,     \* goroutines that call MergeWithOpts
  MaxUses      \* bound on the uses of a flag or of a namespace

VARIABLES
  subject,     \* "namespace", "flag" or "merge"
  sections,    \* the configuration being unpacked
  unread,      \* the fields Unpack has not looked at
  childErr,    \* err
  found,       \* found
  ns,          \* ns.name, "" if not set
  outcome,     \* "", "ok" or "error"
  list,        \* StringsFlag: *f.list
  isDefault,   \* f.isDefault
  default,     \* the default it last had
  history,     \* the values set since
  arrays,      \* the arrays of global options so far: [spare, behind], whose options are behind them
  merging,     \* merger -> [at, array, used]: used is whose options it merged with
  uses

vars == <<subject, sections, unread, childErr, found, ns, outcome, list, isDefault, default,
          history, arrays, merging, uses>>
nameVars == <<sections, unread, childErr, found, ns, outcome>>
flagVars == <<list, isDefault, default, history>>
mergeVars == <<arrays, merging>>

NoSections == [f \in {} |-> "value"]

Init ==
  /\ subject \in {"namespace", "flag", "merge"}
  /\ sections = NoSections
  /\ unread = {} /\ childErr = FALSE /\ found = FALSE /\ ns = "" /\ outcome = "ok"
  /\ list = << >> /\ isDefault = TRUE /\ default = << >> /\ history = << >>
  /\ arrays = <<[spare |-> FALSE, behind |-> "none"]>>
  /\ merging = [m \in Mergers |-> [at |-> "idle", array |-> 1, used |-> "none"]]
  /\ uses = 0

Use(s) == subject = s /\ uses < MaxUses /\ uses' = uses + 1 /\ UNCHANGED subject

-----------------------------------------------------------------------------
(* Namespace.Unpack begins; the same namespace may be unpacked again. *)
Unpack(cfg) ==
  /\ Use("namespace")
  /\ outcome # ""
  /\ sections' = cfg
  /\ unread' = DOMAIN cfg
  /\ childErr' = FALSE
  /\ found' = FALSE
  /\ outcome' = IF DOMAIN cfg = {} THEN "ok" ELSE ""
  /\ UNCHANGED <<ns, flagVars, mergeVars>>

\* Mutation: the section there is is forgotten.
SecondAllowed == TRUE

Another == ns = ""

(* A field, in any order as the fields are those of a map: a plain value   *)
(* is passed over with its error, a disabled section without; a second     *)
(* section ends it.                                                        *)
UnpackField(f) ==
  /\ outcome = "" /\ f \in unread
  /\ unread' = unread \ {f}
  /\ childErr' = (sections[f] = "value")
  /\ IF sections[f] # "enabled" THEN UNCHANGED <<found, ns, outcome>>
     ELSE IF Another THEN ns' = f /\ found' = TRUE /\ UNCHANGED outcome
     ELSE outcome' = "error" /\ UNCHANGED <<found, ns>>
  /\ UNCHANGED <<subject, sections, uses, flagVars, mergeVars>>

(* Without a section the error of the last field is returned. *)
UnpackEnds ==
  /\ outcome = "" /\ unread = {}
  /\ outcome' = IF ~found /\ childErr THEN "error" ELSE "ok"
  /\ UNCHANGED <<subject, sections, unread, childErr, found, ns, uses, flagVars, mergeVars>>

-----------------------------------------------------------------------------
(* StringsFlag.SetDefault replaces the contents. *)
SetDefault(v) ==
  /\ Use("flag")
  /\ list' = <<v>> /\ isDefault' = TRUE
  /\ default' = <<v>> /\ history' = << >>
  /\ UNCHANGED <<nameVars, mergeVars>>

AppendNew(v) == IF \E i \in DOMAIN list : list[i] = v THEN list ELSE Append(list, v)

(* StringsFlag.Set: the first use replaces the default. *)
Set(v) ==
  /\ Use("flag")
  /\ list' = IF isDefault THEN <<v>> ELSE AppendNew(v)
  /\ isDefault' = FALSE
  /\ history' = Append(history, v)
  /\ UNCHANGED <<default, nameVars, mergeVars>>

-----------------------------------------------------------------------------
(* OverwriteConfigOpts: the caller's slice, which may have capacity to     *)
(* spare, becomes that of the global options.                              *)
OverwriteConfigOpts(spare) ==
  /\ Use("merge")
  /\ arrays' = Append(arrays, [spare |-> spare, behind |-> "none"])
  /\ UNCHANGED <<merging, nameVars, flagVars>>

(* MergeWithOpts: getGlobalConfigOpts, under the lock ... *)
MergeWithOpts(m) ==
  /\ Use("merge")
  /\ merging[m].at = "idle"
  /\ merging' = [merging EXCEPT ![m] = [at |-> "got", array |-> Len(arrays), used |-> "none"]]
  /\ UNCHANGED <<arrays, nameVars, flagVars>>

(* append writes into the shared array if there is room. *)
Shares(array) == arrays[array].spare

(* ... append, without it ... *)
AppendOptions(m) ==
  LET array == merging[m].array
  IN /\ merging[m].at = "got"
     /\ merging' = [merging EXCEPT ![m].at = "appended"]
     /\ arrays' = IF Shares(array) THEN [arrays EXCEPT ![array].behind = m] ELSE arrays
     /\ UNCHANGED <<subject, uses, nameVars, flagVars>>

(* ... and Merge reads them. *)
Merge(m) ==
  LET array == merging[m].array
  IN /\ merging[m].at = "appended"
     /\ merging' = [merging EXCEPT ![m].at = "idle",
                                   ![m].used = IF Shares(array) THEN arrays[array].behind ELSE m]
     /\ UNCHANGED <<subject, uses, arrays, nameVars, flagVars>>

Next ==
  \/ \E cfg \in Sections : Unpack(cfg)
  \/ \E f \in DOMAIN sections : UnpackField(f)
  \/ UnpackEnds
  \/ \E v \in FlagValues : SetDefault(v) \/ Set(v)
  \/ \E spare \in BOOLEAN : OverwriteConfigOpts(spare)
  \/ \E m \in Mergers : MergeWithOpts(m) \/ AppendOptions(m) \/ Merge(m)

Spec == Init /\ [][Next]_vars

-----------------------------------------------------------------------------
Enabled == {f \in DOMAIN sections : sections[f] = "enabled"}

(* In whatever order its fields come, a namespace holds the one section    *)
(* that is enabled and Unpack fails if there are two or if it held one     *)
(* already; without one it fails only over a plain value.                  *)
NamespaceExact ==
  /\ found => ns \in Enabled
  /\ outcome = "ok" => Enabled \subseteq {ns}
  /\ outcome = "error" => \/ \E f, g \in Enabled : f # g
                          \/ Enabled # {} /\ ~found /\ ns # ""
                          \/ Enabled = {} /\ \E f \in DOMAIN sections : sections[f] = "value"

(* A flag has its default until it is used, and then the values it was     *)
(* used with, each once and in the order of their first use: at[i] is when *)
(* the i-th value was used first.                                          *)
FlagExact ==
  IF history = << >> THEN list = default
  ELSE \E at \in [DOMAIN list -> DOMAIN history] :
         /\ \A i, j \in DOMAIN list : i < j => at[i] < at[j]
         /\ \A i \in DOMAIN list : list[i] = history[at[i]]
         /\ \A k \in DOMAIN history :
              (\E i \in DOMAIN list : at[i] = k) <=> \A j \in 1 .. k - 1 : history[j] # history[k]

(* However many goroutines call MergeWithOpts, each merges with its own    *)
(* options, unless the slice of global options had capacity to spare.      *)
OwnOptions ==
  \A m \in Mergers :
    merging[m].used \in {"none", m} \/ arrays[merging[m].array].spare

(* Namespaces, flags and the options of merges are as their callers asked. *)
SettingsExact == NamespaceExact /\ FlagExact /\ OwnOptions
=============================================================================
