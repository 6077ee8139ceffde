-------------------------------- MODULE Data --------------------------------
(***************************************************************************)
(* The parts that keep data: the file keystore, versions and               *)
(* configurations.                                                         *)
(***************************************************************************)
EXTENDS FileKeystore, Sequences

CONSTANTS
  Texts, NotANumber,                       \* of versions
  Sections, FlagValues, Mergers, MaxUses   \* of configurations

VARIABLES
  left, right, ok,
  subject, sections, unread, childErr, found, ns, outcome, list, isDefault, default,
  history, arrays, merging, uses

Ver == INSTANCE Version WITH v <- left, v1 <- right
Conf == INSTANCE Config

(* A namespace without a section has the empty name, so no section has it. *)
ASSUME DataAssumption ==
  /\ NotANumber \notin Nat
  /\ Texts \subseteq [numbers : Seq(Nat \cup {NotANumber}), suffixes : Seq(Nat)]
  /\ \A cfg \in Sections : "" \notin DOMAIN cfg
  /\ "none" \notin Mergers

versionVars == <<left, right, ok>>
configVars == <<subject, sections, unread, childErr, found, ns, outcome, list, isDefault, default,
                history, arrays, merging, uses>>

(* Versions are compared in one order, pre-releases first, and hold the    *)
(* text UnmarshalJSON parsed last (src/version/version.go).                *)
VersionsOrdered == Ver!Parsed /\ Ver!OrderExact

(* Namespaces, flags and merge options hold what was set, whatever the     *)
(* order of fields and of merges (src/config/config.go, flags.go).         *)
SettingsExact == Conf!SettingsExact
=============================================================================
