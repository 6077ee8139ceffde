---------------------------- MODULE MCLifecycle -----------------------------
(***************************************************************************)
(* An instance of the parts that start, run in the background and stop:    *)
(* two watched files, and two of everything that runs at the same time.    *)
(***************************************************************************)
EXTENDS Lifecycle

MCFiles == <<"f", "g">>
MCConfigs == [host : {"plain", "unix", "npipe", "other"}, user : BOOLEAN, sd : BOOLEAN]
=============================================================================
