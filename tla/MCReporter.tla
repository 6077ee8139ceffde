----------------------------- MODULE MCReporter -----------------------------
(* Instances of Reporter for TLC.                                          *)
EXTENDS Reporter

CONSTANTS stats, state

TwoNamespaces == {stats, state}
OneNamespace == {stats}
=============================================================================
