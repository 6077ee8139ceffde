--------------------------- MODULE MCFileKeystore ---------------------------
(***************************************************************************)
(* Instances of FileKeystore: one key with two values and a few saves,     *)
(* each of which may be interrupted at every step.                         *)
(***************************************************************************)
EXTENDS FileKeystore
=============================================================================
