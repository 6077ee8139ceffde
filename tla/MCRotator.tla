----------------------------- MODULE MCRotator -----------------------------
(***************************************************************************)
(* Small instances of Rotator: three instants on two days and a directory  *)
(* that may already hold two files of day 0.                                *)
(***************************************************************************)
EXTENDS Rotator

MCTimes == 0 .. 2
MCInitialFiles == {[day |-> 0, index |-> 0], [day |-> 0, index |-> 1]}
EachTick == [t \in MCTimes |-> t]
EveryTwoTicks == [t \in MCTimes |-> t \div 2]
=============================================================================
