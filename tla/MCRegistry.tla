----------------------------- MODULE MCRegistry -----------------------------
(***************************************************************************)
(* Instances of Registry: up to three goroutines, names a and x.           *)
(***************************************************************************)
EXTENDS Registry, FiniteSets

\* Two goroutines use the root, a registry a and registries they hold.
Shared ==
  [methods |-> <<{"Add", "NewRegistry", "GetOrCreateRegistry", "Remove", "Clear"},
                 {"Add", "GetOrCreateRegistry", "Remove", "Clear"}, {}>>,
   paths |-> {<<"a">>, <<"a", "x">>, <<"x">>}, calls |-> 2, sharing |-> TRUE]

\* Lookups while others add and remove.
Lookups ==
  [methods |-> <<{"Add"}, {"Remove"}, {"GetRegistry", "NewInt"}>>,
   paths |-> {<<"a">>, <<"a", "x">>}, calls |-> 2, sharing |-> FALSE]

\* The same metrics are created by two goroutines and removed by a third.
Creations ==
  [methods |-> <<{"NewInt"}, {"NewInt"}, {"Remove", "GetRegistry"}>>,
   paths |-> {<<"a">>, <<"a", "x">>}, calls |-> 2, sharing |-> FALSE]

\* Visits of a variable at the root and one in a sub-registry.
Visits ==
  [methods |-> <<{"Add", "NewIntDefault"}, {"Remove"}, {"Visit"}>>,
   paths |-> {<<"x">>, <<"a", "x">>}, calls |-> 2, sharing |-> FALSE]

MCPrograms == {Shared, Lookups, Creations, Visits}

\* The bound on the registries is never reached.
ASSUME RoomAssumption ==
  \A P \in MCPrograms : \A p \in P.paths :
    MaxRegistries > Cardinality(Threads) * P.calls * Len(p)
=============================================================================
