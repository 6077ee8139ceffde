----------------------------- MODULE MCMetrics ------------------------------
(***************************************************************************)
(* Instances of the parts of monitoring beside the registry: the buffering *)
(* reporter, the values of metrics, snapshots and the go-metrics adapter.  *)
(* The parts do not meet here: a behaviour is one of "part", and the       *)
(* others stay in an initial state.                                        *)
(***************************************************************************)
EXTENDS Reporter, Monitoring

CONSTANTS stats, state

VARIABLES
  part,
  tree, expvars, mode, withExpvar, calls, phase, flat, level, key, keys, event, events,
  depth, snapshot

TwoNamespaces == {stats, state}
OneNamespace == {stats}
MCDeltas == {-1, 2}
MCFilterLists ==
  {<< >>,
   <<[filter |-> "accept"]>>,
   <<[filter |-> "whitelist", names |-> {"x"}], [filter |-> "nilify"]>>,
   <<[filter |-> "report", names |-> {"y"}], [filter |-> "rename", from |-> "x", to |-> "y"]>>,
   <<[filter |-> "modify", map |-> [n \in {"x", "y"} |-> "y"]], [filter |-> "accept"]>>}

Leaf(name, m, v) == [name |-> name, mode |-> m, leaf |-> v]
Sub(name, under) == [name |-> name, sub |-> under]
Var(name, v, own) == [name |-> name, leaf |-> v, monitoring |-> own]
SmallEntries == {Leaf("a", 0, 1), Leaf("b", 1, 2), Sub("c", << >>), Sub("d", <<Leaf("e", 1, 3)>>),
                 Sub("f", <<Sub("g", << >>), Leaf("h", 0, 4)>>)}
SmallTrees == {<< >>} \cup {<<x>> : x \in SmallEntries}
                \cup {<<x, y>> : x \in SmallEntries, y \in SmallEntries}
Snap == INSTANCE Snapshot WITH
  Trees <- {t \in SmallTrees \cup {<<Sub("k", <<x>>), y>> : x \in SmallEntries, y \in SmallEntries} :
              Len(t) = 2 => t[1].name # t[2].name},
  Expvars <- {<< >>, <<Var("memstats", 5, FALSE), Var("a", 6, FALSE), Sub("f", <<Var("memstats", 7, FALSE)>>)>>,
              <<Var("x", 8, TRUE), Sub("y", << >>)>>},
  Skipped <- {"memstats"}

snapVars == <<tree, expvars, mode, withExpvar, calls, phase, flat, level, key, keys, event,
              events, depth, snapshot>>

(* The choices Init leaves open are fixed for the parts that do not run.   *)
MetricsInit ==
  /\ part \in {"reporter", "values", "snapshot", "adapter"}
  /\ Init
  /\ part # "values" => subject = "uint"
  /\ Val!Init
  /\ part # "snapshot" => tree = << >> /\ expvars = << >> /\ mode = 0 /\ withExpvar = FALSE
  /\ Snap!Init
  /\ part # "adapter" => filters = << >>
  /\ Ad!Init

MetricsNext ==
  \/ part = "reporter" /\ Next /\ UNCHANGED <<part, valVars, snapVars, adVars>>
  \/ part = "values" /\ Val!Next /\ UNCHANGED <<part, vars, snapVars, adVars>>
  \/ part = "snapshot" /\ Snap!Next /\ UNCHANGED <<part, vars, valVars, adVars>>
  \/ part = "adapter" /\ Ad!Next /\ UNCHANGED <<part, vars, valVars, snapVars>>

MetricsSpec ==
  /\ MetricsInit /\ [][MetricsNext]_<<part, vars, valVars, snapVars, adVars>>
  /\ WF_vars(part = "reporter" /\ Loop) /\ SF_vars(part = "reporter" /\ Done)
  /\ WF_vars(part = "reporter" /\ StopReturn) /\ WF_vars(part = "reporter" /\ ServeHTTP)

(* Flat and structured snapshots hold exactly the variables of the mode    *)
(* under their full names, with those of expvar on top                     *)
(* (src/monitoring/snapshot.go).                                           *)
SnapshotExact == Snap!SnapshotExact
=============================================================================
