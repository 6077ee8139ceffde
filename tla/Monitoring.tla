----------------------------- MODULE Monitoring -----------------------------
(***************************************************************************)
(* The parts of monitoring that several goroutines use at once, beside the *)
(* registry and the reporter: the values of metrics and the go-metrics     *)
(* adapter.                                                                *)
(***************************************************************************)
EXTENDS Integers, Sequences

CONSTANTS
  Threads, Names, Deltas, Modulus, Stamps, Milli, MaxOps,             \* of the metrics
  FilterLists, Kinds, Wrapped, Visitors, MaxMetrics, MaxUpdates       \* of the adapter

VARIABLES
  subject, kinds, result, uint, sum, visited, float, floatSum, adding, ts, cached,
  reading, shown, ops,
  filters, reg, modes, shadow, made, given, sample, updated, visiting, reported

Val == INSTANCE Metrics
Ad == INSTANCE Adapter

ASSUME MonitoringAssumption ==
  /\ Modulus \in Nat \ {0, 1} /\ Deltas \subseteq Int
  /\ Stamps \subseteq Nat /\ Milli \in Nat \ {0}
  /\ FilterLists \subseteq Seq(Ad!Filters)
  /\ MaxUpdates \in Nat

valVars == <<subject, kinds, result, uint, sum, visited, float, floatSum, adding, ts, cached,
             reading, shown, ops>>
adVars == <<filters, reg, modes, shadow, made, given, sample, updated, visiting, reported>>

(* The values of metrics are what their users made of them under any       *)
(* interleaving: Float.Add, Timestamp.toString, Uint.Visit and the New     *)
(* functions (src/monitoring/metrics.go).                                  *)
ValuesExact == Val!ValuesExact

(* Whoever asks the go-metrics adapter for a name gets the metric its      *)
(* other users have, whatever the filters make of names, and a value       *)
(* sampled by a histogram that clears when it is visited is reported at    *)
(* most once (src/monitoring/adapter, go-metrics.go, go-metrics-wrapper.go)*)
AdapterSound == Ad!SameMetric /\ Ad!ReportedOnce
=============================================================================
