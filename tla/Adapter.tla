------------------------------ MODULE Adapter -------------------------------
(***************************************************************************)
(* The go-metrics adapter (src/monitoring/adapter): metrics go-metrics     *)
(* users register are put into the monitoring registry when the filters    *)
(* accept their name, possibly under another name, and into the adapter's  *)
(* own shadow registry otherwise.  Each operation holds the adapter's      *)
(* mutex.  A histogram that is cleared when it is visited is there too:    *)
(* visitors and Update share its sample with no lock around both steps.    *)
(***************************************************************************)
EXTENDS Integers, Sequences

CONSTANTS
  Names,       \* names of metrics
  FilterLists, \* the filters an adapter may be made with
  Kinds,       \* kinds of go-metrics metrics that have a Nil form
  Wrapped,     \* the kinds goMetricsWrap knows
  Visitors,    \* goroutines that visit the histogram
  MaxMetrics,  \* bound on the metrics made
  MaxUpdates   \* bound on the values sampled

VARIABLES
  filters,   \* the filters
  reg,       \* the monitoring registry: name -> metric, or NoMetric
  modes,     \* name -> "full" or "reported"
  shadow,    \* the shadow registry: name -> metric
  made,      \* number of metrics made
  given,     \* name -> the metric its users were given, since it was registered
  sample,    \* the values in the histogram
  updated,   \* the number of values sampled
  visiting,  \* the visitors that have a snapshot and have not cleared yet
  reported   \* the number of values visitors have reported

vars == <<filters, reg, modes, shadow, made, given, sample, updated, visiting, reported>>
regVars == <<reg, modes, shadow, made, given>>
histVars == <<sample, updated, visiting, reported>>

\* What a filter may be; names lead to names.
Filters ==
  [filter : {"accept", "nilify"}] \union [filter : {"whitelist", "report"}, names : SUBSET Names]
    \union [filter : {"rename"}, from : Names, to : Names]
    \union [filter : {"modify"}, map : [Names -> Names]]

NoMetric == [id |-> 0, kind |-> "none"]

Init ==
  /\ filters \in FilterLists
  /\ reg = [n \in Names |-> NoMetric]
  /\ modes = [n \in Names |-> "full"]
  /\ shadow = [n \in Names |-> NoMetric]
  /\ made = 0
  /\ given = [n \in Names |-> NoMetric]
  /\ sample = 0 /\ updated = 0
  /\ visiting = {}
  /\ reported = 0

-----------------------------------------------------------------------------
(* Filters work on [action, name, mode, metric], one after the other.      *)

(* Accept, Whitelist, ReportNames, Rename, ModifyName and GoMetricsNilify. *)
Accept(f, st) == [st EXCEPT !.action = "accept"]
Whitelist(f, st) == IF st.name \in f.names THEN Accept(f, st) ELSE st
ReportNames(f, st) == IF st.name \in f.names THEN [st EXCEPT !.mode = "reported"] ELSE st
Rename(f, st) ==
  IF st.name = f.from THEN [st EXCEPT !.action = "accept", !.name = f.to] ELSE st
ModifyName(f, st) == [st EXCEPT !.name = f.map[st.name]]
GoMetricsNilify(f, st) ==
  IF st.action = "ignore" /\ st.metric.kind \in Kinds
  THEN [st EXCEPT !.metric.kind = "nil"] ELSE st

filter(f, st) ==
  CASE f.filter = "accept" -> Accept(f, st)
    [] f.filter = "whitelist" -> Whitelist(f, st)
    [] f.filter = "report" -> ReportNames(f, st)
    [] f.filter = "rename" -> Rename(f, st)
    [] f.filter = "modify" -> ModifyName(f, st)
    [] OTHER -> GoMetricsNilify(f, st)

(* apply, and stateWith: a metric no filter accepts is ignored.            *)
apply(fs, start) ==
  LET st[k \in 0 .. Len(fs)] == IF k = 0 THEN start ELSE filter(fs[k], st[k - 1])
  IN st[Len(fs)]

stateWith(name, metric) ==
  apply(filters, [action |-> "ignore", name |-> name, mode |-> "full", metric |-> metric])

find(name) ==
  LET st == stateWith(name, NoMetric)
  IN IF st.action = "ignore" THEN NoMetric ELSE reg[st.name]

get(name) == IF find(name) = NoMetric THEN shadow[name] ELSE find(name)

(* goMetricsWrap: a metric of another kind is kept nowhere.                *)
goMetricsWrap(metric) == metric.kind \in Wrapped

doRegister(name, metric) ==
  LET st == stateWith(name, metric)
      keep == st.action = "accept" /\ goMetricsWrap(st.metric)
  IN /\ reg' = IF keep THEN [reg EXCEPT ![st.name] = st.metric] ELSE reg
     /\ modes' = IF keep THEN [modes EXCEPT ![st.name] = st.mode] ELSE modes
     /\ shadow' = IF st.action = "ignore" THEN [shadow EXCEPT ![name] = st.metric] ELSE shadow
     /\ given' = [given EXCEPT ![name] = IF keep \/ st.action = "ignore" THEN st.metric
                                         ELSE NoMetric]

\* Mutation: what is there is not looked for.
RegisterAlways(name, kind) ==
  /\ made < MaxMetrics
  /\ made' = made + 1
  /\ doRegister(name, [id |-> made + 1, kind |-> kind])
  /\ UNCHANGED <<filters, histVars>>

(* GetOrRegister looks and registers under the mutex.                      *)
GetOrRegister(name, kind) ==
  /\ made < MaxMetrics
  /\ made' = made + 1
  /\ IF get(name) # NoMetric
     THEN given' = [given EXCEPT ![name] = get(name)] /\ UNCHANGED <<reg, modes, shadow>>
     ELSE doRegister(name, [id |-> made + 1, kind |-> kind])
  /\ UNCHANGED <<filters, histVars>>

(* Register refuses a name that is known.                                  *)
Register(name, kind) ==
  /\ made < MaxMetrics /\ get(name) = NoMetric
  /\ made' = made + 1
  /\ doRegister(name, [id |-> made + 1, kind |-> kind])
  /\ UNCHANGED <<filters, histVars>>

(* Unregister removes what is in the registry under the filtered name,     *)
(* also when the filters ignore the name.                                  *)
Unregister(name) ==
  LET st == stateWith(name, NoMetric)
      same(n) == LET other == stateWith(n, NoMetric)
                 IN n = name \/ (other.action = "accept" /\ other.name = st.name)
  IN /\ reg' = [reg EXCEPT ![st.name] = NoMetric]
     /\ shadow' = [shadow EXCEPT ![name] = NoMetric]
     /\ given' = [n \in Names |-> IF same(n) THEN NoMetric ELSE given[n]]
     /\ UNCHANGED <<filters, modes, made, histVars>>

UnregisterAll ==
  /\ shadow' = [n \in Names |-> NoMetric]
  /\ reg' = [n \in Names |-> NoMetric]
  /\ given' = [n \in Names |-> NoMetric]
  /\ UNCHANGED <<filters, modes, made, histVars>>

-----------------------------------------------------------------------------
(* ClearOnVisitHistogram.                                                  *)
Update ==
  /\ updated < MaxUpdates
  /\ updated' = updated + 1
  /\ sample' = sample + 1
  /\ UNCHANGED <<filters, regVars, visiting, reported>>

VisitSnapshot(v) ==
  /\ v \notin visiting
  /\ visiting' = visiting \cup {v}
  /\ reported' = reported + sample
  /\ UNCHANGED <<filters, regVars, sample, updated>>

VisitClear(v) ==
  /\ v \in visiting
  /\ visiting' = visiting \ {v}
  /\ sample' = 0
  /\ UNCHANGED <<filters, regVars, updated, reported>>

Next ==
  \/ \E n \in Names, k \in Kinds : GetOrRegister(n, k) \/ Register(n, k)
  \/ \E n \in Names : Unregister(n)
  \/ UnregisterAll
  \/ Update
  \/ \E v \in Visitors : VisitSnapshot(v) \/ VisitClear(v)

Spec == Init /\ [][Next]_vars

(* Whoever asks for a metric by name gets the one its other users have,    *)
(* until it is unregistered under a name that leads to the same place      *)
(* (GetOrRegister and Unregister, go-metrics.go:130-189), whatever the     *)
(* filters make of names, in either registry.                              *)
SameMetric == \A n \in Names : given[n] # NoMetric => get(n) = given[n]

(* A value that was sampled is reported at most once by a single visitor   *)
(* of a ClearOnVisitHistogram (go-metrics-wrapper.go:140).  Values sampled *)
(* between its two steps are never reported, and two visitors may report   *)
(* one twice.                                                              *)
ReportedOnce ==
  (\E v \in Visitors : Visitors = {v}) =>
    reported + (IF visiting = {} THEN sample ELSE 0) <= updated
=============================================================================
