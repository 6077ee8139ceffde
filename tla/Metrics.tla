------------------------------ MODULE Metrics -------------------------------
(***************************************************************************)
(* The values of metrics (src/monitoring/metrics.go) under concurrent use: *)
(* the New functions of the kinds beside Int, the atomic integers, Float   *)
(* with its compare-and-swap loop and Timestamp with its cached text.      *)
(* A behaviour exercises one kind of metric, the subject.                  *)
(***************************************************************************)
EXTENDS Integers

CONSTANTS
  Threads,   \* goroutines
  Names,     \* names of metrics
  Deltas,    \* what is added: integers, negative for Sub and Dec
  Modulus,   \* 2^64, the wrap-around of an integer
  Stamps,    \* the times a Timestamp is set to; 0 is the zero time
  Milli,     \* the units of time the layout of a Timestamp keeps
  MaxOps     \* bound on the operations

VARIABLES
  subject,   \* "registry", "uint", "float" or "timestamp"
  kinds,     \* the registry: name -> kind, "none" if not registered
  result,    \* what the last New of a thread returned: a kind or "panic"
  uint,      \* the bits of a Uint
  sum,       \* the sum of everything added to it
  visited,   \* what Visit of the Uint reported last, -1 before
  float,     \* the value of a Float
  floatSum,  \* the sum of the deltas of the Add calls that have returned
  adding,    \* Float.Add: thread -> [at, delta, cur]
  ts,        \* the time of a Timestamp
  cached,    \* its text, -1 for the empty string
  reading,   \* the threads in toString that format, under the read lock
  shown,     \* the texts toString returned since the last Set
  ops

vars == <<subject, kinds, result, uint, sum, visited, float, floatSum, adding, ts, cached,
          reading, shown, ops>>
regVars == <<kinds, result>>
uintVars == <<uint, sum, visited>>
floatVars == <<float, floatSum, adding>>
stampVars == <<ts, cached, reading, shown>>

MetricKinds == {"Int", "Uint", "Float", "Bool", "String", "Func", "Timestamp"}
Idle == [at |-> "idle", delta |-> 0, cur |-> 0]

Init ==
  /\ subject \in {"registry", "uint", "float", "timestamp"}
  /\ kinds = [n \in Names |-> "none"]
  /\ result = [t \in Threads |-> "none"]
  /\ uint = 0 /\ sum = 0 /\ visited = -1
  /\ float = 0 /\ floatSum = 0
  /\ adding = [t \in Threads |-> Idle]
  /\ ts = 0 /\ cached = -1 /\ reading = {} /\ shown = {}
  /\ ops = 0

Op(s) == subject = s /\ ops < MaxOps /\ ops' = ops + 1 /\ UNCHANGED subject

-----------------------------------------------------------------------------
(* setupMetric with addVar, under txMu: an existing variable of the same   *)
(* kind is returned; one of another kind panics, and so do options for an  *)
(* existing one.  With a nil registry the Default one is not looked into,  *)
(* so adding an existing name panics.                                      *)
setupMetric(t, name, kind, opts, nilReg) ==
  LET existing == kinds[name] IN
  /\ kinds' = [kinds EXCEPT ![name] = IF existing = "none" THEN kind ELSE existing]
  /\ result' = [result EXCEPT ![t] =
       IF existing = "none" \/ (existing = kind /\ ~opts /\ ~nilReg) THEN kind ELSE "panic"]

New(t, kind) ==
  /\ Op("registry")
  /\ \E n \in Names, opts, nilReg \in BOOLEAN : setupMetric(t, n, kind, opts, nilReg)
  /\ UNCHANGED <<uintVars, floatVars, stampVars>>

NewInt(t) == New(t, "Int")
NewUint(t) == New(t, "Uint")
NewFloat(t) == New(t, "Float")
NewBool(t) == New(t, "Bool")
NewString(t) == New(t, "String")
NewFunc(t) == New(t, "Func")
NewTimestamp(t) == New(t, "Timestamp")

-----------------------------------------------------------------------------
(* Uint: Add, Sub, Inc and Dec wrap around; Visit clears the top bit to    *)
(* report an int64.                                                        *)
UintAdd(d) ==
  /\ Op("uint")
  /\ uint' = (uint + d) % Modulus
  /\ sum' = sum + d
  /\ UNCHANGED <<regVars, visited, floatVars, stampVars>>

MaskedVisit == uint % (Modulus \div 2)

UintVisit ==
  /\ Op("uint")
  /\ visited' = MaskedVisit
  /\ UNCHANGED <<regVars, uint, sum, floatVars, stampVars>>

(* Float.Add: load, then compare and swap until nobody was in between.     *)
FloatLoad(t) ==
  /\ adding[t].at = "idle"
  /\ Op("float")
  /\ \E d \in Deltas :
       adding' = [adding EXCEPT ![t] = [at |-> "loaded", delta |-> d, cur |-> float]]
  /\ UNCHANGED <<regVars, uintVars, float, floatSum, stampVars>>

\* Mutation: the sum is stored, whoever was in between.
FloatStore(t) ==
  /\ adding[t].at = "loaded"
  /\ float' = adding[t].cur + adding[t].delta
  /\ floatSum' = floatSum + adding[t].delta
  /\ adding' = [adding EXCEPT ![t] = Idle]
  /\ UNCHANGED <<subject, regVars, uintVars, stampVars, ops>>

FloatSwap(t) ==
  /\ adding[t].at = "loaded"
  /\ IF adding[t].cur = float
     THEN /\ float' = float + adding[t].delta
          /\ floatSum' = floatSum + adding[t].delta
          /\ adding' = [adding EXCEPT ![t] = Idle]
     ELSE /\ adding' = [adding EXCEPT ![t].cur = float]
          /\ UNCHANGED <<float, floatSum>>
  /\ UNCHANGED <<subject, regVars, uintVars, stampVars, ops>>

-----------------------------------------------------------------------------
(* Timestamp: Set takes the lock, toString the read lock.  The layout cuts *)
(* the time to milliseconds.                                               *)
Layout(s) == s \div Milli

Set(s) ==
  /\ Op("timestamp") /\ reading = {}
  /\ ts' = s
  /\ cached' = -1
  /\ shown' = {}
  /\ UNCHANGED <<regVars, uintVars, floatVars, reading>>

(* The zero time is shown as the empty string.                             *)
toString(t) ==
  /\ Op("timestamp") /\ t \notin reading
  /\ IF ts # 0 /\ cached = -1
     THEN reading' = reading \cup {t} /\ UNCHANGED shown
     ELSE /\ shown' = shown \cup {IF ts = 0 THEN -1 ELSE cached}
          /\ UNCHANGED reading
  /\ UNCHANGED <<regVars, uintVars, floatVars, ts, cached>>

(* Several readers may format and write the cache at once: a data race of  *)
(* equal strings.                                                          *)
toStringFormats(t) ==
  /\ t \in reading
  /\ cached' = Layout(ts)
  /\ reading' = reading \ {t}
  /\ shown' = shown \cup {Layout(ts)}
  /\ UNCHANGED <<subject, regVars, uintVars, floatVars, ts, ops>>

-----------------------------------------------------------------------------
Next ==
  \/ \E t \in Threads :
       \/ NewInt(t) \/ NewUint(t) \/ NewFloat(t) \/ NewBool(t) \/ NewString(t) \/ NewFunc(t)
       \/ NewTimestamp(t)
       \/ FloatLoad(t) \/ FloatSwap(t)
       \/ toString(t) \/ toStringFormats(t)
  \/ \E d \in Deltas : UintAdd(d)
  \/ UintVisit
  \/ \E s \in Stamps : Set(s)

Spec == Init /\ [][Next]_vars

(* Values stay what their users made of them, whoever runs at the same     *)
(* time.  A Float is the sum of the deltas of the calls of Add that have   *)
(* returned (metrics.go:160).  Every text a Timestamp shows stands for the *)
(* time that is set (metrics.go:352-383).  A Uint never reports a negative *)
(* number, and reports the sum of what was added while it fits the type    *)
(* (metrics.go:117).  A New function returns a metric of its kind that is  *)
(* registered (metrics.go:385).                                            *)
ValuesExact ==
  /\ float = floatSum
  /\ shown \subseteq {IF ts = 0 THEN -1 ELSE Layout(ts)}
  /\ uint = sum % Modulus
  /\ visited >= -1
  /\ \A t \in Threads : result[t] \in MetricKinds => \E n \in Names : kinds[n] = result[t]
=============================================================================
