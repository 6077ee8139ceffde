-------------------------- MODULE MonitoringProofs --------------------------
(***************************************************************************)
(* Proofs about the values of metrics and the go-metrics adapter, for any  *)
(* goroutines, values and lists of filters.                                *)
(***************************************************************************)
EXTENDS Monitoring, TLAPS

-----------------------------------------------------------------------------
(* Remainders.                                                             *)

\* Division with a remainder.
LEMMA DivMod ==
  ASSUME NEW a \in Int, NEW m \in Nat \ {0}
  PROVE  /\ a \div m \in Int /\ a % m \in 0 .. m - 1
         /\ a = m * (a \div m) + (a % m)
OBVIOUS

\* A multiple is no smaller than the number.
LEMMA Multiple ==
  ASSUME NEW m \in Nat \ {0}, NEW q \in Int, q >= 1
  PROVE  m * q >= m
OBVIOUS

\* The remainder is unique.
LEMMA Remainder ==
  ASSUME NEW m \in Nat \ {0}, NEW p \in Int, NEW q \in Int, NEW r \in 0 .. m - 1,
         NEW s \in 0 .. m - 1, m * p + r = m * q + s
  PROVE  r = s
<1>1. m * (p - q) = s - r /\ m * (q - p) = r - s
  OBVIOUS
<1>2. (p - q >= 1 => m * (p - q) >= m) /\ (q - p >= 1 => m * (q - p) >= m)
  BY Multiple
<1>3. ~(p - q >= 1) /\ ~(q - p >= 1)
  BY <1>1, <1>2
<1>4. p = q
  BY <1>3
<1>5. QED
  BY <1>1, <1>4

\* Wrapping around at every addition or at the end is the same.
LEMMA AddMod ==
  ASSUME NEW m \in Nat \ {0}, NEW a \in Int, NEW d \in Int
  PROVE  ((a % m) + d) % m = (a + d) % m
<1> DEFINE r == a % m
           q == a \div m
           p == (r + d) \div m
           s == (r + d) % m
           u == (a + d) \div m
           t == (a + d) % m
<1>1. /\ q \in Int /\ r \in 0 .. m - 1 /\ a = m * q + r
  BY DivMod
<1>2. r + d \in Int /\ a + d \in Int
  BY <1>1
<1>3. p \in Int /\ s \in 0 .. m - 1 /\ r + d = m * p + s
  BY <1>2, DivMod, Zenon
<1>4. u \in Int /\ t \in 0 .. m - 1 /\ a + d = m * u + t
  BY <1>2, DivMod, Zenon
<1> HIDE DEF r, q, p, s, t, u
<1>5. m * (p + q) = m * p + m * q /\ p + q \in Int
  BY <1>1, <1>3
<1>6. m * (p + q) + s = m * u + t
  BY <1>1, <1>3, <1>4, <1>5
<1>7. s = t
  BY <1>3, <1>4, <1>5, <1>6, Remainder, Zenon
<1>8. QED
  BY <1>7 DEF s, t, r

-----------------------------------------------------------------------------
(* The values of metrics.                                                  *)

\* What a Timestamp may show.
Shown == IF ts = 0 THEN -1 ELSE Val!Layout(ts)

\* An Add of a Float that is under way has loaded a value; a reader formats a
\* time that is set, and the cached text is that of the time.
ValInv ==
  /\ uint \in Int /\ sum \in Int /\ uint = sum % Modulus
  /\ visited \in Int /\ visited >= -1
  /\ float \in Int /\ float = floatSum
  /\ adding \in [Threads -> [at : {"idle", "loaded"}, delta : Int, cur : Int]]
  /\ ts \in Nat
  /\ cached # -1 => ts # 0 /\ cached = Val!Layout(ts)
  /\ reading # {} => ts # 0
  /\ shown \subseteq {Shown}
  /\ kinds \in [Names -> Val!MetricKinds \union {"none"}]
  /\ result \in [Threads -> Val!MetricKinds \union {"none", "panic"}]
  /\ \A t \in Threads : result[t] \in Val!MetricKinds => \E n \in Names : kinds[n] = result[t]

LEMMA ValInit == Val!Init => ValInv
<1> SUFFICES ASSUME Val!Init PROVE ValInv
  OBVIOUS
<1>1. 0 % Modulus = 0
  BY MonitoringAssumption
<1>2. adding \in [Threads -> [at : {"idle", "loaded"}, delta : Int, cur : Int]]
  BY DEF Val!Init, Val!Idle
<1>3. "none" \notin Val!MetricKinds
  BY DEF Val!MetricKinds
<1>4. /\ kinds \in [Names -> Val!MetricKinds \union {"none"}]
      /\ result \in [Threads -> Val!MetricKinds \union {"none", "panic"}]
      /\ \A t \in Threads : result[t] \in Val!MetricKinds => \E n \in Names : kinds[n] = result[t]
  BY <1>3 DEF Val!Init
<1>5. QED
  BY <1>1, <1>2, <1>4 DEF Val!Init, ValInv

\* A New function returns a metric that is registered, and keeps the others.
LEMMA ValNew ==
  ASSUME ValInv, NEW t \in Threads, NEW kind \in Val!MetricKinds, Val!New(t, kind)
  PROVE  ValInv'
<1>1. UNCHANGED <<uint, sum, visited, float, floatSum, adding, ts, cached, reading, shown>>
  BY DEF Val!New, Val!uintVars, Val!floatVars, Val!stampVars
<1>2. PICK n \in Names, opts \in BOOLEAN, nilReg \in BOOLEAN :
        Val!setupMetric(t, n, kind, opts, nilReg)
  BY DEF Val!New
<1> DEFINE returned ==
      IF kinds[n] = "none" \/ (kinds[n] = kind /\ ~opts /\ ~nilReg) THEN kind ELSE "panic"
<1>3. /\ kinds' = [kinds EXCEPT ![n] = IF kinds[n] = "none" THEN kind ELSE kinds[n]]
      /\ result' = [result EXCEPT ![t] = returned]
  BY <1>2 DEF Val!setupMetric
<1>4. "none" \notin Val!MetricKinds /\ "panic" \notin Val!MetricKinds
  BY DEF Val!MetricKinds
<1>5. /\ kinds \in [Names -> Val!MetricKinds \union {"none"}]
      /\ result \in [Threads -> Val!MetricKinds \union {"none", "panic"}]
      /\ \A u \in Threads : result[u] \in Val!MetricKinds => \E o \in Names : kinds[o] = result[u]
  BY DEF ValInv
<1>6. returned \in {kind, "panic"} /\ (returned = kind => kinds'[n] = kind)
  BY <1>3, <1>4, <1>5
<1> HIDE DEF returned
<1>7. kinds' \in [Names -> Val!MetricKinds \union {"none"}]
  BY <1>3, <1>5
<1>8. result' \in [Threads -> Val!MetricKinds \union {"none", "panic"}]
  BY <1>3, <1>5, <1>6
<1>9. \A o \in Names : kinds[o] # "none" => kinds'[o] = kinds[o]
  BY <1>3, <1>5
<1>10. ASSUME NEW u \in Threads, result'[u] \in Val!MetricKinds
       PROVE  \E o \in Names : kinds'[o] = result'[u]
  <2>1. CASE u = t
    <3>1. result'[u] = returned
      BY <1>3, <1>5, <2>1
    <3>2. QED
      BY <1>4, <1>6, <1>10, <3>1
  <2>2. CASE u # t
    <3>1. result'[u] = result[u]
      BY <1>3, <1>5, <2>2
    <3>2. PICK o \in Names : kinds[o] = result[u]
      BY <1>5, <1>10, <3>1
    <3>3. QED
      BY <1>4, <1>9, <1>10, <3>1, <3>2
  <2>3. QED
    BY <2>1, <2>2
<1>11. Shown' = Shown
  BY <1>1 DEF Shown, Val!Layout
<1>12. QED
  BY <1>1, <1>7, <1>8, <1>10, <1>11 DEF ValInv, Val!Layout

\* The sum wraps around as often as the integer does, and the top bit is cleared.
LEMMA ValUint ==
  ASSUME ValInv, Val!UintVisit \/ \E d \in Deltas : Val!UintAdd(d)
  PROVE  ValInv'
<1>1. UNCHANGED <<kinds, result, float, floatSum, adding, ts, cached, reading, shown>>
  BY DEF Val!UintVisit, Val!UintAdd, Val!regVars, Val!floatVars, Val!stampVars
<1>2. uint \in Int /\ sum \in Int /\ uint = sum % Modulus /\ visited \in Int /\ visited >= -1
  BY DEF ValInv
<1>3. ASSUME NEW d \in Deltas, Val!UintAdd(d)
      PROVE  uint' \in Int /\ sum' \in Int /\ uint' = sum' % Modulus /\ visited' = visited
  <2>1. /\ uint' = (uint + d) % Modulus /\ sum' = sum + d /\ visited' = visited
    BY <1>3 DEF Val!UintAdd
  <2>2. d \in Int /\ Modulus \in Nat \ {0}
    BY MonitoringAssumption
  <2>3. uint' = (sum + d) % Modulus
    BY <1>2, <2>1, <2>2, AddMod, Zenon
  <2>4. QED
    BY <1>2, <2>1, <2>2, <2>3
<1>4. ASSUME Val!UintVisit
      PROVE  uint' = uint /\ sum' = sum /\ visited' \in Int /\ visited' >= -1
  <2>1. uint' = uint /\ sum' = sum /\ visited' = uint % (Modulus \div 2)
    BY <1>4 DEF Val!UintVisit, Val!MaskedVisit
  <2>2. Modulus \div 2 \in Nat \ {0}
    BY MonitoringAssumption
  <2>3. uint % (Modulus \div 2) \in 0 .. (Modulus \div 2) - 1
    BY <1>2, <2>2, DivMod, Zenon
  <2>4. QED
    BY <2>1, <2>2, <2>3
<1>5. uint' \in Int /\ sum' \in Int /\ uint' = sum' % Modulus /\ visited' \in Int /\ visited' >= -1
  BY <1>2, <1>3, <1>4
<1>6. QED
  BY <1>1, <1>5 DEF ValInv, Shown, Val!Layout

\* The swap succeeds only on the value that was loaded.
LEMMA ValFloat ==
  ASSUME ValInv, NEW t \in Threads, Val!FloatLoad(t) \/ Val!FloatSwap(t)
  PROVE  ValInv'
<1>1. UNCHANGED <<kinds, result, uint, sum, visited, ts, cached, reading, shown>>
  BY DEF Val!FloatLoad, Val!FloatSwap, Val!regVars, Val!uintVars, Val!stampVars
<1>2. /\ float \in Int /\ float = floatSum
      /\ adding \in [Threads -> [at : {"idle", "loaded"}, delta : Int, cur : Int]]
  BY DEF ValInv
<1> DEFINE Adding == [Threads -> [at : {"idle", "loaded"}, delta : Int, cur : Int]]
<1>3. ASSUME Val!FloatLoad(t)
      PROVE  float' = float /\ floatSum' = floatSum /\ adding' \in Adding
  <2>1. PICK d \in Deltas :
          adding' = [adding EXCEPT ![t] = [at |-> "loaded", delta |-> d, cur |-> float]]
    BY <1>3, Zenon DEF Val!FloatLoad
  <2>2. d \in Int
    BY MonitoringAssumption
  <2>3. adding' \in Adding
    BY <1>2, <2>1, <2>2
  <2>4. QED
    BY <1>3, <2>3 DEF Val!FloatLoad
<1>4. ASSUME Val!FloatSwap(t), adding[t].cur = float
      PROVE  float' \in Int /\ float' = floatSum' /\ adding' \in Adding
  <2>1. /\ float' = float + adding[t].delta /\ floatSum' = floatSum + adding[t].delta
        /\ adding' = [adding EXCEPT ![t] = Val!Idle]
    BY <1>4 DEF Val!FloatSwap
  <2>2. adding[t].delta \in Int
    BY <1>2
  <2>3. Val!Idle \in [at : {"idle", "loaded"}, delta : Int, cur : Int]
    BY DEF Val!Idle
  <2>4. QED
    BY <1>2, <2>1, <2>2, <2>3
<1>5. ASSUME Val!FloatSwap(t), adding[t].cur # float
      PROVE  float' = float /\ floatSum' = floatSum /\ adding' \in Adding
  <2>1. float' = float /\ floatSum' = floatSum /\ adding' = [adding EXCEPT ![t].cur = float]
    BY <1>5 DEF Val!FloatSwap
  <2>2. QED
    BY <1>2, <2>1
<1>6. float' \in Int /\ float' = floatSum' /\ adding' \in Adding
  BY <1>2, <1>3, <1>4, <1>5
<1>7. QED
  BY <1>1, <1>6 DEF ValInv, Shown, Val!Layout

\* The time does not change while it is formatted.
LEMMA ValStamp ==
  ASSUME ValInv,
         \/ \E s \in Stamps : Val!Set(s)
         \/ \E t \in Threads : Val!toString(t) \/ Val!toStringFormats(t)
  PROVE  ValInv'
<1>1. UNCHANGED <<kinds, result, uint, sum, visited, float, floatSum, adding>>
  BY DEF Val!Set, Val!toString, Val!toStringFormats, Val!regVars, Val!uintVars, Val!floatVars
<1>2. /\ ts \in Nat /\ (cached # -1 => ts # 0 /\ cached = Val!Layout(ts))
      /\ (reading # {} => ts # 0) /\ shown \subseteq {Shown}
  BY DEF ValInv
<1> DEFINE StampInv ==
      /\ ts \in Nat /\ (cached # -1 => ts # 0 /\ cached = Val!Layout(ts))
      /\ (reading # {} => ts # 0) /\ shown \subseteq {Shown}
<1>3. ASSUME NEW s \in Stamps, Val!Set(s)
      PROVE  StampInv'
  BY <1>3, MonitoringAssumption DEF Val!Set
<1>4. ASSUME NEW t \in Threads, Val!toString(t)
      PROVE  StampInv'
  <2>1. ts' = ts /\ cached' = cached
    BY <1>4 DEF Val!toString
  <2>2. Shown' = Shown /\ Val!Layout(ts)' = Val!Layout(ts)
    BY <2>1 DEF Shown, Val!Layout
  <2>3. CASE ts # 0 /\ cached = -1
    BY <1>2, <1>4, <2>1, <2>2, <2>3 DEF Val!toString
  <2>4. CASE ~(ts # 0 /\ cached = -1)
    <3>1. shown' = shown \cup {IF ts = 0 THEN -1 ELSE cached} /\ reading' = reading
      BY <1>4, <2>4 DEF Val!toString
    <3>2. (IF ts = 0 THEN -1 ELSE cached) = Shown
      BY <1>2, <2>4 DEF Shown
    <3>3. QED
      BY <1>2, <2>1, <2>2, <3>1, <3>2
  <2>5. QED
    BY <2>3, <2>4
<1>5. ASSUME NEW t \in Threads, Val!toStringFormats(t)
      PROVE  StampInv'
  <2>1. /\ t \in reading /\ ts' = ts /\ cached' = Val!Layout(ts) /\ reading' = reading \ {t}
        /\ shown' = shown \cup {Val!Layout(ts)}
    BY <1>5 DEF Val!toStringFormats
  <2>2. ts # 0
    BY <1>2, <2>1
  <2>3. Shown' = Shown /\ Val!Layout(ts)' = Val!Layout(ts) /\ Shown = Val!Layout(ts)
    BY <2>1, <2>2 DEF Shown, Val!Layout
  <2>4. QED
    BY <1>2, <2>1, <2>2, <2>3
<1>6. StampInv'
  BY <1>3, <1>4, <1>5
<1>7. QED
  BY <1>1, <1>6 DEF ValInv

LEMMA ValStep == ValInv /\ [Val!Next]_(Val!vars) => ValInv'
<1> SUFFICES ASSUME ValInv, [Val!Next]_(Val!vars) PROVE ValInv'
  OBVIOUS
<1>1. ASSUME NEW t \in Threads,
             \/ Val!NewInt(t) \/ Val!NewUint(t) \/ Val!NewFloat(t) \/ Val!NewBool(t)
             \/ Val!NewString(t) \/ Val!NewFunc(t) \/ Val!NewTimestamp(t)
      PROVE  ValInv'
  <2>1. PICK kind \in Val!MetricKinds : Val!New(t, kind)
    BY <1>1 DEF Val!MetricKinds, Val!NewInt, Val!NewUint, Val!NewFloat, Val!NewBool, Val!NewString,
                Val!NewFunc, Val!NewTimestamp
  <2>2. QED
    BY <2>1, ValNew
<1>2. CASE UNCHANGED Val!vars
  BY <1>2 DEF Val!vars, ValInv, Shown, Val!Layout
<1>3. QED
  BY <1>1, <1>2, ValUint, ValFloat, ValStamp DEF Val!Next

\* Whatever goroutines do to a metric at once, its value is what they made of it
\* (metrics.go: Uint, Float, Timestamp and setupMetric).
THEOREM ValuesAlwaysExact == Val!Spec => []ValuesExact
<1>1. ValInv => ValuesExact
  BY DEF ValInv, ValuesExact, Val!ValuesExact, Shown
<1>2. QED
  BY <1>1, ValInit, ValStep, PTL DEF Val!Spec

-----------------------------------------------------------------------------
(* The filters of the go-metrics adapter.                                  *)

LOCAL INSTANCE Induction

AdMetrics == [id : Nat, kind : Kinds \union {"none", "nil"}]
FilterStates ==
  [action : {"ignore", "accept"}, name : Names, mode : {"full", "reported"}, metric : AdMetrics]

\* States that differ in the metric only.
Alike(s, u) == s.action = u.action /\ s.name = u.name /\ s.mode = u.mode

\* What the filters of a kind have.
LEMMA FilterKinds ==
  ASSUME NEW f \in Ad!Filters
  PROVE  /\ f.filter \in {"accept", "nilify", "whitelist", "report", "rename", "modify"}
         /\ f.filter = "rename" => f.to \in Names
         /\ f.filter = "modify" => f.map \in [Names -> Names]
BY DEF Ad!Filters

\* A filter leads from states to states, and what it makes of the action, the
\* name and the mode does not depend on the metric, whose identity it keeps.
LEMMA FilterStep ==
  ASSUME NEW f \in Ad!Filters, NEW s \in FilterStates
  PROVE  /\ Ad!filter(f, s) \in FilterStates
         /\ Ad!filter(f, s).metric.id = s.metric.id
         /\ \A u \in FilterStates : Alike(s, u) => Alike(Ad!filter(f, s), Ad!filter(f, u))
<1>1. CASE f.filter = "accept"
  BY <1>1 DEF Ad!filter, Ad!Accept, FilterStates, Alike
<1>2. CASE f.filter = "whitelist"
  BY <1>2 DEF Ad!filter, Ad!Whitelist, Ad!Accept, FilterStates, Alike
<1>3. CASE f.filter = "report"
  BY <1>3 DEF Ad!filter, Ad!ReportNames, FilterStates, Alike
<1>4. CASE f.filter = "rename"
  BY <1>4, FilterKinds, ZenonT(30) DEF Ad!filter, Ad!Rename, FilterStates, Alike
<1>5. CASE f.filter = "modify"
  BY <1>5, FilterKinds DEF Ad!filter, Ad!ModifyName, FilterStates, Alike
<1>6. CASE f.filter = "nilify"
  BY <1>6 DEF Ad!filter, Ad!GoMetricsNilify, FilterStates, AdMetrics, Alike
<1>7. QED
  BY <1>1, <1>2, <1>3, <1>4, <1>5, <1>6, FilterKinds, Zenon

\* The states apply goes through.
Applied(fs, s, st) ==
  /\ st \in [0 .. Len(fs) -> FilterStates]
  /\ st[0] = s
  /\ \A k \in 1 .. Len(fs) : st[k] = Ad!filter(fs[k], st[k - 1])

\* apply is defined: there is one way to go through the filters.
LEMMA ApplyDefined ==
  ASSUME NEW fs \in Seq(Ad!Filters), NEW s \in FilterStates
  PROVE  \E st : Applied(fs, s, st) /\ Ad!apply(fs, s) = st[Len(fs)]
<1> DEFINE N == Len(fs)
           D == 0 .. N
           step == [k \in 1 .. N |-> [x \in FilterStates |-> Ad!filter(fs[k], x)]]
           Def(st) == st = [k \in D |-> IF k = 0 THEN s ELSE Ad!filter(fs[k], st[k - 1])]
           c == CHOOSE st : Def(st)
<1>1. N \in Nat /\ \A k \in 1 .. N : fs[k] \in Ad!Filters
  OBVIOUS
<1>2. step \in [1 .. N -> [FilterStates -> FilterStates]]
  BY <1>1, FilterStep
<1>3. PICK f \in [0 .. N -> FilterStates] :
        f[0] = s /\ \A k \in 1 .. N : f[k] = step[k][f[k - 1]]
  <2>1. \A n \in Nat : \A g \in [1 .. n -> [FilterStates -> FilterStates]] :
          \E f \in [0 .. n -> FilterStates] :
            f[0] = s /\ \A k \in 1 .. n : f[k] = g[k][f[k - 1]]
    BY Iteration, SMTT(30)
  <2> HIDE DEF step, N
  <2>2. QED
    BY <1>1, <1>2, <2>1
<1>4. ASSUME NEW k \in 1 .. N
      PROVE  f[k] = Ad!filter(fs[k], f[k - 1])
  <2>1. k - 1 \in 0 .. N
    BY <1>1
  <2>2. f[k - 1] \in FilterStates
    BY <1>3, <2>1
  <2>3. QED
    BY <1>3, <2>2, Zenon
<1> HIDE DEF step
<1>5. Applied(fs, s, f)
  BY <1>3, <1>4 DEF Applied
<1>6. Def(f)
  <2>1. \A k \in D : k = 0 \/ k \in 1 .. N
    BY <1>1
  <2>2. \A k \in D : f[k] = IF k = 0 THEN s ELSE Ad!filter(fs[k], f[k - 1])
    BY <1>3, <1>4, <2>1
  <2>3. f = [k \in D |-> f[k]]
    BY <1>3
  <2> HIDE DEF D
  <2>4. QED
    BY <2>2, <2>3
<1>7. Def(c)
  <2> HIDE DEF Def
  <2>1. QED
    BY <1>6, Zenon
<1>8. Ad!apply(fs, s) = c[N]
  BY DEF Ad!apply
<1> HIDE DEF c
<1>9. c[N] = f[N]
  <2> DEFINE T == {k \in Nat : k <= N => c[k] = f[k]}
  <2>1. \A k \in D : c[k] = IF k = 0 THEN s ELSE Ad!filter(fs[k], c[k - 1])
    BY <1>7, SMTT(30)
  <2> HIDE DEF Def
  <2>2. 0 \in T
    BY <1>1, <1>3, <2>1
  <2>3. ASSUME NEW k \in Nat, k \in T
        PROVE  k + 1 \in T
    <3>1. SUFFICES ASSUME k + 1 <= N PROVE c[k + 1] = f[k + 1]
      OBVIOUS
    <3>2. k + 1 \in 1 .. N /\ k + 1 \in D /\ k + 1 # 0 /\ (k + 1) - 1 = k /\ k <= N
      BY <1>1, <3>1
    <3>3. c[k] = f[k]
      BY <2>3, <3>2
    <3>4. c[k + 1] = Ad!filter(fs[k + 1], c[k])
      BY <2>1, <3>2
    <3>5. f[k + 1] = Ad!filter(fs[k + 1], f[k])
      BY <1>4, <3>2
    <3>6. QED
      BY <3>3, <3>4, <3>5
  <2> HIDE DEF T
  <2>4. \A k \in Nat : k \in T
    BY <2>2, <2>3, SetInduction
  <2>5. QED
    BY <1>1, <2>4 DEF T
<1>10. QED
  BY <1>5, <1>8, <1>9

\* What holds of a filter holds of all of them together.
LEMMA ApplyStep ==
  ASSUME NEW fs \in Seq(Ad!Filters), NEW s \in FilterStates
  PROVE  /\ Ad!apply(fs, s) \in FilterStates
         /\ Ad!apply(fs, s).metric.id = s.metric.id
         /\ \A u \in FilterStates : Alike(s, u) => Alike(Ad!apply(fs, s), Ad!apply(fs, u))
<1> DEFINE N == Len(fs)
<1>1. N \in Nat /\ \A k \in 1 .. N : fs[k] \in Ad!Filters
  OBVIOUS
<1>2. PICK st : Applied(fs, s, st) /\ Ad!apply(fs, s) = st[N]
  BY ApplyDefined
<1> HIDE DEF N
<1>3. /\ st \in [0 .. N -> FilterStates] /\ st[0] = s
      /\ \A k \in 1 .. N : st[k] = Ad!filter(fs[k], st[k - 1])
  BY <1>2 DEF Applied, N
<1>4. st[N] \in FilterStates
  BY <1>1, <1>3
<1>5. st[N].metric.id = s.metric.id
  <2> DEFINE T == {k \in Nat : k <= N => st[k].metric.id = s.metric.id}
  <2>1. 0 \in T
    BY <1>3
  <2>2. ASSUME NEW k \in Nat, k \in T
        PROVE  k + 1 \in T
    <3>1. SUFFICES ASSUME k + 1 <= N PROVE st[k + 1].metric.id = s.metric.id
      OBVIOUS
    <3>2. k + 1 \in 1 .. N /\ (k + 1) - 1 = k /\ k <= N /\ k \in 0 .. N
      BY <1>1, <3>1
    <3>3. st[k].metric.id = s.metric.id /\ st[k] \in FilterStates /\ fs[k + 1] \in Ad!Filters
      BY <1>1, <1>3, <2>2, <3>2
    <3>4. st[k + 1] = Ad!filter(fs[k + 1], st[k])
      BY <1>3, <3>2
    <3>5. QED
      BY <3>3, <3>4, FilterStep
  <2> HIDE DEF T
  <2>3. \A k \in Nat : k \in T
    BY <2>1, <2>2, SetInduction
  <2>4. QED
    BY <1>1, <2>3 DEF T
<1>6. ASSUME NEW u \in FilterStates, Alike(s, u)
      PROVE  Alike(st[N], Ad!apply(fs, u))
  <2>1. PICK su : Applied(fs, u, su) /\ Ad!apply(fs, u) = su[N]
    BY ApplyDefined DEF N
  <2>2. /\ su \in [0 .. N -> FilterStates] /\ su[0] = u
        /\ \A k \in 1 .. N : su[k] = Ad!filter(fs[k], su[k - 1])
    BY <2>1 DEF Applied, N
  <2> DEFINE T == {k \in Nat : k <= N => Alike(st[k], su[k])}
  <2>3. 0 \in T
    BY <1>3, <1>6, <2>2
  <2>4. ASSUME NEW k \in Nat, k \in T
        PROVE  k + 1 \in T
    <3>1. SUFFICES ASSUME k + 1 <= N PROVE Alike(st[k + 1], su[k + 1])
      OBVIOUS
    <3>2. k + 1 \in 1 .. N /\ (k + 1) - 1 = k /\ k <= N /\ k \in 0 .. N
      BY <1>1, <3>1
    <3>3. Alike(st[k], su[k]) /\ st[k] \in FilterStates /\ su[k] \in FilterStates
          /\ fs[k + 1] \in Ad!Filters
      BY <1>1, <1>3, <2>2, <2>4, <3>2
    <3>4. st[k + 1] = Ad!filter(fs[k + 1], st[k]) /\ su[k + 1] = Ad!filter(fs[k + 1], su[k])
      BY <1>3, <2>2, <3>2
    <3>5. QED
      BY <3>3, <3>4, FilterStep, Zenon
  <2> HIDE DEF T
  <2>5. \A k \in Nat : k \in T
    BY <2>3, <2>4, SetInduction
  <2>6. QED
    BY <1>1, <2>1, <2>5 DEF T
<1>7. QED
  BY <1>2, <1>4, <1>5, <1>6

-----------------------------------------------------------------------------
(* The metrics of the go-metrics adapter.                                  *)

\* What the filters make of a name, whatever the metric.
Act(n) == Ad!stateWith(n, Ad!NoMetric).action
To(n) == Ad!stateWith(n, Ad!NoMetric).name

\* The shadow registry has the metrics of names the filters ignore.
AdInv ==
  /\ filters \in Seq(Ad!Filters)
  /\ reg \in [Names -> AdMetrics]
  /\ shadow \in [Names -> AdMetrics]
  /\ given \in [Names -> AdMetrics]
  /\ made \in Nat
  /\ \A n \in Names : shadow[n] # Ad!NoMetric => Act(n) = "ignore"
  /\ Ad!SameMetric

LEMMA NoMetricType == Ad!NoMetric \in AdMetrics
BY DEF Ad!NoMetric, AdMetrics

\* The filters treat a metric as they treat the name alone.
LEMMA StateWith ==
  ASSUME filters \in Seq(Ad!Filters), NEW n \in Names, NEW m \in AdMetrics
  PROVE  /\ Ad!stateWith(n, m) \in FilterStates
         /\ Ad!stateWith(n, m).metric.id = m.id
         /\ Ad!stateWith(n, m).action = Act(n)
         /\ Ad!stateWith(n, m).name = To(n)
         /\ Act(n) \in {"ignore", "accept"} /\ To(n) \in Names
<1> DEFINE s == [action |-> "ignore", name |-> n, mode |-> "full", metric |-> m]
           u == [action |-> "ignore", name |-> n, mode |-> "full", metric |-> Ad!NoMetric]
<1>1. s \in FilterStates /\ u \in FilterStates /\ Alike(s, u) /\ s.metric.id = m.id
  BY NoMetricType DEF FilterStates, Alike
<1>2. Ad!stateWith(n, m) = Ad!apply(filters, s) /\ Ad!stateWith(n, Ad!NoMetric) = Ad!apply(filters, u)
  BY DEF Ad!stateWith
<1> HIDE DEF s, u
<1>3. /\ Ad!apply(filters, s) \in FilterStates /\ Ad!apply(filters, s).metric.id = m.id
      /\ Alike(Ad!apply(filters, s), Ad!apply(filters, u))
      /\ Ad!apply(filters, u) \in FilterStates
  BY <1>1, ApplyStep, Zenon
<1>4. QED
  BY <1>2, <1>3 DEF Alike, Act, To, FilterStates

\* What get finds.
LEMMA Got ==
  ASSUME filters \in Seq(Ad!Filters), NEW n \in Names
  PROVE  Ad!get(n) = IF Act(n) # "ignore" /\ reg[To(n)] # Ad!NoMetric THEN reg[To(n)] ELSE shadow[n]
BY DEF Ad!get, Ad!find, Act, To

\* The filters of an adapter do not change, nor what they make of a name.
LEMMA SameFilters ==
  ASSUME filters' = filters
  PROVE  \A n : Act(n)' = Act(n) /\ To(n)' = To(n)
BY DEF Act, To, Ad!stateWith

\* get after a step.
LEMMA GotNext ==
  ASSUME filters \in Seq(Ad!Filters), filters' = filters, NEW n \in Names
  PROVE  Ad!get(n)' = IF Act(n) # "ignore" /\ reg'[To(n)] # Ad!NoMetric THEN reg'[To(n)]
                      ELSE shadow'[n]
<1>1. Ad!get(n)' = IF Act(n)' # "ignore" /\ reg'[To(n)'] # Ad!NoMetric THEN reg'[To(n)']
                   ELSE shadow'[n]
  BY DEF Ad!get, Ad!find, Act, To
<1>2. QED
  BY <1>1, SameFilters

LEMMA AdInit == Ad!Init => AdInv
<1> SUFFICES ASSUME Ad!Init PROVE AdInv
  OBVIOUS
<1>1. /\ filters \in Seq(Ad!Filters) /\ made \in Nat
      /\ \A n \in Names : shadow[n] = Ad!NoMetric /\ given[n] = Ad!NoMetric
  BY MonitoringAssumption DEF Ad!Init
<1>2. /\ reg \in [Names -> AdMetrics] /\ shadow \in [Names -> AdMetrics]
      /\ given \in [Names -> AdMetrics]
  BY NoMetricType DEF Ad!Init
<1>3. QED
  BY <1>1, <1>2 DEF AdInv, Ad!SameMetric

\* A metric is registered under a name nothing is known of.
LEMMA doRegisterKeeps ==
  ASSUME AdInv, NEW name \in Names, NEW kind \in Kinds, Ad!get(name) = Ad!NoMetric,
         Ad!doRegister(name, [id |-> made + 1, kind |-> kind]), made' = made + 1, filters' = filters
  PROVE  AdInv'
<1> DEFINE m == [id |-> made + 1, kind |-> kind]
           st == Ad!stateWith(name, m)
           keep == st.action = "accept" /\ Ad!goMetricsWrap(st.metric)
<1>1. m \in AdMetrics /\ m.id # 0 /\ made' \in Nat /\ filters \in Seq(Ad!Filters)
  BY DEF AdInv, AdMetrics
<1>2. /\ reg \in [Names -> AdMetrics] /\ shadow \in [Names -> AdMetrics]
      /\ given \in [Names -> AdMetrics]
      /\ \A n \in Names : shadow[n] # Ad!NoMetric => Act(n) = "ignore"
      /\ \A n \in Names : given[n] # Ad!NoMetric => Ad!get(n) = given[n]
  BY DEF AdInv, Ad!SameMetric
<1>3. /\ reg' = IF keep THEN [reg EXCEPT ![st.name] = st.metric] ELSE reg
      /\ shadow' = IF st.action = "ignore" THEN [shadow EXCEPT ![name] = st.metric] ELSE shadow
      /\ given' = [given EXCEPT ![name] = IF keep \/ st.action = "ignore" THEN st.metric
                                          ELSE Ad!NoMetric]
  BY Zenon DEF Ad!doRegister
<1> HIDE DEF m
<1>4. /\ st \in FilterStates /\ st.metric.id = m.id /\ st.action = Act(name) /\ st.name = To(name)
      /\ Act(name) \in {"ignore", "accept"} /\ To(name) \in Names
  BY <1>1, StateWith, Zenon
<1>5. st.metric \in AdMetrics /\ st.metric # Ad!NoMetric
  BY <1>1, <1>4 DEF FilterStates, Ad!NoMetric
<1>6. keep => Act(name) = "accept"
  BY <1>4, Zenon
<1> HIDE DEF st, keep
<1>7. /\ reg' \in [Names -> AdMetrics] /\ shadow' \in [Names -> AdMetrics]
      /\ given' \in [Names -> AdMetrics]
  BY <1>2, <1>3, <1>4, <1>5, NoMetricType, Zenon
<1>8. \A n \in Names : shadow'[n] # Ad!NoMetric => Act(n) = "ignore"
  BY <1>2, <1>3, <1>4, Zenon
<1>9. \A n \in Names :
        /\ Ad!get(n) = IF Act(n) # "ignore" /\ reg[To(n)] # Ad!NoMetric THEN reg[To(n)]
                       ELSE shadow[n]
        /\ Ad!get(n)' = IF Act(n) # "ignore" /\ reg'[To(n)] # Ad!NoMetric THEN reg'[To(n)]
                        ELSE shadow'[n]
        /\ To(n) \in Names
  BY <1>1, Got, GotNext, StateWith, NoMetricType, Zenon
<1>10. ASSUME NEW n \in Names, given'[n] # Ad!NoMetric
       PROVE  Ad!get(n)' = given'[n]
  <2>1. CASE n = name
    <3>1. (keep \/ st.action = "ignore") /\ given'[n] = st.metric
      BY <1>2, <1>3, <1>10, <2>1
    <3>2. CASE st.action = "ignore"
      <4>1. shadow'[n] = st.metric
        BY <1>2, <1>3, <2>1, <3>2
      <4>2. QED
        BY <1>4, <1>9, <2>1, <3>1, <3>2, <4>1, Zenon
    <3>3. CASE keep
      <4>1. reg'[To(name)] = st.metric
        BY <1>2, <1>3, <1>4, <3>3, Zenon
      <4>2. QED
        BY <1>5, <1>6, <1>9, <2>1, <3>1, <3>3, <4>1, Zenon
    <3>4. QED
      BY <3>1, <3>2, <3>3
  <2>2. CASE n # name
    <3>1. given'[n] = given[n] /\ shadow'[n] = shadow[n] /\ Ad!get(n) = given[n]
      BY <1>2, <1>3, <1>10, <2>2
    <3>2. CASE keep /\ Act(n) # "ignore" /\ To(n) = To(name)
      <4>1. reg[To(n)] = Ad!NoMetric
        BY <1>6, <1>9, <3>2
      <4>2. shadow[n] = given[n]
        BY <1>9, <3>1, <4>1, Zenon
      <4>3. QED
        BY <1>2, <1>10, <3>1, <3>2, <4>2, ZenonT(30)
    <3>3. CASE ~(keep /\ Act(n) # "ignore" /\ To(n) = To(name))
      <4>1. Act(n) # "ignore" => reg'[To(n)] = reg[To(n)]
        BY <1>2, <1>3, <1>4, <1>9, <3>3, Zenon
      <4>2. QED
        BY <1>9, <3>1, <4>1, Zenon
    <3>4. QED
      BY <3>2, <3>3
  <2>3. QED
    BY <2>1, <2>2
<1>11. QED
  BY <1>1, <1>7, <1>8, <1>10, SameFilters DEF AdInv, Ad!SameMetric

\* GetOrRegister gives what is there, and registers otherwise.
LEMMA RegisterKeeps ==
  ASSUME AdInv, NEW name \in Names, NEW kind \in Kinds,
         Ad!GetOrRegister(name, kind) \/ Ad!Register(name, kind)
  PROVE  AdInv'
<1>1. made' = made + 1 /\ filters' = filters
  BY DEF Ad!GetOrRegister, Ad!Register
<1>2. CASE Ad!get(name) = Ad!NoMetric
  <2>1. Ad!doRegister(name, [id |-> made + 1, kind |-> kind])
    BY <1>2 DEF Ad!GetOrRegister, Ad!Register
  <2>2. QED
    BY <1>1, <1>2, <2>1, doRegisterKeeps
<1>3. CASE Ad!get(name) # Ad!NoMetric
  <2>1. /\ given' = [given EXCEPT ![name] = Ad!get(name)] /\ reg' = reg /\ shadow' = shadow
    BY <1>3 DEF Ad!GetOrRegister, Ad!Register
  <2>2. /\ filters \in Seq(Ad!Filters) /\ reg \in [Names -> AdMetrics]
        /\ shadow \in [Names -> AdMetrics] /\ given \in [Names -> AdMetrics] /\ made \in Nat
        /\ \A n \in Names : shadow[n] # Ad!NoMetric => Act(n) = "ignore"
        /\ \A n \in Names : given[n] # Ad!NoMetric => Ad!get(n) = given[n]
    BY DEF AdInv, Ad!SameMetric
  <2>3. \A n \in Names :
          Ad!get(n) = IF Act(n) # "ignore" /\ reg[To(n)] # Ad!NoMetric THEN reg[To(n)]
                      ELSE shadow[n]
    BY <2>2, Got
  <2>4. \A n \in Names : To(n) \in Names
    BY <2>2, StateWith, NoMetricType, Zenon
  <2>5. \A n \in Names : Ad!get(n)' = Ad!get(n)
    BY <1>1, <2>1, <2>2, <2>3, GotNext
  <2>6. Ad!get(name) \in AdMetrics
    BY <2>2, <2>3, <2>4
  <2>7. given' \in [Names -> AdMetrics]
    BY <2>1, <2>2, <2>6
  <2>8. \A n \in Names : given'[n] # Ad!NoMetric => Ad!get(n)' = given'[n]
    BY <2>1, <2>2, <2>5, SMTT(30)
  <2>9. QED
    BY <1>1, <2>1, <2>2, <2>7, <2>8, SameFilters, SMTT(30) DEF AdInv, Ad!SameMetric
<1>4. QED
  BY <1>2, <1>3

\* What is removed is forgotten under every name that leads there.
LEMMA UnregisterKeeps ==
  ASSUME AdInv, NEW name \in Names, Ad!Unregister(name)
  PROVE  AdInv'
<1> DEFINE Forgotten(n) == n = name \/ (Act(n) = "accept" /\ To(n) = To(name))
<1>1. /\ filters' = filters /\ made' = made
      /\ reg' = [reg EXCEPT ![To(name)] = Ad!NoMetric]
      /\ shadow' = [shadow EXCEPT ![name] = Ad!NoMetric]
      /\ given' = [n \in Names |-> IF Forgotten(n) THEN Ad!NoMetric ELSE given[n]]
  BY DEF Ad!Unregister, Act, To
<1>2. /\ filters \in Seq(Ad!Filters) /\ reg \in [Names -> AdMetrics]
      /\ shadow \in [Names -> AdMetrics] /\ given \in [Names -> AdMetrics] /\ made \in Nat
      /\ \A n \in Names : shadow[n] # Ad!NoMetric => Act(n) = "ignore"
      /\ \A n \in Names : given[n] # Ad!NoMetric => Ad!get(n) = given[n]
  BY DEF AdInv, Ad!SameMetric
<1>3. \A n \in Names : To(n) \in Names /\ Act(n) \in {"ignore", "accept"}
  BY <1>2, StateWith, NoMetricType, Zenon
<1>4. \A n \in Names :
        /\ Ad!get(n) = IF Act(n) # "ignore" /\ reg[To(n)] # Ad!NoMetric THEN reg[To(n)]
                       ELSE shadow[n]
        /\ Ad!get(n)' = IF Act(n) # "ignore" /\ reg'[To(n)] # Ad!NoMetric THEN reg'[To(n)]
                        ELSE shadow'[n]
  BY <1>1, <1>2, Got, GotNext
<1>5. /\ reg' \in [Names -> AdMetrics] /\ shadow' \in [Names -> AdMetrics]
      /\ given' \in [Names -> AdMetrics]
      /\ \A n \in Names : shadow'[n] # Ad!NoMetric => Act(n) = "ignore"
  BY <1>1, <1>2, <1>3, NoMetricType
<1>6. ASSUME NEW n \in Names, given'[n] # Ad!NoMetric
      PROVE  Ad!get(n)' = given'[n]
  <2>1. ~Forgotten(n) /\ given'[n] = given[n]
    BY <1>1, <1>6
  <2>2. shadow'[n] = shadow[n] /\ Ad!get(n) = given[n]
    BY <1>1, <1>2, <1>6, <2>1, SMTT(30)
  <2>3. Act(n) # "ignore" => reg'[To(n)] = reg[To(n)]
    BY <1>1, <1>2, <1>3, <2>1, SMTT(30)
  <2> HIDE DEF Forgotten
  <2>4. QED
    BY <1>4, <2>1, <2>2, <2>3, Zenon
<1>7. QED
  BY <1>1, <1>2, <1>5, <1>6, SameFilters DEF AdInv, Ad!SameMetric

\* With nothing in either registry nobody has a metric.
LEMMA UnregisterAllKeeps ==
  ASSUME AdInv, Ad!UnregisterAll
  PROVE  AdInv'
<1>1. /\ filters' = filters /\ made' = made
      /\ reg' = [n \in Names |-> Ad!NoMetric]
      /\ shadow' = [n \in Names |-> Ad!NoMetric]
      /\ given' = [n \in Names |-> Ad!NoMetric]
  BY DEF Ad!UnregisterAll
<1>2. /\ reg' \in [Names -> AdMetrics] /\ shadow' \in [Names -> AdMetrics]
      /\ given' \in [Names -> AdMetrics]
      /\ \A n \in Names : shadow'[n] = Ad!NoMetric /\ given'[n] = Ad!NoMetric
  BY <1>1, NoMetricType
<1>3. QED
  BY <1>1, <1>2 DEF AdInv, Ad!SameMetric

\* The adapter's registries do not depend on the histogram.
LEMMA AdSame ==
  ASSUME AdInv, UNCHANGED <<filters, reg, shadow, made, given>>
  PROVE  AdInv'
<1>1. \A n \in Names : Ad!get(n)' = Ad!get(n)
  BY Got, GotNext DEF AdInv
<1>2. QED
  BY <1>1, SameFilters DEF AdInv, Ad!SameMetric

LEMMA AdStep == AdInv /\ [Ad!Next]_(Ad!vars) => AdInv'
<1> SUFFICES ASSUME AdInv, [Ad!Next]_(Ad!vars) PROVE AdInv'
  OBVIOUS
<1>1. CASE Ad!Update \/ \E v \in Visitors : Ad!VisitSnapshot(v) \/ Ad!VisitClear(v)
  <2>1. UNCHANGED <<filters, reg, shadow, made, given>>
    BY <1>1 DEF Ad!Update, Ad!VisitSnapshot, Ad!VisitClear, Ad!regVars
  <2>2. QED
    BY <2>1, AdSame
<1>2. CASE UNCHANGED Ad!vars
  BY <1>2, AdSame DEF Ad!vars
<1>3. QED
  BY <1>1, <1>2, RegisterKeeps, UnregisterKeeps, UnregisterAllKeeps DEF Ad!Next

-----------------------------------------------------------------------------
(* The histogram that is cleared when it is visited.                       *)

OneVisitor == \E v \in Visitors : Visitors = {v}

\* A single visitor that is not between its two steps has reported nothing of
\* the sample.
HistInv ==
  /\ sample \in Nat /\ updated \in Nat /\ reported \in Nat
  /\ visiting \subseteq Visitors
  /\ OneVisitor =>
       /\ reported <= updated
       /\ visiting = {} => reported + sample <= updated

LEMMA HistStep == HistInv /\ [Ad!Next]_(Ad!vars) => HistInv'
<1> SUFFICES ASSUME HistInv, [Ad!Next]_(Ad!vars) PROVE HistInv'
  OBVIOUS
<1>1. /\ sample \in Nat /\ updated \in Nat /\ reported \in Nat
      /\ visiting \subseteq Visitors
      /\ OneVisitor =>
           /\ reported <= updated
           /\ visiting = {} => reported + sample <= updated
  BY DEF HistInv
<1>2. OneVisitor => \E v : Visitors = {v}
  BY DEF OneVisitor
<1>3. CASE Ad!Update
  <2>1. updated' = updated + 1 /\ sample' = sample + 1 /\ visiting' = visiting /\ reported' = reported
    BY <1>3 DEF Ad!Update
  <2>2. QED
    BY <1>1, <2>1 DEF HistInv
<1>4. ASSUME NEW v \in Visitors, Ad!VisitSnapshot(v)
      PROVE  HistInv'
  <2>1. /\ v \notin visiting /\ visiting' = visiting \cup {v} /\ reported' = reported + sample
        /\ sample' = sample /\ updated' = updated
    BY <1>4 DEF Ad!VisitSnapshot
  <2>2. OneVisitor => visiting = {}
    BY <1>1, <1>2, <2>1
  <2>3. visiting' \subseteq Visitors /\ visiting' # {}
    BY <1>1, <2>1
  <2>4. QED
    BY <1>1, <2>1, <2>2, <2>3 DEF HistInv
<1>5. ASSUME NEW v \in Visitors, Ad!VisitClear(v)
      PROVE  HistInv'
  <2>1. /\ visiting' = visiting \ {v} /\ reported' = reported /\ sample' = 0 /\ updated' = updated
    BY <1>5 DEF Ad!VisitClear
  <2>2. QED
    BY <1>1, <2>1 DEF HistInv
<1>6. CASE UNCHANGED <<sample, updated, visiting, reported>>
  BY <1>1, <1>6, SMTT(30) DEF HistInv
<1>7. ASSUME NEW n \in Names, NEW k \in Kinds, Ad!GetOrRegister(n, k) \/ Ad!Register(n, k)
      PROVE  UNCHANGED <<sample, updated, visiting, reported>>
  BY <1>7 DEF Ad!GetOrRegister, Ad!Register, Ad!histVars
<1>8. ASSUME (\E n \in Names : Ad!Unregister(n)) \/ Ad!UnregisterAll \/ UNCHANGED Ad!vars
      PROVE  UNCHANGED <<sample, updated, visiting, reported>>
  BY <1>8, Zenon DEF Ad!Unregister, Ad!UnregisterAll, Ad!histVars, Ad!vars
<1>9. QED
  BY <1>3, <1>4, <1>5, <1>6, <1>7, <1>8 DEF Ad!Next

\* The users of a name share one metric whatever the filters are, and a single
\* visitor of a histogram reports a value once (go-metrics.go,
\* go-metrics-wrapper.go).
THEOREM AdapterAlwaysSound == Ad!Spec => []AdapterSound
<1>1. Ad!Init => HistInv
  BY DEF Ad!Init, HistInv
<1>2. HistInv => Ad!ReportedOnce
  <2>1. SUFFICES ASSUME HistInv, OneVisitor
                 PROVE  reported + (IF visiting = {} THEN sample ELSE 0) <= updated
    BY DEF Ad!ReportedOnce, OneVisitor
  <2>2. /\ reported \in Nat /\ updated \in Nat /\ reported <= updated
        /\ visiting = {} => reported + sample <= updated
    BY <2>1 DEF HistInv
  <2>3. QED
    BY <2>2
<1>3. AdInv /\ HistInv => AdapterSound
  BY <1>2 DEF AdInv, AdapterSound
<1>4. QED
  BY <1>1, <1>3, AdInit, AdStep, HistStep, PTL DEF Ad!Spec
=============================================================================
