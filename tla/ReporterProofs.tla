--------------------------- MODULE ReporterProofs ---------------------------
(***************************************************************************)
(* Proofs about the buffering reporter, for any namespaces, buffer size    *)
(* and number of ticks.                                                    *)
(***************************************************************************)
EXTENDS Reporter, TLAPS

-----------------------------------------------------------------------------
(* Sequences.                                                              *)

LEMMA SeqElement ==
  ASSUME NEW S, NEW s \in Seq(S), NEW k \in 1 .. Len(s)
  PROVE  s[k] \in S
OBVIOUS

LEMMA SeqEmpty ==
  ASSUME NEW S
  PROVE  << >> \in Seq(S) /\ Len(<< >>) = 0 /\ \A s \in Seq(S) : s # << >> => Len(s) \in Nat \ {0}
OBVIOUS

LEMMA SeqLen ==
  ASSUME NEW S, NEW s \in Seq(S)
  PROVE  Len(s) \in Nat /\ s \in [1 .. Len(s) -> S] /\ DOMAIN s = 1 .. Len(s)
OBVIOUS

LEMMA SeqSame ==
  ASSUME NEW S, NEW s \in Seq(S), NEW u \in Seq(S), Len(s) = Len(u),
         \A k \in 1 .. Len(s) : s[k] = u[k]
  PROVE  s = u
OBVIOUS

LEMMA SeqHead ==
  ASSUME NEW S, NEW s \in Seq(S), s # << >>
  PROVE  /\ Head(s) \in S /\ Tail(s) \in Seq(S) /\ Len(Tail(s)) = Len(s) - 1
         /\ \A k \in 1 .. Len(Tail(s)) : Tail(s)[k] = s[k + 1]
OBVIOUS

LEMMA SeqAppend ==
  ASSUME NEW S, NEW s \in Seq(S), NEW x \in S
  PROVE  /\ Append(s, x) \in Seq(S) /\ Append(s, x) # << >>
         /\ Len(Append(s, x)) = Len(s) + 1
         /\ \A k \in 1 .. Len(s) : Append(s, x)[k] = s[k]
         /\ Append(s, x)[Len(s) + 1] = x
OBVIOUS

Snapshots == 0 .. MaxTicks

\* A function on 1 .. n is a sequence of length n.
LEMMA FunctionIsSeq ==
  ASSUME NEW S, NEW n \in Nat, NEW f \in [1 .. n -> S]
  PROVE  f \in Seq(S) /\ Len(f) = n
OBVIOUS

-----------------------------------------------------------------------------
(* The ring buffer.                                                        *)

\* getAll returns a sequence of the entries in the buffer.
LEMMA GetAllSeq ==
  ASSUME NEW buffer \in [Positions -> Snapshots], NEW next \in Positions,
         NEW filled \in {next, Size}
  PROVE  /\ getAll(buffer, next, filled) \in Seq(Snapshots)
         /\ Len(getAll(buffer, next, filled)) = filled
         /\ \A k \in 1 .. filled :
              /\ Position(k, next, filled) \in Positions
              /\ getAll(buffer, next, filled)[k] = buffer[Position(k, next, filled)]
<1> DEFINE f == getAll(buffer, next, filled)
<1> USE ConstantsAssumption
<1>1. filled \in Nat
  BY DEF Positions
<1>2. \A k \in 1 .. filled : Position(k, next, filled) \in Positions
  BY DEF Position, Positions
<1>3. f = [k \in 1 .. filled |-> buffer[Position(k, next, filled)]]
  BY DEF getAll
<1>4. f \in [1 .. filled -> Snapshots]
  BY <1>2, <1>3
<1>5. f \in Seq(Snapshots) /\ Len(f) = filled
  BY <1>1, <1>4, FunctionIsSeq
<1>6. QED
  BY <1>2, <1>3, <1>5

\* How add changes the array, the index and the number of entries.
Stores(buffer, next, filled, entry, after, following, fills) ==
  /\ after = [buffer EXCEPT ![next] = entry]
  /\ following = IF next + 1 = Size THEN 0 ELSE next + 1
  /\ fills = IF filled = Size THEN Size ELSE next + 1

\* add appends to what getAll returns and drops the oldest entry of a full buffer.
LEMMA AddAppends ==
  ASSUME NEW buffer \in [Positions -> Snapshots], NEW next \in Positions,
         NEW filled \in {next, Size}, NEW entry \in Snapshots,
         NEW after \in [Positions -> Snapshots], NEW following \in Positions,
         NEW fills \in {following, Size},
         Stores(buffer, next, filled, entry, after, following, fills)
  PROVE  getAll(after, following, fills) =
           Buffers!Trimmed(Append(getAll(buffer, next, filled), entry))
<1> DEFINE old == getAll(buffer, next, filled)
           new == getAll(after, following, fills)
           longer == Append(old, entry)
<1>1. /\ old \in Seq(Snapshots)
      /\ Len(old) = filled
      /\ \A k \in 1 .. filled : old[k] = buffer[Position(k, next, filled)]
  BY GetAllSeq, ZenonT(30)
<1>2. /\ new \in Seq(Snapshots)
      /\ Len(new) = fills
      /\ \A k \in 1 .. fills : new[k] = after[Position(k, following, fills)]
  BY GetAllSeq
<1>3. filled \in Nat /\ filled <= Size
  BY ConstantsAssumption DEF Positions
<1> HIDE DEF old, new
<1>4. /\ longer \in Seq(Snapshots)
      /\ Len(longer) = filled + 1
      /\ longer[filled + 1] = entry
      /\ \A k \in 1 .. filled : longer[k] = old[k]
  BY <1>1, <1>3, SeqAppend
<1> HIDE DEF longer
<1>5. CASE filled # Size
  <2>1. filled + 1 <= Size /\ filled = next /\ fills = filled + 1
    BY <1>5, ConstantsAssumption DEF Positions, Stores
  <2>2. Buffers!Trimmed(longer) = longer
    BY <1>4, <2>1, ConstantsAssumption DEF Buffers!Trimmed
  <2>3. ASSUME NEW k \in 1 .. filled + 1
        PROVE  new[k] = longer[k]
    <3>1. new[k] = after[k - 1]
      BY <1>2, <2>1, ConstantsAssumption DEF Positions, Position, Stores
    <3>2. CASE k = filled + 1
      BY <1>4, <2>1, <3>1, <3>2, ConstantsAssumption DEF Positions, Stores
    <3>3. CASE k <= filled
      <4>1. after[k - 1] = buffer[k - 1]
        BY <2>1, <3>3, ConstantsAssumption DEF Positions, Stores
      <4>2. old[k] = buffer[k - 1]
        BY <1>1, <1>3, <1>5, <3>3, ConstantsAssumption DEF Position
      <4>3. QED
        BY <1>3, <1>4, <3>1, <3>3, <4>1, <4>2
    <3>4. QED
      BY <1>3, <3>2, <3>3
  <2>4. new = longer
    BY <1>2, <1>4, <2>1, <2>3, SeqSame
  <2>5. QED
    BY <2>2, <2>4 DEF old, new, longer
<1>6. CASE filled = Size
  <2>1. fills = Size
    BY <1>6 DEF Stores
  <2>2. longer # << >>
    BY <1>3, <1>4
  <2>3. /\ Tail(longer) \in Seq(Snapshots)
        /\ Len(Tail(longer)) = Size
        /\ \A k \in 1 .. Size : Tail(longer)[k] = longer[k + 1]
    BY <1>4, <1>6, <2>2, SeqHead, ConstantsAssumption
  <2>4. Buffers!Trimmed(longer) = Tail(longer)
    BY <1>4, <1>6, ConstantsAssumption DEF Buffers!Trimmed
  <2>5. ASSUME NEW k \in 1 .. Size
        PROVE  new[k] = longer[k + 1]
    <3>1. new[k] = after[Position(k, following, fills)]
      BY <1>2, <2>1
    <3>2. CASE k = Size
      <4>1. Position(k, following, fills) = next
        BY <2>1, <3>2, ConstantsAssumption DEF Position, Positions, Stores
      <4>2. QED
        BY <1>4, <1>6, <3>1, <3>2, <4>1 DEF Stores
    <3>3. CASE k < Size
      <4>1. Position(k, following, fills) = Position(k + 1, next, filled)
        BY <1>6, <2>1, <3>3, ConstantsAssumption DEF Position, Positions, Stores
      <4>2. Position(k + 1, next, filled) # next
        BY <1>6, <3>3, ConstantsAssumption DEF Position, Positions
      <4>3. Position(k + 1, next, filled) \in Positions
        BY <1>6, <3>3, ConstantsAssumption DEF Position, Positions
      <4>4. old[k + 1] = buffer[Position(k + 1, next, filled)]
        BY <1>1, <1>6, <3>3, ConstantsAssumption
      <4>5. longer[k + 1] = old[k + 1]
        BY <1>4, <1>6, <3>3, ConstantsAssumption
      <4>6. QED
        BY <3>1, <4>1, <4>2, <4>3, <4>4, <4>5 DEF Stores
    <3>4. QED
      BY <3>2, <3>3, ConstantsAssumption
  <2>6. new = Tail(longer)
    BY <1>2, <2>1, <2>3, <2>5, SeqSame
  <2>7. QED
    BY <2>4, <2>6 DEF old, new, longer
<1>7. QED
  BY <1>5, <1>6

-----------------------------------------------------------------------------
(* The reporter.                                                           *)

\* What the buffers rest on.
BufferOK ==
  /\ entries \in [Namespaces -> [Positions -> Snapshots]]
  /\ i \in [Namespaces -> Positions]
  /\ full \in [Namespaces -> BOOLEAN]
  /\ ticks \in Snapshots
  /\ loop = "collect" => ticks > 0

LEMMA BufferInit == Init => BufferOK /\ Buffers!Init
<1> SUFFICES ASSUME Init PROVE BufferOK /\ Buffers!Init
  OBVIOUS
<1>1. BufferOK
  BY ConstantsAssumption DEF Init, BufferOK, Positions, Snapshots, Nil
<1>2. ASSUME NEW ns \in Namespaces
      PROVE  InOrder(ns) = << >>
  <2>1. entries[ns] \in [Positions -> Snapshots] /\ i[ns] = 0 /\ i[ns] \in Positions
    BY <1>1 DEF Init, BufferOK
  <2>2. Filled(ns) = 0
    BY <2>1 DEF Init, Filled
  <2>3. InOrder(ns) \in Seq(Snapshots) /\ Len(InOrder(ns)) = 0
    BY <2>1, <2>2, GetAllSeq DEF InOrder
  <2>4. QED
    BY <2>3, SeqEmpty
<1>3. QED
  BY <1>1, <1>2 DEF Buffers!Init

\* What add does to the buffer of a namespace.
LEMMA AddStep ==
  ASSUME BufferOK, NEW ns \in Namespaces, NEW entry \in Snapshots, add(ns, entry)
  PROVE  /\ entries' \in [Namespaces -> [Positions -> Snapshots]]
         /\ i' \in [Namespaces -> Positions]
         /\ full' \in [Namespaces -> BOOLEAN]
         /\ InOrder(ns)' = Buffers!Trimmed(Append(InOrder(ns), entry))
         /\ \A other \in Namespaces \ {ns} : InOrder(other)' = InOrder(other)
<1> USE ConstantsAssumption
<1>1. /\ entries[ns] \in [Positions -> Snapshots]
      /\ i[ns] \in Positions
      /\ Filled(ns) \in {i[ns], Size}
  BY DEF BufferOK, Filled
<1>2. entries' \in [Namespaces -> [Positions -> Snapshots]]
  BY <1>1 DEF BufferOK, add
<1>3. i' \in [Namespaces -> Positions]
  BY <1>1 DEF BufferOK, add, Positions
<1>4. full' \in [Namespaces -> BOOLEAN]
  BY <1>1 DEF BufferOK, add
<1>5. entries'[ns] = [entries[ns] EXCEPT ![i[ns]] = entry]
  BY DEF BufferOK, add
<1>6. i'[ns] = IF i[ns] + 1 = Size THEN 0 ELSE i[ns] + 1
  BY DEF BufferOK, add
<1>7. full'[ns] = (full[ns] \/ i[ns] + 1 = Size)
  BY Zenon DEF BufferOK, add
<1>8. Filled(ns)' = IF Filled(ns) = Size THEN Size ELSE i[ns] + 1
  <2>1. CASE full[ns]
    <3>1. full'[ns]
      BY <1>7, <2>1, Zenon
    <3>2. QED
      BY <2>1, <3>1 DEF Filled
  <2>2. CASE ~full[ns] /\ i[ns] + 1 = Size
    <3>1. full'[ns]
      BY <1>7, <2>2, Zenon
    <3>2. QED
      BY <2>2, <3>1 DEF Filled
  <2>3. CASE ~full[ns] /\ i[ns] + 1 # Size
    <3>1. ~full'[ns]
      BY <1>7, <2>3, Zenon
    <3>2. QED
      BY <1>1, <1>6, <2>3, <3>1 DEF Filled, Positions
  <2>4. QED
    BY <2>1, <2>2, <2>3
<1>9. /\ entries'[ns] \in [Positions -> Snapshots]
      /\ i'[ns] \in Positions
      /\ Filled(ns)' \in {i'[ns], Size}
  BY <1>1, <1>2, <1>3, <1>6, <1>8 DEF Positions
<1>10. getAll(entries'[ns], i'[ns], Filled(ns)') =
         Buffers!Trimmed(Append(getAll(entries[ns], i[ns], Filled(ns)), entry))
  BY <1>1, <1>5, <1>6, <1>8, <1>9, AddAppends, SMTT(30) DEF Stores
<1>11. InOrder(ns)' = Buffers!Trimmed(Append(InOrder(ns), entry))
  BY <1>10, Zenon DEF InOrder
<1>12. ASSUME NEW other \in Namespaces \ {ns}
       PROVE  InOrder(other)' = InOrder(other)
  <2>1. entries'[other] = entries[other] /\ i'[other] = i[other] /\ full'[other] = full[other]
    BY DEF BufferOK, add
  <2>2. QED
    BY <2>1, Zenon DEF InOrder, Filled
<1>13. QED
  BY <1>2, <1>3, <1>4, <1>11, <1>12

Contents == [ns \in Namespaces |-> InOrder(ns)]

\* A step either leaves the buffers alone or adds the current snapshot to one.
LEMMA BufferStep ==
  ASSUME BufferOK, [Next]_vars
  PROVE  /\ BufferOK'
         /\ \/ UNCHANGED bufferVars
            \/ \E ns \in Namespaces :
                 /\ ticks \in 1 .. MaxTicks
                 /\ loop = "collect"
                 /\ add(ns, ticks)
<1> USE ConstantsAssumption
<1>1. ASSUME UNCHANGED <<bufferVars, ticks, loop>>
      PROVE  BufferOK' /\ UNCHANGED bufferVars
  BY <1>1 DEF BufferOK, bufferVars
<1>2. CASE Tick
  BY <1>2 DEF BufferOK, Tick, bufferVars, Snapshots
<1>3. CASE Done
  BY <1>3 DEF BufferOK, Done, bufferVars
<1>4. ASSUME NEW ns \in Namespaces, Collect(ns)
      PROVE  /\ BufferOK'
             /\ \/ UNCHANGED bufferVars
                \/ ticks \in 1 .. MaxTicks /\ loop = "collect" /\ add(ns, ticks)
  <2>1. CASE ns \in populated
    <3>1. add(ns, ticks) /\ loop = "collect" /\ ticks' = ticks
      BY <1>4, <2>1, Zenon DEF Collect
    <3>2. ticks \in Snapshots /\ ticks > 0
      BY <3>1 DEF BufferOK
    <3>3. QED
      BY <3>1, <3>2, AddStep DEF BufferOK, Snapshots
  <2>2. CASE ns \notin populated
    <3>1. UNCHANGED bufferVars /\ loop' = "panicked" /\ ticks' = ticks
      BY <1>4, <2>2, Zenon DEF Collect
    <3>2. QED
      BY <3>1 DEF BufferOK, bufferVars
  <2>3. QED
    BY <2>1, <2>2
<1>5. CASE \E ns \in Namespaces : Register(ns)
  BY <1>1, <1>5 DEF Register, loopVars
<1>6. CASE Stop \/ StopReturn \/ Request
  BY <1>1, <1>6 DEF Stop, StopReturn, Request, loopVars
<1>7. CASE ServeHTTP
  BY <1>1, <1>7 DEF ServeHTTP, Answer, GetAll, Marshal, loopVars
<1>8. CASE UNCHANGED vars
  BY <1>1, <1>8 DEF vars, loopVars
<1>9. QED
  BY <1>2, <1>3, <1>4, <1>5, <1>6, <1>7, <1>8, Zenon DEF Next, Loop

LEMMA BufferInvariant == Spec => []BufferOK
<1>1. BufferOK /\ [Next]_vars => BufferOK'
  BY BufferStep
<1>2. QED
  BY BufferInit, <1>1, PTL DEF Spec

LEMMA RefinementStep ==
  ASSUME BufferOK, [Next]_vars
  PROVE  Buffers!Next \/ UNCHANGED Contents
<1>1. CASE UNCHANGED bufferVars
  BY <1>1, Zenon DEF bufferVars, Contents, InOrder, Filled
<1>2. ASSUME NEW ns \in Namespaces, ticks \in 1 .. MaxTicks, add(ns, ticks)
      PROVE  Buffers!Next
  <2>1. ticks \in Snapshots
    BY <1>2, ConstantsAssumption DEF Snapshots
  <2>2. /\ InOrder(ns)' = Buffers!Trimmed(Append(InOrder(ns), ticks))
        /\ \A other \in Namespaces \ {ns} : InOrder(other)' = InOrder(other)
    BY <1>2, <2>1, AddStep
  <2>3. Contents' = [Contents EXCEPT ![ns] = Buffers!Trimmed(Append(Contents[ns], ticks))]
    BY <2>2, Zenon DEF Contents
  <2>4. Buffers!Add(ns, ticks)
    BY <2>3, Zenon DEF Buffers!Add, Contents
  <2>5. QED
    BY <1>2, <2>4 DEF Buffers!Next
<1>3. QED
  BY <1>1, <1>2, BufferStep

\* The buffers implement the abstract one: what getAll would return is at every
\* moment the last Size snapshots, oldest first.
THEOREM Refinement == Spec => KeepsMostRecent
<1>1. BufferOK /\ [Next]_vars => [Buffers!Next]_Contents
  BY RefinementStep
<1>2. Init => Buffers!Init
  BY BufferInit
<1>3. QED
  BY <1>1, <1>2, BufferInvariant, PTL DEF Spec, KeepsMostRecent, Buffers!Spec, Contents

-----------------------------------------------------------------------------

\* The goroutine is gone when Stop has returned.
Joined == stopper = "returned" => loop = "returned"

\* Once Stop has returned the buffers do not change any more.
THEOREM Quiet == Spec => QuietAfterStop
<1>1. Init => Joined
  BY DEF Init, Joined
<1>2. Joined /\ [Next]_vars => Joined'
  <2> SUFFICES ASSUME Joined, [Next]_vars PROVE Joined'
    OBVIOUS
  <2> USE DEF Joined, loopVars, stopVars
  <2>1. CASE Loop
    BY <2>1 DEF Loop, Tick, Done, Collect
  <2>2. CASE ServeHTTP
    BY <2>2 DEF ServeHTTP, Answer, GetAll, Marshal
  <2>3. CASE Stop \/ StopReturn \/ Request
    BY <2>3 DEF Stop, StopReturn, Request
  <2>4. CASE \E ns \in Namespaces : Register(ns)
    BY <2>4 DEF Register
  <2>5. CASE UNCHANGED vars
    BY <2>5 DEF vars
  <2>6. QED
    BY <2>1, <2>2, <2>3, <2>4, <2>5, Zenon DEF Next
<1>3. BufferOK /\ Joined /\ [Next]_vars => [stopper # "returned"]_bufferVars
  BY BufferStep DEF Joined
<1>4. QED
  BY <1>1, <1>2, <1>3, BufferInvariant, PTL DEF Spec, QuietAfterStop

-----------------------------------------------------------------------------
(* Responses.                                                              *)

\* Nothing in the buffers is newer than the last tick.
Past == \A ns \in Namespaces, p \in Positions : entries[ns][p] <= ticks

\* A slice of the array fits into it, and its elements are only ever replaced by
\* newer ones.
ViewOK ==
  \A ns \in Namespaces :
    /\ Len(view[ns].was) <= Size
    /\ view[ns].alias =>
         \A k \in 1 .. Len(view[ns].was) : view[ns].was[k] <= entries[ns][k - 1]

\* Marshal starts when every getAll has returned, and reads no more than it did.
ReadOK ==
  \A ns \in Namespaces :
    /\ Len(response[ns]) <= Len(view[ns].was)
    /\ request = "get" => response[ns] = << >>

ResponseInv == TypeOK /\ BufferOK /\ Past /\ ViewOK /\ ReadOK /\ NeverOlder

LEMMA ResponseInit == Init => ResponseInv
<1> SUFFICES ASSUME Init PROVE ResponseInv
  OBVIOUS
<1> USE ConstantsAssumption
<1>1. BufferOK
  BY BufferInit
<1>2. /\ << >> \in Seq(0 .. MaxTicks) /\ Len(<< >>) = 0
      /\ NoView \in [alias : BOOLEAN, was : Seq(0 .. MaxTicks)]
  BY SeqEmpty DEF NoView
<1>3. TypeOK
  <2>1. 0 \in 0 .. MaxTicks /\ 0 \in Nat /\ 0 \in Positions
    BY DEF Positions
  <2>2. /\ entries \in [Namespaces -> [Positions -> 0 .. MaxTicks]]
        /\ i \in [Namespaces -> Positions]
        /\ since \in [Namespaces -> Nat]
        /\ ticks \in 0 .. MaxTicks
    BY <2>1 DEF Init, Nil
  <2>3. /\ view \in [Namespaces -> [alias : BOOLEAN, was : Seq(0 .. MaxTicks)]]
        /\ response \in [Namespaces -> Seq(0 .. MaxTicks)]
    BY <1>2 DEF Init
  <2>4. /\ full \in [Namespaces -> BOOLEAN]
        /\ populated \subseteq Namespaces
        /\ pending \subseteq Namespaces /\ toGet \subseteq Namespaces
    BY DEF Init
  <2>5. QED
    BY <2>2, <2>3, <2>4, Zenon DEF Init, TypeOK
<1>4. ASSUME NEW ns \in Namespaces
      PROVE  view[ns].was = << >> /\ response[ns] = << >> /\ ~view[ns].alias
  <2>1. view[ns] = NoView /\ response[ns] = << >>
    BY DEF Init
  <2>2. QED
    BY <2>1 DEF NoView
<1>5. Past
  BY DEF Init, Past, Nil
<1>6. ViewOK /\ ReadOK /\ NeverOlder
  BY <1>2, <1>4 DEF ViewOK, ReadOK, NeverOlder
<1>7. QED
  BY <1>1, <1>3, <1>5, <1>6 DEF ResponseInv

\* A step of the loop, or of anybody who leaves the request alone.
LEMMA ResponseLoop ==
  ASSUME ResponseInv, BufferOK',
         UNCHANGED requestVars,
         ticks <= ticks',
         \/ UNCHANGED <<entries>>
         \/ \E ns \in Namespaces : entries' = [entries EXCEPT ![ns][i[ns]] = ticks']
  PROVE  Past' /\ ViewOK' /\ ReadOK' /\ NeverOlder'
<1> USE ConstantsAssumption DEF requestVars
<1>1. /\ ticks \in Nat /\ ticks' \in Nat
      /\ entries \in [Namespaces -> [Positions -> Nat]]
      /\ i \in [Namespaces -> Positions]
  BY DEF ResponseInv, BufferOK, Snapshots
<1>2. \A ns \in Namespaces, p \in Positions :
        /\ entries'[ns][p] \in Nat
        /\ entries[ns][p] <= entries'[ns][p]
        /\ entries'[ns][p] <= ticks'
  <2>1. CASE UNCHANGED <<entries>>
    BY <1>1, <2>1 DEF ResponseInv, Past
  <2>2. ASSUME NEW ns \in Namespaces, entries' = [entries EXCEPT ![ns][i[ns]] = ticks']
        PROVE  \A other \in Namespaces, p \in Positions :
                 /\ entries'[other][p] \in Nat
                 /\ entries[other][p] <= entries'[other][p]
                 /\ entries'[other][p] <= ticks'
    <3> SUFFICES ASSUME NEW other \in Namespaces, NEW p \in Positions
                 PROVE  /\ entries'[other][p] \in Nat
                        /\ entries[other][p] <= entries'[other][p]
                        /\ entries'[other][p] <= ticks'
      OBVIOUS
    <3>1. entries'[other][p] = IF other = ns /\ p = i[ns] THEN ticks' ELSE entries[other][p]
      BY <1>1, <2>2
    <3>2. entries[other][p] \in Nat /\ entries[other][p] <= ticks
      BY <1>1 DEF ResponseInv, Past
    <3>3. QED
      BY <1>1, <3>1, <3>2
  <2>3. QED
    BY <2>1, <2>2
<1>3. Past'
  BY <1>2 DEF Past
<1>4. ReadOK' /\ NeverOlder'
  BY DEF ResponseInv, ReadOK, NeverOlder
<1>5. ASSUME NEW ns \in Namespaces, view[ns].alias, NEW k \in 1 .. Len(view[ns].was)
      PROVE  view[ns].was[k] <= entries'[ns][k - 1]
  <2>1. view[ns].was \in Seq(0 .. MaxTicks)
    BY DEF ResponseInv, TypeOK
  <2>2. Len(view[ns].was) \in Nat /\ view[ns].was[k] \in Nat
    <3>1. view[ns].was[k] \in 0 .. MaxTicks
      BY <2>1, SeqElement
    <3>2. QED
      BY <2>1, <3>1, SeqLen
  <2>3. Len(view[ns].was) <= Size /\ view[ns].was[k] <= entries[ns][k - 1]
    BY <1>5 DEF ResponseInv, ViewOK
  <2>4. k - 1 \in Positions
    BY <2>2, <2>3 DEF Positions
  <2>5. /\ entries[ns][k - 1] \in Nat /\ entries'[ns][k - 1] \in Nat
        /\ entries[ns][k - 1] <= entries'[ns][k - 1]
    BY <1>1, <1>2, <2>4, SMTT(30)
  <2>6. QED
    BY <2>2, <2>3, <2>5, SMTT(30)
<1>6. ViewOK'
  BY <1>5 DEF ResponseInv, ViewOK
<1>7. QED
  BY <1>3, <1>4, <1>6

LEMMA ResponseOthers ==
  ASSUME ResponseInv, BufferOK',
         \/ Loop
         \/ \E ns \in Namespaces : Register(ns)
         \/ Stop
         \/ StopReturn
  PROVE  ResponseInv'
<1> USE ConstantsAssumption
<1>1. TypeOK
  BY DEF ResponseInv
<1>2. CASE Tick
  <2>1. TypeOK'
    BY <1>1, <1>2 DEF TypeOK, Tick, bufferVars, stopVars, requestVars
  <2>2. Past' /\ ViewOK' /\ ReadOK' /\ NeverOlder'
    <3>1. UNCHANGED <<entries, requestVars>> /\ ticks <= ticks'
      BY <1>1, <1>2 DEF TypeOK, Tick, bufferVars
    <3>2. QED
      BY <3>1, ResponseLoop
  <2>3. QED
    BY <2>1, <2>2 DEF ResponseInv
<1>3. CASE Done
  <2>1. TypeOK'
    BY <1>1, <1>3 DEF TypeOK, Done, bufferVars, stopVars, requestVars
  <2>2. Past' /\ ViewOK' /\ ReadOK' /\ NeverOlder'
    <3>1. UNCHANGED <<entries, requestVars>> /\ ticks <= ticks'
      BY <1>1, <1>3 DEF TypeOK, Done, bufferVars
    <3>2. QED
      BY <3>1, ResponseLoop
  <2>3. QED
    BY <2>1, <2>2 DEF ResponseInv
<1>4. ASSUME NEW ns \in Namespaces, Collect(ns) PROVE ResponseInv'
  <2>1. /\ UNCHANGED <<populated, ticks, stopVars, requestVars>>
        /\ loop' \in {"select", "collect", "panicked"}
        /\ pending' \subseteq Namespaces
    <3>1. CASE ns \in populated
      BY <1>1, <1>4, <3>1 DEF TypeOK, Collect
    <3>2. CASE ns \notin populated
      BY <1>1, <1>4, <3>2 DEF TypeOK, Collect
    <3>3. QED
      BY <3>1, <3>2
  <2>2. since' \in [Namespaces -> Nat]
    <3>1. CASE ns \in populated
      <4>1. since' = [since EXCEPT ![ns] = since[ns] + 1]
        BY <1>4, <3>1, Zenon DEF Collect, add
      <4>2. QED
        BY <1>1, <4>1 DEF TypeOK
    <3>2. CASE ns \notin populated
      BY <1>1, <1>4, <3>2 DEF TypeOK, Collect
    <3>3. QED
      BY <3>1, <3>2
  <2>3. TypeOK'
    <3>1. /\ entries' \in [Namespaces -> [Positions -> 0 .. MaxTicks]]
          /\ i' \in [Namespaces -> Positions]
          /\ full' \in [Namespaces -> BOOLEAN]
      BY DEF BufferOK, Snapshots
    <3>2. QED
      BY <1>1, <2>1, <2>2, <3>1, Zenon DEF TypeOK, stopVars, requestVars
  <2>4. \/ UNCHANGED <<entries>>
        \/ \E other \in Namespaces : entries' = [entries EXCEPT ![other][i[other]] = ticks']
    <3>1. CASE ns \in populated
      <4>1. entries' = [entries EXCEPT ![ns][i[ns]] = ticks]
        BY <1>4, <3>1, Zenon DEF Collect, add
      <4>2. QED
        BY <2>1, <4>1, Zenon
    <3>2. CASE ns \notin populated
      BY <1>4, <3>2 DEF Collect, bufferVars
    <3>3. QED
      BY <3>1, <3>2
  <2>5. ticks <= ticks'
    BY <1>1, <2>1 DEF TypeOK
  <2>6. QED
    BY <2>1, <2>3, <2>4, <2>5, ResponseLoop DEF ResponseInv
<1>5. CASE (\E ns \in Namespaces : Register(ns)) \/ Stop \/ StopReturn
  <2>1. UNCHANGED <<bufferVars, loopVars, requestVars, since>>
    BY <1>5 DEF Register, Stop, StopReturn
  <2>2. /\ populated' \subseteq Namespaces
        /\ closed' \in BOOLEAN
        /\ stopper' \in {"idle", "wait", "returned"}
    BY <1>1, <1>5, Zenon DEF TypeOK, Register, Stop, StopReturn, stopVars
  <2>3. TypeOK'
    BY <1>1, <2>1, <2>2, Zenon DEF TypeOK, bufferVars, loopVars, requestVars
  <2>4. UNCHANGED <<entries>> /\ ticks <= ticks'
    BY <1>1, <2>1 DEF TypeOK, bufferVars, loopVars
  <2>5. QED
    BY <2>1, <2>3, <2>4, ResponseLoop DEF ResponseInv
<1>6. QED
  BY <1>2, <1>3, <1>4, <1>5 DEF Loop

LEMMA ResponseRequest ==
  ASSUME ResponseInv, BufferOK', Request \/ Answer
  PROVE  ResponseInv'
<1> USE ConstantsAssumption
<1>1. TypeOK
  BY DEF ResponseInv
<1>2. UNCHANGED <<bufferVars, populated, loopVars, stopVars>>
  BY DEF Request, Answer
<1>3. Past'
  BY <1>2 DEF ResponseInv, Past, bufferVars, loopVars
<1>4. CASE Request
  <2>1. /\ << >> \in Seq(0 .. MaxTicks) /\ Len(<< >>) = 0
        /\ NoView \in [alias : BOOLEAN, was : Seq(0 .. MaxTicks)]
    BY SeqEmpty DEF NoView
  <2>2. /\ view' \in [Namespaces -> [alias : BOOLEAN, was : Seq(0 .. MaxTicks)]]
        /\ response' \in [Namespaces -> Seq(0 .. MaxTicks)]
        /\ since' \in [Namespaces -> Nat]
        /\ toGet' \subseteq Namespaces
        /\ request' = "get"
    BY <1>4, <2>1 DEF Request
  <2>3. TypeOK'
    BY <1>1, <1>2, <2>2, Zenon DEF TypeOK, bufferVars, loopVars, stopVars
  <2>4. ASSUME NEW ns \in Namespaces
        PROVE  view'[ns].was = << >> /\ response'[ns] = << >> /\ ~view'[ns].alias
    <3>1. view'[ns] = NoView /\ response'[ns] = << >>
      BY <1>4 DEF Request
    <3>2. QED
      BY <3>1 DEF NoView
  <2>5. ViewOK' /\ ReadOK' /\ NeverOlder'
    BY <2>1, <2>4 DEF ViewOK, ReadOK, NeverOlder
  <2>6. QED
    BY <1>3, <2>3, <2>5 DEF ResponseInv
<1>5. CASE Answer
  <2>1. UNCHANGED <<toGet, view, response, since>> /\ request' = "answered"
    BY <1>5 DEF Answer
  <2>2. TypeOK'
    BY <1>1, <1>2, <2>1, Zenon DEF TypeOK, bufferVars, loopVars, stopVars
  <2>3. ViewOK' /\ ReadOK' /\ NeverOlder'
    BY <1>2, <2>1 DEF ResponseInv, ViewOK, ReadOK, NeverOlder, bufferVars
  <2>4. QED
    BY <1>3, <2>2, <2>3 DEF ResponseInv
<1>6. QED
  BY <1>4, <1>5

\* What getAll returns at the moment it returns.
LEMMA ViewTaken ==
  ASSUME BufferOK, NEW ns \in Namespaces
  PROVE  /\ InOrder(ns) \in Seq(0 .. MaxTicks)
         /\ Len(InOrder(ns)) \in Nat
         /\ Len(InOrder(ns)) <= Size
         /\ Aliased(ns) =>
              \A k \in 1 .. Len(InOrder(ns)) : InOrder(ns)[k] = entries[ns][k - 1]
<1> USE ConstantsAssumption
<1>1. /\ entries[ns] \in [Positions -> Snapshots]
      /\ i[ns] \in Positions
      /\ Filled(ns) \in {i[ns], Size}
  BY DEF BufferOK, Filled
<1>2. /\ InOrder(ns) \in Seq(Snapshots)
      /\ Len(InOrder(ns)) = Filled(ns)
      /\ \A k \in 1 .. Filled(ns) :
           InOrder(ns)[k] = entries[ns][Position(k, i[ns], Filled(ns))]
  BY <1>1, GetAllSeq DEF InOrder
<1>3. Filled(ns) \in Nat /\ Filled(ns) <= Size
  BY <1>1 DEF Positions
<1>4. Aliased(ns) => \A k \in 1 .. Filled(ns) : Position(k, i[ns], Filled(ns)) = k - 1
  <2>1. CASE ~full[ns]
    BY <1>1, <2>1 DEF Filled, Position, Positions
  <2>2. CASE full[ns] /\ i[ns] = 0
    BY <2>2 DEF Filled, Position
  <2>3. QED
    BY <2>1, <2>2 DEF Aliased
<1>5. QED
  BY <1>2, <1>3, <1>4 DEF Snapshots

LEMMA ResponseGetAll ==
  ASSUME ResponseInv, BufferOK', NEW ns \in Namespaces, GetAll(ns)
  PROVE  ResponseInv'
<1> USE ConstantsAssumption
<1>1. TypeOK /\ BufferOK
  BY DEF ResponseInv
<1>2. /\ UNCHANGED <<bufferVars, populated, loopVars, stopVars, response>>
      /\ view' = [view EXCEPT ![ns] = [alias |-> Aliased(ns), was |-> InOrder(ns)]]
      /\ since' = [since EXCEPT ![ns] = 0]
      /\ toGet' \subseteq Namespaces
      /\ request' \in {"get", "marshal"}
  BY <1>1 DEF TypeOK, GetAll
<1> DEFINE V == [alias |-> Aliased(ns), was |-> InOrder(ns)]
<1>3. V \in [alias : BOOLEAN, was : Seq(0 .. MaxTicks)]
  <2>1. Aliased(ns) \in BOOLEAN
    BY Zenon DEF Aliased
  <2>2. QED
    BY <1>1, <2>1, ViewTaken
<1>4. TypeOK'
  <2>1. view' \in [Namespaces -> [alias : BOOLEAN, was : Seq(0 .. MaxTicks)]]
    BY <1>1, <1>2, <1>3 DEF TypeOK
  <2>2. since' \in [Namespaces -> Nat]
    BY <1>1, <1>2 DEF TypeOK
  <2>3. QED
    BY <1>1, <1>2, <2>1, <2>2, Zenon DEF TypeOK, bufferVars, loopVars, stopVars
<1>5. Past'
  BY <1>2, Zenon DEF ResponseInv, Past, bufferVars, loopVars
<1>6. ASSUME NEW other \in Namespaces
      PROVE  /\ Len(view'[other].was) <= Size
             /\ view'[other].alias =>
                  \A k \in 1 .. Len(view'[other].was) :
                    view'[other].was[k] <= entries'[other][k - 1]
             /\ response'[other] = << >>
             /\ Len(response'[other]) <= Len(view'[other].was)
  <2>1. response'[other] = << >> /\ Len(<< >>) = 0
    BY <1>2, SeqEmpty DEF ResponseInv, ReadOK, GetAll
  <2>2. CASE other # ns
    <3>1. view'[other] = view[other] /\ entries' = entries
      BY <1>1, <1>2, <2>2 DEF TypeOK, bufferVars
    <3>2. QED
      BY <1>2, <2>1, <3>1 DEF ResponseInv, ViewOK, ReadOK
  <2>3. CASE other = ns
    <3>1. view'[ns] = V
      BY <1>1, <1>2 DEF TypeOK
    <3>2. /\ view'[ns].was = InOrder(ns)
          /\ view'[ns].alias => Aliased(ns)
          /\ entries' = entries
      <4>1. view'[ns].was = InOrder(ns)
        BY <3>1
      <4>2. view'[ns].alias => Aliased(ns)
        BY <3>1
      <4>3. entries' = entries
        BY <1>2 DEF bufferVars
      <4>4. QED
        BY <4>1, <4>2, <4>3
    <3>3. ASSUME Aliased(ns), NEW k \in 1 .. Len(InOrder(ns))
          PROVE  InOrder(ns)[k] <= entries[ns][k - 1]
      <4>1. InOrder(ns)[k] = entries[ns][k - 1]
        BY <1>1, <3>3, ViewTaken
      <4>2. InOrder(ns)[k] \in 0 .. MaxTicks
        BY <1>1, ViewTaken, SeqElement
      <4>3. QED
        BY <4>1, <4>2
    <3>4. QED
      BY <1>1, <2>1, <2>3, <3>2, <3>3, ViewTaken
  <2>4. QED
    BY <2>2, <2>3
<1>7. ViewOK' /\ ReadOK'
  BY <1>6 DEF ViewOK, ReadOK
<1>8. NeverOlder'
  BY <1>6, SeqEmpty DEF NeverOlder
<1>9. QED
  BY <1>4, <1>5, <1>7, <1>8 DEF ResponseInv

LEMMA ResponseMarshal ==
  ASSUME ResponseInv, BufferOK', NEW ns \in Namespaces, Marshal(ns)
  PROVE  ResponseInv'
<1> USE ConstantsAssumption
<1> DEFINE n == Len(response[ns]) + 1
           x == IF view[ns].alias THEN entries[ns][n - 1] ELSE view[ns].was[n]
<1>1. TypeOK /\ BufferOK
  BY DEF ResponseInv
<1>2. /\ UNCHANGED <<bufferVars, populated, loopVars, stopVars, request, toGet, view, since>>
      /\ response' = [response EXCEPT ![ns] = Append(response[ns], x)]
      /\ request = "marshal"
  BY DEF Marshal
<1>3. /\ response[ns] \in Seq(0 .. MaxTicks)
      /\ view[ns].was \in Seq(0 .. MaxTicks)
      /\ entries[ns] \in [Positions -> 0 .. MaxTicks]
  BY <1>1 DEF TypeOK
<1>4. /\ Len(response[ns]) \in Nat
      /\ Len(view[ns].was) \in Nat
      /\ Len(view[ns].was) <= Size
      /\ n \in 1 .. Len(view[ns].was)
  <2>1. Len(response[ns]) \in Nat /\ Len(view[ns].was) \in Nat
    BY <1>3, SeqLen
  <2>2. /\ Len(view[ns].was) <= Size
        /\ Len(response[ns]) <= Len(view[ns].was)
        /\ Len(response[ns]) # Len(view[ns].was)
    BY DEF ResponseInv, ViewOK, ReadOK, Marshal, Read
  <2>3. QED
    BY <2>1, <2>2
<1>5. view[ns].was[n] \in 0 .. MaxTicks
  BY <1>3, <1>4, SeqElement, Zenon
<1>6. x \in 0 .. MaxTicks /\ x >= view[ns].was[n]
  <2>1. CASE view[ns].alias
    <3>1. n - 1 \in Positions
      BY <1>4 DEF Positions
    <3>2. entries[ns][n - 1] \in 0 .. MaxTicks
      BY <1>3, <3>1
    <3>3. view[ns].was[n] <= entries[ns][n - 1]
      BY <1>4, <2>1, SMTT(30) DEF ResponseInv, ViewOK
    <3>4. QED
      BY <1>5, <2>1, <3>2, <3>3
  <2>2. CASE ~view[ns].alias
    BY <1>5, <2>2
  <2>3. QED
    BY <2>1, <2>2
<1> HIDE DEF x
<1>7. /\ Append(response[ns], x) \in Seq(0 .. MaxTicks)
      /\ Len(Append(response[ns], x)) = n
      /\ \A k \in 1 .. n - 1 : Append(response[ns], x)[k] = response[ns][k]
      /\ Append(response[ns], x)[n] = x
  BY <1>3, <1>4, <1>6, SeqAppend, SMTT(30)
<1>8. TypeOK'
  <2>1. response' \in [Namespaces -> Seq(0 .. MaxTicks)]
    BY <1>1, <1>2, <1>7 DEF TypeOK
  <2>2. QED
    BY <1>1, <1>2, <2>1, Zenon DEF TypeOK, bufferVars, loopVars, stopVars
<1>9. Past' /\ ViewOK'
  BY <1>2 DEF ResponseInv, Past, ViewOK, bufferVars, loopVars
<1>10. ASSUME NEW other \in Namespaces
       PROVE  /\ Len(response'[other]) <= Len(view[other].was)
              /\ \A k \in 1 .. Len(response'[other]) : response'[other][k] >= view[other].was[k]
  <2>1. CASE other # ns
    <3>1. response'[other] = response[other]
      BY <1>1, <1>2, <2>1 DEF TypeOK
    <3>2. QED
      BY <3>1 DEF ResponseInv, ReadOK, NeverOlder
  <2>2. CASE other = ns
    <3>1. response'[ns] = Append(response[ns], x)
      BY <1>1, <1>2 DEF TypeOK
    <3>2. ASSUME NEW k \in 1 .. n
          PROVE  Append(response[ns], x)[k] >= view[ns].was[k]
      <4>1. CASE k = n
        BY <1>6, <1>7, <4>1
      <4>2. CASE k # n
        <5>1. k \in 1 .. Len(response[ns]) /\ k \in 1 .. n - 1
          BY <1>4, <4>2
        <5>2. response[ns][k] >= view[ns].was[k]
          BY <5>1 DEF ResponseInv, NeverOlder
        <5>3. QED
          BY <1>7, <5>1, <5>2
      <4>3. QED
        BY <4>1, <4>2
    <3>3. Len(response'[ns]) = n /\ n <= Len(view[ns].was)
      BY <1>4, <1>7, <3>1
    <3>4. \A k \in 1 .. Len(response'[ns]) : response'[ns][k] >= view[ns].was[k]
      BY <3>1, <3>2, <3>3
    <3>5. QED
      BY <2>2, <3>3, <3>4
  <2>3. QED
    BY <2>1, <2>2
<1>11. ReadOK' /\ NeverOlder'
  BY <1>2, <1>10 DEF ReadOK, NeverOlder
<1>12. QED
  BY <1>8, <1>9, <1>11 DEF ResponseInv

\* Responses only get newer than what getAll saw: the invariant.
THEOREM ResponseInvariance == Spec => []ResponseInv
<1>1. ResponseInv /\ [Next]_vars => ResponseInv'
  <2> SUFFICES ASSUME ResponseInv, [Next]_vars PROVE ResponseInv'
    OBVIOUS
  <2>1. BufferOK'
    BY BufferStep DEF ResponseInv
  <2>2. CASE UNCHANGED vars
    BY <2>1, <2>2, Zenon DEF ResponseInv, TypeOK, Past, ViewOK, ReadOK, NeverOlder, vars,
                      bufferVars, loopVars, stopVars, requestVars
  <2>3. CASE ServeHTTP
    BY <2>1, <2>3, ResponseRequest, ResponseGetAll, ResponseMarshal DEF ServeHTTP
  <2>4. CASE Loop \/ (\E ns \in Namespaces : Register(ns)) \/ Stop \/ StopReturn
    BY <2>1, <2>4, ResponseOthers
  <2>5. CASE Request
    BY <2>1, <2>5, ResponseRequest
  <2>6. QED
    BY <2>2, <2>3, <2>4, <2>5, Zenon DEF Next
<1>2. QED
  BY ResponseInit, <1>1, PTL DEF Spec

\* Every variable keeps its type; the index stays within the array.
THEOREM TypeCorrect == Spec => []TypeOK
BY ResponseInvariance, PTL DEF ResponseInv

\* A response never mentions an older snapshot than getAll saw, although
\* json.Marshal reads the array without the lock.
THEOREM NotOlder == Spec => []NeverOlder
BY ResponseInvariance, PTL DEF ResponseInv

-----------------------------------------------------------------------------
(* Responses that are not overrun.                                         *)

Below(s, n) == \A k \in 1 .. Len(s) : s[k] < n

\* Adding a newer snapshot to an increasing sequence, and trimming it.
LEMMA IncreasingTrimmed ==
  ASSUME NEW s \in Seq(Snapshots), NEW e \in Snapshots, Increasing(s), Below(s, e)
  PROVE  LET t == Buffers!Trimmed(Append(s, e))
         IN  Increasing(t) /\ Below(t, e + 1)
<1> DEFINE a == Append(s, e)
<1> USE ConstantsAssumption
<1>0. Len(s) \in Nat /\ \A k \in 1 .. Len(s) : s[k] \in Nat
  <2>1. \A k \in 1 .. Len(s) : s[k] \in Snapshots
    BY SeqElement
  <2>2. QED
    BY <2>1, SeqLen DEF Snapshots
<1>1. /\ a \in Seq(Snapshots)
      /\ Len(a) = Len(s) + 1
      /\ a[Len(s) + 1] = e
      /\ \A k \in 1 .. Len(s) : a[k] = s[k]
  BY <1>0, SeqAppend
<1>2. e \in Nat
  BY DEF Snapshots
<1> HIDE DEF a
<1>3. ASSUME NEW k \in 1 .. Len(a)
      PROVE  a[k] < e + 1 /\ \A j \in 1 .. k - 1 : a[j] < a[k]
  <2>1. CASE k = Len(s) + 1
    BY <1>0, <1>1, <1>2, <2>1 DEF Below
  <2>2. CASE k \in 1 .. Len(s)
    <3>1. a[k] = s[k] /\ s[k] < e /\ s[k] \in Nat
      BY <1>0, <1>1, <2>2 DEF Below
    <3>2. ASSUME NEW j \in 1 .. k - 1 PROVE a[j] < a[k]
      <4>1. j \in 1 .. Len(s)
        BY <1>0, <2>2
      <4>2. s[j] < s[k]
        BY <2>2 DEF Increasing
      <4>3. QED
        BY <1>1, <3>1, <4>1, <4>2
    <3>3. QED
      BY <1>2, <3>1, <3>2
  <2>3. QED
    BY <1>0, <1>1, <2>1, <2>2
<1>4. CASE Buffers!Trimmed(a) = a
  BY <1>3, <1>4 DEF Increasing, Below, a
<1>5. CASE Buffers!Trimmed(a) = Tail(a)
  <2>1. a # << >>
    BY <1>0, <1>1
  <2>2. /\ Len(Tail(a)) = Len(s)
        /\ \A k \in 1 .. Len(s) : Tail(a)[k] = a[k + 1]
    BY <1>0, <1>1, <2>1, SeqHead
  <2>3. ASSUME NEW k \in 1 .. Len(s)
        PROVE  Tail(a)[k] < e + 1 /\ \A j \in 1 .. k - 1 : Tail(a)[j] < Tail(a)[k]
    <3>1. k + 1 \in 1 .. Len(a) /\ Tail(a)[k] = a[k + 1]
      BY <1>0, <1>1, <2>2
    <3>2. ASSUME NEW j \in 1 .. k - 1 PROVE Tail(a)[j] < Tail(a)[k]
      <4>1. j \in 1 .. Len(s) /\ j + 1 \in 1 .. (k + 1) - 1
        BY <1>0
      <4>2. a[j + 1] < a[k + 1]
        BY <1>3, <3>1, <4>1
      <4>3. QED
        BY <2>2, <3>1, <4>1, <4>2
    <3>3. QED
      BY <1>3, <3>1, <3>2
  <2>4. QED
    BY <1>5, <2>2, <2>3 DEF Increasing, Below, a
<1>6. QED
  BY <1>4, <1>5 DEF Buffers!Trimmed, a

\* The buffers hold snapshots in the order they were taken in, and the ones the
\* loop has not reached in this tick hold older ones only.
FreshOK ==
  \A ns \in Namespaces :
    /\ Increasing(InOrder(ns))
    /\ Below(InOrder(ns), ticks + 1)
    /\ ns \in pending => Below(InOrder(ns), ticks)

LEMMA FreshInit == Init => FreshOK
<1> SUFFICES ASSUME Init, NEW ns \in Namespaces
             PROVE  Increasing(InOrder(ns)) /\ \A n : Below(InOrder(ns), n)
  BY Zenon DEF FreshOK
<1>1. BufferOK
  BY BufferInit
<1>2. entries[ns] \in [Positions -> Snapshots] /\ i[ns] = 0 /\ i[ns] \in Positions
  BY <1>1 DEF Init, BufferOK
<1>3. Filled(ns) = 0
  BY <1>2 DEF Init, Filled
<1>4. Len(InOrder(ns)) = 0
  BY <1>2, <1>3, GetAllSeq DEF InOrder
<1>5. QED
  BY <1>4 DEF Increasing, Below

LEMMA FreshSame ==
  ASSUME FreshOK, UNCHANGED <<bufferVars, ticks, pending>>
  PROVE  FreshOK'
<1>1. \A ns \in Namespaces : InOrder(ns)' = InOrder(ns)
  BY Zenon DEF bufferVars, InOrder, Filled
<1>2. QED
  BY <1>1 DEF FreshOK

LEMMA FreshStep ==
  ASSUME BufferOK, FreshOK, [Next]_vars
  PROVE  FreshOK'
<1>1. CASE Tick
  <2>1. \A ns \in Namespaces : InOrder(ns)' = InOrder(ns)
    BY <1>1, Zenon DEF Tick, bufferVars, InOrder, Filled
  <2>2. ticks \in Nat /\ ticks' = ticks + 1
    BY <1>1, ConstantsAssumption DEF Tick, BufferOK, Snapshots
  <2>3. ASSUME NEW ns \in Namespaces
        PROVE  Below(InOrder(ns), ticks' + 1) /\ Below(InOrder(ns), ticks')
    <3>1. InOrder(ns) \in Seq(0 .. MaxTicks)
      BY ViewTaken
    <3>2. \A k \in 1 .. Len(InOrder(ns)) : InOrder(ns)[k] \in Nat
      <4>1. \A k \in 1 .. Len(InOrder(ns)) : InOrder(ns)[k] \in 0 .. MaxTicks
        BY <3>1, SeqElement, Zenon
      <4>2. QED
        BY <4>1
    <3>3. QED
      BY <2>2, <3>2 DEF FreshOK, Below
  <2>4. QED
    BY <2>1, <2>3 DEF FreshOK
<1>2. ASSUME NEW ns \in Namespaces, Collect(ns) PROVE FreshOK'
  <2>1. CASE ns \in populated
    <3>1. /\ add(ns, ticks) /\ ns \in pending /\ pending' = pending \ {ns}
          /\ ticks' = ticks
      BY <1>2, <2>1, Zenon DEF Collect
    <3>2. ticks \in Snapshots
      BY DEF BufferOK
    <3>3. /\ InOrder(ns)' = Buffers!Trimmed(Append(InOrder(ns), ticks))
          /\ \A other \in Namespaces \ {ns} : InOrder(other)' = InOrder(other)
      BY <3>1, <3>2, AddStep
    <3>4. InOrder(ns) \in Seq(Snapshots) /\ Increasing(InOrder(ns)) /\ Below(InOrder(ns), ticks)
      BY <3>1, ViewTaken DEF FreshOK, Snapshots
    <3>5. Increasing(InOrder(ns)') /\ Below(InOrder(ns)', ticks + 1)
      BY <3>2, <3>3, <3>4, IncreasingTrimmed
    <3>6. QED
      BY <3>1, <3>3, <3>5 DEF FreshOK
  <2>2. CASE ns \notin populated
    BY <1>2, <2>2, FreshSame, Zenon DEF Collect
  <2>3. QED
    BY <2>1, <2>2
<1>3. CASE Done
  BY <1>3, FreshSame DEF Done
<1>4. CASE \/ Stop \/ StopReturn \/ Request \/ ServeHTTP \/ UNCHANGED vars
           \/ \E ns \in Namespaces : Register(ns)
  BY <1>4, FreshSame
  DEF Stop, StopReturn, Request, ServeHTTP, Answer, GetAll, Marshal, Register, vars, loopVars
<1>5. QED
  BY <1>1, <1>2, <1>3, <1>4, Zenon DEF Next, Loop

\* Why InOrderUnlessOverrun holds.  A slice of the array ends where the next
\* snapshot goes, so as long as the slice and the snapshots added since fit into
\* the array together, none of its elements is replaced and what json.Marshal
\* reads is what getAll saw.
Untouched(ns) ==
  LET n == Len(view[ns].was) + since[ns] IN
    n <= Size =>
      /\ view[ns].alias =>
           /\ i[ns] = IF n = Size THEN 0 ELSE n
           /\ \A k \in 1 .. Len(view[ns].was) : entries[ns][k - 1] = view[ns].was[k]
      /\ \A k \in 1 .. Len(response[ns]) : response[ns][k] = view[ns].was[k]

OverrunInv ==
  \A ns \in Namespaces : Increasing(view[ns].was) /\ Untouched(ns)

LEMMA OverrunInit == Init => OverrunInv
<1> SUFFICES ASSUME Init, NEW ns \in Namespaces
             PROVE  Increasing(view[ns].was) /\ Untouched(ns)
  BY Zenon DEF OverrunInv
<1>1. view[ns] = NoView /\ response[ns] = << >>
  BY DEF Init
<1>2. view[ns].was = << >> /\ ~view[ns].alias /\ Len(<< >>) = 0
  BY <1>1, SeqEmpty DEF NoView
<1>3. QED
  BY <1>1, <1>2 DEF Increasing, Untouched

LEMMA OverrunSame ==
  ASSUME OverrunInv, UNCHANGED <<bufferVars, view, since, response>>
  PROVE  OverrunInv'
BY Zenon DEF OverrunInv, Untouched, bufferVars, Increasing

\* A snapshot is added behind the slice, or the slice is overrun.
LEMMA OverrunAdd ==
  ASSUME ResponseInv, OverrunInv, NEW ns \in Namespaces, NEW e \in Snapshots,
         add(ns, e), UNCHANGED requestVars
  PROVE  OverrunInv'
<1> USE ConstantsAssumption
<1>0. TypeOK /\ BufferOK /\ UNCHANGED <<view, response>>
  BY DEF ResponseInv, requestVars
<1> SUFFICES ASSUME NEW other \in Namespaces
             PROVE  Increasing(view[other].was) /\ Untouched(other)'
  BY <1>0, Zenon DEF OverrunInv
<1>1. Increasing(view[other].was) /\ Untouched(other)
  BY DEF OverrunInv
<1>2. CASE other # ns
  <2>1. entries'[other] = entries[other] /\ i'[other] = i[other] /\ since'[other] = since[other]
    BY <1>0, <1>2, SMTT(30) DEF add, BufferOK, TypeOK
  <2>2. QED
    BY <1>0, <1>1, <2>1, Zenon DEF Untouched
<1>3. CASE other = ns
  <2> DEFINE n == Len(view[ns].was) + since[ns]
  <2>1. /\ since'[ns] = since[ns] + 1 /\ since[ns] \in Nat
        /\ Len(view[ns].was) \in Nat /\ n \in Nat
    <3>1. view[ns].was \in Seq(0 .. MaxTicks)
      BY <1>0 DEF TypeOK
    <3>2. since'[ns] = since[ns] + 1 /\ since[ns] \in Nat
      BY <1>0, Zenon DEF add, TypeOK
    <3>3. QED
      BY <3>1, <3>2, SeqLen
  <2>2. CASE n + 1 > Size
    <3>1. Len(view'[ns].was) + since'[ns] = n + 1
      BY <1>0, <2>1, SMTT(30)
    <3>2. ~(Len(view'[ns].was) + since'[ns] <= Size)
      BY <2>1, <2>2, <3>1
    <3>3. QED
      BY <1>1, <1>3, <3>2, ZenonT(30) DEF Untouched
  <2>3. CASE n + 1 <= Size
    <3>1. n <= Size /\ n # Size
      BY <2>1, <2>3
    <3>2. \A k \in 1 .. Len(response[ns]) : response[ns][k] = view[ns].was[k]
      BY <1>1, <1>3, <3>1, Zenon DEF Untouched
    <3>3. ASSUME view[ns].alias
          PROVE  /\ i'[ns] = IF n + 1 = Size THEN 0 ELSE n + 1
                 /\ \A k \in 1 .. Len(view[ns].was) :
                      entries'[ns][k - 1] = view[ns].was[k]
      <4>1. /\ i[ns] = n
            /\ \A k \in 1 .. Len(view[ns].was) : entries[ns][k - 1] = view[ns].was[k]
        BY <1>1, <1>3, <3>1, <3>3, Zenon DEF Untouched
      <4>2. i'[ns] = IF n + 1 = Size THEN 0 ELSE n + 1
        BY <1>0, <4>1 DEF add, BufferOK
      <4>3. entries'[ns] = [entries[ns] EXCEPT ![n] = e]
        BY <1>0, <4>1 DEF add, BufferOK
      <4>4. entries[ns] \in [Positions -> Snapshots]
        BY <1>0 DEF BufferOK
      <4>5. ASSUME NEW k \in 1 .. Len(view[ns].was)
            PROVE  entries'[ns][k - 1] = entries[ns][k - 1]
        <5>1. k - 1 \in Positions /\ k - 1 # n
          BY <2>1, <3>1 DEF Positions
        <5>2. QED
          BY <4>3, <4>4, <5>1
      <4>6. QED
        BY <4>1, <4>2, <4>5, Zenon
    <3>4. Len(view'[ns].was) + since'[ns] = n + 1
      BY <1>0, <2>1
    <3>5. QED
      BY <1>0, <1>1, <1>3, <3>2, <3>3, <3>4, ZenonT(30) DEF Untouched
  <2>4. QED
    BY <2>1, <2>2, <2>3, SMTT(30)
<1>4. QED
  BY <1>2, <1>3

LEMMA OverrunGetAll ==
  ASSUME ResponseInv, FreshOK, OverrunInv, NEW ns \in Namespaces, GetAll(ns)
  PROVE  OverrunInv'
<1> USE ConstantsAssumption
<1> DEFINE V == [alias |-> Aliased(ns), was |-> InOrder(ns)]
<1>1. /\ TypeOK /\ BufferOK /\ UNCHANGED <<entries, i, full, response>>
      /\ view' = [view EXCEPT ![ns] = V]
      /\ since' = [since EXCEPT ![ns] = 0]
  BY DEF ResponseInv, GetAll, bufferVars
<1> SUFFICES ASSUME NEW other \in Namespaces
             PROVE  Increasing(view'[other].was) /\ Untouched(other)'
  BY Zenon DEF OverrunInv
<1>2. CASE other # ns
  <2>1. view'[other] = view[other] /\ since'[other] = since[other]
    BY <1>1, <1>2, Zenon DEF TypeOK
  <2>2. Increasing(view[other].was) /\ Untouched(other)
    BY DEF OverrunInv
  <2>3. QED
    BY <1>1, <2>1, <2>2, Zenon DEF Untouched
<1>3. CASE other = ns
  <2>1. view'[ns] = V /\ since'[ns] = 0
    BY <1>1, Zenon DEF TypeOK
  <2>2. view'[ns].was = InOrder(ns) /\ (view'[ns].alias => Aliased(ns))
    BY <2>1
  <2>3. Increasing(InOrder(ns))
    BY Zenon DEF FreshOK
  <2>4. response'[ns] = << >> /\ Len(<< >>) = 0
    BY <1>1, SeqEmpty DEF ResponseInv, ReadOK, GetAll
  <2>5. Len(InOrder(ns)) \in Nat
    BY <1>1, ViewTaken
  <2>6. ASSUME Aliased(ns)
        PROVE  /\ i[ns] = IF Len(InOrder(ns)) = Size THEN 0 ELSE Len(InOrder(ns))
               /\ \A k \in 1 .. Len(InOrder(ns)) : entries[ns][k - 1] = InOrder(ns)[k]
    <3>1. /\ entries[ns] \in [Positions -> Snapshots]
          /\ i[ns] \in Positions
          /\ Filled(ns) \in {i[ns], Size}
      BY <1>1 DEF BufferOK, Filled
    <3>2. Len(InOrder(ns)) = Filled(ns)
      BY <3>1, GetAllSeq, Zenon DEF InOrder
    <3>3. i[ns] = IF Filled(ns) = Size THEN 0 ELSE Filled(ns)
      BY <2>6, <3>1 DEF Aliased, Filled, Positions
    <3>4. QED
      BY <1>1, <2>6, <3>2, <3>3, ViewTaken, Zenon
  <2>7. Untouched(ns)'
    <3>1. Len(view'[ns].was) + since'[ns] = Len(InOrder(ns))
      BY <2>1, <2>2, <2>5
    <3>2. QED
      BY <1>1, <2>2, <2>4, <2>6, <3>1, SMTT(30) DEF Untouched
  <2>8. QED
    BY <1>3, <2>2, <2>3, <2>7
<1>4. QED
  BY <1>2, <1>3

LEMMA OverrunMarshal ==
  ASSUME ResponseInv, OverrunInv, NEW ns \in Namespaces, Marshal(ns)
  PROVE  OverrunInv'
<1> USE ConstantsAssumption
<1> DEFINE n == Len(response[ns]) + 1
           x == IF view[ns].alias THEN entries[ns][n - 1] ELSE view[ns].was[n]
<1>1. /\ TypeOK /\ UNCHANGED <<bufferVars, view, since>>
      /\ response' = [response EXCEPT ![ns] = Append(response[ns], x)]
  BY DEF ResponseInv, Marshal
<1>2. UNCHANGED <<entries, i>>
  BY <1>1 DEF bufferVars
<1> SUFFICES ASSUME NEW other \in Namespaces
             PROVE  Increasing(view[other].was) /\ Untouched(other)'
  BY <1>1, Zenon DEF OverrunInv
<1>3. Increasing(view[other].was) /\ Untouched(other)
  BY DEF OverrunInv
<1>4. CASE other # ns
  <2>1. response'[other] = response[other]
    BY <1>1, <1>4, Zenon DEF TypeOK
  <2>2. QED
    BY <1>1, <1>2, <1>3, <2>1, ZenonT(30) DEF Untouched
<1>5. CASE other = ns
  <2>1. /\ response[ns] \in Seq(0 .. MaxTicks)
        /\ view[ns].was \in Seq(0 .. MaxTicks)
    BY <1>1 DEF TypeOK
  <2>2. /\ Len(response[ns]) \in Nat /\ Len(view[ns].was) \in Nat
        /\ n \in 1 .. Len(view[ns].was)
    <3>1. Len(response[ns]) \in Nat /\ Len(view[ns].was) \in Nat
      BY <2>1, SeqLen
    <3>2. /\ Len(response[ns]) <= Len(view[ns].was)
          /\ Len(response[ns]) # Len(view[ns].was)
      BY DEF ResponseInv, ReadOK, Marshal, Read
    <3>3. QED
      BY <3>1, <3>2
  <2>3. ASSUME Len(view[ns].was) + since[ns] <= Size
        PROVE  \A k \in 1 .. Len(response'[ns]) : response'[ns][k] = view[ns].was[k]
    <3>1. x = view[ns].was[n]
      BY <1>3, <1>5, <2>2, <2>3, SMTT(30) DEF Untouched
    <3>2. view[ns].was[n] \in 0 .. MaxTicks
      BY <2>1, <2>2, SeqElement, Zenon
    <3> HIDE DEF x
    <3>3. /\ Len(Append(response[ns], x)) = n
          /\ \A k \in 1 .. n - 1 : Append(response[ns], x)[k] = response[ns][k]
          /\ Append(response[ns], x)[n] = x
      BY <2>1, <2>2, <3>1, <3>2, SeqAppend
    <3>4. response'[ns] = Append(response[ns], x)
      BY <1>1 DEF TypeOK
    <3>5. \A k \in 1 .. n - 1 : response[ns][k] = view[ns].was[k]
      BY <1>3, <1>5, <2>2, <2>3 DEF Untouched
    <3>6. QED
      BY <2>2, <3>1, <3>3, <3>4, <3>5, SMTT(30)
  <2>4. QED
    BY <1>1, <1>2, <1>3, <1>5, <2>3 DEF Untouched
<1>6. QED
  BY <1>4, <1>5

LEMMA OverrunStep ==
  ASSUME ResponseInv, FreshOK, OverrunInv, [Next]_vars
  PROVE  OverrunInv'
<1>1. ASSUME NEW ns \in Namespaces, Collect(ns) PROVE OverrunInv'
  <2>1. CASE ns \in populated
    <3>1. add(ns, ticks) /\ UNCHANGED requestVars
      BY <1>1, <2>1, Zenon DEF Collect
    <3>2. ticks \in Snapshots
      BY DEF ResponseInv, BufferOK
    <3>3. QED
      BY <3>1, <3>2, OverrunAdd
  <2>2. CASE ns \notin populated
    BY <1>1, <2>2, OverrunSame, Zenon DEF Collect, requestVars
  <2>3. QED
    BY <2>1, <2>2
<1>2. CASE Request
  <2> SUFFICES ASSUME NEW ns \in Namespaces
               PROVE  Increasing(view'[ns].was) /\ Untouched(ns)'
    BY Zenon DEF OverrunInv
  <2>1. view'[ns] = NoView /\ response'[ns] = << >>
    BY <1>2 DEF Request
  <2>2. view'[ns].was = << >> /\ ~view'[ns].alias /\ Len(<< >>) = 0
    BY <2>1, SeqEmpty DEF NoView
  <2>3. QED
    BY <2>1, <2>2 DEF Increasing, Untouched
<1>3. ASSUME NEW ns \in Namespaces, GetAll(ns) \/ Marshal(ns) PROVE OverrunInv'
  BY <1>3, OverrunGetAll, OverrunMarshal
<1>4. CASE \/ Tick \/ Done \/ Stop \/ StopReturn \/ Answer \/ UNCHANGED vars
           \/ \E ns \in Namespaces : Register(ns)
  BY <1>4, OverrunSame
  DEF Tick, Done, Stop, StopReturn, Answer, Register, vars, requestVars
<1>5. QED
  BY <1>1, <1>2, <1>3, <1>4, Zenon DEF Next, Loop, ServeHTTP

\* A response is in order as long as the snapshots added while it was read do
\* not reach the slice of the array that getAll handed out.
THEOREM InOrderUntilOverrun == Spec => []InOrderUnlessOverrun
<1>1. ResponseInv /\ FreshOK /\ [Next]_vars => FreshOK'
  BY FreshStep DEF ResponseInv
<1>2. ResponseInv /\ FreshOK /\ OverrunInv /\ [Next]_vars => OverrunInv'
  BY OverrunStep
<1>3. ResponseInv /\ OverrunInv => InOrderUnlessOverrun
  <2> SUFFICES ASSUME ResponseInv, OverrunInv, NEW ns \in Namespaces,
                      Len(view[ns].was) + since[ns] <= Size
               PROVE  Increasing(response[ns])
    BY Zenon DEF InOrderUnlessOverrun
  <2>1. Len(response[ns]) \in Nat /\ Len(view[ns].was) \in Nat
    BY SeqLen DEF ResponseInv, TypeOK
  <2>2. Len(response[ns]) <= Len(view[ns].was)
    BY DEF ResponseInv, ReadOK
  <2>3. /\ Increasing(view[ns].was)
        /\ \A k \in 1 .. Len(response[ns]) : response[ns][k] = view[ns].was[k]
    BY DEF OverrunInv, Untouched
  <2>4. ASSUME NEW k \in 1 .. Len(response[ns]), NEW j \in 1 .. k - 1
        PROVE  response[ns][j] < response[ns][k]
    <3>1. k \in 1 .. Len(view[ns].was) /\ j \in 1 .. Len(response[ns])
      BY <2>1, <2>2
    <3>2. view[ns].was[j] < view[ns].was[k]
      BY <2>3, <3>1, Zenon DEF Increasing
    <3>3. QED
      BY <2>3, <3>1, <3>2, Zenon
  <2>5. QED
    BY <2>4, Zenon DEF Increasing
<1>4. QED
  BY <1>1, <1>2, <1>3, FreshInit, OverrunInit, ResponseInvariance, PTL DEF Spec
=============================================================================
