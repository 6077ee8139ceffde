------------------------------ MODULE Reporter ------------------------------
(***************************************************************************)
(* The buffering reporter (src/monitoring/report/buffer): a goroutine adds *)
(* a snapshot of each monitored registry to the registry's ring buffer at  *)
(* every tick, ServeHTTP answers with the contents of all buffers, and     *)
(* Stop ends the goroutine.                                                *)
(*                                                                         *)
(* add and getAll hold the lock of a buffer and are one step each.  getAll *)
(* returns a slice of the buffer's own array unless the buffer has wrapped *)
(* around, and json.Marshal reads that slice later, without the lock, an   *)
(* element at a time.  A snapshot is the number of the tick it was taken   *)
(* at; requests do not affect each other, so there is one at a time.       *)
(***************************************************************************)
EXTENDS Integers, Sequences

CONSTANTS
  Namespaces,  \* r.config.Namespaces
  Size,        \* r.config.Size
  Populated,   \* the namespaces whose registry has a variable from the start
  MaxTicks     \* bound on the number of ticks

ASSUME ConstantsAssumption ==
  /\ Size \in Nat \ {0, 1}
  /\ Populated \subseteq Namespaces
  /\ MaxTicks \in Nat

Nil == 0
Positions == 0 .. Size - 1

VARIABLES
  entries,     \* ringBuffer.entries of each namespace
  i,           \* ringBuffer.i
  full,        \* ringBuffer.full
  populated,   \* the namespaces whose registry is not empty
  loop,        \* where snapshotLoop is
  pending,     \* the namespaces the loop over r.registries has not reached
  ticks,       \* number of ticks received
  closed,      \* r.done is closed
  stopper,     \* where the caller of Stop is
  request,     \* where ServeHTTP is
  toGet,       \* the namespaces whose getAll it has not called
  view,        \* what getAll returned
  since,       \* number of entries added to the buffer since then
  response     \* what json.Marshal has read

bufferVars == <<entries, i, full>>
loopVars == <<loop, pending, ticks>>
stopVars == <<closed, stopper>>
requestVars == <<request, toGet, view, response>>
vars == <<bufferVars, populated, loopVars, stopVars, requestVars, since>>

\* A slice of the array, or a copy of its entries.
NoView == [alias |-> FALSE, was |-> << >>]

TypeOK ==
  /\ entries \in [Namespaces -> [Positions -> 0 .. MaxTicks]]
  /\ i \in [Namespaces -> Positions]
  /\ full \in [Namespaces -> BOOLEAN]
  /\ populated \subseteq Namespaces
  /\ loop \in {"select", "collect", "returned", "panicked"}
  /\ pending \subseteq Namespaces
  /\ ticks \in 0 .. MaxTicks
  /\ closed \in BOOLEAN
  /\ stopper \in {"idle", "wait", "returned"}
  /\ request \in {"idle", "get", "marshal", "answered"}
  /\ toGet \subseteq Namespaces
  /\ since \in [Namespaces -> Nat]
  /\ view \in [Namespaces -> [alias : BOOLEAN, was : Seq(0 .. MaxTicks)]]
  /\ response \in [Namespaces -> Seq(0 .. MaxTicks)]

Init ==
  /\ entries = [ns \in Namespaces |-> [p \in Positions |-> Nil]]
  /\ i = [ns \in Namespaces |-> 0]
  /\ full = [ns \in Namespaces |-> FALSE]
  /\ populated = Populated
  /\ loop = "select"
  /\ pending = {}
  /\ ticks = 0
  /\ closed = FALSE
  /\ stopper = "idle"
  /\ request = "idle"
  /\ toGet = {}
  /\ since = [ns \in Namespaces |-> 0]
  /\ view = [ns \in Namespaces |-> NoView]
  /\ response = [ns \in Namespaces |-> << >>]

\* A panic in a goroutine ends the process.
Running == loop # "panicked"

-----------------------------------------------------------------------------
(* The ring buffer.                                                        *)

\* Mutation: the oldest entries are put behind the newest.
getAllUnordered(buffer, next, filled) == [k \in 1 .. filled |-> buffer[k - 1]]

\* The position of the k-th entry: in a full buffer from the next one to be
\* overwritten to the end of the array, and on from its start.
Position(k, next, filled) ==
  LET p == IF filled = Size THEN next + k - 1 ELSE k - 1
  IN  IF p < Size THEN p ELSE p - Size

\* What getAll returns, entry by entry.
getAll(buffer, next, filled) ==
  [k \in 1 .. filled |-> buffer[Position(k, next, filled)]]

Filled(ns) == IF full[ns] THEN Size ELSE i[ns]

InOrder(ns) == getAll(entries[ns], i[ns], Filled(ns))

\* getAll copies only when the buffer has wrapped around.
Aliased(ns) == ~full[ns] \/ i[ns] = 0

\* Mutation: the buffer is full when the index reaches its last position.
addEarlyFull(ns, entry) ==
  /\ entries' = [entries EXCEPT ![ns][i[ns]] = entry]
  /\ i' = [i EXCEPT ![ns] = IF i[ns] + 1 = Size THEN 0 ELSE i[ns] + 1]
  /\ full' = [full EXCEPT ![ns] = full[ns] \/ i[ns] + 1 = Size - 1]
  /\ since' = [since EXCEPT ![ns] = since[ns] + 1]

add(ns, entry) ==
  /\ entries' = [entries EXCEPT ![ns][i[ns]] = entry]
  /\ i' = [i EXCEPT ![ns] = IF i[ns] + 1 = Size THEN 0 ELSE i[ns] + 1]
  /\ full' = [full EXCEPT ![ns] = full[ns] \/ i[ns] + 1 = Size]
  /\ since' = [since EXCEPT ![ns] = since[ns] + 1]

-----------------------------------------------------------------------------
(* snapshotLoop.                                                           *)

Tick ==
  /\ loop = "select"
  /\ ticks < MaxTicks
  /\ ticks' = ticks + 1
  /\ loop' = "collect"
  /\ pending' = Namespaces
  /\ UNCHANGED <<bufferVars, populated, stopVars, requestVars, since>>

\* Mutation: the loop goes on when r.done is closed.
DoneNot ==
  /\ loop = "select"
  /\ closed
  /\ UNCHANGED vars

Done ==
  /\ loop = "select"
  /\ closed
  /\ loop' = "returned"
  /\ UNCHANGED <<bufferVars, populated, pending, ticks, stopVars, requestVars, since>>

\* The snapshot of an empty registry is a nil map, and setting its timestamp
\* panics; the loop visits the registries in any order.
Collect(ns) ==
  /\ loop = "collect"
  /\ ns \in pending
  /\ IF ns \in populated
     THEN /\ add(ns, ticks)
          /\ pending' = pending \ {ns}
          /\ loop' = IF pending' = {} THEN "select" ELSE "collect"
     ELSE /\ loop' = "panicked"
          /\ UNCHANGED <<bufferVars, since, pending>>
  /\ UNCHANGED <<populated, ticks, stopVars, requestVars>>

\* A variable is added to a registry.
Register(ns) ==
  /\ Running
  /\ ns \notin populated
  /\ populated' = populated \union {ns}
  /\ UNCHANGED <<bufferVars, loopVars, stopVars, requestVars, since>>

-----------------------------------------------------------------------------
(* Stop, which the owner of the reporter calls once.                       *)

Stop ==
  /\ Running
  /\ stopper = "idle"
  /\ closed' = TRUE
  /\ stopper' = "wait"
  /\ UNCHANGED <<bufferVars, populated, loopVars, requestVars, since>>

StopReturn ==
  /\ stopper = "wait"
  /\ loop = "returned"
  /\ stopper' = "returned"
  /\ UNCHANGED <<bufferVars, populated, loopVars, closed, requestVars, since>>

-----------------------------------------------------------------------------
(* ServeHTTP.                                                              *)

\* A request arrives; the response is a new map.
Request ==
  /\ Running
  /\ request \in {"idle", "answered"}
  /\ request' = "get"
  /\ toGet' = Namespaces
  /\ view' = [ns \in Namespaces |-> NoView]
  /\ response' = [ns \in Namespaces |-> << >>]
  /\ since' = [ns \in Namespaces |-> 0]
  /\ UNCHANGED <<bufferVars, populated, loopVars, stopVars>>

GetAll(ns) ==
  /\ Running
  /\ request = "get"
  /\ ns \in toGet
  /\ toGet' = toGet \ {ns}
  /\ request' = IF toGet' = {} THEN "marshal" ELSE "get"
  /\ view' = [view EXCEPT ![ns] = [alias |-> Aliased(ns), was |-> InOrder(ns)]]
  /\ since' = [since EXCEPT ![ns] = 0]
  /\ UNCHANGED <<bufferVars, populated, loopVars, stopVars, response>>

Read(ns) == Len(response[ns]) = Len(view[ns].was)

\* json.Marshal reads the next element of a slice, from the array as it is now
\* when the slice is the array's.  The order of the namespaces is left open.
Marshal(ns) ==
  /\ Running
  /\ request = "marshal"
  /\ ~Read(ns)
  /\ LET k == Len(response[ns]) + 1 IN
       response' = [response EXCEPT ![ns] =
                      Append(@, IF view[ns].alias THEN entries[ns][k - 1]
                                ELSE view[ns].was[k])]
  /\ UNCHANGED <<bufferVars, populated, loopVars, stopVars, request, toGet, view, since>>

Answer ==
  /\ Running
  /\ request = "marshal"
  /\ \A ns \in Namespaces : Read(ns)
  /\ request' = "answered"
  /\ UNCHANGED <<bufferVars, populated, loopVars, stopVars, toGet, view, response, since>>

-----------------------------------------------------------------------------

Loop == Tick \/ Done \/ \E ns \in Namespaces : Collect(ns)
ServeHTTP == Answer \/ \E ns \in Namespaces : GetAll(ns) \/ Marshal(ns)

Next ==
  \/ Loop
  \/ \E ns \in Namespaces : Register(ns)
  \/ Stop
  \/ StopReturn
  \/ Request
  \/ ServeHTTP

Spec == Init /\ [][Next]_vars

\* The goroutines are scheduled, and select, which picks at random among what is
\* ready, does not ignore r.done for ever.  Nobody has to stop the reporter or to
\* send a request.
FairSpec ==
  /\ Spec
  /\ WF_vars(Loop)
  /\ SF_vars(Done)
  /\ WF_vars(StopReturn)
  /\ WF_vars(ServeHTTP)

-----------------------------------------------------------------------------
(* Properties.                                                             *)

Buffers == INSTANCE RecentEntries
  WITH Entries <- 1 .. MaxTicks,
       recent  <- [ns \in Namespaces |-> InOrder(ns)]

\* What getAll would return is at all times the last Size snapshots of the
\* namespace, oldest first, while the index wraps around.
KeepsMostRecent == Buffers!Spec

Increasing(s) == \A k \in 1 .. Len(s) : \A j \in 1 .. k - 1 : s[j] < s[k]

\* A response is in order unless, while it was being read, so many snapshots were
\* added that they reached the slice getAll had returned.
InOrderUnlessOverrun ==
  \A ns \in Namespaces :
    Len(view[ns].was) + since[ns] <= Size => Increasing(response[ns])

\* A response never mentions an older snapshot than getAll saw.
NeverOlder ==
  \A ns \in Namespaces :
    \A k \in 1 .. Len(response[ns]) : response[ns][k] >= view[ns].was[k]

\* Once Stop has returned the buffers do not change any more.
QuietAfterStop == [][stopper # "returned"]_bufferVars

\* Stop returns, unless snapshotLoop panics.
StopReturns == stopper = "wait" ~> stopper = "returned" \/ ~Running

\* What the comments of getAll and ringBuffer say: a thread-safe buffer whose
\* entries are returned "in order".
ResponseInOrder == \A ns \in Namespaces : Increasing(response[ns])
=============================================================================
