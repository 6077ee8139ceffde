-------------------------- MODULE LifecycleProofs ---------------------------
(***************************************************************************)
(* Proofs about the parts that start, run and stop, for all values of the  *)
(* constants: the periodic doer, the service, the API server, the          *)
(* in-memory listener and the file watcher.                                *)
(***************************************************************************)
EXTENDS Lifecycle, TLAPS

\* A sequence with one more element.
LEMMA SeqAppend ==
  ASSUME NEW S, NEW s \in Seq(S), NEW x \in S
  PROVE  /\ Append(s, x) \in Seq(S) /\ Len(Append(s, x)) = Len(s) + 1
         /\ \A k \in 1 .. Len(s) : Append(s, x)[k] = s[k]
         /\ Append(s, x)[Len(s) + 1] = x
OBVIOUS

LEMMA DiskRecords ==
  \A d \in {[there |-> FALSE, mtime |-> 0, version |-> 0], [there |-> TRUE, mtime |-> 2, version |-> 1]} :
    /\ d \in [there : BOOLEAN, mtime : Nat, version : Nat]
    /\ d.there <=> d.version # 0
    /\ d.mtime > -1
<1> DEFINE a == [there |-> FALSE, mtime |-> 0, version |-> 0]
           b == [there |-> TRUE, mtime |-> 2, version |-> 1]
<1>1. {a, b} \subseteq [there : BOOLEAN, mtime : Nat, version : Nat]
  OBVIOUS
<1>2. a.there = FALSE /\ a.version = 0 /\ b.there = TRUE /\ b.version # 0
  OBVIOUS
<1>3. a.mtime > -1 /\ b.mtime > -1
  OBVIOUS
<1> HIDE DEF a, b
<1>4. \A d \in {a, b} : (d.there <=> d.version # 0) /\ d.mtime > -1
  BY <1>2, <1>3, Zenon
<1>5. QED
  BY <1>1, <1>4, Zenon DEF a, b

LEMMA AppendedPath ==
  \A s \in Seq(Watch!Paths) : \A f \in Watch!Paths :
    /\ Append(s, f) \in Seq(Watch!Paths)
    /\ \A h : (\E k \in DOMAIN Append(s, f) : Append(s, f)[k] = h)
               <=> (\E k \in DOMAIN s : s[k] = h) \/ h = f
BY SMTT(30)

LEMMA BelowNext == \A n \in Nat : \A k \in Nat : k < n + 1 <=> k < n \/ k = n
OBVIOUS

-----------------------------------------------------------------------------
(* The in-memory listener.                                                 *)

\* The pipe of a dialer that waits or has connected is open; who was accepted
\* by an Accept has connected, and was accepted by no other.
PipeInv ==
  /\ dial \in [Dialers -> {"idle", "waiting", "connected", "closed", "canceled"}]
  /\ accept \in [Acceptors -> {"idle", "waiting", "closed", "accepted"}]
  /\ conn \in [Acceptors -> Dialers \union {None}]
  /\ ends \in [Dialers -> {"none", "open", "shut"}]
  /\ \A d \in Dialers : dial[d] \in {"waiting", "connected"} => ends[d] = "open"
  /\ \A d \in Dialers : dial[d] \in {"closed", "canceled"} => ends[d] = "shut"
  /\ \A a \in Acceptors : conn[a] # None => accept[a] = "accepted" /\ dial[conn[a]] = "connected"
  /\ \A d \in Dialers : dial[d] = "connected" => \E a \in Acceptors : conn[a] = d
  /\ \A a, b \in Acceptors : conn[a] # None /\ conn[a] = conn[b] => a = b

LEMMA PipeInit == Pipe!Init => PipeInv
BY LifecycleAssumption DEF Pipe!Init, PipeInv

\* Nobody but a waiting dialer changes hands or fails.
LEMMA PipeStep == PipeInv /\ [Pipe!Next]_(Pipe!vars) => PipeInv'
<1> SUFFICES ASSUME PipeInv, [Pipe!Next]_(Pipe!vars) PROVE PipeInv'
  OBVIOUS
<1>0. None \notin Dialers
  BY LifecycleAssumption, Zenon
<1>1. ASSUME NEW d \in Dialers, Pipe!DialContext(d)
      PROVE  PipeInv'
  BY <1>0, <1>1 DEF Pipe!DialContext, PipeInv
<1>2. ASSUME NEW d \in Dialers, Pipe!Cancel(d)
      PROVE  PipeInv'
  BY <1>2, ZenonT(30) DEF Pipe!Cancel, PipeInv
<1>3. ASSUME NEW d \in Dialers, Pipe!DialClosed(d) \/ Pipe!DialCanceled(d)
      PROVE  PipeInv'
  BY <1>0, <1>3 DEF Pipe!DialClosed, Pipe!DialCanceled, Pipe!Fails, PipeInv
<1>4. ASSUME NEW d \in Dialers, NEW a \in Acceptors, Pipe!Meet(d, a)
      PROVE  PipeInv'
  BY <1>0, <1>4 DEF Pipe!Meet, PipeInv
<1>5. ASSUME NEW a \in Acceptors, Pipe!Accept(a) \/ Pipe!AcceptClosed(a)
      PROVE  PipeInv'
  BY <1>5 DEF Pipe!Accept, Pipe!AcceptClosed, PipeInv
<1>6. CASE Pipe!Close \/ UNCHANGED Pipe!vars
  BY <1>6 DEF Pipe!Close, Pipe!vars, PipeInv
<1>7. QED
  BY <1>1, <1>2, <1>3, <1>4, <1>5, <1>6 DEF Pipe!Next, Pipe!Step

LEMMA PipePairs == PipeInv => Pipe!PairsExact
<1> SUFFICES ASSUME PipeInv, NEW d \in Dialers
             PROVE  /\ IF dial[d] = "connected"
                       THEN \E a \in Acceptors : {b \in Acceptors : conn[b] = d} = {a}
                       ELSE {b \in Acceptors : conn[b] = d} = {}
                    /\ dial[d] \in {"closed", "canceled"} => ends[d] = "shut"
                    /\ dial[d] = "connected" => ends[d] = "open"
  BY Zenon DEF Pipe!PairsExact
<1>1. d # None
  BY LifecycleAssumption, Zenon
<1>2. CASE dial[d] = "connected"
  <2>1. PICK a \in Acceptors : conn[a] = d
    BY <1>2, Zenon DEF PipeInv
  <2>2. {b \in Acceptors : conn[b] = d} = {a}
    BY <1>1, <2>1 DEF PipeInv
  <2>3. QED
    BY <1>2, <2>2, Zenon DEF PipeInv
<1>3. CASE dial[d] # "connected"
  BY <1>1, <1>3 DEF PipeInv
<1>4. QED
  BY <1>2, <1>3, Zenon

-----------------------------------------------------------------------------
(* The periodic doer, for every period, counter width and number of        *)
(* events.                                                                 *)

\* Where the owner and the goroutine are relative to each other.
Handshake ==
  /\ started /\ owner = "idle" => runner # "none" /\ ~closed
  /\ ~started /\ owner = "idle" => runner = "none"
  /\ owner \in {"make", "spawn"} => started /\ runner = "none"
  /\ owner = "spawn" => ~closed
  /\ owner = "close" => ~started /\ runner # "none" /\ ~closed
  /\ owner = "wait" => ~started
  /\ stopping /\ runner # "none" => owner = "wait"
  /\ runner = "call" \/ inHand = 0

\* What is left of the promise of Stop: nothing outside Stop, and inside it what
\* the goroutine is about to report.
Promise ==
  /\ promised <= added
  /\ owner \notin {"close", "wait"} => promised <= delivered + wrapped
  /\ owner = "wait" /\ runner = "none" => promised <= delivered + wrapped
  /\ stopping /\ runner = "call" => promised <= delivered + inHand + wrapped

Inv ==
  /\ TypeOK
  /\ NothingLost
  /\ Handshake
  /\ Promise

LEMMA InitInv == Init => Inv
<1> SUFFICES ASSUME Init PROVE Inv
  OBVIOUS
<1>1. TypeOK
  <2>1. 0 \in 0 .. Modulus - 1 /\ 0 \in 0 .. Period - 1 /\ Period \in 0 .. Period /\ 0 \in Nat
    BY ConstantsAssumption
  <2>2. QED
    BY <2>1, Zenon DEF Init, TypeOK
<1>2. NothingLost /\ Promise
  BY DEF Init, NothingLost, Promise
<1>3. Handshake
  BY DEF Init, Handshake
<1>4. QED
  BY <1>1, <1>2, <1>3 DEF Inv

LEMMA AddInv ==
  ASSUME Inv, NEW n \in 1 .. Modulus - 1, AddN(n)
  PROVE  Inv'
<1> USE ConstantsAssumption
<1>1. TypeOK'
  BY DEF Inv, TypeOK, AddN, ownerVars, runnerVars, timeVars
<1>2. NothingLost'
  BY DEF Inv, TypeOK, NothingLost, AddN, ownerVars, runnerVars, timeVars
<1>3. Handshake'
  BY DEF Inv, TypeOK, Handshake, AddN, ownerVars, runnerVars, timeVars
<1>4. Promise'
  BY DEF Inv, TypeOK, Promise, AddN, ownerVars, runnerVars, timeVars
<1>5. QED
  BY <1>1, <1>2, <1>3, <1>4 DEF Inv

LEMMA OwnerInv ==
  ASSUME Inv, Start \/ Stop \/ Owner
  PROVE  Inv'
<1> USE ConstantsAssumption
<1> USE DEF runnerVars, timeVars, eventVars
<1>1. CASE Start
  <2>1. TypeOK'
    BY <1>1 DEF Inv, TypeOK, Start
  <2>2. NothingLost' /\ Promise'
    BY <1>1 DEF Inv, TypeOK, NothingLost, Promise, Start
  <2>3. Handshake'
    <3>1. CASE started
      <4>1. /\ owner' = "idle" /\ owner = "idle" /\ started'
            /\ UNCHANGED <<closed, runner, stopping, inHand>>
        BY <1>1, <3>1, Zenon DEF Start
      <4>2. QED
        BY <3>1, <4>1 DEF Inv, Handshake
    <3>2. CASE ~started
      <4>1. /\ owner' = "make" /\ owner = "idle" /\ started'
            /\ UNCHANGED <<closed, runner, stopping, inHand>>
        BY <1>1, <3>2, Zenon DEF Start
      <4>2. QED
        BY <3>2, <4>1 DEF Inv, Handshake
    <3>3. QED
      BY <3>1, <3>2
  <2>4. QED
    BY <2>1, <2>2, <2>3 DEF Inv
<1>2. CASE Stop
  <2>1. TypeOK'
    BY <1>2, Zenon DEF Inv, TypeOK, Stop
  <2>2. NothingLost' /\ Handshake' /\ Promise'
    BY <1>2 DEF Inv, TypeOK, NothingLost, Handshake, Promise, Stop
  <2>3. QED
    BY <2>1, <2>2 DEF Inv
<1>3. CASE StartMake
  <2>1. TypeOK'
    <3>1. 0 \in 0 .. Period - 1
      OBVIOUS
    <3>2. QED
      BY <1>3, <3>1, Zenon DEF Inv, TypeOK, StartMake
  <2>2. NothingLost' /\ Handshake' /\ Promise'
    BY <1>3 DEF Inv, TypeOK, NothingLost, Handshake, Promise, StartMake
  <2>3. QED
    BY <2>1, <2>2 DEF Inv
<1>4. CASE StartSpawn
  <2>1. TypeOK'
    BY <1>4, Zenon DEF Inv, TypeOK, StartSpawn
  <2>2. NothingLost' /\ Handshake' /\ Promise'
    BY <1>4 DEF Inv, TypeOK, NothingLost, Handshake, Promise, StartSpawn
  <2>3. QED
    BY <2>1, <2>2 DEF Inv
<1>5. CASE StopClose
  <2>1. TypeOK'
    BY <1>5 DEF Inv, TypeOK, StopClose
  <2>2. NothingLost' /\ Handshake' /\ Promise'
    BY <1>5 DEF Inv, TypeOK, NothingLost, Handshake, Promise, StopClose
  <2>3. QED
    BY <2>1, <2>2 DEF Inv
<1>6. CASE StopWait
  <2>1. TypeOK'
    BY <1>6 DEF Inv, TypeOK, StopWait
  <2>2. NothingLost' /\ Handshake' /\ Promise'
    BY <1>6 DEF Inv, TypeOK, NothingLost, Handshake, Promise, StopWait
  <2>3. QED
    BY <2>1, <2>2 DEF Inv
<1>7. QED
  BY <1>1, <1>2, <1>3, <1>4, <1>5, <1>6 DEF Owner

LEMMA RunnerInv ==
  ASSUME Inv, Runner
  PROVE  Inv'
<1> USE ConstantsAssumption
<1> USE DEF ownerVars, timeVars, eventVars
<1>1. CASE SelectTick
  <2>1. TypeOK'
    BY <1>1, Zenon DEF Inv, TypeOK, SelectTick
  <2>2. NothingLost' /\ Handshake' /\ Promise'
    BY <1>1 DEF Inv, TypeOK, NothingLost, Handshake, Promise, SelectTick
  <2>3. QED
    BY <2>1, <2>2 DEF Inv
<1>2. CASE SelectDone
  <2>1. TypeOK'
    BY <1>2 DEF Inv, TypeOK, SelectDone
  <2>2. NothingLost' /\ Handshake' /\ Promise'
    BY <1>2 DEF Inv, TypeOK, NothingLost, Handshake, Promise, SelectDone
  <2>3. QED
    BY <2>1, <2>2 DEF Inv
<1>3. CASE DoSwap
  <2>1. TypeOK'
    BY <1>3 DEF Inv, TypeOK, DoSwap, AfterDo
  <2>2. NothingLost' /\ Handshake'
    BY <1>3 DEF Inv, TypeOK, NothingLost, Handshake, DoSwap, AfterDo
  <2>3. Promise'
    BY <1>3 DEF Inv, TypeOK, NothingLost, Handshake, Promise, DoSwap, AfterDo
  <2>4. QED
    BY <2>1, <2>2, <2>3 DEF Inv
<1>4. CASE DoCall
  <2>1. TypeOK'
    BY <1>4 DEF Inv, TypeOK, DoCall, AfterDo
  <2>2. NothingLost' /\ Handshake'
    BY <1>4 DEF Inv, TypeOK, NothingLost, Handshake, DoCall, AfterDo
  <2>3. Promise'
    BY <1>4 DEF Inv, TypeOK, NothingLost, Handshake, Promise, DoCall, AfterDo
  <2>4. QED
    BY <2>1, <2>2, <2>3 DEF Inv
<1>5. QED
  BY <1>1, <1>2, <1>3, <1>4 DEF Runner

LEMMA TimeInv ==
  ASSUME Inv, Time
  PROVE  Inv'
<1> USE ConstantsAssumption
<1>1. TypeOK'
  BY DEF Inv, TypeOK, Time, ownerVars, runnerVars, eventVars
<1>2. NothingLost' /\ Handshake' /\ Promise'
  BY DEF Inv, NothingLost, Handshake, Promise, Time, ownerVars, runnerVars, eventVars
<1>3. QED
  BY <1>1, <1>2 DEF Inv

\* The invariant of the Doer: its types, the account of the events, where Stop
\* and the goroutine stand to each other, and what is left of Stop's promise.
THEOREM Invariance == Spec => []Inv
<1>1. Inv /\ [Next]_vars => Inv'
  <2> SUFFICES ASSUME Inv, [Next]_vars PROVE Inv'
    OBVIOUS
  <2>1. CASE Next
    BY <2>1, AddInv, OwnerInv, RunnerInv, TimeInv, SMTT(30) DEF Next
  <2>2. CASE UNCHANGED vars
    BY <2>2 DEF Inv, TypeOK, NothingLost, Handshake, Promise, vars, ownerVars,
                runnerVars, timeVars, eventVars
  <2>3. QED
    BY <2>1, <2>2
<1>2. QED
  BY InitInv, <1>1, PTL DEF Spec

\* Types: the counter keeps its width.
THEOREM TypeCorrect == Spec => []TypeOK
BY Invariance, PTL DEF Inv

\* No event is lost or reported twice, however Add, the ticks and Stop interleave.
THEOREM Accounted == Spec => []NothingLost
BY Invariance, PTL DEF Inv

\* When Stop has returned, what was added before it has been reported.
THEOREM Flushed == Spec => []StopFlushes
<1>1. Inv => StopFlushes
  BY DEF Inv, TypeOK, Promise, StopFlushes
<1>2. QED
  BY Invariance, <1>1, PTL

\* When Stop has returned the goroutine is gone.
THEOREM Quiet == Spec => []QuietAfterStop
<1>1. Inv => QuietAfterStop
  BY DEF Inv, Handshake, QuietAfterStop
<1>2. QED
  BY Invariance, <1>1, PTL

-----------------------------------------------------------------------------
(* The service, for every platform and any number of signals and requests. *)

Reports == {"StartPending", "Running", "Current", "StopPending", "Stopped"}
Before == {Svc!Idle, "pending", "run", "loop", "echo", "again", "stopping"}
Between == {"callback", "calling", "waitDone"}

\* The goroutines that call the callback, and the state sync.Once is in.
OnceOK ==
  /\ once \in {"free", "signal", "execute", "done"}
  /\ stops = IF once = "free" THEN 0 ELSE 1
  /\ once = "signal" <=> sigGo = "stopping"
  /\ once = "execute" <=> exec = "calling"
  /\ exec \in {"waitDone", "finished"} => once = "done"

\* Where the program and Execute are, and what that says of the channel done.
PlaceOK ==
  /\ exec \in Before \cup Between \cup {"finished"}
  /\ main \in {"start", "ready"} => exec = Svc!Idle /\ sigGo = Svc!Idle /\ reported = <<>>
  /\ exec # Svc!Idle => kind = "service"
  /\ exec = "finished" => done

\* What the manager has been told when Execute is at a place.
ReportedOK ==
  /\ reported \in Seq(Reports)
  /\ exec \in Before =>
       \A k \in DOMAIN reported : reported[k] \notin {"StopPending", "Stopped"}
  /\ exec \in Between =>
       \A k \in DOMAIN reported :
         reported[k] # "Stopped" /\ (reported[k] = "StopPending" => k = Len(reported))
  /\ exec = "finished" =>
       \A k \in DOMAIN reported :
         /\ reported[k] = "Stopped" => k = Len(reported)
         /\ reported[k] = "StopPending" =>
              \A j \in k + 1 .. Len(reported) : reported[j] = "Stopped"

ServiceInv == OnceOK /\ PlaceOK /\ ReportedOK

LEMMA InvStopped == ServiceInv => Svc!StoppedLast
<1> SUFFICES ASSUME ServiceInv PROVE Svc!StoppedLast
  OBVIOUS
<1>1. stops <= 1 /\ (exec = "finished" => done /\ stops = 1 /\ once = "done")
  BY DEF ServiceInv, OnceOK, PlaceOK
<1>2. ASSUME NEW k \in DOMAIN reported
      PROVE  /\ reported[k] = "Stopped" => k = Len(reported) /\ exec = "finished"
             /\ reported[k] = "StopPending" =>
                  \A j \in k + 1 .. Len(reported) : reported[j] = "Stopped"
  <2>1. CASE exec \in Before
    BY <2>1 DEF ServiceInv, ReportedOK
  <2>2. CASE exec \in Between
    BY <2>2 DEF ServiceInv, ReportedOK
  <2>3. CASE exec = "finished"
    BY <2>3 DEF ServiceInv, ReportedOK
  <2>4. QED
    BY <2>1, <2>2, <2>3 DEF ServiceInv, PlaceOK
<1>3. QED
  BY <1>1, <1>2 DEF Svc!StoppedLast

\* What Append leaves of a report and adds to it.
LEMMA Appended ==
  ASSUME reported \in Seq(Reports), NEW s \in Reports, Svc!Report(s)
  PROVE  /\ reported' \in Seq(Reports)
         /\ Len(reported) \in Nat /\ DOMAIN reported = 1 .. Len(reported)
         /\ Len(reported') = Len(reported) + 1 /\ DOMAIN reported' = 1 .. Len(reported) + 1
         /\ reported'[Len(reported) + 1] = s
         /\ \A k \in DOMAIN reported : reported'[k] = reported[k]
<1>1. reported' = Append(reported, s)
  BY DEF Svc!Report
<1>2. Len(reported) \in Nat /\ DOMAIN reported = 1 .. Len(reported)
  OBVIOUS
<1>3. /\ Append(reported, s) \in Seq(Reports) /\ Len(Append(reported, s)) = Len(reported) + 1
      /\ \A k \in 1 .. Len(reported) : Append(reported, s)[k] = reported[k]
      /\ Append(reported, s)[Len(reported) + 1] = s
  BY SeqAppend
<1>4. DOMAIN Append(reported, s) = 1 .. Len(reported) + 1
  BY <1>3
<1>5. QED
  BY <1>1, <1>2, <1>3, <1>4

\* A step that leaves Execute and what it reported alone.
LEMMA QuietReported ==
  ASSUME ReportedOK, UNCHANGED reported,
         exec' = exec \/ (exec \in Before /\ exec' \in Before)
                      \/ (exec \in Between /\ exec' \in Between)
  PROVE  ReportedOK'
<1>1. Before \cap Between = {} /\ "finished" \notin Before \cup Between
  BY DEF Before, Between, Svc!Idle
<1>2. QED
  BY <1>1 DEF ReportedOK

\* Execute reports its progress before it is asked to stop.
LEMMA EarlyReport ==
  ASSUME ReportedOK, exec \in Before, exec' \in Before, NEW s \in Reports, Svc!Report(s),
         s \notin {"StopPending", "Stopped"}
  PROVE  ReportedOK'
<1>1. Before \cap Between = {} /\ "finished" \notin Before \cup Between
  BY DEF Before, Between, Svc!Idle
<1>2. reported \in Seq(Reports)
  BY DEF ReportedOK
<1>3. /\ reported' \in Seq(Reports)
      /\ Len(reported) \in Nat /\ DOMAIN reported = 1 .. Len(reported)
      /\ DOMAIN reported' = 1 .. Len(reported) + 1
      /\ reported'[Len(reported) + 1] = s
      /\ \A k \in DOMAIN reported : reported'[k] = reported[k]
  BY <1>2, Appended
<1>4. \A k \in DOMAIN reported' : k \in DOMAIN reported \/ k = Len(reported) + 1
  BY <1>3
<1>5. \A k \in DOMAIN reported' : reported'[k] \notin {"StopPending", "Stopped"}
  BY <1>3, <1>4 DEF ReportedOK
<1>6. QED
  BY <1>1, <1>3, <1>5 DEF ReportedOK

\* Execute announces the stop, or gives up announcing it after half a second.
LEMMA PendingReport ==
  ASSUME ReportedOK, exec = "stopping", exec' = "callback", Svc!TrySendState("StopPending")
  PROVE  ReportedOK'
<1>0. /\ exec \in Before /\ exec' \in Between /\ exec' \notin Before /\ exec' # "finished"
      /\ "StopPending" \in Reports
  BY DEF Before, Between, Svc!Idle, Reports
<1>1. reported \in Seq(Reports)
      /\ \A k \in DOMAIN reported : reported[k] \notin {"StopPending", "Stopped"}
  BY <1>0 DEF ReportedOK
<1>2. CASE Svc!Report("StopPending")
  <2>1. /\ reported' \in Seq(Reports)
        /\ Len(reported) \in Nat /\ DOMAIN reported = 1 .. Len(reported)
        /\ Len(reported') = Len(reported) + 1 /\ DOMAIN reported' = 1 .. Len(reported) + 1
        /\ reported'[Len(reported) + 1] = "StopPending"
        /\ \A k \in DOMAIN reported : reported'[k] = reported[k]
    BY <1>0, <1>1, <1>2, Appended
  <2>2. \A k \in DOMAIN reported' : k \in DOMAIN reported \/ k = Len(reported')
    BY <2>1
  <2>3. QED
    BY <1>0, <1>1, <2>1, <2>2 DEF ReportedOK
<1>3. CASE UNCHANGED reported
  BY <1>0, <1>1, <1>3 DEF ReportedOK
<1>4. QED
  BY <1>2, <1>3 DEF Svc!TrySendState

\* Execute says Stopped, or gives up saying it.
LEMMA StoppedReport ==
  ASSUME ReportedOK, exec = "waitDone", exec' = "finished", Svc!TrySendState("Stopped")
  PROVE  ReportedOK'
<1>0. /\ exec \in Between /\ exec' \notin Before /\ exec' \notin Between
      /\ "Stopped" \in Reports
  BY DEF Before, Between, Svc!Idle, Reports
<1>1. reported \in Seq(Reports)
      /\ \A k \in DOMAIN reported :
           reported[k] # "Stopped" /\ (reported[k] = "StopPending" => k = Len(reported))
  BY <1>0 DEF ReportedOK
<1>2. CASE Svc!Report("Stopped")
  <2>1. /\ reported' \in Seq(Reports)
        /\ Len(reported) \in Nat /\ DOMAIN reported = 1 .. Len(reported)
        /\ Len(reported') = Len(reported) + 1 /\ DOMAIN reported' = 1 .. Len(reported) + 1
        /\ reported'[Len(reported) + 1] = "Stopped"
        /\ \A k \in DOMAIN reported : reported'[k] = reported[k]
    BY <1>0, <1>1, <1>2, Appended
  <2>2. ASSUME NEW k \in DOMAIN reported'
        PROVE  /\ reported'[k] = "Stopped" => k = Len(reported')
               /\ reported'[k] = "StopPending" =>
                    \A j \in k + 1 .. Len(reported') : reported'[j] = "Stopped"
    <3>1. CASE k \in DOMAIN reported
      <4>1. reported'[k] # "Stopped" /\ (reported'[k] = "StopPending" => k = Len(reported))
        BY <1>1, <2>1, <3>1
      <4>2. k = Len(reported) => \A j \in k + 1 .. Len(reported') : j = Len(reported) + 1
        BY <2>1
      <4>3. QED
        BY <2>1, <4>1, <4>2
    <3>2. CASE k = Len(reported) + 1
      BY <2>1, <3>2
    <3>3. QED
      BY <2>1, <3>1, <3>2
  <2>3. QED
    BY <1>0, <2>1, <2>2 DEF ReportedOK
<1>3. CASE UNCHANGED reported
  <2>1. Len(reported) \in Nat /\ \A j \in Len(reported) + 1 .. Len(reported) : FALSE
    BY <1>1
  <2>2. QED
    BY <1>0, <1>1, <1>3, <2>1 DEF ReportedOK
<1>4. QED
  BY <1>2, <1>3 DEF Svc!TrySendState

\* Steps of the program, of a signal and of the forwarder that leave the callback,
\* Execute and its reports alone.
LEMMA QuietInv ==
  ASSUME ServiceInv, UNCHANGED <<kind, sigGo, exec, once, stops, reported>>,
         done' = done \/ done' = (kind # "unix"),
         main' \notin {"start", "ready"} \/ main \in {"start", "ready"}
  PROVE  ServiceInv'
<1>1. OnceOK'
  BY DEF ServiceInv, OnceOK
<1>2. PlaceOK'
  <2>1. exec = "finished" => done /\ kind # "unix"
    BY DEF ServiceInv, PlaceOK, Svc!Idle
  <2>2. ASSUME exec = "finished" PROVE done'
    <3>1. CASE done' = done
      BY <2>1, <2>2, <3>1
    <3>2. CASE done' = (kind # "unix")
      BY <2>1, <2>2, <3>2, Zenon
    <3>3. QED
      BY <3>1, <3>2
  <2>3. QED
    BY <2>2 DEF ServiceInv, PlaceOK
<1>3. ReportedOK'
  BY QuietReported DEF ServiceInv
<1>4. QED
  BY <1>1, <1>2, <1>3 DEF ServiceInv

LEMMA ServiceInitInv == Svc!Init => ServiceInv
<1> SUFFICES ASSUME Svc!Init PROVE ServiceInv
  OBVIOUS
<1>1. OnceOK /\ PlaceOK
  BY DEF Svc!Init, OnceOK, PlaceOK, Before, Between, Svc!Idle
<1>2. ReportedOK
  BY DEF Svc!Init, ReportedOK, Before, Between, Svc!Idle
<1>3. QED
  BY <1>1, <1>2 DEF ServiceInv

LEMMA HandleSignalsInv == ASSUME ServiceInv, Svc!HandleSignals PROVE ServiceInv'
<1>1. /\ main = "ready" /\ main' = "running" /\ sigGo' = "wait" /\ kind' = kind
      /\ once' = once /\ stops' = stops /\ reported' = reported
      /\ exec' = IF kind = "service" THEN "pending" ELSE Svc!Idle
  BY DEF Svc!HandleSignals, Svc!ProcessWindowsControlEvents, Svc!stopVars
<1>2. exec = Svc!Idle /\ sigGo = Svc!Idle
  BY <1>1 DEF ServiceInv, PlaceOK
<1>3. exec \in Before /\ exec' \in Before
  BY <1>1, <1>2 DEF Before
<1>4. OnceOK'
  BY <1>1, <1>2 DEF ServiceInv, OnceOK, Svc!Idle
<1>5. PlaceOK'
  BY <1>1, <1>3 DEF PlaceOK, Before, Svc!Idle
<1>6. ReportedOK'
  BY <1>1, <1>3, QuietReported DEF ServiceInv
<1>7. QED
  BY <1>4, <1>5, <1>6 DEF ServiceInv

\* The goroutine for signals calls the callback, or waits for the one who does.
LEMMA SignalsInv ==
  ASSUME ServiceInv, Svc!SignalTaken \/ Svc!SignalCalls \/ Svc!SignalReturns
  PROVE  ServiceInv'
<1>1. /\ kind' = kind /\ exec' = exec /\ reported' = reported /\ main' = main /\ done' = done
      /\ sigGo \in {"wait", "callback", "stopping"}
      /\ sigGo' \in {"callback", "stopping", "done"}
  BY DEF Svc!SignalTaken, Svc!SignalCalls, Svc!SignalReturns, Svc!progVars, Svc!svcVars
<1>2. ReportedOK'
  BY <1>1, QuietReported DEF ServiceInv
<1>3. PlaceOK'
  BY <1>1 DEF ServiceInv, PlaceOK, Svc!Idle
<1>4. OnceOK'
  <2>1. CASE Svc!SignalTaken
    BY <1>1, <2>1 DEF Svc!SignalTaken, Svc!stopVars, ServiceInv, OnceOK
  <2>2. CASE Svc!SignalCalls
    BY <1>1, <2>2, SMTT(30) DEF Svc!SignalCalls, Svc!Call, ServiceInv, OnceOK
  <2>3. CASE Svc!SignalReturns
    BY <1>1, <2>3 DEF Svc!SignalReturns, ServiceInv, OnceOK
  <2>4. QED
    BY <2>1, <2>2, <2>3
<1>5. QED
  BY <1>2, <1>3, <1>4, SMTT(30) DEF ServiceInv

\* Execute before it is asked to stop.
LEMMA ServingInv == ASSUME ServiceInv, Svc!ExecuteStarts \/ Svc!Handle \/ Svc!Echo PROVE ServiceInv'
<1>1. /\ kind' = kind /\ main' = main /\ done' = done /\ sigGo' = sigGo
      /\ once' = once /\ stops' = stops
      /\ exec \in {"pending", "run", "loop", "echo", "again"}
      /\ exec' \in {"run", "loop", "echo", "again", "stopping"}
  BY DEF Svc!ExecuteStarts, Svc!Handle, Svc!Echo, Svc!progVars, Svc!sigVars, Svc!stopVars
<1>2. exec \in Before /\ exec' \in Before
  BY <1>1 DEF Before
<1>3. OnceOK'
  BY <1>1 DEF ServiceInv, OnceOK
<1>4. PlaceOK'
  BY <1>1, <1>2 DEF ServiceInv, PlaceOK, Svc!Idle
<1>5. ReportedOK'
  <2>0. /\ {"StartPending", "Running", "Current"} \subseteq Reports
        /\ {"StartPending", "Running", "Current"} \cap {"StopPending", "Stopped"} = {}
    BY DEF Reports
  <2>1. \/ UNCHANGED reported
        \/ \E r \in {"StartPending", "Running", "Current"} : Svc!Report(r)
    BY DEF Svc!ExecuteStarts, Svc!Handle, Svc!Echo
  <2>2. CASE UNCHANGED reported
    BY <1>2, <2>2, QuietReported DEF ServiceInv
  <2>3. ASSUME NEW r \in {"StartPending", "Running", "Current"}, Svc!Report(r) PROVE ReportedOK'
    BY <1>2, <2>0, <2>3, EarlyReport DEF ServiceInv
  <2>4. QED
    BY <2>1, <2>2, <2>3
<1>6. QED
  BY <1>3, <1>4, <1>5 DEF ServiceInv

\* Execute after it was asked to stop: it announces the stop, calls the callback
\* or waits for the one who does, waits for the program and says Stopped.
LEMMA StoppingInv ==
  ASSUME ServiceInv, Svc!StopPending \/ Svc!StopCallback \/ Svc!StopReturned \/ Svc!Stopped
  PROVE  ServiceInv'
<1>1. /\ kind' = kind /\ main' = main /\ done' = done /\ sigGo' = sigGo
      /\ exec \in {"stopping", "callback", "calling", "waitDone"}
      /\ exec' \in Between \cup {"finished"} /\ exec' # Svc!Idle
  BY DEF Svc!StopPending, Svc!StopCallback, Svc!StopReturned, Svc!Stopped, Svc!progVars,
         Svc!sigVars, Between, Svc!Idle
<1>2. PlaceOK'
  <2>1. exec' = "finished" => done
    BY DEF Svc!StopPending, Svc!StopCallback, Svc!StopReturned, Svc!Stopped
  <2>2. exec # Svc!Idle
    BY <1>1 DEF Svc!Idle
  <2>3. QED
    BY <1>1, <2>1, <2>2, SMTT(30) DEF ServiceInv, PlaceOK
<1>3. OnceOK'
  <2>1. CASE Svc!StopPending
    BY <1>1, <2>1, SMTT(30) DEF Svc!StopPending, Svc!stopVars, ServiceInv, OnceOK
  <2>2. CASE Svc!StopCallback
    BY <1>1, <2>2, SMTT(30) DEF Svc!StopCallback, Svc!Call, ServiceInv, OnceOK
  <2>3. CASE Svc!StopReturned
    BY <1>1, <2>3, SMTT(30) DEF Svc!StopReturned, ServiceInv, OnceOK
  <2>4. CASE Svc!Stopped
    BY <1>1, <2>4 DEF Svc!Stopped, Svc!stopVars, ServiceInv, OnceOK
  <2>5. QED
    BY <2>1, <2>2, <2>3, <2>4, SMTT(30)
<1>4. ReportedOK'
  <2>1. CASE Svc!StopPending
    BY <2>1, PendingReport DEF Svc!StopPending, ServiceInv
  <2>2. CASE Svc!StopCallback \/ Svc!StopReturned
    <3>1. exec \in Between /\ exec' \in Between /\ UNCHANGED reported
      BY <2>2 DEF Svc!StopCallback, Svc!StopReturned, Between
    <3>2. QED
      BY <3>1, QuietReported, SMTT(30) DEF ServiceInv
  <2>3. CASE Svc!Stopped
    BY <2>3, StoppedReport DEF Svc!Stopped, ServiceInv
  <2>4. QED
    BY <2>1, <2>2, <2>3
<1>5. QED
  BY <1>2, <1>3, <1>4, SMTT(30) DEF ServiceInv

\* The service manager is told Stopped last, and Execute returns, only when the
\* program has ended and stopFunction was called exactly once (HandleSignals,
\* service.go:43; Execute, service_windows.go:96), whichever of the two
\* goroutines called it first.
THEOREM StoppedLastAlways == Svc!FairSpec => []StoppedLast
<1>1. ServiceInv /\ [Svc!Next]_(Svc!vars) => ServiceInv'
  <2> SUFFICES ASSUME ServiceInv, [Svc!Next]_(Svc!vars) PROVE ServiceInv'
    OBVIOUS
  <2>1. CASE Svc!BeforeRun
    BY <2>1, QuietInv DEF Svc!BeforeRun, Svc!sigVars, Svc!svcVars, Svc!stopVars
  <2>2. CASE Svc!HandleSignals
    BY <2>2, HandleSignalsInv, ZenonT(30)
  <2>3. CASE Svc!Ends \/ Svc!WaitExecutionDone \/ Svc!WaitTimesOut \/ Svc!Cleanup
    BY <2>3, QuietInv
    DEF Svc!Ends, Svc!WaitExecutionDone, Svc!WaitTimesOut, Svc!Cleanup, Svc!sigVars,
        Svc!svcVars, Svc!stopVars
  <2>4. CASE Svc!NotifyTermination
    BY <2>4, QuietInv DEF Svc!NotifyTermination, Svc!sigVars, Svc!svcVars, Svc!stopVars
  <2>5. CASE Svc!Signal \/ Svc!ForwardsRequest \/ Svc!ForwardsDone
    <3>1. UNCHANGED <<kind, sigGo, exec, once, stops, reported, done, main>>
      BY <2>5 DEF Svc!Signal, Svc!ForwardsRequest, Svc!ForwardsDone, Svc!sigVars, Svc!svcVars,
                  Svc!stopVars, Svc!progVars
    <3>2. QED
      BY <3>1, QuietInv, SMTT(30)
  <2>6. CASE Svc!SignalTaken \/ Svc!SignalCalls \/ Svc!SignalReturns
    BY <2>6, SignalsInv
  <2>7. CASE Svc!ExecuteStarts \/ Svc!Handle \/ Svc!Echo
    BY <2>7, ServingInv
  <2>8. CASE Svc!StopPending \/ Svc!StopCallback \/ Svc!StopReturned \/ Svc!Stopped
    BY <2>8, StoppingInv, SMTT(30)
  <2>9. CASE UNCHANGED Svc!vars
    BY <2>9, QuietInv DEF Svc!vars
  <2>10. QED
    BY <2>1, <2>2, <2>3, <2>4, <2>5, <2>6, <2>7, <2>8, <2>9, SMTT(30) DEF Svc!Next
<1>2. QED
  BY <1>1, ServiceInitInv, InvStopped, PTL DEF Svc!FairSpec, StoppedLast

-----------------------------------------------------------------------------
(* The API server, for any number of servers, all settings and platforms.  *)

Stages == {"none", "refused", "remove", "listen", "inuse", "chmod", "made", "leaked", "crashed"}

\* A server about to listen on a unix socket has removed the file: a file that is
\* there was made since, by a rival.  On the other networks every open listener is
\* a rival's.
ApiInv ==
  /\ stage \in [Servers -> Stages]
  /\ rivals \in [Servers -> SUBSET Servers]
  /\ bound \subseteq Servers
  /\ \A s \in Servers :
       /\ stage[s] = "remove" => Api!Unix
       /\ stage[s] = "inuse" => rivals[s] # {}
       /\ stage[s] = "listen" /\ Api!Unix => (file # None => rivals[s] # {})
       /\ stage[s] = "listen" /\ ~Api!Unix => bound \subseteq rivals[s]

\* The settings and the platform of a server never change, nor what they ask for.
LEMMA SameNetwork ==
  ASSUME UNCHANGED <<cfg, platform>>
  PROVE  Api!Unix' = Api!Unix /\ Api!Checks' = Api!Checks
BY SMTT(30) DEF Api!Unix, Api!Checks, Api!parse

LEMMA NewInv == ASSUME ApiInv, NEW s \in Servers, Api!New(s) PROVE ApiInv'
<1>1. /\ cfg' = cfg /\ platform' = platform /\ file' = file /\ bound' = bound
      /\ stage[s] = "none" /\ rivals' = [rivals EXCEPT ![s] = bound]
      /\ stage' = [stage EXCEPT ![s] = IF Api!Checks = "error" THEN "refused"
                                       ELSE IF Api!Unix THEN "remove" ELSE "listen"]
  BY DEF Api!New, Api!At
<1>2. Api!Unix' = Api!Unix
  BY <1>1, SameNetwork, SMTT(30)
<1>3. QED
  BY <1>1, <1>2 DEF ApiInv, Stages

LEMMA RemoveFileInv == ASSUME ApiInv, NEW s \in Servers, Api!RemoveFile(s) PROVE ApiInv'
<1>1. /\ cfg' = cfg /\ platform' = platform /\ file' = None /\ bound' = bound
      /\ rivals' = rivals /\ stage' = [stage EXCEPT ![s] = "listen"]
  BY DEF Api!RemoveFile, Api!At
<1>2. Api!Unix' /\ Api!Unix
  BY <1>1, SameNetwork DEF ApiInv, Api!RemoveFile
<1>3. QED
  BY <1>1, <1>2 DEF ApiInv, Stages

LEMMA ListenInv == ASSUME ApiInv, NEW s \in Servers, Api!Listen(s) PROVE ApiInv'
<1>0. Api!Unix' = Api!Unix /\ stage[s] = "listen"
  BY SameNetwork, Zenon DEF Api!Listen
<1>1. CASE Api!InUse
  <2>1. /\ file' = file /\ bound' = bound /\ rivals' = rivals
        /\ stage' = [stage EXCEPT ![s] = "inuse"]
    BY <1>1, Zenon DEF Api!Listen, Api!At
  <2>2. rivals[s] # {}
    BY <1>0, <1>1, SMTT(30) DEF ApiInv, Api!InUse
  <2>3. QED
    BY <1>0, <2>1, <2>2 DEF ApiInv, Stages
<1>2. CASE ~Api!InUse
  <2>1. /\ stage' = [stage EXCEPT ![s] = IF Api!Unix THEN "chmod" ELSE "made"]
        /\ bound' = bound \cup {s}
        /\ rivals' = [t \in Servers |-> IF stage[t] \in {"remove", "listen"} /\ t # s
                                        THEN rivals[t] \cup {s} ELSE rivals[t]]
    BY <1>2, Zenon DEF Api!Listen, Api!At
  <2>2. stage' \in [Servers -> Stages] /\ bound' \subseteq Servers
        /\ rivals' \in [Servers -> SUBSET Servers]
    BY <2>1 DEF ApiInv, Stages
  <2>3. ASSUME NEW t \in Servers
        PROVE  /\ stage'[t] = "remove" => Api!Unix
               /\ stage'[t] = "inuse" => rivals'[t] # {}
               /\ stage'[t] = "listen" => s \in rivals'[t]
               /\ stage'[t] = "listen" /\ ~Api!Unix => bound' \subseteq rivals'[t]
    <3>1. CASE t = s
      BY <2>1, <3>1, Zenon DEF ApiInv
    <3>2. CASE t # s
      BY <2>1, <3>2, SMTT(30) DEF ApiInv
    <3>3. QED
      BY <3>1, <3>2, Zenon
  <2>4. QED
    BY <1>0, <2>2, <2>3 DEF ApiInv
<1>3. QED
  BY <1>1, <1>2

\* A step after which no more servers are about to listen, no more listeners are
\* open and no file is there that was not.
LEMMA LaterInv ==
  ASSUME ApiInv, UNCHANGED <<cfg, platform, rivals>>,
         stage' \in [Servers -> Stages], bound' \subseteq bound,
         file = None => file' = None,
         \A t \in Servers : stage'[t] \in {"remove", "inuse", "listen"} => stage'[t] = stage[t]
  PROVE  ApiInv'
<1>1. Api!Unix' = Api!Unix
  BY SameNetwork
<1>2. QED
  BY <1>1 DEF ApiInv

LEMMA LaterStage ==
  ASSUME ApiInv, NEW s \in Servers,
         NEW place \in {"made", "leaked", "crashed"}, stage' = [stage EXCEPT ![s] = place]
  PROVE  /\ stage' \in [Servers -> Stages]
         /\ \A t \in Servers : stage'[t] \in {"remove", "inuse", "listen"} => stage'[t] = stage[t]
BY DEF ApiInv, Stages

\* A server finds its address in use only if another one listened while it was
\* made (makeListener, make_listener_posix.go:49-64): whatever crashed before, and
\* whatever file it left, a restarted server listens.
THEOREM RestartListensAlways == Api!FairSpec => []Api!RestartListens
<1>1. Api!Init => ApiInv
  BY LifecycleAssumption, SMTT(30) DEF Api!Init, ApiInv, Stages
<1>2. ApiInv /\ [Api!Next]_(Api!vars) => ApiInv'
  <2> SUFFICES ASSUME ApiInv, [Api!Next]_(Api!vars) PROVE ApiInv'
    OBVIOUS
  <2>0. stage \in [Servers -> Stages]
    BY DEF ApiInv
  <2>1. ASSUME NEW s \in Servers, Api!New(s) PROVE ApiInv'
    BY <2>1, NewInv
  <2>2. ASSUME NEW s \in Servers, Api!RemoveFile(s) PROVE ApiInv'
    BY <2>2, RemoveFileInv
  <2>3. ASSUME NEW s \in Servers, Api!Listen(s) PROVE ApiInv'
    BY <2>3, ListenInv
  <2>4. ASSUME NEW s \in Servers, Api!Chmod(s) PROVE ApiInv'
    <3>1. PICK place \in {"made", "leaked", "crashed"} : stage' = [stage EXCEPT ![s] = place]
      BY <2>4 DEF Api!Chmod, Api!At
    <3>2. UNCHANGED <<cfg, platform, rivals, file, bound>>
      BY <2>4 DEF Api!Chmod
    <3>3. QED
      BY <3>1, <3>2, LaterStage, LaterInv, Zenon
  <2>5. ASSUME NEW s \in Servers, Api!Start(s) \/ Api!ServeEnds(s) PROVE ApiInv'
    <3>1. UNCHANGED <<cfg, platform, rivals, file, bound, stage>>
      BY <2>5 DEF Api!Start, Api!ServeEnds
    <3>2. QED
      BY <2>0, <3>1, LaterInv, SMTT(30)
  <2>6. ASSUME NEW s \in Servers, Api!ServeBegins(s) \/ Api!Stop(s) \/ Api!Shutdown(s) PROVE ApiInv'
    <3>1. /\ UNCHANGED <<cfg, platform, rivals, stage>>
          /\ bound' \subseteq bound /\ (file = None => file' = None)
      BY <2>6 DEF Api!ServeBegins, Api!Stop, Api!Shutdown, Api!CloseListener
    <3>2. QED
      BY <2>0, <3>1, LaterInv, ZenonT(30)
  <2>7. ASSUME NEW s \in Servers, Api!Crash(s) PROVE ApiInv'
    <3>1. /\ UNCHANGED <<cfg, platform, rivals>>
          /\ stage' = [stage EXCEPT ![s] = "crashed"]
          /\ bound' \subseteq bound /\ (file = None => file' = None)
      <4>1. s # None
        BY LifecycleAssumption
      <4>2. QED
        BY <2>7, <4>1 DEF Api!Crash
    <3>2. QED
      BY <3>1, LaterStage, LaterInv, Zenon
  <2>8. CASE UNCHANGED Api!vars
    BY <2>0, <2>8, LaterInv, SMTT(30) DEF Api!vars
  <2>9. QED
    BY <2>1, <2>2, <2>3, <2>4, <2>5, <2>6, <2>7, <2>8, SMTT(30) DEF Api!Next
<1>3. ApiInv => Api!RestartListens
  BY DEF ApiInv, Api!RestartListens
<1>4. QED
  BY <1>1, <1>2, <1>3, PTL DEF Api!FairSpec

-----------------------------------------------------------------------------
(* The file watcher, for every list of files, number of ticks in a second  *)
(* and resolution of the file system up to a second.                       *)

\* What the proofs need of the constants: paths are listed once, and the file
\* system keeps at least the seconds of a modification time.
ConstantsOK ==
  /\ Second \in Nat \ {0}
  /\ \A g \in Grains : g \in Nat \ {0} /\ g <= Second
  /\ Files \in Seq(Watch!Paths)
  /\ \A j, k \in DOMAIN Files : Files[j] = Files[k] => j = k
  /\ MaxTime \in Nat /\ MaxWrites \in Nat

LEMMA WatchConstants == ConstantsOK
BY LifecycleAssumption DEF ConstantsOK, Watch!Paths

WatchTypeOK ==
  /\ now \in Nat /\ grain \in Grains
  /\ disk \in [Watch!Paths -> [there : BOOLEAN, mtime : Nat, version : Nat]]
  /\ writes \in Nat
  /\ lastScan \in Nat /\ start \in Nat
  /\ lastList \in Seq(Watch!Paths) /\ list \in Seq(Watch!Paths)
  /\ at \in 0 .. Len(Files) + 1
  /\ updated \in BOOLEAN
  /\ seen \in [Watch!Paths -> Nat] /\ noted \in [Watch!Paths -> Nat]

In(f, s) == \E k \in DOMAIN s : s[k] = f
Scanned(f) == \E k \in DOMAIN Files : k < at /\ Files[k] = f

\* The comparison Scan makes after a scan that began at t.
SinceOf(t) == IF t = 0 THEN -1 ELSE Watch!Truncate(t - Second, Second)

\* A file that is not as a scan met it has been written since the scan began, and
\* its modification time shows it; the lists hold exactly the files met; a file
\* the running scan met with another version than the one before has set updated.
PathOK(f) ==
  /\ disk[f].there <=> disk[f].version # 0
  /\ disk[f].there /\ disk[f].version # noted[f] => disk[f].mtime > SinceOf(lastScan)
  /\ Scanned(f) /\ disk[f].there /\ disk[f].version # seen[f] =>
       disk[f].mtime > SinceOf(start)
  /\ In(f, lastList) <=> noted[f] # 0
  /\ In(f, list) <=> Scanned(f) /\ seen[f] # 0
  /\ Scanned(f) /\ seen[f] # 0 /\ seen[f] # noted[f] => updated

WatchInv ==
  /\ WatchTypeOK
  /\ lastScan <= now /\ start <= now
  /\ at = 0 => list = <<>> /\ ~updated
  /\ \A f \in Watch!Paths : PathOK(f)

\* Cutting a time to a unit takes less than the unit from it.
LEMMA TruncateBounds ==
  ASSUME NEW t \in Int, NEW unit \in Nat \ {0}
  PROVE  /\ Watch!Truncate(t, unit) \in Int
         /\ Watch!Truncate(t, unit) <= t /\ t - unit < Watch!Truncate(t, unit)
         /\ t \in Nat => Watch!Truncate(t, unit) \in Nat
<1>1. t % unit \in 0 .. unit - 1
  OBVIOUS
<1>2. t \in Nat => t % unit <= t
  OBVIOUS
<1>3. QED
  BY <1>1, <1>2 DEF Watch!Truncate

\* A file written once a scan has begun is later than what the next scan
\* compares it with (Scan, filewatcher.go:74): a second covers the resolution.
LEMMA WrittenSinceShows ==
  ASSUME ConstantsOK, NEW t \in Nat, NEW g \in Grains, NEW w \in Nat, t <= w
  PROVE  Watch!Truncate(w, g) > SinceOf(t)
<1>0. Second \in Nat \ {0} /\ g \in Nat \ {0} /\ g <= Second
  BY DEF ConstantsOK
<1>1. Watch!Truncate(w, g) \in Nat /\ w - g < Watch!Truncate(w, g)
  <2>1. w \in Int
    OBVIOUS
  <2>2. QED
    BY <1>0, <2>1, TruncateBounds, Zenon
<1>2. t - Second \in Int
  BY <1>0
<1>3. Watch!Truncate(t - Second, Second) \in Int /\ Watch!Truncate(t - Second, Second) <= t - Second
  BY <1>0, <1>2, TruncateBounds, ZenonT(30)
<1>4. QED
  BY <1>0, <1>1, <1>3 DEF SinceOf

LEMMA WatchInitInv == ASSUME ConstantsOK PROVE Watch!Init => WatchInv
<1> SUFFICES ASSUME Watch!Init PROVE WatchInv
  OBVIOUS
<1>1. WatchTypeOK
  <2>1. now \in Nat /\ at \in 0 .. Len(Files) + 1 /\ <<>> \in Seq(Watch!Paths)
    BY DEF Watch!Init, ConstantsOK
  <2>2. disk \in [Watch!Paths -> [there : BOOLEAN, mtime : Nat, version : Nat]]
    <3>1. {[there |-> FALSE, mtime |-> 0, version |-> 0], [there |-> TRUE, mtime |-> 2, version |-> 1]}
            \subseteq [there : BOOLEAN, mtime : Nat, version : Nat]
      BY DiskRecords, Zenon
    <3>2. QED
      BY <3>1, Zenon DEF Watch!Init
  <2>3. QED
    BY <2>1, <2>2, Zenon DEF Watch!Init, WatchTypeOK
<1>2. ASSUME NEW f \in Watch!Paths PROVE PathOK(f)
  <2>1. ~Scanned(f) /\ ~In(f, list) /\ ~In(f, lastList) /\ noted[f] = 0
    BY SMTT(30) DEF Watch!Init, Scanned, In, ConstantsOK
  <2>2. disk[f] \in {[there |-> FALSE, mtime |-> 0, version |-> 0],
                     [there |-> TRUE, mtime |-> 2, version |-> 1]}
    BY SMTT(30) DEF Watch!Init
  <2>3. SinceOf(lastScan) = -1
    BY SMTT(30) DEF Watch!Init, SinceOf
  <2>4. QED
    BY <2>1, <2>2, <2>3, DiskRecords, ZenonT(30) DEF PathOK
<1>3. QED
  BY <1>1, <1>2 DEF WatchInv, Watch!Init, ConstantsOK

\* The world may write a file at any moment of a scan.
LEMMA WriteInv ==
  ASSUME ConstantsOK, WatchInv, NEW f \in Watch!Paths, Watch!Write(f)
  PROVE  WatchInv'
<1> USE DEF ConstantsOK
<1>1. /\ now' = now /\ grain' = grain /\ lastScan' = lastScan /\ lastList' = lastList
      /\ at' = at /\ start' = start /\ list' = list /\ updated' = updated
      /\ seen' = seen /\ noted' = noted
  BY DEF Watch!Write, Watch!scanVars
<1>2. /\ WatchTypeOK /\ lastScan <= now /\ start <= now
  BY DEF WatchInv
<1>3. Watch!Truncate(now, grain) \in Nat
  <2>1. now \in Int /\ now \in Nat /\ grain \in Nat \ {0}
    BY <1>2 DEF WatchTypeOK
  <2>2. QED
    BY <2>1, TruncateBounds, Zenon
<1>4. disk' = [disk EXCEPT ![f] =
                [there |-> TRUE, mtime |-> Watch!Truncate(now, grain), version |-> writes + 2]]
      /\ writes' = writes + 1
  BY ZenonT(30) DEF Watch!Write
<1>5. WatchTypeOK'
  BY <1>1, <1>2, <1>3, <1>4, SMTT(30) DEF WatchTypeOK
<1>6. ASSUME NEW h \in Watch!Paths PROVE PathOK(h)'
  <2>1. PathOK(h)
    BY DEF WatchInv
  <2>2. Scanned(h)' <=> Scanned(h)
    BY <1>1, ZenonT(30) DEF Scanned
  <2>3. (In(h, list)' <=> In(h, list)) /\ (In(h, lastList)' <=> In(h, lastList))
    BY <1>1, ZenonT(30) DEF In
  <2>4. SinceOf(lastScan)' = SinceOf(lastScan) /\ SinceOf(start)' = SinceOf(start)
    BY <1>1 DEF SinceOf
  <2>5. CASE h # f
    <3>1. disk'[h] = disk[h]
      BY <1>2, <1>4, <2>5, Zenon DEF WatchTypeOK
    <3>2. QED
      BY <1>1, <2>1, <2>2, <2>3, <2>4, <3>1, Zenon DEF PathOK
  <2>6. CASE h = f
    <3>1. /\ disk'[h].there /\ disk'[h].mtime = Watch!Truncate(now, grain)
          /\ disk'[h].version = writes + 2
      BY <1>2, <1>4, <2>6 DEF WatchTypeOK
    <3>2. /\ Watch!Truncate(now, grain) > SinceOf(lastScan)
          /\ Watch!Truncate(now, grain) > SinceOf(start)
      BY <1>2, WrittenSinceShows, Zenon DEF WatchTypeOK
    <3>3. writes + 2 # 0
      BY <1>2, SMTT(30) DEF WatchTypeOK
    <3>4. QED
      BY <1>1, <2>1, <2>2, <2>3, <2>4, <3>1, <3>2, <3>3, ZenonT(30) DEF PathOK
  <2>7. QED
    BY <2>5, <2>6
<1>7. QED
  BY <1>1, <1>5, <1>6, SMTT(30) DEF WatchInv

LEMMA DeleteInv ==
  ASSUME ConstantsOK, WatchInv, NEW f \in Watch!Paths, Watch!Delete(f)
  PROVE  WatchInv'
<1>1. /\ now' = now /\ grain' = grain /\ lastScan' = lastScan /\ lastList' = lastList
      /\ at' = at /\ start' = start /\ list' = list /\ updated' = updated
      /\ seen' = seen /\ noted' = noted
  BY DEF Watch!Delete, Watch!scanVars
<1>2. WatchTypeOK
  BY SMTT(30) DEF WatchInv
<1>3. /\ disk' = [disk EXCEPT ![f] = [there |-> FALSE, mtime |-> 0, version |-> 0]]
      /\ writes' = writes + 1
  BY SMTT(30) DEF Watch!Delete
<1>4. WatchTypeOK'
  BY <1>1, <1>2, <1>3 DEF WatchTypeOK
<1>5. ASSUME NEW h \in Watch!Paths PROVE PathOK(h)'
  <2>1. PathOK(h)
    BY DEF WatchInv
  <2>2. Scanned(h)' <=> Scanned(h)
    BY <1>1, ZenonT(30) DEF Scanned
  <2>3. (In(h, list)' <=> In(h, list)) /\ (In(h, lastList)' <=> In(h, lastList))
    BY <1>1, ZenonT(30) DEF In
  <2>4. SinceOf(lastScan)' = SinceOf(lastScan) /\ SinceOf(start)' = SinceOf(start)
    BY <1>1, SMTT(30) DEF SinceOf
  <2>5. disk'[h] = disk[h] \/ (~disk'[h].there /\ disk'[h].version = 0)
    BY <1>2, <1>3, SMTT(30) DEF WatchTypeOK
  <2>6. QED
    BY <1>1, <2>1, <2>2, <2>3, <2>4, <2>5, Zenon DEF PathOK
<1>6. QED
  BY <1>1, <1>4, <1>5, SMTT(30) DEF WatchInv

LEMMA ScanBeginsInv ==
  ASSUME ConstantsOK, WatchInv, Watch!ScanBegins
  PROVE  WatchInv'
<1>1. /\ now' = now /\ grain' = grain /\ disk' = disk /\ writes' = writes
      /\ lastScan' = lastScan /\ lastList' = lastList /\ list' = list
      /\ updated' = updated /\ seen' = seen /\ noted' = noted
      /\ at = 0 /\ at' = 1 /\ start' = now
  BY DEF Watch!ScanBegins
<1>2. Len(Files) \in Nat /\ DOMAIN Files = 1 .. Len(Files)
  BY SMTT(30) DEF ConstantsOK
<1>3. WatchTypeOK'
  BY <1>1, <1>2 DEF WatchInv, WatchTypeOK
<1>4. ASSUME NEW h \in Watch!Paths PROVE PathOK(h)'
  <2>1. PathOK(h) /\ list = <<>>
    BY <1>1, SMTT(30) DEF WatchInv
  <2>2. ~Scanned(h)'
    BY <1>1, <1>2, SMTT(30) DEF Scanned
  <2>3. ~In(h, list)' /\ (In(h, lastList)' <=> In(h, lastList))
    BY <1>1, <2>1, SMTT(30) DEF In
  <2>4. SinceOf(lastScan)' = SinceOf(lastScan)
    BY <1>1, SMTT(30) DEF SinceOf
  <2>5. QED
    BY <1>1, <2>1, <2>2, <2>3, <2>4, Zenon DEF PathOK
<1>5. now <= now
  BY DEF WatchInv, WatchTypeOK
<1>6. QED
  BY <1>1, <1>3, <1>4, <1>5, SMTT(30) DEF WatchInv

\* Stat meets one file, which no earlier step of the scan has met.
LEMMA StatInv ==
  ASSUME ConstantsOK, WatchInv, Watch!Stat
  PROVE  WatchInv'
<1> DEFINE f == Files[at]
<1>1. /\ now' = now /\ grain' = grain /\ disk' = disk /\ writes' = writes
      /\ lastScan' = lastScan /\ lastList' = lastList /\ start' = start
      /\ noted' = noted /\ at \in DOMAIN Files /\ at' = at + 1
      /\ seen' = [seen EXCEPT ![f] = disk[f].version]
  BY Zenon DEF Watch!Stat
<1>2. IF disk[f].there
      THEN updated' = (updated \/ disk[f].mtime > Watch!Since) /\ list' = Append(list, f)
      ELSE updated' = updated /\ list' = list
  BY ZenonT(30) DEF Watch!Stat
<1>3. /\ Len(Files) \in Nat /\ DOMAIN Files = 1 .. Len(Files) /\ f \in Watch!Paths
      /\ \A j, k \in DOMAIN Files : Files[j] = Files[k] => j = k
  BY <1>1 DEF ConstantsOK, Watch!Paths
<1>4. WatchTypeOK
  BY DEF WatchInv
<1>5. Watch!Since = SinceOf(lastScan)
  BY DEF Watch!Since, SinceOf
<1> HIDE DEF f
<1>6. list' \in Seq(Watch!Paths) /\ \A h \in Watch!Paths :
        In(h, list)' <=> In(h, list) \/ (h = f /\ disk[f].there)
  <2>1. CASE disk[f].there
    <3>1. list' = Append(list, f) /\ list \in Seq(Watch!Paths)
      BY <1>2, <1>4, <2>1, Zenon DEF WatchTypeOK
    <3>2. /\ Append(list, f) \in Seq(Watch!Paths)
          /\ \A h : In(h, Append(list, f)) <=> In(h, list) \/ h = f
      BY <1>3, <3>1, AppendedPath, Zenon DEF In
    <3>3. \A h : In(h, list)' <=> In(h, Append(list, f))
      BY <3>1, Zenon DEF In
    <3>4. QED
      BY <2>1, <3>1, <3>2, <3>3, Zenon
  <2>2. CASE ~disk[f].there
    BY <1>2, <1>4, <2>2, Zenon DEF In, WatchTypeOK
  <2>3. QED
    BY <2>1, <2>2, Zenon
<1>7. updated' \in BOOLEAN /\ (updated => updated')
  BY <1>2, <1>4, Zenon DEF WatchTypeOK
<1>8. WatchTypeOK'
  <2>1. at' \in 0 .. Len(Files) + 1
    BY <1>1, <1>3
  <2>2. disk[f].version \in Nat
    BY <1>3, <1>4 DEF WatchTypeOK
  <2>3. seen' \in [Watch!Paths -> Nat]
    BY <1>1, <1>4, <2>2, Zenon DEF WatchTypeOK
  <2>4. QED
    BY <1>1, <1>4, <1>6, <1>7, <2>1, <2>3, Zenon DEF WatchTypeOK
<1>9. ASSUME NEW h \in Watch!Paths PROVE PathOK(h)'
  <2>1. PathOK(h)
    BY Zenon DEF WatchInv
  <2>2. Scanned(h)' <=> Scanned(h) \/ h = f
    <3>1. \A k \in DOMAIN Files : k < at + 1 <=> k < at \/ k = at
      <4>1. at \in Nat /\ DOMAIN Files \subseteq Nat
        BY <1>1, <1>3, SMTT(30)
      <4>2. QED
        BY <4>1, BelowNext, Zenon
    <3>2. QED
      BY <1>1, <3>1, Zenon DEF Scanned, f
  <2>3. ~Scanned(f)
    BY <1>1, <1>3 DEF Scanned, f
  <2>4. In(h, lastList)' <=> In(h, lastList)
    BY <1>1, SMTT(30) DEF In
  <2>5. SinceOf(lastScan)' = SinceOf(lastScan) /\ SinceOf(start)' = SinceOf(start)
    BY <1>1 DEF SinceOf
  <2>6. CASE h # f
    <3>1. seen'[h] = seen[h]
      BY <1>1, <1>4, <2>6 DEF WatchTypeOK
    <3>2. QED
      BY <1>1, <1>6, <1>7, <2>1, <2>2, <2>4, <2>5, <2>6, <3>1, ZenonT(30) DEF PathOK
  <2>7. CASE h = f
    <3>1. seen'[h] = disk[h].version
      BY <1>1, <1>4, <2>7 DEF WatchTypeOK
    <3>2. disk[h].there /\ disk[h].version # noted[h] => updated'
      BY <1>2, <1>5, <2>1, <2>7, Zenon DEF PathOK
    <3>3. ~In(h, list)
      BY <2>1, <2>3, <2>7, Zenon DEF PathOK
    <3>4. QED
      BY <1>1, <1>6, <2>1, <2>2, <2>4, <2>5, <2>7, <3>1, <3>2, <3>3, ZenonT(30) DEF PathOK
  <2>8. QED
    BY <2>6, <2>7
<1>10. at' # 0
  BY <1>1, <1>3
<1>11. QED
  BY <1>1, <1>8, <1>9, <1>10, Zenon DEF WatchInv

\* When a scan ends, every file has been met.
LEMMA AllScanned ==
  ASSUME ConstantsOK, WatchInv, at = Len(Files) + 1, NEW f \in Watch!Paths
  PROVE  Scanned(f)
<1>1. Len(Files) \in Nat /\ DOMAIN Files = 1 .. Len(Files)
  BY SMTT(30) DEF ConstantsOK
<1>2. PICK k \in DOMAIN Files : f = Files[k]
  BY SMTT(30) DEF Watch!Paths
<1>3. QED
  BY <1>1, <1>2 DEF Scanned

LEMMA ScanEndsInv ==
  ASSUME ConstantsOK, WatchInv, Watch!ScanEnds
  PROVE  WatchInv'
<1>1. /\ now' = now /\ grain' = grain /\ disk' = disk /\ writes' = writes
      /\ seen' = seen /\ lastScan' = start /\ lastList' = list /\ noted' = seen
      /\ at' = 0 /\ start' = 0 /\ list' = <<>> /\ updated' = FALSE
      /\ at = Len(Files) + 1
  BY DEF Watch!ScanEnds, Watch!Stamp
<1>2. Len(Files) \in Nat /\ DOMAIN Files = 1 .. Len(Files)
  BY DEF ConstantsOK
<1>3. WatchTypeOK' /\ lastScan' <= now' /\ start' <= now'
  <2>1. 0 \in 0 .. Len(Files) + 1 /\ <<>> \in Seq(Watch!Paths) /\ FALSE \in BOOLEAN
    BY <1>2, SMTT(30)
  <2>2. WatchTypeOK /\ start <= now /\ 0 <= now
    BY SMTT(30) DEF WatchInv, WatchTypeOK
  <2>3. QED
    BY <1>1, <2>1, <2>2, Zenon DEF WatchTypeOK
<1>4. ASSUME NEW h \in Watch!Paths PROVE PathOK(h)'
  <2>1. PathOK(h) /\ Scanned(h)
    BY <1>1, AllScanned DEF WatchInv
  <2>2. ~Scanned(h)'
    BY <1>1, <1>2 DEF Scanned
  <2>3. ~In(h, list)' /\ (In(h, lastList)' <=> In(h, list))
    BY <1>1 DEF In
  <2>4. SinceOf(lastScan)' = SinceOf(start)
    BY <1>1, SMTT(30) DEF SinceOf
  <2>5. QED
    BY <1>1, <2>1, <2>2, <2>3, <2>4, Zenon DEF PathOK
<1>5. QED
  BY <1>1, <1>3, <1>4, SMTT(30) DEF WatchInv

LEMMA WatchQuietInv ==
  ASSUME WatchInv, now' \in Nat, now <= now', UNCHANGED <<grain, disk, writes, Watch!scanVars>>
  PROVE  WatchInv'
<1>1. /\ grain' = grain /\ disk' = disk /\ writes' = writes
      /\ lastScan' = lastScan /\ lastList' = lastList /\ at' = at /\ start' = start
      /\ list' = list /\ updated' = updated /\ seen' = seen /\ noted' = noted
  BY SMTT(30) DEF Watch!scanVars
<1>2. WatchTypeOK' /\ lastScan' <= now' /\ start' <= now'
  BY <1>1, SMTT(30) DEF WatchInv, WatchTypeOK
<1>3. ASSUME NEW h \in Watch!Paths PROVE PathOK(h)'
  BY <1>1, ZenonT(30) DEF WatchInv, PathOK, Scanned, In, SinceOf
<1>4. QED
  BY <1>1, <1>2, <1>3, SMTT(30) DEF WatchInv

\* The invariant of the watcher: whatever is written between two scans or while
\* one runs shows in a modification time the next scan looks at.
THEOREM WatcherInvariant == Watch!Spec => []WatchInv
<1>1. Watch!Init => WatchInv
  BY WatchConstants, WatchInitInv
<1>2. WatchInv /\ [Watch!Next]_(Watch!vars) => WatchInv'
  <2> SUFFICES ASSUME WatchInv, [Watch!Next]_(Watch!vars) PROVE WatchInv'
    OBVIOUS
  <2>0. now \in Nat
    BY DEF WatchInv, WatchTypeOK
  <2>1. CASE Watch!Tick
    BY <2>0, <2>1, WatchQuietInv DEF Watch!Tick
  <2>2. ASSUME NEW f \in Watch!Paths, Watch!Write(f) PROVE WatchInv'
    BY <2>2, WriteInv, WatchConstants
  <2>3. ASSUME NEW f \in Watch!Paths, Watch!Delete(f) PROVE WatchInv'
    BY <2>3, DeleteInv, WatchConstants
  <2>4. CASE Watch!ScanBegins
    BY <2>4, ScanBeginsInv, WatchConstants
  <2>5. CASE Watch!Stat
    BY <2>5, StatInv, WatchConstants, Zenon
  <2>6. CASE Watch!ScanEnds
    BY <2>6, ScanEndsInv, WatchConstants
  <2>7. CASE UNCHANGED Watch!vars
    BY <2>0, <2>7, WatchQuietInv DEF Watch!vars, Watch!scanVars
  <2>8. QED
    BY <2>1, <2>2, <2>3, <2>4, <2>5, <2>6, <2>7, SMTT(30) DEF Watch!Next
<1>3. QED
  BY <1>1, <1>2, PTL DEF Watch!Spec

\* Scan (filewatcher.go:50) never reports that nothing changed when some file is
\* not as the scan before found it.
THEOREM ChangeSeenAlways == Watch!Spec => ChangeSeen
<1>1. WatchInv /\ [Watch!Next]_(Watch!vars) =>
        [Watch!ScanEnds /\ changed' = "no" => noted' = noted]_(Watch!vars)
  <2> SUFFICES ASSUME WatchInv, Watch!ScanEnds, changed' = "no" PROVE noted' = noted
    OBVIOUS
  <2>1. /\ ~updated /\ list = lastList /\ noted' = seen /\ at = Len(Files) + 1
    BY DEF Watch!ScanEnds
  <2>2. ASSUME NEW f \in Watch!Paths PROVE seen[f] = noted[f]
    <3>1. PathOK(f) /\ Scanned(f)
      BY <2>1, AllScanned, WatchConstants DEF WatchInv
    <3>2. seen[f] # 0 <=> noted[f] # 0
      BY <2>1, <3>1, Zenon DEF PathOK
    <3>3. QED
      BY <2>1, <3>1, <3>2, Zenon DEF PathOK
  <2>3. seen \in [Watch!Paths -> Nat] /\ noted \in [Watch!Paths -> Nat]
    BY Zenon DEF WatchInv, WatchTypeOK
  <2>4. QED
    BY <2>1, <2>2, <2>3
<1>2. QED
  BY <1>1, WatcherInvariant, PTL DEF Watch!Spec, Watch!ChangeSeen, ChangeSeen

-----------------------------------------------------------------------------
(* The listeners.                                                         *)

\* A pipe is accepted once or shut whatever the goroutines do
\* (pipelistener.go:65-93), and a server listens whatever socket files were left
\* behind (src/api, makeListener).
THEOREM ListenersAlwaysSound == Pipe!FairSpec /\ Api!FairSpec => []ListenersSound
<1>1. Pipe!FairSpec => []Pipe!PairsExact
  BY PipeInit, PipeStep, PipePairs, PTL DEF Pipe!FairSpec
<1>2. ListenersSound <=> Pipe!PairsExact /\ Api!RestartListens
  BY DEF ListenersSound
<1>3. QED
  BY <1>1, <1>2, RestartListensAlways, PTL
=============================================================================
