----------------------------- MODULE Lifecycle ------------------------------
(***************************************************************************)
(* The parts that start, run in the background and stop: the periodic      *)
(* doer, the file watcher, the in-memory listener, the service and the API *)
(* server.  The parts do not meet: a behaviour is one of "part", and the   *)
(* others stay in an initial state.                                        *)
(***************************************************************************)
EXTENDS Doer, Sequences

CONSTANTS
  Files, Second, Grains, MaxTime, MaxWrites,  \* of the file watcher
  Dialers, Acceptors,                         \* of the listener
  Kinds, MaxSignals, MaxRequests,             \* of the service
  Servers, Configs, Platforms, Stale,         \* of the API server
  None

\* Paths are listed once, the file system keeps at least the seconds of a
\* modification time, and None is neither a server nor a dialer.
ASSUME LifecycleAssumption ==
  /\ Second \in Nat \ {0} /\ MaxTime \in Nat /\ MaxWrites \in Nat
  /\ \A g \in Grains : g \in Nat \ {0} /\ g <= Second
  /\ Files \in Seq({Files[k] : k \in DOMAIN Files})
  /\ \A j, k \in DOMAIN Files : Files[j] = Files[k] => j = k
  /\ None \notin Servers \cup Dialers

VARIABLES
  part,
  now, grain, disk, writes, lastScan, lastList, at, start, list, updated, seen, noted, changed,
  dial, canceled, accept, conn, ends, pipeClosed, closers,
  kind, cpuprofile, profile, signals, sigc, sigGo, requests, forward, exec,
  once, stops, ctxDone, main, done, executeFinished, reported,
  cfg, platform, file, stage, bound, serve, down, rivals

Watch == INSTANCE FileWatcher
Pipe == INSTANCE PipeListener
Svc == INSTANCE Service
Api == INSTANCE ApiServer

watchVars == <<now, grain, disk, writes, lastScan, lastList, at, start, list, updated,
               seen, noted, changed>>
pipeVars == <<dial, canceled, accept, conn, ends, pipeClosed, closers>>
svcVars == <<kind, cpuprofile, profile, signals, sigc, sigGo, requests, forward, exec,
             once, stops, ctxDone, main, done, executeFinished, reported>>
apiVars == <<cfg, platform, file, stage, bound, serve, down, rivals>>
lifeVars == <<part, vars, watchVars, pipeVars, svcVars, apiVars>>

(* The choices Init leaves open are fixed for the parts that do not run.   *)
LifeInit ==
  /\ part \in {"doer", "watch", "pipe", "service", "api"}
  /\ Init
  /\ part # "watch" => grain = 2 /\ disk = [f \in Watch!Paths |-> [there |-> FALSE, mtime |-> 0, version |-> 0]]
  /\ Watch!Init
  /\ part # "pipe" => closers = 0
  /\ Pipe!Init
  /\ part # "service" => kind = "unix" /\ cpuprofile = FALSE /\ signals = 0 /\ requests = 0
  /\ Svc!Init
  /\ part # "api" => cfg = [host |-> "plain", user |-> FALSE, sd |-> FALSE] /\ platform = "posix" /\ file = None
  /\ Api!Init

LifeNext ==
  \/ part = "doer" /\ Next /\ UNCHANGED <<part, watchVars, pipeVars, svcVars, apiVars>>
  \/ part = "watch" /\ Watch!Next /\ UNCHANGED <<part, vars, pipeVars, svcVars, apiVars>>
  \/ part = "pipe" /\ Pipe!Next /\ UNCHANGED <<part, vars, watchVars, svcVars, apiVars>>
  \/ part = "service" /\ Svc!Next /\ UNCHANGED <<part, vars, watchVars, pipeVars, apiVars>>
  \/ part = "api" /\ Api!Next /\ UNCHANGED <<part, vars, watchVars, pipeVars, svcVars>>
  \/ part # "doer" /\ UNCHANGED lifeVars

LifeFairness ==
  /\ WF_vars(part = "doer" /\ Runner) /\ WF_vars(part = "doer" /\ Owner)
  /\ SF_vars(part = "doer" /\ SelectDone) /\ WF_vars(part = "doer" /\ Time)
  /\ \A d \in Dialers : WF_pipeVars(part = "pipe" /\ Pipe!Step(d))
  /\ \A a \in Acceptors : WF_pipeVars(part = "pipe" /\ Pipe!AcceptClosed(a))
  /\ WF_svcVars(part = "service" /\ Svc!Program)
  /\ WF_svcVars(part = "service" /\ stops > 0 /\ Svc!Ends)
  /\ WF_svcVars(part = "service" /\ Svc!SignalGoroutine)
  /\ WF_svcVars(part = "service" /\ Svc!Execute)
  /\ WF_svcVars(part = "service" /\ (Svc!ForwardsRequest \/ Svc!ForwardsDone))
  /\ \A s \in Servers : WF_apiVars(part = "api" /\ Api!Goroutine(s))

LifeSpec == LifeInit /\ [][LifeNext]_lifeVars /\ LifeFairness

(* A scan that reports no change has found every file as the scan before   *)
(* found it (src/filewatcher/filewatcher.go, Scan).                        *)
ChangeSeen == Watch!ChangeSeen

(* Listeners hand over and take over whole: a pipe is accepted once or     *)
(* shut (src/transport/pipelistener.go), and a socket file left behind by  *)
(* a crash never keeps a new server from listening (src/api, makeListener).*)
ListenersSound == Pipe!PairsExact /\ Api!RestartListens

(* A closed pipe listener wakes everyone who waits on it, and a server     *)
(* that was started and shut down gives its address back                   *)
(* (src/transport/pipelistener.go, src/api/server.go).                     *)
ClosingReleases == Pipe!CloseWakes /\ Api!ShutdownReleases

(* The service manager hears Stopped last, after the program has ended and *)
(* stopFunction was called once (src/service/service_windows.go, Execute). *)
StoppedLast == Svc!StoppedLast

(* A signal or a stop request leads to stopFunction and to the end of the  *)
(* process (src/service/service.go, HandleSignals).                        *)
StopEndsProcess == Svc!StopEndsProcess
=============================================================================
