------------------------------ MODULE Service -------------------------------
(***************************************************************************)
(* The life of a service (src/service): BeforeRun, HandleSignals with its  *)
(* goroutine for signals and, on Windows, Execute with the goroutine that  *)
(* forwards the requests of the service manager, the end of the program    *)
(* with NotifyTermination, WaitExecutionDone and Cleanup.  Channels have   *)
(* no buffer: a send and its receive are one step.                         *)
(***************************************************************************)
EXTENDS Integers, Sequences

CONSTANTS
  Kinds,        \* "unix", "service" (Windows), "console" (Windows, no manager)
  MaxSignals,   \* bound on the signals sent to the process
  MaxRequests   \* bound on the requests of the service manager

VARIABLES
  kind, cpuprofile, profile,      \* the platform, the flag, the CPU profile
  signals, sigc, sigGo,           \* signals to come, the channel, its goroutine
  requests, forward, exec,        \* requests to come, the forwarder, Execute
  once, stops, ctxDone,          \* callback, calls of stopFunction, the context
  main, done, executeFinished,    \* the program, the two channels
  reported                        \* what the service manager was told

vars == <<kind, cpuprofile, profile, signals, sigc, sigGo, requests, forward, exec,
          once, stops, ctxDone, main, done, executeFinished, reported>>
sigVars == <<signals, sigc, sigGo>>
svcVars == <<requests, forward, exec, reported, executeFinished>>
stopVars == <<once, stops>>
progVars == <<cpuprofile, profile, main, done>>

Idle == "idle"
Commands == {"interrogate", "stop", "shutdown", "other"}

Init ==
  /\ kind \in Kinds
  /\ cpuprofile \in BOOLEAN /\ profile = "none"
  /\ signals \in 0 .. MaxSignals /\ sigc = 0 /\ sigGo = Idle
  /\ requests \in 0 .. MaxRequests /\ forward = Idle /\ exec = Idle
  /\ once = "free" /\ stops = 0 /\ ctxDone = FALSE
  /\ main = "start" /\ done = FALSE /\ executeFinished = FALSE
  /\ reported = <<>>

-----------------------------------------------------------------------------
(* The program: it may end because stopFunction was called or by itself.   *)

(* BeforeRun: a profile that cannot be created ends the process.           *)
BeforeRun ==
  /\ main = "start"
  /\ \/ ~cpuprofile /\ main' = "ready" /\ UNCHANGED profile
     \/ cpuprofile /\ main' = "ready" /\ profile' = "running"
     \/ cpuprofile /\ main' = "exit" /\ UNCHANGED profile
  /\ UNCHANGED <<kind, cpuprofile, sigVars, svcVars, stopVars, ctxDone, done>>

(* ProcessWindowsControlEvents runs Execute; without a service manager it  *)
(* returns at once, and on other systems it does nothing.                  *)
ProcessWindowsControlEvents ==
  /\ exec' = IF kind = "service" THEN "pending" ELSE Idle
  /\ executeFinished' = (kind = "console")

(* HandleSignals starts both goroutines.                                   *)
HandleSignals ==
  /\ main = "ready"
  /\ main' = "running"
  /\ sigGo' = "wait"
  /\ ProcessWindowsControlEvents
  /\ UNCHANGED <<kind, cpuprofile, profile, signals, sigc, requests, forward,
                 stopVars, ctxDone, done, reported>>

(* The program returns from its loop, then NotifyTermination closes done.  *)
Ends ==
  /\ main = "running"
  /\ main' = "ended"
  /\ UNCHANGED <<kind, cpuprofile, profile, sigVars, svcVars, stopVars, ctxDone, done>>

NotifyTermination ==
  /\ main = "ended"
  /\ done' = (kind # "unix")
  /\ main' = "wait"
  /\ UNCHANGED <<kind, cpuprofile, profile, sigVars, svcVars, stopVars, ctxDone>>

(* WaitExecutionDone: a service waits for Execute, or for half a second.   *)
WaitExecutionDone ==
  /\ main = "wait"
  /\ kind = "service" => executeFinished
  /\ main' = "cleanup"
  /\ UNCHANGED <<kind, cpuprofile, profile, sigVars, svcVars, stopVars, ctxDone, done>>

WaitTimesOut ==
  /\ main = "wait" /\ kind = "service" /\ ~executeFinished
  /\ main' = "cleanup"
  /\ UNCHANGED <<kind, cpuprofile, profile, sigVars, svcVars, stopVars, ctxDone, done>>

(* Cleanup stops the profile.  Its Close is on the package's cpuOut, which *)
(* BeforeRun shadows and never sets.                                       *)
Cleanup ==
  /\ main = "cleanup"
  /\ main' = "exit"
  /\ profile' = IF cpuprofile THEN "stopped" ELSE profile
  /\ UNCHANGED <<kind, cpuprofile, sigVars, svcVars, stopVars, ctxDone, done>>

-----------------------------------------------------------------------------
(* Signals.  The channel has room for one, and the goroutine takes one.    *)

Alive == main # "exit"

Signal ==
  /\ Alive /\ signals > 0 /\ sigGo # Idle
  /\ signals' = signals - 1
  /\ sigc' = 1
  /\ UNCHANGED <<kind, progVars, svcVars, stopVars, ctxDone, sigGo>>

SignalTaken ==
  /\ Alive /\ sigGo = "wait" /\ sigc = 1
  /\ sigc' = 0
  /\ sigGo' = "callback"
  /\ ctxDone' = TRUE
  /\ UNCHANGED <<kind, progVars, svcVars, stopVars, signals>>

(* sync.Once: one caller runs stopFunction, the other waits until it has   *)
(* returned.                                                               *)
Call(who) == once = "free" /\ once' = who /\ stops' = stops + 1

SignalCalls ==
  /\ Alive /\ sigGo = "callback" /\ Call("signal")
  /\ sigGo' = "stopping"
  /\ UNCHANGED <<kind, progVars, svcVars, ctxDone, signals, sigc>>

SignalReturns ==
  /\ Alive
  /\ \/ sigGo = "stopping" /\ once' = "done"
     \/ sigGo = "callback" /\ once = "done" /\ UNCHANGED once
  /\ sigGo' = "done"
  /\ UNCHANGED <<kind, progVars, svcVars, stops, ctxDone, signals, sigc>>

-----------------------------------------------------------------------------
(* The Windows service.                                                    *)

Report(s) == reported' = Append(reported, s)

ExecuteStarts ==
  /\ Alive
  /\ \/ exec = "pending" /\ exec' = "run" /\ Report("StartPending") /\ UNCHANGED forward
     \/ exec = "run" /\ exec' = "loop" /\ Report("Running") /\ forward' = "select"
  /\ UNCHANGED <<kind, progVars, sigVars, stopVars, ctxDone, requests, executeFinished>>

(* The forwarder: a request of the manager, or the end of the program.     *)
ForwardsRequest ==
  /\ Alive /\ forward = "select" /\ requests > 0
  /\ requests' = requests - 1
  /\ forward' \in Commands
  /\ UNCHANGED <<kind, progVars, sigVars, stopVars, ctxDone, exec, reported, executeFinished>>

\* Mutation: the forwarder does not look at the channel done.
NeverForwards == FALSE /\ UNCHANGED vars

ForwardsDone ==
  /\ Alive /\ forward = "select" /\ done
  /\ forward' = "last"
  /\ UNCHANGED <<kind, progVars, sigVars, stopVars, ctxDone, requests, exec, reported,
                 executeFinished>>

(* combinedChan: the loop of Execute takes what the forwarder sends.       *)
Handle ==
  /\ Alive /\ exec = "loop" /\ forward \in Commands \cup {"last"}
  /\ exec' = CASE forward = "interrogate" -> "echo"
               [] forward \in {"stop", "shutdown", "last"} -> "stopping"
               [] OTHER -> "loop"
  /\ forward' = IF forward = "last" THEN "exited" ELSE "select"
  /\ UNCHANGED <<kind, progVars, sigVars, stopVars, ctxDone, requests, reported,
                 executeFinished>>

Echo ==
  /\ Alive /\ exec \in {"echo", "again"}
  /\ exec' = IF exec = "echo" THEN "again" ELSE "loop"
  /\ Report("Current")
  /\ UNCHANGED <<kind, progVars, sigVars, stopVars, ctxDone, requests, forward, executeFinished>>

(* trySendState gives up after half a second.                              *)
TrySendState(s) == Report(s) \/ UNCHANGED reported

StopPending ==
  /\ Alive /\ exec = "stopping"
  /\ TrySendState("StopPending")
  /\ exec' = "callback"
  /\ UNCHANGED <<kind, progVars, sigVars, stopVars, ctxDone, requests, forward, executeFinished>>

StopCallback ==
  /\ Alive /\ exec = "callback" /\ Call("execute")
  /\ exec' = "calling"
  /\ UNCHANGED <<kind, progVars, sigVars, ctxDone, requests, forward, reported, executeFinished>>

StopReturned ==
  /\ Alive
  /\ \/ exec = "calling" /\ once' = "done"
     \/ exec = "callback" /\ once = "done" /\ UNCHANGED once
  /\ exec' = "waitDone"
  /\ UNCHANGED <<kind, progVars, sigVars, stops, ctxDone, requests, forward, reported,
                 executeFinished>>

\* Mutation: Execute does not wait for the end of the program.
StoppedAtOnce ==
  /\ Alive /\ exec = "waitDone"
  /\ TrySendState("Stopped")
  /\ exec' = "finished"
  /\ executeFinished' = TRUE
  /\ UNCHANGED <<kind, progVars, sigVars, stopVars, ctxDone, requests, forward>>

(* Execute blocks until NotifyTermination: the manager turns the service   *)
(* to stopped as soon as Execute returns.                                  *)
Stopped ==
  /\ Alive /\ exec = "waitDone" /\ done
  /\ TrySendState("Stopped")
  /\ exec' = "finished"
  /\ executeFinished' = TRUE
  /\ UNCHANGED <<kind, progVars, sigVars, stopVars, ctxDone, requests, forward>>

-----------------------------------------------------------------------------
Program == BeforeRun \/ HandleSignals \/ NotifyTermination \/ WaitExecutionDone \/ Cleanup
SignalGoroutine == SignalTaken \/ SignalCalls \/ SignalReturns
Execute == ExecuteStarts \/ Handle \/ Echo \/ StopPending \/ StopCallback \/ StopReturned
           \/ Stopped

Next ==
  \/ BeforeRun \/ HandleSignals \/ Ends \/ NotifyTermination
  \/ WaitExecutionDone \/ WaitTimesOut \/ Cleanup
  \/ Signal \/ SignalTaken \/ SignalCalls \/ SignalReturns
  \/ ExecuteStarts \/ ForwardsRequest \/ ForwardsDone \/ Handle \/ Echo
  \/ StopPending \/ StopCallback \/ StopReturned \/ Stopped

(* Go runs every goroutine that can run.  A program whose stopFunction has *)
(* been called returns from its loop.  The half second after which         *)
(* WaitExecutionDone gives up is not relied on.                            *)
Fairness ==
  /\ WF_vars(Program)
  /\ WF_vars(stops > 0 /\ Ends)
  /\ WF_vars(SignalGoroutine)
  /\ WF_vars(Execute)
  /\ WF_vars(ForwardsRequest \/ ForwardsDone)

FairSpec == Init /\ [][Next]_vars /\ Fairness

(* The service manager is told Stopped, and Execute returns, only when the *)
(* program has ended and stopFunction was called, once, whoever asked for  *)
(* it first (service.go:43, service_windows.go:96-99); it hears StopPending*)
(* before Stopped and nothing after it.                                    *)
StoppedLast ==
  /\ stops <= 1
  /\ exec = "finished" => done /\ stops = 1 /\ once = "done"
  /\ \A k \in DOMAIN reported :
       /\ reported[k] = "Stopped" => k = Len(reported) /\ exec = "finished"
       /\ reported[k] = "StopPending" =>
            \A j \in k + 1 .. Len(reported) : reported[j] = "Stopped"

(* A signal, and a stop request the forwarder has taken, lead to           *)
(* stopFunction and to the end of the process (HandleSignals, service.go:42*)
(* and Execute, service_windows.go:60); no request in flight and no second *)
(* caller of the callback keeps it from ending.                            *)
StopEndsProcess ==
  /\ (sigc = 1 /\ sigGo = "wait") ~> (main = "exit")
  /\ (forward \in {"stop", "shutdown"}) ~> (main = "exit")

=============================================================================
