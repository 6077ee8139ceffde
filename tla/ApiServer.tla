----------------------------- MODULE ApiServer ------------------------------
(***************************************************************************)
(* The API server (src/api): New makes the listener, Start serves it in a  *)
(* goroutine, Stop closes the listener and Shutdown the HTTP server.  The  *)
(* servers share one unix socket path: successive incarnations of a        *)
(* process that may crash, or two processes.  net.UnixListener removes the *)
(* file of its path when it is closed, whoever made the file.              *)
(***************************************************************************)
EXTENDS Integers

CONSTANTS
  Servers,    \* the servers made, all with the same settings
  Configs,    \* the settings: [host, port, user, sd]
  Platforms,  \* "posix", "windows"
  None,       \* no file
  Stale       \* a socket file nobody listens on

VARIABLES
  cfg, platform,
  file,     \* what is at the path: None, Stale or the server that listens
  stage,    \* where New is, and how it ended
  bound,    \* the servers whose listener is open
  serve,    \* the goroutine of Start: "no", "starting", "serving", "ended"
  down,     \* the servers whose http.Server was shut down
  rivals    \* the servers that listened while this one was being made

vars == <<cfg, platform, file, stage, bound, serve, down, rivals>>

Init ==
  /\ cfg \in Configs /\ platform \in Platforms
  /\ file \in {None, Stale}
  /\ stage = [s \in Servers |-> "none"]
  /\ bound = {}
  /\ serve = [s \in Servers |-> "no"]
  /\ down = {}
  /\ rivals = [s \in Servers |-> {}]

-----------------------------------------------------------------------------
(* parse: the network of a host string; without scheme and host it is tcp. *)
parse(host) ==
  CASE host = "plain" -> "tcp" [] host = "http" -> "tcp" [] host = "unix" -> "unix"
    [] OTHER -> "error"

(* What makeListener checks before it listens, on posix and on Windows; a  *)
(* named pipe and tcp do not touch the file.                               *)
Checks ==
  IF platform = "posix"
  THEN IF cfg.user \/ cfg.sd \/ cfg.host = "npipe" THEN "error" ELSE parse(cfg.host)
  ELSE IF cfg.user /\ cfg.sd THEN "error"
       ELSE IF cfg.host = "npipe" THEN "npipe"
       ELSE IF parse(cfg.host) = "unix" THEN "error" ELSE parse(cfg.host)

Unix == Checks = "unix"
At(s, place) == stage' = [stage EXCEPT ![s] = place]

New(s) ==
  /\ stage[s] = "none"
  /\ At(s, IF Checks = "error" THEN "refused" ELSE IF Unix THEN "remove" ELSE "listen")
  /\ rivals' = [rivals EXCEPT ![s] = bound]
  /\ UNCHANGED <<cfg, platform, file, bound, serve, down>>

(* An existing socket file is removed, the one of a running server too.    *)
RemoveFile(s) ==
  /\ stage[s] = "remove"
  /\ file' = None
  /\ At(s, "listen")
  /\ UNCHANGED <<cfg, platform, bound, serve, down, rivals>>

(* bind fails when the file exists, or the tcp address or pipe is taken.   *)
InUse == IF Unix THEN file # None ELSE bound # {}

Listen(s) ==
  /\ stage[s] = "listen"
  /\ IF InUse THEN At(s, "inuse") /\ UNCHANGED <<file, bound, rivals>>
     ELSE /\ At(s, IF Unix THEN "chmod" ELSE "made")
          /\ file' = IF Unix THEN s ELSE file
          /\ bound' = bound \cup {s}
          /\ rivals' = [t \in Servers |-> IF stage[t] \in {"remove", "listen"} /\ t # s
                                          THEN rivals[t] \cup {s} ELSE rivals[t]]
  /\ UNCHANGED <<cfg, platform, serve, down>>

(* A failing Chmod makes New fail but leaves the listener open.            *)
Chmod(s) ==
  /\ stage[s] = "chmod"
  /\ At(s, "made") \/ At(s, "leaked")
  /\ UNCHANGED <<cfg, platform, file, bound, serve, down, rivals>>

-----------------------------------------------------------------------------
Start(s) ==
  /\ stage[s] = "made" /\ serve[s] = "no"
  /\ serve' = [serve EXCEPT ![s] = "starting"]
  /\ UNCHANGED <<cfg, platform, file, stage, bound, down, rivals>>

(* Closing a listener the first time unlinks its path.                     *)
CloseListener(s) ==
  /\ bound' = bound \ {s}
  /\ file' = IF Unix /\ s \in bound THEN None ELSE file

(* http.Server.Serve: a server that is already shut down closes the        *)
(* listener, and so does Serve when it returns.                            *)
ServeBegins(s) ==
  /\ serve[s] = "starting"
  /\ IF s \in down
     THEN CloseListener(s) /\ serve' = [serve EXCEPT ![s] = "ended"]
     ELSE serve' = [serve EXCEPT ![s] = "serving"] /\ UNCHANGED <<file, bound>>
  /\ UNCHANGED <<cfg, platform, stage, down, rivals>>

ServeEnds(s) ==
  /\ serve[s] = "serving" /\ s \notin bound
  /\ serve' = [serve EXCEPT ![s] = "ended"]
  /\ UNCHANGED <<cfg, platform, file, stage, bound, down, rivals>>

Stop(s) ==
  /\ stage[s] = "made" /\ s \in bound
  /\ CloseListener(s)
  /\ UNCHANGED <<cfg, platform, stage, serve, down, rivals>>

(* http.Server.Shutdown closes the listeners Serve has registered.         *)
Shutdown(s) ==
  /\ stage[s] = "made" /\ s \notin down
  /\ down' = down \cup {s}
  /\ IF serve[s] = "serving" THEN CloseListener(s) ELSE UNCHANGED <<file, bound>>
  /\ UNCHANGED <<cfg, platform, stage, serve, rivals>>

(* The process of a server dies: its socket closes and its file stays.     *)
Crash(s) ==
  /\ stage[s] \notin {"none", "refused", "inuse", "crashed"}
  /\ stage' = [stage EXCEPT ![s] = "crashed"]
  /\ bound' = bound \ {s}
  /\ file' = IF file = s THEN Stale ELSE file
  /\ serve' = [serve EXCEPT ![s] = "ended"]
  /\ UNCHANGED <<cfg, platform, down, rivals>>

Goroutine(s) == ServeBegins(s) \/ ServeEnds(s)

Next ==
  \E s \in Servers :
    \/ New(s) \/ RemoveFile(s) \/ Listen(s) \/ Chmod(s)
    \/ Start(s) \/ ServeBegins(s) \/ ServeEnds(s) \/ Stop(s) \/ Shutdown(s)
    \/ Crash(s)

Fairness == \A s \in Servers : WF_vars(Goroutine(s))

FairSpec == Init /\ [][Next]_vars /\ Fairness

(* A server finds its address in use only if another server was listening  *)
(* or began to while it was made (makeListener, make_listener_posix.go:49):*)
(* the socket file a crash left behind never keeps a restart from serving. *)
RestartListens == \A s \in Servers : stage[s] = "inuse" => rivals[s] # {}

(* A server that was started and shut down gives its address back, also    *)
(* when Shutdown comes before the goroutine of Start serves (server.go:83).*)
(* One that was never started keeps it.                                    *)
ShutdownReleases ==
  \A s \in Servers : (s \in down /\ serve[s] # "no") ~> (s \notin bound)
=============================================================================
