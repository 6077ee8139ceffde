---------------------------- MODULE PipeListener ----------------------------
(***************************************************************************)
(* The in-memory listener (src/transport/pipelistener.go).  DialContext    *)
(* waits in a select for an Accept to take the server end, for its context *)
(* or for the listener to be closed; a select with several cases ready     *)
(* takes any of them, so a pair may still meet after Close.                *)
(***************************************************************************)
EXTENDS Integers

CONSTANTS
  Dialers,    \* goroutines, one DialContext each
  Acceptors,  \* goroutines, one Accept each
  None        \* no connection

VARIABLES
  dial,      \* "idle", "waiting", "connected", "closed" or "canceled"
  canceled,  \* the dialers whose context is done
  accept,    \* "idle", "waiting", "closed" or "accepted"
  conn,      \* the dialer whose server end an Accept returned
  ends,      \* ends[d]: the pipe of d is "none", "open" or "shut"
  pipeClosed, \* the channel closed
  closers    \* how many calls of Close are still to come

vars == <<dial, canceled, accept, conn, ends, pipeClosed, closers>>

Init ==
  /\ dial = [d \in Dialers |-> "idle"]
  /\ canceled = {}
  /\ accept = [a \in Acceptors |-> "idle"]
  /\ conn = [a \in Acceptors |-> None]
  /\ ends = [d \in Dialers |-> "none"]
  /\ pipeClosed = FALSE
  /\ closers \in 0 .. 2

DialContext(d) ==
  /\ dial[d] = "idle"
  /\ dial' = [dial EXCEPT ![d] = "waiting"]
  /\ ends' = [ends EXCEPT ![d] = "open"]
  /\ UNCHANGED <<canceled, accept, conn, pipeClosed, closers>>

Cancel(d) ==
  /\ dial[d] = "waiting" /\ d \notin canceled
  /\ canceled' = canceled \cup {d}
  /\ UNCHANGED <<dial, accept, conn, ends, pipeClosed, closers>>

\* Mutation: the pipe stays open.
LeavesOpen(d, reason) ==
  /\ dial' = [dial EXCEPT ![d] = reason]
  /\ UNCHANGED <<canceled, accept, conn, ends, pipeClosed, closers>>

(* Both ends of the pipe are closed before an error is returned.           *)
Fails(d, reason) ==
  /\ dial' = [dial EXCEPT ![d] = reason]
  /\ ends' = [ends EXCEPT ![d] = "shut"]
  /\ UNCHANGED <<canceled, accept, conn, pipeClosed, closers>>

\* Mutation: DialContext does not look at the closed channel.
DialForever(d) == FALSE /\ UNCHANGED vars

DialClosed(d) == dial[d] = "waiting" /\ pipeClosed /\ Fails(d, "closed")

DialCanceled(d) == dial[d] = "waiting" /\ d \in canceled /\ Fails(d, "canceled")

Accept(a) ==
  /\ accept[a] = "idle"
  /\ accept' = [accept EXCEPT ![a] = "waiting"]
  /\ UNCHANGED <<dial, canceled, conn, ends, pipeClosed, closers>>

AcceptClosed(a) ==
  /\ accept[a] = "waiting" /\ pipeClosed
  /\ accept' = [accept EXCEPT ![a] = "closed"]
  /\ UNCHANGED <<dial, canceled, conn, ends, pipeClosed, closers>>

(* l.conns has no buffer: the two ends change hands in one step.           *)
Meet(d, a) ==
  /\ dial[d] = "waiting" /\ accept[a] = "waiting"
  /\ dial' = [dial EXCEPT ![d] = "connected"]
  /\ accept' = [accept EXCEPT ![a] = "accepted"]
  /\ conn' = [conn EXCEPT ![a] = d]
  /\ UNCHANGED <<canceled, ends, pipeClosed, closers>>

(* closeOnce: a second Close does nothing.                                 *)
Close ==
  /\ closers > 0
  /\ closers' = closers - 1
  /\ pipeClosed' = TRUE
  /\ UNCHANGED <<dial, canceled, accept, conn, ends>>

(* Go schedules every goroutine that can run.                              *)
Step(d) == DialClosed(d) \/ DialCanceled(d) \/ \E a \in Acceptors : Meet(d, a)

Next ==
  \/ \E d \in Dialers : DialContext(d) \/ Cancel(d) \/ Step(d)
  \/ \E a \in Acceptors : Accept(a) \/ AcceptClosed(a)
  \/ Close

Fairness ==
  /\ \A d \in Dialers : WF_vars(Step(d))
  /\ \A a \in Acceptors : WF_vars(AcceptClosed(a))

FairSpec == Init /\ [][Next]_vars /\ Fairness

(* Connections change hands whole (pipelistener.go:65-93): a dialer that   *)
(* connected was accepted by exactly one Accept, nobody else was, and the  *)
(* pipe of a dialer that failed is shut.                                   *)
PairsExact ==
  \A d \in Dialers :
    LET takers == {a \in Acceptors : conn[a] = d}
    IN /\ IF dial[d] = "connected" THEN \E a \in Acceptors : takers = {a} ELSE takers = {}
       /\ dial[d] \in {"closed", "canceled"} => ends[d] = "shut"
       /\ dial[d] = "connected" => ends[d] = "open"

(* Once the listener is closed nobody waits on it for ever, in DialContext *)
(* or in Accept (pipelistener.go:67,79).                                   *)
CloseWakes ==
  pipeClosed ~> /\ \A d \in Dialers : dial[d] # "waiting"
            /\ \A a \in Acceptors : accept[a] # "waiting"
=============================================================================
