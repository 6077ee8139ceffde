------------------------------- MODULE Client -------------------------------
(***************************************************************************)
(* The network client (src/transport/client.go) with a TLS dialer (tls.go, *)
(* tcp.go, util.go): goroutines connect, close, read, write and ask for    *)
(* addresses at the same time.                                             *)
(*                                                                         *)
(* ConnectContext holds the mutex while it dials, tries the addresses of   *)
(* the host in any order and makes the TLS handshake; Close takes the      *)
(* mutex; the other methods take it only to copy c.conn, and Write,        *)
(* LocalAddr and RemoteAddr then use c.conn itself again without it.  A    *)
(* panic ends the process.                                                 *)
(***************************************************************************)
EXTENDS Integers

CONSTANTS
  Threads,     \* the goroutines that use the client
  NoThread,    \* nobody
  Addresses,   \* the addresses of the host
  MaxSockets   \* bound on the number of sockets

ASSUME ConstantsAssumption ==
  /\ NoThread \notin Threads
  /\ MaxSockets \in Nat

Sockets == 1 .. MaxSockets
None == 0

VARIABLES
  conn,     \* c.conn
  open,     \* the sockets that are open
  sockets,  \* number of sockets so far
  holder,   \* who holds c.mutex
  left,     \* the addresses DialWith has not tried
  socket,   \* the socket of the connection that is being made
  pc,       \* where each goroutine is
  mine      \* the connection it got from getConn, or used last

connVars == <<conn, open, sockets>>
dialVars == <<holder, left, socket>>
vars == <<connVars, dialVars, pc, mine>>

Uses == {"read", "write", "address", "deadline"}
Dialing == {"lookup", "dial", "handshake", "verify"}

Init ==
  /\ conn = None
  /\ open = {}
  /\ sockets = 0
  /\ holder = NoThread
  /\ left = {}
  /\ socket = None
  /\ pc = [t \in Threads |-> "idle"]
  /\ mine = [t \in Threads |-> None]

Go(t, place) == pc' = [pc EXCEPT ![t] = place]
Free == holder = NoThread

-----------------------------------------------------------------------------
(* ConnectContext and the dialers.                                         *)

\* Lock the mutex and close the old connection.
Connect(t) ==
  /\ pc[t] = "idle"
  /\ Free
  /\ open' = open \ {conn}
  /\ conn' = None
  /\ holder' = t
  /\ left' = Addresses
  /\ Go(t, "lookup")
  /\ UNCHANGED <<sockets, socket, mine>>

\* ConnectContext returns, and the mutex is unlocked.
ConnectReturn(t) ==
  /\ holder' = NoThread
  /\ socket' = None
  /\ left' = {}
  /\ Go(t, "idle")
  /\ UNCHANGED mine

\* Mutation: the mutex stays locked when the lookup fails.
LookupLocked(t) ==
  /\ pc[t] = "lookup"
  /\ \/ Addresses # {} /\ Go(t, "dial")
     \/ Go(t, "idle")
  /\ UNCHANGED <<connVars, dialVars, mine>>

\* net.LookupHost, and DialWith without an address.
Lookup(t) ==
  /\ pc[t] = "lookup"
  /\ \/ /\ Addresses # {}
        /\ Go(t, "dial")
        /\ UNCHANGED <<dialVars, mine>>
     \/ ConnectReturn(t)
  /\ UNCHANGED connVars

DialAddress(t) ==
  /\ pc[t] = "dial"
  /\ sockets < MaxSockets
  /\ sockets' = sockets + 1
  /\ open' = open \union {sockets + 1}
  /\ socket' = sockets + 1
  /\ Go(t, "handshake")
  /\ UNCHANGED <<conn, holder, left, mine>>

\* An address fails; after the last one DialWith returns the error.
DialAddressFails(t) ==
  /\ pc[t] = "dial"
  /\ \E a \in left :
       IF left = {a}
       THEN ConnectReturn(t)
       ELSE left' = left \ {a} /\ UNCHANGED <<holder, socket, pc, mine>>
  /\ UNCHANGED connVars

\* The deadline for the handshake, and the handshake.
Handshake(t) ==
  /\ pc[t] = "handshake"
  /\ Go(t, "verify")
  /\ UNCHANGED <<connVars, dialVars, mine>>

\* postVerifyTLSConnection has no objection: the client is connected.
Verified(t) ==
  /\ pc[t] = "verify"
  /\ conn' = socket
  /\ ConnectReturn(t)
  /\ UNCHANGED <<open, sockets>>

\* Mutation: the socket stays open.
DialFailsOpen(t) ==
  /\ pc[t] \in {"handshake", "verify"}
  /\ ConnectReturn(t)
  /\ UNCHANGED connVars

\* The deadline, the handshake or postVerifyTLSConnection fails.
DialFails(t) ==
  /\ pc[t] \in {"handshake", "verify"}
  /\ open' = open \ {socket}
  /\ ConnectReturn(t)
  /\ UNCHANGED <<conn, sockets>>

-----------------------------------------------------------------------------
(* Close, and the methods that use the connection.                         *)

CloseConn ==
  /\ open' = open \ {conn}
  /\ conn' = None
  /\ UNCHANGED sockets

Close(t) ==
  /\ pc[t] = "idle"
  /\ Free
  /\ CloseConn
  /\ UNCHANGED <<dialVars, pc, mine>>

\* getConn; without a connection the method returns.
GetConn(t, use) ==
  /\ pc[t] = "idle"
  /\ Free
  /\ conn # None
  /\ mine' = [mine EXCEPT ![t] = conn]
  /\ Go(t, use)
  /\ UNCHANGED <<connVars, dialVars>>

\* An operation on socket s: it succeeds, times out or meets the end of the
\* stream, or handleError is given a network error and closes.
Finish(t, s) ==
  /\ mine' = [mine EXCEPT ![t] = s]
  /\ \/ s \in open /\ Go(t, "idle")
     \/ Go(t, "fail")
  /\ UNCHANGED <<connVars, dialVars>>

\* Read and SetDeadline use the connection they got.
Read(t) ==
  /\ pc[t] \in {"read", "deadline"}
  /\ Finish(t, mine[t])

\* Write uses c.conn.
Write(t) ==
  /\ pc[t] = "write"
  /\ conn # None
  /\ Finish(t, conn)

\* LocalAddr and RemoteAddr use c.conn.
Address(t) ==
  /\ pc[t] = "address"
  /\ conn # None
  /\ Go(t, "idle")
  /\ UNCHANGED <<connVars, dialVars, mine>>

\* c.conn is nil by now.
NilConn(t) ==
  /\ pc[t] \in {"write", "address"}
  /\ conn = None
  /\ Go(t, "panic")
  /\ UNCHANGED <<connVars, dialVars, mine>>

\* Mutation: the error is reported and nothing is closed.
HandleErrorNot(t) ==
  /\ pc[t] = "fail"
  /\ Free
  /\ Go(t, "idle")
  /\ UNCHANGED <<connVars, dialVars, mine>>

\* handleError closes the connection the client has now.
HandleError(t) ==
  /\ pc[t] = "fail"
  /\ Free
  /\ CloseConn
  /\ Go(t, "idle")
  /\ UNCHANGED <<dialVars, mine>>

-----------------------------------------------------------------------------
Running == \A t \in Threads : pc[t] # "panic"

Dial(t) ==
  Lookup(t) \/ DialAddress(t) \/ DialAddressFails(t) \/ Handshake(t) \/ Verified(t) \/ DialFails(t)

Next ==
  \E t \in Threads :
    /\ Running
    /\ \/ Connect(t)
       \/ Dial(t)
       \/ Close(t)
       \/ \E use \in Uses : GetConn(t, use)
       \/ Read(t)
       \/ Write(t)
       \/ Address(t)
       \/ NilConn(t)
       \/ HandleError(t)

Spec == Init /\ [][Next]_vars

\* Dialing and the handshake have a timeout, and sync.Mutex does not starve a
\* goroutine that waits for it.  Reads and writes may block for ever.
FairSpec ==
  /\ Spec
  /\ \A t \in Threads : WF_vars(Running /\ Dial(t)) /\ SF_vars(Running /\ HandleError(t))

-----------------------------------------------------------------------------
(* Properties.                                                             *)

TypeOK ==
  /\ conn \in Sockets \union {None}
  /\ open \subseteq Sockets
  /\ sockets \in 0 .. MaxSockets
  /\ holder \in Threads \union {NoThread}
  /\ left \subseteq Addresses
  /\ socket \in Sockets \union {None}
  /\ pc \in [Threads -> {"idle", "fail", "panic"} \union Uses \union Dialing]
  /\ mine \in [Threads -> Sockets \union {None}]

\* The open sockets are the client's connection and the one a dialer is working
\* on: whatever fails, closes or reconnects when, no socket leaks and c.conn is
\* never a connection the client has closed.
OwnsOpenSockets == open = {conn, socket} \ {None}

\* When an operation has reported a network error the connection it was using is
\* closed (handleError), also if the client has been reconnected meanwhile.
ErrorCloses ==
  [][\A t \in Threads : pc[t] = "fail" /\ pc'[t] = "idle" => mine[t] \notin open']_vars

\* A method finds c.conn nil only if the connection it got from getConn has been
\* closed by another goroutine meanwhile.
PanicOnlyIfClosed ==
  \A t \in Threads : pc[t] = "panic" => mine[t] \notin open

\* ConnectContext returns, and a goroutine that met an error gets the mutex to
\* close the connection, unless a panic ends the process.
CallsReturn ==
  \A t \in Threads : pc[t] \in Dialing \union {"fail"} ~> pc[t] = "idle" \/ ~Running
=============================================================================
