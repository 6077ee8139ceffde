---------------------------- MODULE ClientProofs ----------------------------
(***************************************************************************)
(* Proofs about Client, for any number of goroutines, addresses and        *)
(* sockets.  The inductive invariant adds to the properties who may be     *)
(* dialing (the holder of the mutex, while c.conn is nil) and that a       *)
(* socket which is being set up is known to nobody else.                   *)
(***************************************************************************)
EXTENDS Client, TLAPS

\* The goroutine that dials has the mutex, and the client has no connection.
DialsAlone ==
  /\ \A t \in Threads : pc[t] \in Dialing => holder = t
  /\ holder # NoThread => conn = None
  /\ \A t \in Threads : pc[t] \in {"lookup", "dial"} => socket = None
  /\ \A t \in Threads : pc[t] \in {"handshake", "verify"} => socket # None
  /\ holder = NoThread => socket = None

\* The socket of a connection that is being made is not used by anybody.
Unshared ==
  /\ conn <= sockets /\ socket <= sockets
  /\ \A t \in Threads : mine[t] <= sockets
  /\ socket # None => \A t \in Threads : mine[t] # socket

Inv == TypeOK /\ OwnsOpenSockets /\ DialsAlone /\ Unshared /\ PanicOnlyIfClosed

LEMMA InitInv == Init => Inv
BY ConstantsAssumption DEF Init, Inv, TypeOK, OwnsOpenSockets, DialsAlone, Unshared,
   PanicOnlyIfClosed, Sockets, None, Dialing, Uses

LEMMA ConnectInv == ASSUME NEW t \in Threads, Inv, Running, Connect(t) PROVE Inv'
<1> USE ConstantsAssumption DEF None, Sockets
<1>1. TypeOK'
  BY DEF Inv, TypeOK, Connect, Go, Dialing, Uses
<1>2. OwnsOpenSockets' /\ Unshared'
  BY DEF Inv, TypeOK, OwnsOpenSockets, Unshared, DialsAlone, Connect, Free
<1>3. DialsAlone'
  BY DEF Inv, TypeOK, DialsAlone, Connect, Free, Go, Dialing
<1>4. PanicOnlyIfClosed'
  BY DEF Inv, TypeOK, PanicOnlyIfClosed, Running, Connect, Go
<1>5. QED
  BY <1>1, <1>2, <1>3, <1>4 DEF Inv

LEMMA LookupInv == ASSUME NEW t \in Threads, Inv, Running, Lookup(t) PROVE Inv'
<1> USE ConstantsAssumption DEF None, Sockets
<1>1. TypeOK'
  BY DEF Inv, TypeOK, Lookup, ConnectReturn, Go, Dialing, Uses, connVars, dialVars
<1>2. OwnsOpenSockets' /\ Unshared' /\ DialsAlone'
  BY DEF Inv, TypeOK, OwnsOpenSockets, Unshared, DialsAlone, Lookup, ConnectReturn, Go,
     Dialing, connVars, dialVars
<1>3. PanicOnlyIfClosed'
  BY DEF Inv, TypeOK, PanicOnlyIfClosed, Running, Lookup, ConnectReturn, Go, connVars
<1>4. QED
  BY <1>1, <1>2, <1>3 DEF Inv

LEMMA DialAddressInv == ASSUME NEW t \in Threads, Inv, Running, DialAddress(t) PROVE Inv'
<1> USE ConstantsAssumption DEF None, Sockets
<1>1. TypeOK'
  BY DEF Inv, TypeOK, DialAddress, Go, Dialing, Uses
<1>2. OwnsOpenSockets' /\ Unshared'
  BY DEF Inv, TypeOK, OwnsOpenSockets, Unshared, DialsAlone, DialAddress, Dialing
<1>3. DialsAlone'
  BY DEF Inv, TypeOK, DialsAlone, DialAddress, Go, Dialing
<1>4. PanicOnlyIfClosed'
  BY DEF Inv, TypeOK, PanicOnlyIfClosed, Running, DialAddress, Go
<1>5. QED
  BY <1>1, <1>2, <1>3, <1>4 DEF Inv

LEMMA DialAddressFailsInv ==
  ASSUME NEW t \in Threads, Inv, Running, DialAddressFails(t) PROVE Inv'
<1> USE ConstantsAssumption DEF None, Sockets
<1>1. TypeOK'
  BY DEF Inv, TypeOK, DialAddressFails, ConnectReturn, Go, Dialing, Uses, connVars
<1>2. OwnsOpenSockets' /\ Unshared' /\ DialsAlone'
  BY DEF Inv, TypeOK, OwnsOpenSockets, Unshared, DialsAlone, DialAddressFails, ConnectReturn,
     Go, Dialing, connVars
<1>3. PanicOnlyIfClosed'
  BY DEF Inv, TypeOK, PanicOnlyIfClosed, Running, DialAddressFails, ConnectReturn, Go, connVars
<1>4. QED
  BY <1>1, <1>2, <1>3 DEF Inv

LEMMA HandshakeInv == ASSUME NEW t \in Threads, Inv, Running, Handshake(t) PROVE Inv'
<1> USE ConstantsAssumption DEF None, Sockets
<1>1. TypeOK' /\ OwnsOpenSockets' /\ Unshared' /\ DialsAlone'
  BY DEF Inv, TypeOK, OwnsOpenSockets, Unshared, DialsAlone, Handshake, Go, Dialing, Uses,
     connVars, dialVars
<1>2. PanicOnlyIfClosed'
  BY DEF Inv, TypeOK, PanicOnlyIfClosed, Running, Handshake, Go, connVars
<1>3. QED
  BY <1>1, <1>2 DEF Inv

LEMMA VerifiedInv == ASSUME NEW t \in Threads, Inv, Running, Verified(t) PROVE Inv'
<1> USE ConstantsAssumption DEF None, Sockets
<1>1. TypeOK'
  BY DEF Inv, TypeOK, Verified, ConnectReturn, Go, Dialing, Uses
<1>2. OwnsOpenSockets' /\ Unshared' /\ DialsAlone'
  BY DEF Inv, TypeOK, OwnsOpenSockets, Unshared, DialsAlone, Verified, ConnectReturn, Go, Dialing
<1>3. PanicOnlyIfClosed'
  BY DEF Inv, TypeOK, PanicOnlyIfClosed, Running, Verified, ConnectReturn, Go
<1>4. QED
  BY <1>1, <1>2, <1>3 DEF Inv

LEMMA DialFailsInv == ASSUME NEW t \in Threads, Inv, Running, DialFails(t) PROVE Inv'
<1> USE ConstantsAssumption DEF None, Sockets
<1>1. TypeOK'
  BY DEF Inv, TypeOK, DialFails, ConnectReturn, Go, Dialing, Uses
<1>2. OwnsOpenSockets' /\ Unshared' /\ DialsAlone'
  BY DEF Inv, TypeOK, OwnsOpenSockets, Unshared, DialsAlone, DialFails, ConnectReturn, Go, Dialing
<1>3. PanicOnlyIfClosed'
  BY DEF Inv, TypeOK, PanicOnlyIfClosed, Running, DialFails, ConnectReturn, Go
<1>4. QED
  BY <1>1, <1>2, <1>3 DEF Inv

\* Close and handleError.
LEMMA CloseInv ==
  ASSUME NEW t \in Threads, Inv, Running, Close(t) \/ HandleError(t) PROVE Inv'
<1> USE ConstantsAssumption DEF None, Sockets
<1>1. TypeOK'
  BY ZenonT(30) DEF Inv, TypeOK, Close, HandleError, CloseConn, Go, Dialing, Uses, dialVars
<1>2. OwnsOpenSockets' /\ Unshared' /\ DialsAlone'
  BY DEF Inv, TypeOK, OwnsOpenSockets, Unshared, DialsAlone, Close, HandleError, CloseConn,
     Free, Go, Dialing, dialVars
<1>3. PanicOnlyIfClosed'
  BY DEF Inv, TypeOK, PanicOnlyIfClosed, Running, Close, HandleError, CloseConn, Go
<1>4. QED
  BY <1>1, <1>2, <1>3 DEF Inv

\* The methods that use a connection and change none.
LEMMA UseInv ==
  ASSUME NEW t \in Threads, Inv, Running,
         \/ \E use \in Uses : GetConn(t, use)
         \/ Read(t) \/ Write(t) \/ Address(t)
  PROVE  Inv'
<1> USE ConstantsAssumption DEF None, Sockets
<1>1. /\ conn' = conn /\ open' = open /\ sockets' = sockets
      /\ holder' = holder /\ left' = left /\ socket' = socket
  BY DEF GetConn, Read, Write, Address, Finish, connVars, dialVars
<1>2. PICK place \in {"idle", "fail"} \union Uses : pc' = [pc EXCEPT ![t] = place]
  BY DEF GetConn, Read, Write, Address, Finish, Go
<1>3. /\ mine' \in [Threads -> Sockets \union {None}]
      /\ \A u \in Threads : mine'[u] \in {mine[u], conn}
  BY DEF Inv, TypeOK, GetConn, Read, Write, Address, Finish
<1>4. conn # socket \/ socket = None
  BY DEF Inv, DialsAlone, TypeOK
<1>5. TypeOK'
  BY <1>1, <1>2, <1>3, ZenonT(30) DEF Inv, TypeOK
<1>6. OwnsOpenSockets' /\ DialsAlone'
  BY <1>1, <1>2 DEF Inv, TypeOK, OwnsOpenSockets, DialsAlone, Dialing, Uses
<1>7. Unshared'
  BY <1>1, <1>3, <1>4 DEF Inv, TypeOK, Unshared
<1>8. PanicOnlyIfClosed'
  BY <1>2 DEF Inv, TypeOK, PanicOnlyIfClosed, Running, Uses
<1>9. QED
  BY <1>5, <1>6, <1>7, <1>8 DEF Inv

LEMMA NilConnInv == ASSUME NEW t \in Threads, Inv, Running, NilConn(t) PROVE Inv'
<1> USE ConstantsAssumption DEF None, Sockets
<1>1. TypeOK' /\ OwnsOpenSockets' /\ DialsAlone' /\ Unshared'
  BY DEF Inv, TypeOK, OwnsOpenSockets, DialsAlone, Unshared, NilConn, Go, Dialing, Uses,
     connVars, dialVars
<1>2. mine[t] \notin open
  BY DEF Inv, TypeOK, OwnsOpenSockets, Unshared, NilConn
<1>3. PanicOnlyIfClosed'
  BY <1>2 DEF Inv, TypeOK, PanicOnlyIfClosed, Running, NilConn, Go, connVars
<1>4. QED
  BY <1>1, <1>3 DEF Inv

LEMMA StepInv == Inv /\ [Next]_vars => Inv'
<1> SUFFICES ASSUME Inv, [Next]_vars PROVE Inv'
  OBVIOUS
<1>1. CASE Next
  BY <1>1, ConnectInv, LookupInv, DialAddressInv, DialAddressFailsInv, HandshakeInv, VerifiedInv,
     DialFailsInv, CloseInv, UseInv, NilConnInv DEF Next, Dial
<1>2. CASE UNCHANGED vars
  BY <1>2 DEF Inv, TypeOK, OwnsOpenSockets, DialsAlone, Unshared, PanicOnlyIfClosed, vars,
     connVars, dialVars
<1>3. QED
  BY <1>1, <1>2

LEMMA Invariance == Spec => []Inv
BY InitInv, StepInv, PTL DEF Spec

\* Every variable keeps its type, whatever goroutines, addresses and sockets there are.
THEOREM TypeCorrect == Spec => []TypeOK
BY Invariance, PTL DEF Inv

\* No socket leaks and c.conn is never closed (Connect, the TLS dialer, Close and
\* handleError), however many goroutines use the client.
THEOREM NoLeak == Spec => []OwnsOpenSockets
BY Invariance, PTL DEF Inv

\* Write, LocalAddr and RemoteAddr find c.conn nil only when the connection they
\* checked has been closed in between.
THEOREM PanicsOnlyIfClosed == Spec => []PanicOnlyIfClosed
BY Invariance, PTL DEF Inv

\* handleError leaves the connection that failed closed.
THEOREM ErrorsClose == Spec => ErrorCloses
<1>1. ASSUME Inv, [Next]_vars
      PROVE  [\A t \in Threads : pc[t] = "fail" /\ pc'[t] = "idle" => mine[t] \notin open']_vars
  <2> SUFFICES ASSUME Next, NEW t \in Threads, pc[t] = "fail", pc'[t] = "idle"
               PROVE  mine[t] \notin open'
    BY <1>1
  <2>1. HandleError(t)
    <3>1. PICK u \in Threads :
            \/ Connect(u) \/ Dial(u) \/ Close(u) \/ (\E use \in Uses : GetConn(u, use))
            \/ Read(u) \/ Write(u) \/ Address(u) \/ NilConn(u) \/ HandleError(u)
      BY DEF Next
    <3>2. u = t
      BY <1>1, <3>1 DEF Inv, TypeOK, Connect, Dial, Lookup, DialAddress, DialAddressFails,
         Handshake, Verified, DialFails, ConnectReturn, Close, GetConn, Read, Write, Address,
         NilConn, HandleError, Finish, Go
    <3>3. QED
      BY <3>1, <3>2 DEF Connect, Dial, Lookup, DialAddress, DialAddressFails, Handshake, Verified,
         DialFails, Close, GetConn, Read, Write, Address, NilConn
  <2>2. open' = {}
    BY <1>1, <2>1 DEF Inv, OwnsOpenSockets, DialsAlone, HandleError, CloseConn, Free
  <2>3. QED
    BY <2>2
<1>2. QED
  BY <1>1, Invariance, PTL DEF Spec, ErrorCloses
=============================================================================
