-------------------------------- MODULE Doer --------------------------------
(***************************************************************************)
(* The rate limiter (src/periodic/ratelimited.go): events are counted by   *)
(* any goroutine, and a goroutine that Start spawns hands the count to     *)
(* doFn at every tick of a ticker and once more when Stop ends it.         *)
(*                                                                         *)
(* Start and Stop are called by one goroutine, the owner of the Doer; Add  *)
(* and AddN by others, between any two steps.  Each atomic operation,      *)
(* channel operation and call of doFn is an action of its own.  Time is    *)
(* the phase of the ticker.                                                *)
(***************************************************************************)
EXTENDS Integers

CONSTANTS
  Period,     \* r.period
  Modulus,    \* 2^64, the wrap-around of r.count
  MaxEvents   \* bound on the number of events

ASSUME ConstantsAssumption ==
  /\ Period \in Nat \ {0}
  /\ Modulus \in Nat \ {0, 1}
  /\ MaxEvents \in Nat

VARIABLES
  count,      \* r.count
  started,    \* r.started
  owner,      \* where the owner is in Start or Stop
  closed,     \* r.done is closed
  runner,     \* where the goroutine is, "none" when there is none
  stopping,   \* the goroutine has received from r.done
  inHand,     \* the count it has taken and not yet handed to doFn
  tick,       \* a tick waits in r.ticker.C
  phase,      \* time since the last tick
  added,      \* number of events so far
  delivered,  \* number of events handed to doFn so far
  wrapped,    \* number of events that vanished in wrap-arounds of r.count
  promised    \* number of events there were when Stop was last called

ownerVars == <<started, owner, closed, promised>>
runnerVars == <<runner, stopping, inHand>>
timeVars == <<tick, phase>>
eventVars == <<added, delivered, wrapped>>
vars == <<count, ownerVars, runnerVars, timeVars, eventVars>>

TypeOK ==
  /\ count \in 0 .. Modulus - 1
  /\ started \in BOOLEAN
  /\ owner \in {"idle", "make", "spawn", "close", "wait"}
  /\ closed \in BOOLEAN
  /\ runner \in {"none", "select", "do", "call"}
  /\ stopping \in BOOLEAN
  /\ inHand \in 0 .. Modulus - 1
  /\ tick \in BOOLEAN
  /\ phase \in 0 .. Period - 1
  /\ added \in Nat
  /\ delivered \in Nat
  /\ wrapped \in Nat
  /\ promised \in Nat

Init ==
  /\ count = 0
  /\ started = FALSE
  /\ owner = "idle"
  /\ closed = FALSE
  /\ runner = "none"
  /\ stopping = FALSE
  /\ inHand = 0
  /\ tick = FALSE
  /\ phase = 0
  /\ added = 0
  /\ delivered = 0
  /\ wrapped = 0
  /\ promised = 0

\* Add is AddN(1).
AddN(n) ==
  /\ added + n <= MaxEvents
  /\ added' = added + n
  /\ \/ /\ count + n < Modulus
        /\ count' = count + n
        /\ UNCHANGED wrapped
     \/ /\ count + n >= Modulus
        /\ count' = count + n - Modulus
        /\ wrapped' = wrapped + Modulus
  /\ UNCHANGED <<ownerVars, runnerVars, timeVars, delivered>>

-----------------------------------------------------------------------------
(* The owner.                                                              *)

\* Start returns at once when it has been called already.
Start ==
  /\ owner = "idle"
  /\ started' = TRUE
  /\ owner' = IF started THEN "idle" ELSE "make"
  /\ UNCHANGED <<count, closed, promised, runnerVars, timeVars, eventVars>>

\* The new channel and the new ticker.
StartMake ==
  /\ owner = "make"
  /\ owner' = "spawn"
  /\ closed' = FALSE
  /\ tick' = FALSE
  /\ phase' = 0
  /\ UNCHANGED <<count, started, promised, runnerVars, eventVars>>

StartSpawn ==
  /\ owner = "spawn"
  /\ owner' = "idle"
  /\ runner' = "select"
  /\ stopping' = FALSE
  /\ UNCHANGED <<count, started, closed, promised, inHand, timeVars, eventVars>>

\* Stop returns at once when the Doer is not started.
Stop ==
  /\ owner = "idle"
  /\ started' = FALSE
  /\ owner' = IF started THEN "close" ELSE "idle"
  /\ promised' = IF started THEN added ELSE promised
  /\ UNCHANGED <<count, closed, runnerVars, timeVars, eventVars>>

\* Mutation: Stop waits without closing r.done.
StopCloseNot ==
  /\ owner = "close"
  /\ owner' = "wait"
  /\ UNCHANGED <<count, started, closed, promised, runnerVars, timeVars, eventVars>>

StopClose ==
  /\ owner = "close"
  /\ owner' = "wait"
  /\ closed' = TRUE
  /\ UNCHANGED <<count, started, promised, runnerVars, timeVars, eventVars>>

\* r.wg.Wait returns.
StopWait ==
  /\ owner = "wait"
  /\ runner = "none"
  /\ owner' = "idle"
  /\ UNCHANGED <<count, started, closed, promised, runnerVars, timeVars, eventVars>>

-----------------------------------------------------------------------------
(* The goroutine.                                                          *)

\* Mutation: a tick is received and ignored.
SelectTickIdle ==
  /\ runner = "select"
  /\ tick
  /\ tick' = FALSE
  /\ UNCHANGED <<count, ownerVars, runnerVars, phase, eventVars>>

SelectTick ==
  /\ runner = "select"
  /\ tick
  /\ tick' = FALSE
  /\ runner' = "do"
  /\ UNCHANGED <<count, ownerVars, stopping, inHand, phase, eventVars>>

SelectDone ==
  /\ runner = "select"
  /\ closed
  /\ runner' = "do"
  /\ stopping' = TRUE
  /\ UNCHANGED <<count, ownerVars, inHand, timeVars, eventVars>>

\* Where the goroutine goes when do returns; it stops the ticker at its end.
AfterDo == IF stopping THEN "none" ELSE "select"

\* Mutation: the count is read and reset in two steps, and an Add falls between.
DoSwapRacy ==
  /\ runner = "do"
  /\ count' = 0
  /\ inHand' \in {count, IF count > 0 THEN count - 1 ELSE 0}
  /\ runner' = IF count = 0 THEN AfterDo ELSE "call"
  /\ UNCHANGED <<ownerVars, stopping, timeVars, eventVars>>

\* do: take the count, and return if there is none.
DoSwap ==
  /\ runner = "do"
  /\ count' = 0
  /\ inHand' = count
  /\ runner' = IF count = 0 THEN AfterDo ELSE "call"
  /\ UNCHANGED <<ownerVars, stopping, timeVars, eventVars>>

\* do: call doFn.
DoCall ==
  /\ runner = "call"
  /\ runner' = AfterDo
  /\ inHand' = 0
  /\ delivered' = delivered + inHand
  /\ UNCHANGED <<count, ownerVars, stopping, tick, phase, added, wrapped>>

-----------------------------------------------------------------------------

\* Time passes; the ticker drops a tick that nobody has received in time.
Time ==
  /\ phase' = IF phase + 1 = Period THEN 0 ELSE phase + 1
  /\ tick' = \/ tick
             \/ phase + 1 = Period /\ (runner # "none" \/ owner = "spawn")
  /\ UNCHANGED <<count, ownerVars, runnerVars, eventVars>>

Runner == SelectTick \/ SelectDone \/ DoSwap \/ DoCall
Owner == StartMake \/ StartSpawn \/ StopClose \/ StopWait

Next ==
  \/ \E n \in 1 .. Modulus - 1 : AddN(n)
  \/ Start
  \/ Stop
  \/ Owner
  \/ Runner
  \/ Time

Spec == Init /\ [][Next]_vars

\* The goroutines are scheduled, select picks among ready cases at random, so it
\* does not ignore r.done for ever, and time passes.  Nobody has to call Add,
\* Start or Stop.
FairSpec ==
  /\ Spec
  /\ WF_vars(Owner)
  /\ WF_vars(Runner)
  /\ SF_vars(SelectDone)
  /\ WF_vars(Time)

-----------------------------------------------------------------------------
(* Properties.                                                             *)

\* Every event is delivered, in the hand of the goroutine, or still counted, and
\* in one place only: nothing is lost or reported twice when Add races with the
\* ticker and with Stop, except in a wrap-around of r.count.
NothingLost == added = delivered + inHand + count + wrapped

\* When Stop has returned, the events that were added before it was called have
\* been handed to doFn.
StopFlushes ==
  ~started /\ owner = "idle" => delivered + wrapped >= promised

\* When Stop has returned the goroutine is gone: doFn is not called until the
\* next Start.
QuietAfterStop == ~started /\ owner = "idle" => runner = "none"

\* Every event that occurs while the Doer is started is eventually handed to
\* doFn, by a tick or by Stop, or vanishes in a wrap-around.
EventsDelivered ==
  \A n \in 1 .. MaxEvents :
    started /\ added >= n ~> delivered + wrapped >= n

\* Stop returns.
StopReturns == owner = "close" ~> owner = "idle"
=============================================================================
