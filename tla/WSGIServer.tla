------------------------------ MODULE WSGIServer ------------------------------
(***************************************************************************)
(* The WSGI server (wsgi.py): start() spawns a greenthread that accepts    *)
(* connections and spawns one more for each in a GreenPool; stop() resizes *)
(* the pool to nothing and kills the server; reset() gives the pool its    *)
(* size back; wait() waits for the pool.  The pool's semaphore counts the  *)
(* slots, below zero when it was shrunk; resizing it wakes nobody.         *)
(***************************************************************************)
EXTENDS Integers

CONSTANTS
    WSPool,      \* self.pool_size
    WSStarts     \* bound: how often start() is called

ASSUME WSPoolAssumption == WSPool \in Nat \ {0} /\ WSStarts \in Nat

WSServer == 1 .. WSStarts

VARIABLES
    wsSize,      \* the size of the pool
    wsFree,      \* the counter of its semaphore
    wsRunning,   \* the number of requests that run in it
    wsStarted,   \* self._server, 0 for None
    wsState,     \* what each server greenthread does
    wsWake,      \* the hub will look for a greenthread that waits for a slot
    wsReset,     \* reset() was called since the last stop() (history)
    wsMisused,   \* start() without that, or while a server runs (history)
    wsWaiting    \* somebody is in wait()

wsVars == <<wsSize, wsFree, wsRunning, wsStarted, wsState, wsWake, wsReset, wsMisused, wsWaiting>>

WSInit ==
    /\ wsSize = WSPool /\ wsFree = WSPool /\ wsRunning = 0
    /\ wsStarted = 0
    /\ wsState = [i \in WSServer |-> "none"]
    /\ wsWake = FALSE
    /\ wsReset = TRUE /\ wsMisused = FALSE
    /\ wsWaiting = FALSE

WSStart ==
    /\ wsStarted < WSStarts
    /\ wsStarted' = wsStarted + 1
    /\ wsState' = [wsState EXCEPT ![wsStarted + 1] = "accepting"]
    /\ wsMisused' = (wsMisused \/ ~wsReset
                       \/ \E i \in WSServer : wsState[i] \in {"accepting", "full"})
    /\ UNCHANGED <<wsSize, wsFree, wsRunning, wsWake, wsReset, wsWaiting>>

WSResize(n) == wsFree' = wsFree + (n - wsSize) /\ wsSize' = n

\* Mutant: the pool keeps its size.
WSResetNothing ==
    /\ wsReset' = TRUE
    /\ UNCHANGED <<wsSize, wsFree, wsRunning, wsStarted, wsState, wsWake, wsMisused, wsWaiting>>

WSResetPool ==
    /\ wsReset' = TRUE
    /\ WSResize(WSPool)
    /\ UNCHANGED <<wsRunning, wsStarted, wsState, wsWake, wsMisused, wsWaiting>>

\* Only the last server is killed; a connection it has no slot for is dropped.
WSStop ==
    /\ wsStarted # 0
    /\ WSResize(0)
    /\ wsReset' = FALSE
    /\ wsState' = [wsState EXCEPT ![wsStarted] = IF @ = "over" THEN @ ELSE "ending"]
    /\ UNCHANGED <<wsRunning, wsStarted, wsWake, wsMisused, wsWaiting>>

WSWait ==
    /\ wsStarted # 0
    /\ ~wsWaiting
    /\ wsWaiting' = TRUE
    /\ UNCHANGED <<wsSize, wsFree, wsRunning, wsStarted, wsState, wsWake, wsReset, wsMisused>>

WSWaitReturns ==
    /\ wsWaiting
    /\ wsRunning = 0
    /\ wsWaiting' = FALSE
    /\ UNCHANGED <<wsSize, wsFree, wsRunning, wsStarted, wsState, wsWake, wsReset, wsMisused>>

\* eventlet.wsgi.server accepts a connection: GreenPool.spawn takes a slot or waits.
WSAccept(i) ==
    /\ wsState[i] = "accepting"
    /\ IF wsFree > 0
         THEN wsFree' = wsFree - 1 /\ wsRunning' = wsRunning + 1 /\ wsState' = wsState
         ELSE wsState' = [wsState EXCEPT ![i] = "full"] /\ UNCHANGED <<wsFree, wsRunning>>
    /\ UNCHANGED <<wsSize, wsStarted, wsWake, wsReset, wsMisused, wsWaiting>>

\* A slot is released, and somebody who waits for one will be woken.
WSRequestEnds ==
    /\ wsRunning > 0
    /\ wsRunning' = wsRunning - 1
    /\ wsFree' = wsFree + 1
    /\ wsWake' = (wsWake \/ \E i \in WSServer : wsState[i] = "full")
    /\ UNCHANGED <<wsSize, wsStarted, wsState, wsReset, wsMisused, wsWaiting>>

WSWakeUp ==
    /\ wsWake
    /\ wsWake' = FALSE
    /\ \/ /\ wsFree > 0
          /\ \E i \in WSServer :
               /\ wsState[i] = "full"
               /\ wsState' = [wsState EXCEPT ![i] = "accepting"]
          /\ wsFree' = wsFree - 1
          /\ wsRunning' = wsRunning + 1
       \/ /\ wsFree <= 0 \/ \A i \in WSServer : wsState[i] # "full"
          /\ UNCHANGED <<wsFree, wsRunning, wsState>>
    /\ UNCHANGED <<wsSize, wsStarted, wsReset, wsMisused, wsWaiting>>

\* A killed server waits for the pool and closes its socket.
WSServerEnds(i) ==
    /\ wsState[i] = "ending"
    /\ wsRunning = 0
    /\ wsState' = [wsState EXCEPT ![i] = "over"]
    /\ UNCHANGED <<wsSize, wsFree, wsRunning, wsStarted, wsWake, wsReset, wsMisused, wsWaiting>>

WSNext ==
    \/ WSStart \/ WSResetPool \/ WSStop \/ WSWait \/ WSWaitReturns
    \/ \E i \in WSServer : WSAccept(i) \/ WSServerEnds(i)
    \/ WSRequestEnds \/ WSWakeUp

WSSpec == WSInit /\ [][WSNext]_wsVars
-----------------------------------------------------------------------------
\* A connection that the server has accepted while the pool was full, of
\* requests of its own or of those that a stop() left running, gets a slot, or
\* the server is stopped (263-282).  The exceptions are a start() after stop()
\* with no reset() before it, since the slots that reset() adds later wake nobody,
\* and one while a server runs, since stop() kills only the last.
AcceptedIsServed ==
    \A i \in WSServer : wsState[i] = "full" ~> wsState[i] # "full" \/ wsMisused

\* Whatever the order of start(), stop() and reset(), the slots add up, and no
\* more requests run than the pool may hold.
SlotsAddUp ==
    wsFree + wsRunning = wsSize /\ wsRunning <= WSPool
=============================================================================
