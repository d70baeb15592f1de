---------------------------- MODULE RetryDecorator ----------------------------
(***************************************************************************)
(* RetryDecorator (backend/_common/loopingcall.py): calls of one decorated *)
(* function by several threads.  Each runs the function in a dynamic       *)
(* looping call of its own; the number of retries belongs to the decorator *)
(* and is shared by all of them.  With eventlet RDFail to RDWrite is one   *)
(* step, which is one of the interleavings here.                           *)
(***************************************************************************)
EXTENDS Naturals

CONSTANTS
    RDCaller,    \* the threads that call the function
    RDMax        \* max_retry_count, if it is not -1

ASSUME RDMaxAssumption == RDMax \in Nat

VARIABLES
    rdCount,   \* self._retry_count; self._sleep_time grows with it
    rdPc,      \* where the call of each thread is
    rdRead     \* the value that "+= 1" has read

rdVars == <<rdCount, rdPc, rdRead>>

RDInit ==
    /\ rdCount = 0
    /\ rdPc = [c \in RDCaller |-> "none"]
    /\ rdRead = [c \in RDCaller |-> 0]

RDMove(c, from, to) == rdPc[c] = from /\ rdPc' = [rdPc EXCEPT ![c] = to]

\* func(): the looping call is started and waited for.
RDCall(c) == RDMove(c, "none", "calling") /\ UNCHANGED <<rdCount, rdRead>>

\* The function returns, or raises another exception, and the loop ends.
RDReturn(c) == RDMove(c, "calling", "none") /\ UNCHANGED <<rdCount, rdRead>>

\* It raises what is no Exception: the loop ends and sends nothing, and evt.wait()
\* does not return.
RDSilent(c) == RDMove(c, "calling", "stuck") /\ UNCHANGED <<rdCount, rdRead>>

RDFail(c) == RDMove(c, "calling", "failed") /\ UNCHANGED <<rdCount, rdRead>>

\* The exception is raised again, and the loop ends.
RDGiveUp(c) ==
    /\ RDMove(c, "failed", "none")
    /\ rdCount >= RDMax
    /\ UNCHANGED <<rdCount, rdRead>>

RDRetry(c) ==
    /\ RDMove(c, "failed", "counting")
    /\ rdCount < RDMax
    /\ UNCHANGED <<rdCount, rdRead>>

RDReadCount(c) ==
    /\ RDMove(c, "counting", "adding")
    /\ rdRead' = [rdRead EXCEPT ![c] = rdCount]
    /\ UNCHANGED rdCount

\* Mutant: the retry is not counted.
RDWriteSame(c) ==
    /\ RDMove(c, "adding", "sleeping")
    /\ rdCount' = rdRead[c]
    /\ rdRead' = [rdRead EXCEPT ![c] = 0]

RDWrite(c) ==
    /\ RDMove(c, "adding", "sleeping")
    /\ rdCount' = rdRead[c] + 1
    /\ rdRead' = [rdRead EXCEPT ![c] = 0]

RDWake(c) == RDMove(c, "sleeping", "calling") /\ UNCHANGED <<rdCount, rdRead>>

RDStep(c) ==
    \/ RDReturn(c) \/ RDSilent(c) \/ RDFail(c) \/ RDGiveUp(c)
    \/ RDRetry(c) \/ RDReadCount(c) \/ RDWrite(c) \/ RDWake(c)

RDNext == \E c \in RDCaller : RDCall(c) \/ RDStep(c)

RDSpec == RDInit /\ [][RDNext]_rdVars
-----------------------------------------------------------------------------
\* A call of a function that goes on failing ends, and raises the exception
\* (469-472): although "+= 1" of one thread may undo those of others (487), so
\* that together they retry more often than max_retry_count, no two calls keep
\* each other from reaching it. Excepted is a call whose function raises what is no
\* Exception, which is never answered.
GivesUp == \A c \in RDCaller : rdPc[c] # "none" ~> rdPc[c] \in {"none", "stuck"}
=============================================================================
