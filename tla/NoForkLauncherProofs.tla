------------------------- MODULE NoForkLauncherProofs -------------------------
(***************************************************************************)
(* Proofs about NoForkLauncher, for any set of configurations: its types,  *)
(* that the launcher never waits for a service that it has stopped, and    *)
(* what is safety in its two promises about signals: a SIGTERM that it no  *)
(* longer accepts is being answered, and no SIGHUP is left unanswered.     *)
(***************************************************************************)
EXTENDS NoForkLauncher, TLAPS

(***************************************************************************)
(* Outside a shutdown, and before launch_service() is past the wait, the   *)
(* service was not stopped: whatever leaves a shutdown, or stops the       *)
(* service, is on its way to start it again or to the end.                 *)
(***************************************************************************)
Untouched == {"start", "notify", "wait_locked", "waiting"}
StoppedIsRestarted ==
    conf.method = "reload" /\ shut = "none" /\ main \in Untouched => svc # "stopped"

(***************************************************************************)
(* SIG_IGN is set by a shutdown and nothing sets it back, so a shutdown    *)
(* that SIGHUP or an exception of stop() unwinds leaves a launcher that    *)
(* SIGTERM cannot end; what comes after the alarm is armed has it, and so  *)
(* does what stop() raised.                                                *)
(***************************************************************************)
NeverUnstoppable ==
    Alive /\ sigterm = "ignored" =>
        \/ shut # "none"
        \/ "SIGHUP" \in unwound
        \/ "exception" \in unwound /\ (conf.timeout => alarm)

RaisedUnderAlarm == Alive /\ conf.timeout /\ "exception" \in unwound => alarm

StuckHasAlarm == Alive /\ SelfDeadlock /\ conf.timeout => alarm

\* The same before the hooks, in them and after them.
StopsUnderAlarm ==
    Alive /\ conf.timeout /\ shut \in {"armed", "stop_locked", "stopped"} => alarm

\* A caught SIGHUP is on its way to reset(), or the process is to end.
HupOnItsWay ==
    ~told => main \in {"caught", "hangup", "read", "stop_locked", "reset", "escaped", "gone"}

Inv == TypeOK /\ StoppedIsRestarted /\ NeverUnstoppable /\ StopsUnderAlarm /\ RaisedUnderAlarm
       /\ HupOnItsWay

\* The first state is as described.
LEMMA Initially == Init => Inv
  BY ConfsAssumption
  DEF Init, Inv, TypeOK, MainPhases, ShutPhases, StoppedIsRestarted, AllConfs,
      NeverUnstoppable, StopsUnderAlarm, RaisedUnderAlarm, HupOnItsWay

\* The steps of launch_service(), _wait_no_fork() and restart().
LEMMA MainSteps ==
    ASSUME Inv, MainStep
    PROVE  Inv'
<1> USE DEF Inv, TypeOK, MainPhases, ShutPhases, StoppedIsRestarted, Untouched, MainAt,
       NeverUnstoppable, StopsUnderAlarm, RaisedUnderAlarm, HupOnItsWay, Alive
<1>1. CASE StartReturns
  BY <1>1 DEF StartReturns
<1>2. CASE StartFails
  BY <1>2 DEF StartFails
<1>3. CASE NotifyOnce
  BY <1>3 DEF NotifyOnce
<1>4. CASE WaitJoins
  BY <1>4 DEF WaitJoins
<1>5. CASE WaitReturns
  BY <1>5 DEF WaitReturns
<1>6. CASE CatchSighup
  BY <1>6 DEF CatchSighup
<1>7. CASE ReadConf
  BY <1>7 DEF ReadConf
<1>8. CASE RestartStops
  BY <1>8 DEF RestartStops
<1>9. CASE Reset
  BY <1>9 DEF Reset
<1>10. CASE RestartStarts
  BY <1>10 DEF RestartStarts
<1>11. CASE Exit
  BY <1>11 DEF Exit
<1> QED
  BY <1>1, <1>2, <1>3, <1>4, <1>5, <1>6, <1>7, <1>8, <1>9, <1>10, <1>11 DEF MainStep

\* The steps of a shutdown, which only its last one leaves.
LEMMA ShutdownSteps ==
    ASSUME Inv, Shutdown
    PROVE  Inv'
<1> USE DEF Inv, TypeOK, MainPhases, ShutPhases, StoppedIsRestarted, Untouched, ShutStep,
       NeverUnstoppable, StopsUnderAlarm, RaisedUnderAlarm, HupOnItsWay, Alive
<1>1. CASE IgnoreTerm
  BY <1>1 DEF IgnoreTerm
<1>2. CASE ArmAlarm
  BY <1>2, ZenonT(60) DEF ArmAlarm
<1>3. CASE ShutStops
  BY <1>3 DEF ShutStops
<1>4. CASE ShutStopped
  BY <1>4 DEF ShutStopped
<1>5. CASE ShutRaises
  BY <1>5 DEF ShutRaises, Unwinds
<1>6. CASE ShutExits
  BY <1>6 DEF ShutExits
<1> QED
  BY <1>1, <1>2, <1>3, <1>4, <1>5, <1>6 DEF Shutdown

\* A handler starts a shutdown or abandons what the main thread does.
LEMMA HandlerSteps ==
    ASSUME Inv, Handler
    PROVE  Inv'
<1> USE DEF Inv, TypeOK, MainPhases, ShutPhases, StoppedIsRestarted, Untouched,
       NeverUnstoppable, StopsUnderAlarm, RaisedUnderAlarm, HupOnItsWay, Alive
<1>1. CASE Sigterm
  BY <1>1 DEF Sigterm
<1>2. CASE Sighup
  BY <1>2, ZenonT(60) DEF Sighup, Unwinds
<1>3. CASE Sigalrm
  BY <1>3 DEF Sigalrm
<1>4. CASE Sigint
  BY <1>4 DEF Sigint
<1> QED
  BY <1>1, <1>2, <1>3, <1>4 DEF Handler

\* The invariant holds in every reachable state, whatever signals arrive when.
THEOREM Invariant == Spec => []Inv
<1>1. Inv /\ [Next]_vars => Inv'
  <2> SUFFICES ASSUME Inv, [Next]_vars PROVE Inv'
    OBVIOUS
  <2>1. CASE ServiceEnds
    BY <2>1 DEF ServiceEnds, Inv, TypeOK, StoppedIsRestarted, NeverUnstoppable,
                StopsUnderAlarm, RaisedUnderAlarm, HupOnItsWay, Alive
  <2>2. CASE UNCHANGED vars
    BY <2>2 DEF vars, Inv, TypeOK, StoppedIsRestarted, NeverUnstoppable,
                StopsUnderAlarm, RaisedUnderAlarm, HupOnItsWay, Alive
  <2>3. CASE HookRaises
    BY <2>3 DEF HookRaises, Inv, TypeOK, MainPhases, StoppedIsRestarted, Untouched,
                MainAt, NeverUnstoppable, StopsUnderAlarm, RaisedUnderAlarm, HupOnItsWay, Alive
  <2> QED
    BY <2>1, <2>2, <2>3, MainSteps, ShutdownSteps, HandlerSteps DEF Next, Terminated
<1> QED
  BY <1>1, Initially, PTL DEF Spec

\* The launcher without forks keeps its types, and arms the alarm only when a
\* time-out is configured.
THEOREM TypesKept == Spec => []TypeOK
<1>1. Inv => TypeOK
  BY DEF Inv
<1> QED
  BY <1>1, Invariant, PTL

\* With the restart method "reload", launch_service() never waits for a service
\* that a restart or an abandoned shutdown has stopped, wherever SIGHUP and SIGTERM
\* interrupt it and each other.
THEOREM StoppedIsNotAwaited == Spec => []NeverWaitsStopped
<1>1. Inv => NeverWaitsStopped
  BY DEF Inv, StoppedIsRestarted, Untouched, NeverWaitsStopped, MainAt
<1> QED
  BY <1>1, Invariant, PTL

\* A launcher that ignores SIGTERM is shutting down, unless SIGHUP unwound the
\* shutdown, or stop() raised in it and there is no time-out: with one the alarm is
\* still armed; and it is over a handler that waits for a lock of the frame below it
\* (449-466): the safety half of TermEnds.
THEOREM TermIsAnswered == Spec => [](NeverUnstoppable /\ StuckHasAlarm)
<1>1. Inv => NeverUnstoppable /\ StuckHasAlarm
  BY DEF Inv, StopsUnderAlarm, StuckHasAlarm, SelfDeadlock
<1> QED
  BY <1>1, Invariant, PTL

\* No step of the launcher goes back to waiting, or to a normal return, between a
\* SIGHUP that it caught and the reset() of the service (472-535): the safety half of
\* HupTakesEffect.
THEOREM HupIsAnswered == Spec => []HupOnItsWay
<1>1. Inv => HupOnItsWay
  BY DEF Inv
<1> QED
  BY <1>1, Invariant, PTL
=============================================================================
