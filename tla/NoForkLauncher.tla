---------------------------- MODULE NoForkLauncher ----------------------------
(***************************************************************************)
(* The threading ProcessLauncher with no_fork=True                         *)
(* (backend/_threading/service.py): the service runs in the main process,  *)
(* and Python runs a signal handler in the main thread between two of its  *)
(* bytecodes, on top of whatever runs there.                               *)
(*                                                                         *)
(* The main thread is a stack of at most two frames that matter: main, in  *)
(* launch_service(), and above it shut, the latest _graceful_shutdown(),   *)
(* which is a handler's or a direct call of main.  SIGHUP's handler raises *)
(* SignalExit, which unwinds both up to the try of _wait_no_fork(), and so *)
(* does an exception of stop() in a shutdown, up to launch_service()'s.    *)
(* The hooks of the service may raise; what a handler raises, they let out.*)
(***************************************************************************)

CONSTANT Confs   \* the configurations to check, a subset of AllConfs

AllConfs == [daemon : BOOLEAN,                \* is_daemon()
             method : {"reload", "mutate"},   \* restart_method
             timeout : BOOLEAN]               \* graceful_shutdown_timeout is not 0

ASSUME ConfsAssumption == Confs \subseteq AllConfs

VARIABLES
    conf,
    main,        \* where launch_service() is
    shut,        \* where _graceful_shutdown() is, "none" if it does not run
    sigterm,     \* "handled", or "ignored" (SIG_IGN)
    alarm,       \* the alarm is armed
    svc,         \* the service: not started, running, stopped by stop(), ended by itself
    status,      \* the exit status _graceful_shutdown() will use
    notified,    \* systemd was told
    told,        \* the last SIGHUP that wait() caught has reached the service
    unwound      \* what unwound a shutdown so far (history)

vars == <<conf, main, shut, sigterm, alarm, svc, status, notified, told, unwound>>

\* "locked": inside the group's lock, in waitall() and in stop().
MainPhases == {"start", "failed", "notify", "wait_locked", "waiting", "caught",
               "hangup", "read", "stop_locked", "reset", "restart",
               "returned", "escaped", "gone"}
ShutPhases == {"none", "entered", "ignored", "armed", "stop_locked", "stopped"}

Alive == main # "gone"

\* ThreadGroup._lock is a plain lock: a handler that wants it while the frame
\* below holds it waits for itself.
MainHoldsLock == main \in {"wait_locked", "stop_locked"}
SelfDeadlock == shut = "armed" /\ MainHoldsLock
-----------------------------------------------------------------------------
Init ==
    /\ conf \in Confs
    /\ main = "start"
    /\ shut = "none"
    /\ sigterm = "handled"
    /\ alarm = FALSE
    /\ svc = "new"
    /\ status = 0
    /\ notified = FALSE
    /\ told = TRUE
    /\ unwound = {}

(***************************************************************************)
(* launch_service(), _wait_no_fork() and restart()                         *)
(***************************************************************************)
MainAt(l) == shut = "none" /\ main = l

StartReturns ==
    /\ MainAt("start")
    /\ main' = "notify"
    /\ svc' = "up"
    /\ UNCHANGED <<conf, shut, sigterm, alarm, status, notified, told, unwound>>

\* What did start of a service that fails may run.
StartFails ==
    /\ MainAt("start")
    /\ main' = "failed"
    /\ svc' \in {"new", "up"}
    /\ shut' = "entered"
    /\ status' = 1
    /\ UNCHANGED <<conf, sigterm, alarm, notified, told, unwound>>

\* The message is sent, or there is no socket or an OSError.
NotifyOnce ==
    /\ MainAt("notify")
    /\ main' = "wait_locked"
    /\ notified' \in {notified, TRUE}
    /\ UNCHANGED <<conf, shut, sigterm, alarm, svc, status, told, unwound>>

WaitJoins ==
    /\ MainAt("wait_locked")
    /\ main' = "waiting"
    /\ UNCHANGED <<conf, shut, sigterm, alarm, svc, status, notified, told, unwound>>

WaitReturns ==
    /\ MainAt("waiting")
    /\ svc # "up"
    /\ main' = "returned"
    /\ UNCHANGED <<conf, shut, sigterm, alarm, svc, status, notified, told, unwound>>

\* Mutant: the signal is dropped and the wait goes on.
CatchNothing ==
    /\ MainAt("caught")
    /\ main' = "wait_locked"
    /\ UNCHANGED <<conf, shut, status, sigterm, alarm, svc, notified, told, unwound>>

CatchSighup ==
    /\ MainAt("caught")
    /\ IF conf.daemon
         THEN main' = "read" /\ UNCHANGED <<shut, status>>
         ELSE main' = "hangup" /\ shut' = "entered" /\ status' = 0
    /\ UNCHANGED <<conf, sigterm, alarm, svc, notified, told, unwound>>

ReadConf ==
    /\ MainAt("read")
    /\ main' = IF conf.method = "reload" THEN "stop_locked" ELSE "reset"
    /\ UNCHANGED <<conf, shut, sigterm, alarm, svc, status, notified, told, unwound>>

RestartStops ==
    /\ MainAt("stop_locked")
    /\ main' = "reset"
    /\ svc' = "stopped"
    /\ UNCHANGED <<conf, shut, sigterm, alarm, status, notified, told, unwound>>

\* Mutant: the service is not started again.
ResetOnly ==
    /\ MainAt("reset")
    /\ told' = TRUE
    /\ main' = "wait_locked"
    /\ UNCHANGED <<conf, shut, sigterm, alarm, svc, status, notified, unwound>>

Reset ==
    /\ MainAt("reset")
    /\ told' = TRUE
    /\ main' = IF conf.method = "reload" THEN "restart" ELSE "wait_locked"
    /\ UNCHANGED <<conf, shut, sigterm, alarm, svc, status, notified, unwound>>

\* An exception of start() leaves launch_service().
RestartStarts ==
    /\ MainAt("restart")
    /\ \/ main' = "wait_locked" /\ svc' = "up"
       \/ main' = "escaped" /\ svc' \in {svc, "up"}
    /\ UNCHANGED <<conf, shut, sigterm, alarm, status, notified, told, unwound>>

\* An exception of wait(), stop() or reset(), or of reading the configuration,
\* leaves launch_service(): only SignalExit is caught (477).
HookRaises ==
    /\ \E l \in {"wait_locked", "waiting", "read", "stop_locked", "reset"} : MainAt(l)
    /\ main' = "escaped"
    /\ svc' \in IF main = "stop_locked" THEN {svc, "stopped"} ELSE {svc}
    /\ UNCHANGED <<conf, shut, sigterm, alarm, status, notified, told, unwound>>

\* What is raised in the main thread once launch_service() was left also ends the
\* wait of the interpreter for the threads.
Unwinds == main' \in IF main \in {"returned", "escaped"} THEN {"escaped", "gone"}
                                                        ELSE {"escaped"}

\* The interpreter ends when launch_service() is left and no thread runs.
Exit ==
    /\ MainAt("returned") \/ MainAt("escaped")
    /\ svc # "up"
    /\ main' = "gone"
    /\ UNCHANGED <<conf, shut, sigterm, alarm, svc, status, notified, told, unwound>>

(***************************************************************************)
(* _graceful_shutdown()                                                    *)
(***************************************************************************)
ShutStep(from, to) == Alive /\ shut = from /\ shut' = to

IgnoreTerm ==
    /\ ShutStep("entered", "ignored")
    /\ sigterm' = "ignored"
    /\ UNCHANGED <<conf, main, alarm, svc, status, notified, told, unwound>>

\* Mutant: no alarm is set.
ArmNothing ==
    /\ ShutStep("ignored", "armed")
    /\ UNCHANGED <<conf, main, sigterm, alarm, svc, status, notified, told, unwound>>

ArmAlarm ==
    /\ ShutStep("ignored", "armed")
    /\ alarm' = (alarm \/ conf.timeout)
    /\ UNCHANGED <<conf, main, sigterm, svc, status, notified, told, unwound>>

ShutStops ==
    /\ ShutStep("armed", "stop_locked")
    /\ ~SelfDeadlock
    /\ UNCHANGED <<conf, main, sigterm, alarm, svc, status, notified, told, unwound>>

ShutStopped ==
    /\ ShutStep("stop_locked", "stopped")
    /\ svc' = "stopped"
    /\ UNCHANGED <<conf, main, sigterm, alarm, status, notified, told, unwound>>

\* stop() raises: os._exit() is skipped, SIGTERM stays ignored, and nothing
\* catches it but the try around start(), which begins a shutdown again (414-418).
ShutRaises ==
    /\ Alive /\ shut = "stop_locked"
    /\ unwound' = unwound \cup {"exception"}
    /\ svc' \in {svc, "stopped"} \cup IF main \in {"start", "restart"} THEN {"up"} ELSE {}
    /\ \/ main = "start" /\ main' = "failed" /\ shut' = "entered" /\ status' = 1
       \/ Unwinds /\ shut' = "none" /\ UNCHANGED status
    /\ UNCHANGED <<conf, sigterm, alarm, notified, told>>

ShutExits ==
    /\ ShutStep("stopped", "none")
    /\ main' = "gone"
    /\ UNCHANGED <<conf, sigterm, alarm, svc, status, notified, told, unwound>>

(***************************************************************************)
(* Signals: SignalHandler and the four handlers                            *)
(***************************************************************************)
\* SIGTERM is handled until the first shutdown ignores it; until then another
\* one starts a shutdown on top.
Sigterm ==
    /\ Alive
    /\ sigterm = "handled"
    /\ shut' = "entered"
    /\ status' = 0
    /\ UNCHANGED <<conf, main, sigterm, alarm, svc, notified, told, unwound>>

\* SignalExit is caught in wait() only; anywhere else it leaves launch_service().
Sighup ==
    /\ Alive
    /\ shut' = "none"
    /\ unwound' = IF shut = "none" THEN unwound ELSE unwound \cup {"SIGHUP"}
    /\ IF main \in {"wait_locked", "waiting"}
         THEN main' = "caught" /\ told' = FALSE
         ELSE Unwinds /\ told' = told
    /\ svc' \in IF main \in {"start", "restart"} THEN {svc, "up"} ELSE {svc}
    /\ UNCHANGED <<conf, sigterm, alarm, status, notified>>

\* Mutant: the alarm is only noted.
SigalrmNoted ==
    /\ Alive
    /\ alarm
    /\ alarm' = FALSE
    /\ UNCHANGED <<conf, main, shut, sigterm, svc, status, notified, told, unwound>>

Sigalrm ==
    /\ Alive
    /\ alarm
    /\ alarm' = FALSE
    /\ main' = "gone"
    /\ shut' = "none"
    /\ status' = 1
    /\ UNCHANGED <<conf, sigterm, svc, notified, told, unwound>>

Sigint ==
    /\ Alive
    /\ main' = "gone"
    /\ shut' = "none"
    /\ status' = 1
    /\ UNCHANGED <<conf, sigterm, alarm, svc, notified, told, unwound>>

Handler == Sigterm \/ Sighup \/ Sigalrm \/ Sigint

\* The threads of the service end by themselves.
ServiceEnds ==
    /\ Alive
    /\ svc = "up"
    /\ svc' = "ended"
    /\ UNCHANGED <<conf, main, shut, sigterm, alarm, status, notified, told, unwound>>

Terminated == ~Alive /\ UNCHANGED vars
-----------------------------------------------------------------------------
MainStep ==
    \/ StartReturns \/ StartFails \/ NotifyOnce \/ WaitJoins \/ WaitReturns
    \/ CatchSighup \/ ReadConf \/ RestartStops \/ Reset \/ RestartStarts \/ Exit

Shutdown ==
    IgnoreTerm \/ ArmAlarm \/ ShutStops \/ ShutStopped \/ ShutRaises \/ ShutExits

Next ==
    \/ MainStep
    \/ HookRaises
    \/ Shutdown
    \/ Handler
    \/ ServiceEnds
    \/ Terminated

Spec == Init /\ [][Next]_vars

\* The main thread runs, the hooks of the service end and an armed alarm
\* expires.  Nobody has to send a signal.
FairSpec ==
    Spec /\ WF_vars(MainStep) /\ WF_vars(Shutdown) /\ WF_vars(Sigalrm)
-----------------------------------------------------------------------------
\* The types; and the alarm is only ever armed when a time-out is configured.
TypeOK ==
    /\ conf \in Confs
    /\ main \in MainPhases
    /\ shut \in ShutPhases
    /\ sigterm \in {"handled", "ignored"}
    /\ alarm \in BOOLEAN
    /\ svc \in {"new", "up", "stopped", "ended"}
    /\ status \in {0, 1}
    /\ notified \in BOOLEAN
    /\ told \in BOOLEAN
    /\ unwound \subseteq {"SIGHUP", "exception"}
    /\ alarm => conf.timeout

\* Outside a shutdown the launcher never waits for a service that was stopped
\* and not started again, although SIGHUP may pull it out of the middle of a
\* shutdown that had stopped the service (464, 470): restart() starts it (535).
\* With "mutate" nothing would, and wait() returns at once.
NeverWaitsStopped ==
    conf.method = "reload" /\ MainAt("waiting") => svc # "stopped"

\* A shutdown that has begun ends the process ("If graceful shutdown is not
\* finished within the timeout, then alarm signal will exit the process",
\* 456-458), even when its handler waits for a lock that the frame below holds,
\* SIGHUP unwinds it or service.stop() raises.  The exceptions: SIGHUP comes before
\* the alarm is armed, and no time-out is configured while stop() raises, SIGHUP
\* unwinds the shutdown or the handler waits for itself.
TermEnds ==
    (shut # "none")
        ~> \/ ~Alive
           \/ shut = "none" /\ ~alarm /\ "SIGHUP" \in unwound
           \/ shut = "none" /\ ~conf.timeout /\ "exception" \in unwound
           \/ SelfDeadlock /\ ~conf.timeout

\* A SIGHUP that interrupts wait() is followed by a reset() of the service with
\* the new configuration (527-533), unless further signals or an exception of a
\* hook end the process or leave launch_service(), or the handler waits for itself.
HupTakesEffect ==
    ~told ~> told \/ main \in {"escaped", "gone"} \/ SelfDeadlock
=============================================================================
