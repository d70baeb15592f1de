------------------------------- MODULE Services -------------------------------
(***************************************************************************)
(* Services and the launchers that run them in one process: Launcher       *)
(* (backend/_threading/service.py) and ServiceLauncher                     *)
(* (backend/_eventlet/service.py).                                         *)
(*                                                                         *)
(* Every service is run by a wrapper thread (run_service): it calls        *)
(* start() and waits for the event self.done.  stop() stops the services,  *)
(* sends the event and ends the wrappers; restart() replaces the event and *)
(* adds new wrappers.  "main" is the thread that launches, waits and       *)
(* restarts; "other" calls stop(): another thread, or with eventlet the    *)
(* greenthread that runs the handler of SIGTERM.                           *)
(***************************************************************************)
EXTENDS FiniteSets, Naturals

CONSTANTS
    Backends,   \* a subset of {"threading", "eventlet"}: the backends to check
    NServices,  \* how many services the launcher gets
    Slots,      \* the size of the eventlet group's GreenPool
    MaxGen      \* bound: how often restart() replaces the event

ASSUME BackendsAssumption == Backends \subseteq {"threading", "eventlet"}
ASSUME NServicesAssumption == NServices \in Nat
ASSUME SlotsAssumption == Slots \in Nat
ASSUME MaxGenAssumption == MaxGen \in Nat

Actor == {"main", "other"}
Service == 1 .. NServices    \* in the order of self.services
Gen == 0 .. MaxGen
Wrapper == Service \X Gen    \* a wrapper and the event it was given

VARIABLES
    backend,
    conf,        \* is_daemon(), restart_method, and whether there is a time-out
    added,       \* self.services
    svc,         \* which services have threads that run
    wrap,        \* where each wrapper is
    group,       \* self.tg.threads
    gen,         \* self.done
    sent,        \* the events that were sent
    pc,          \* what each actor is doing
    todo,        \* the services or wrappers it has still to deal with
    ret,         \* what it does when stop() or wait() returns
    installed,   \* the signal handlers are in place
    pending,     \* the signals whose callback is scheduled on the hub
    ending,      \* eventlet: SIGTERM was handled or a start() failed (history)
    late,        \* eventlet services whose start() returned after their stop() (history)
    cut          \* a stop() of other was cut short, and none has sent the event since (history)

launchVars == <<backend, conf>>
signalVars == <<installed, pending>>
vars == <<launchVars, added, svc, wrap, group, gen, sent, pc, todo, ret,
          signalVars, ending, late, cut>>

Eventlet == backend = "eventlet"
Live(w) == wrap[w] \in {"starting", "waiting"}
Over == {"done", "escaped", "gone"}     \* wait() returned, raised, the process ended

\* A greenthread yields in the hooks of services, while it kills another one
\* and while it waits, but not between the return of stop() and the new event.
MayRun(actors) == Eventlet => \A a \in Actor \ actors : pc[a] # "event"

\* The loops over self.services follow the list.
First(s, work) == s \in work /\ \A t \in work : s <= t

At(a, l) == pc["main"] \notin Over /\ MayRun({a}) /\ pc[a] = l
Goto(a, l, work) ==
    /\ pc' = [pc EXCEPT ![a] = l]
    /\ todo' = [todo EXCEPT ![a] = work]

Keep(a, work) == pc' = pc /\ todo' = [todo EXCEPT ![a] = work]
-----------------------------------------------------------------------------
Init ==
    /\ backend \in Backends
    /\ conf \in [daemon : BOOLEAN, method : {"reload", "mutate"}, timeout : BOOLEAN]
    /\ conf.daemon \/ conf.timeout => Eventlet     \* Launcher does not ask
    /\ added = {}
    /\ svc = {}
    /\ wrap = [w \in Wrapper |-> "none"]
    /\ group = {}
    /\ gen = 0
    /\ sent = {}
    /\ pc = [main |-> "launch", other |-> "idle"]
    /\ todo = [a \in Actor |-> {}]
    /\ ret = [main |-> "loop", other |-> "idle"]
    /\ installed = FALSE
    /\ pending = {}
    /\ ending = FALSE
    /\ late = {}
    /\ cut = FALSE

(***************************************************************************)
(* add(), and the wait of ServiceLauncher                                  *)
(***************************************************************************)
\* GreenPool.spawn blocks while the pool is full; native threads are plenty.
HasRoom == Eventlet => Cardinality({w \in Wrapper : Live(w)}) < Slots

\* Mutant: the wrapper gets the previous event, if there is one.
AddThreadOldEvent(s) ==
    /\ HasRoom
    /\ LET g == IF gen = 0 THEN 0 ELSE gen - 1 IN
         /\ wrap' = [wrap EXCEPT ![<<s, g>>] = "starting"]
         /\ group' = group \cup {<<s, g>>}

AddThread(s) ==
    /\ HasRoom
    /\ wrap' = [wrap EXCEPT ![<<s, gen>>] = "starting"]
    /\ group' = group \cup {<<s, gen>>}

Add(s) ==
    /\ At("main", "launch")
    /\ First(s, Service \ added)
    /\ added' = added \cup {s}
    /\ AddThread(s)
    /\ UNCHANGED <<launchVars, svc, gen, sent, pc, todo, ret, signalVars, ending, late, cut>>

\* ServiceLauncher.wait installs the handlers and waits.
WaitBegin ==
    /\ At("main", "launch")
    /\ added = Service
    /\ IF Eventlet THEN Goto("main", "wait", added) ELSE Goto("main", "idle", {})
    /\ installed' = Eventlet
    /\ UNCHANGED <<launchVars, added, svc, wrap, group, gen, sent, ret, pending, ending, late, cut>>

WaitService(s) ==
    /\ At("main", "wait")
    /\ First(s, todo["main"])
    /\ s \notin svc
    /\ Keep("main", todo["main"] \ {s})
    /\ UNCHANGED <<launchVars, added, svc, wrap, group, gen, sent, ret, signalVars, ending, late, cut>>

WaitGroup ==
    /\ At("main", "wait")
    /\ todo["main"] = {}
    /\ Goto("main", "join", group)
    /\ UNCHANGED <<launchVars, added, svc, wrap, group, gen, sent, ret, signalVars, ending, late, cut>>

\* ServiceLauncher waits once more (308) before it returns.
WaitReturns ==
    /\ At("main", "join")
    /\ \A w \in todo["main"] : wrap[w] = "over"
    /\ CASE ret["main"] = "loop" -> Goto("main", "wait", added) /\ ret' = [ret EXCEPT !["main"] = "final"]
         [] ret["main"] = "final" -> Goto("main", "done", {}) /\ ret' = ret
         [] ret["main"] = "idle" -> Goto("main", "idle", {}) /\ ret' = ret
    /\ UNCHANGED <<launchVars, added, svc, wrap, group, gen, sent, signalVars, ending, late, cut>>

(***************************************************************************)
(* stop() and restart()                                                    *)
(***************************************************************************)
BeginStop(a, then) == Goto(a, "stop", added) /\ ret' = [ret EXCEPT ![a] = then]

StopService(a, s) ==
    /\ At(a, "stop")
    /\ First(s, todo[a])
    /\ svc' = svc \ {s}
    /\ late' = late \ {s}
    /\ Keep(a, todo[a] \ {s})
    /\ UNCHANGED <<launchVars, added, wrap, group, gen, sent, ret, signalVars, ending, cut>>

\* service.stop() raises an Exception, and the rest of stop() is skipped.  The hub
\* drops what the greenthread of SIGTERM's handler raises; in main it leaves wait();
\* a caller with native threads gets it.
StopRaises(a) ==
    /\ At(a, "stop")
    /\ \E s \in todo[a] : First(s, todo[a]) /\ svc' \in {svc, svc \ {s}}
    /\ late' = late \cap svc'
    /\ Goto(a, IF a = "other" THEN "finished" ELSE IF Eventlet THEN "escaped" ELSE "idle", {})
    /\ cut' = (cut \/ a = "other")
    /\ UNCHANGED <<launchVars, added, wrap, group, gen, sent, ret, signalVars, ending>>

\* Mutant: the event is not sent.
SendNothing(a) ==
    /\ At(a, "stop")
    /\ todo[a] = {}
    /\ Goto(a, "kill", group)
    /\ UNCHANGED <<launchVars, added, svc, wrap, group, gen, sent, ret, signalVars, ending, late, cut>>

SendDone(a) ==
    /\ At(a, "stop")
    /\ todo[a] = {}
    /\ sent' = sent \cup {gen}
    /\ cut' = FALSE
    /\ Goto(a, "kill", group)
    /\ UNCHANGED <<launchVars, added, svc, wrap, group, gen, ret, signalVars, ending, late>>

\* Mutant: tg.stop() kills nothing.
KillNone(a) ==
    /\ At(a, "kill")
    /\ Eventlet
    /\ todo[a] # {}
    /\ Keep(a, {})
    /\ UNCHANGED <<launchVars, added, svc, wrap, group, gen, sent, ret, signalVars, ending, late, cut>>

\* tg.stop(): with eventlet each wrapper of the copied list is killed, also one
\* that has not begun, and the caller yields.
Kill(a) ==
    /\ At(a, "kill")
    /\ Eventlet
    /\ \E w \in todo[a] :
         /\ wrap' = [wrap EXCEPT ![w] = "over"]
         /\ group' = group \ {w}
         /\ Keep(a, todo[a] \ {w})
    /\ UNCHANGED <<launchVars, added, svc, gen, sent, ret, signalVars, ending, late, cut>>

\* tg.stop() with native threads forgets them.
StopReturns(a) ==
    /\ At(a, "kill")
    /\ IF Eventlet THEN todo[a] = {} /\ group' = group ELSE group' = {}
    /\ IF ret[a] = "final" THEN Goto(a, "wait", added) ELSE Goto(a, ret[a], {})
    /\ UNCHANGED <<launchVars, added, svc, wrap, gen, sent, ret, signalVars, ending, late, cut>>

BeginRestart ==
    IF conf.method = "reload" THEN BeginStop("main", "event")
                              ELSE Goto("main", "reset", {}) /\ ret' = ret

NewEvent ==
    /\ At("main", "event")
    /\ gen' = gen + 1
    /\ Goto("main", "reset", added)
    /\ UNCHANGED <<launchVars, added, svc, wrap, group, sent, ret, signalVars, ending, late, cut>>

\* reset() of a service, and with "reload" its new wrapper.
ResetService(s) ==
    /\ At("main", "reset")
    /\ First(s, todo["main"])
    /\ AddThread(s)
    /\ Keep("main", todo["main"] \ {s})
    /\ UNCHANGED <<launchVars, added, svc, gen, sent, ret, signalVars, ending, late, cut>>

\* ServiceLauncher.wait installs the handlers again.
RestartReturns ==
    /\ At("main", "reset")
    /\ todo["main"] = {}
    /\ IF Eventlet THEN Goto("main", "wait", added) /\ ret' = [ret EXCEPT !["main"] = "loop"]
                   ELSE Goto("main", "idle", {}) /\ ret' = ret
    /\ installed' = Eventlet
    /\ UNCHANGED <<launchVars, added, svc, wrap, group, gen, sent, pending, ending, late, cut>>

(***************************************************************************)
(* Launcher with native threads: any calls of main, stop() of another one  *)
(***************************************************************************)
Call ==
    /\ ~Eventlet
    /\ At("main", "idle")
    /\ \/ Goto("main", "wait", added) /\ ret' = [ret EXCEPT !["main"] = "idle"]
       \/ BeginStop("main", "idle")
       \/ gen < MaxGen /\ BeginRestart
    /\ UNCHANGED <<launchVars, added, svc, wrap, group, gen, sent, signalVars, ending, late, cut>>

OtherStops ==
    /\ ~Eventlet
    /\ At("other", "idle")
    /\ BeginStop("other", "finished")
    /\ UNCHANGED <<launchVars, added, svc, wrap, group, gen, sent, signalVars, ending, late, cut>>

(***************************************************************************)
(* An exception in a greenthread that no greenthread catches ends the hub, *)
(* and main, which waits for the hub, gets it: SignalExit of SIGHUP's      *)
(* callback, SystemExit of a wrapper.                                      *)
(***************************************************************************)
InLoop == pc["main"] \in {"wait", "join"} /\ ret["main"] = "loop"

Escape == Goto("main", "escaped", {}) /\ ret' = ret

RaiseSignalExit ==
    CASE InLoop /\ conf.daemon -> BeginRestart
      [] InLoop /\ ~conf.daemon -> Goto("main", "wait", added) /\ ret' = [ret EXCEPT !["main"] = "final"]
      [] OTHER -> Escape

\* An Exception in main, of a hook it calls, is met in the same way (290-291).
RaiseSystemExit == IF InLoop THEN BeginStop("main", "final") ELSE Escape

\* wait() or reset() of a service raises, or with "mutate" the configuration does.
HookRaises ==
    /\ \/ At("main", "wait") /\ todo["main"] # {}
       \/ At("main", "reset") /\ (todo["main"] # {} \/ conf.method = "mutate")
    /\ IF Eventlet THEN RaiseSystemExit /\ ending' = TRUE
                   ELSE Goto("main", "idle", {}) /\ UNCHANGED <<ret, ending>>
    /\ UNCHANGED <<launchVars, added, svc, wrap, group, gen, sent, signalVars, late, cut>>

(***************************************************************************)
(* run_service                                                             *)
(***************************************************************************)
WrapperAt(w, l) == pc["main"] \notin Over /\ MayRun({}) /\ wrap[w] = l

\* A stop() of the service may have come first.
Stopped(s, g) == g \in sent \/ \E a \in Actor : pc[a] = "stop" /\ s \notin todo[a]

StartReturns(w) ==
    /\ WrapperAt(w, "starting")
    /\ wrap' = [wrap EXCEPT ![w] = "waiting"]
    /\ \/ /\ svc' = svc \cup {w[1]}
          /\ late' = IF Eventlet /\ Stopped(w[1], w[2]) THEN late \cup {w[1]} ELSE late
       \/ svc' = svc /\ late' = late
    /\ UNCHANGED <<launchVars, added, group, gen, sent, pc, todo, ret, signalVars, ending, cut>>

\* Mutant: the failure stays in the wrapper.
StartFailsAlone(w) ==
    /\ WrapperAt(w, "starting")
    /\ wrap' = [wrap EXCEPT ![w] = "over"]
    /\ group' = group \ {w}
    /\ ending' = TRUE
    /\ UNCHANGED <<launchVars, added, svc, gen, sent, pc, todo, ret, signalVars, late, cut>>

\* SystemExit(1): an exception of a native thread is only its own.
StartFails(w) ==
    /\ WrapperAt(w, "starting")
    /\ wrap' = [wrap EXCEPT ![w] = "over"]
    /\ group' = group \ {w}
    /\ IF Eventlet THEN RaiseSystemExit /\ ending' = TRUE
                   ELSE UNCHANGED <<pc, todo, ret, ending>>
    /\ UNCHANGED <<launchVars, added, svc, gen, sent, signalVars, late, cut>>

WrapperEnds(w) ==
    /\ WrapperAt(w, "waiting")
    /\ w[2] \in sent
    /\ wrap' = [wrap EXCEPT ![w] = "over"]
    /\ group' = group \ {w}
    /\ UNCHANGED <<launchVars, added, svc, gen, sent, pc, todo, ret, signalVars, ending, late, cut>>

\* The threads of a service end by themselves.
ServiceEnds(s) ==
    /\ pc["main"] \notin Over /\ MayRun({})
    /\ s \in svc
    /\ svc' = svc \ {s}
    /\ late' = late \ {s}
    /\ UNCHANGED <<launchVars, added, wrap, group, gen, sent, pc, todo, ret, signalVars, ending, cut>>

(***************************************************************************)
(* Signals, with eventlet                                                  *)
(***************************************************************************)
\* With the handlers the callback is scheduled, without them the process ends.
Signal(sig) ==
    /\ Eventlet /\ pc["main"] \notin Over
    /\ sig \notin pending
    /\ sig = "SIGHUP" => gen < MaxGen
    /\ IF installed
         THEN pending' = pending \cup {sig} /\ UNCHANGED <<pc, todo>>
         ELSE pending' = pending /\ Goto("main", "gone", {})
    /\ UNCHANGED <<launchVars, added, svc, wrap, group, gen, sent, ret, installed, ending, late, cut>>

Callback(sig) == pc["main"] \notin Over /\ MayRun({}) /\ sig \in pending /\ pending' = pending \ {sig}

GracefulShutdown ==
    /\ Callback("SIGTERM")
    /\ installed
    /\ installed' = FALSE
    /\ BeginStop("other", "finished")
    /\ ending' = TRUE
    /\ UNCHANGED <<launchVars, added, svc, wrap, group, gen, sent, late, cut>>

ReloadService ==
    /\ Callback("SIGHUP")
    /\ installed
    /\ installed' = FALSE
    /\ RaiseSignalExit
    /\ UNCHANGED <<launchVars, added, svc, wrap, group, gen, sent, ending, late, cut>>

\* An earlier callback has cleared the handlers.
NoHandler(sig) ==
    /\ Callback(sig)
    /\ ~installed
    /\ UNCHANGED <<launchVars, added, svc, wrap, group, gen, sent, pc, todo, ret, installed, ending, late, cut>>

\* graceful_shutdown_timeout is over.  Only SIGTERM's handler arms the alarm.
AlarmSet == Eventlet /\ conf.timeout /\ pc["other"] # "idle"

Alarm ==
    /\ AlarmSet /\ pc["main"] \notin Over
    /\ Goto("main", "gone", {})
    /\ UNCHANGED <<launchVars, added, svc, wrap, group, gen, sent, ret, signalVars, ending, late, cut>>
-----------------------------------------------------------------------------
MainStep ==
    \/ \E s \in Service : Add(s) \/ WaitService(s) \/ ResetService(s)
    \/ WaitBegin \/ WaitGroup \/ WaitReturns \/ NewEvent \/ RestartReturns

StopStep(a) ==
    (\E s \in Service : StopService(a, s)) \/ SendDone(a) \/ Kill(a) \/ StopReturns(a)

WrapperStep(w) ==
    StartReturns(w) \/ StartFails(w) \/ WrapperEnds(w)

Next ==
    \/ MainStep
    \/ \E a \in Actor : StopStep(a) \/ StopRaises(a)
    \/ HookRaises
    \/ \E w \in Wrapper : WrapperStep(w)
    \/ Call \/ OtherStops
    \/ \E s \in Service : ServiceEnds(s)
    \/ \E sig \in {"SIGTERM", "SIGHUP"} : Signal(sig) \/ NoHandler(sig)
    \/ GracefulShutdown \/ ReloadService \/ Alarm

Spec == Init /\ [][Next]_vars

\* Threads and greenthreads run, hooks end, and an alarm that was set expires.
\* Nobody has to call, no signal has to arrive and no service has to end by itself.
FairSpec ==
    /\ Spec
    /\ WF_vars(MainStep)
    /\ \A a \in Actor : WF_vars(StopStep(a))
    /\ \A w \in Wrapper : WF_vars(WrapperStep(w))
    /\ WF_vars(Alarm)
-----------------------------------------------------------------------------
\* The types; and a wrapper that is over is in no list.
TypeOK ==
    /\ backend \in Backends
    /\ conf \in [daemon : BOOLEAN, method : {"reload", "mutate"}, timeout : BOOLEAN]
    /\ added \subseteq Service
    /\ svc \subseteq Service
    /\ wrap \in [Wrapper -> {"none", "starting", "waiting", "over"}]
    /\ group \subseteq {w \in Wrapper : Live(w)}
    /\ gen \in Gen
    /\ sent \subseteq 0 .. gen
    /\ pc["main"] \in {"launch", "idle", "wait", "join", "stop", "kill", "event", "reset"} \cup Over
    /\ pc["other"] \in {"idle", "stop", "kill", "finished"}
    /\ \A a \in Actor : todo[a] \subseteq IF pc[a] \in {"kill", "join"} THEN Wrapper ELSE Service
    /\ ret["main"] \in {"loop", "final", "event", "idle"}
    /\ ret["other"] \in {"idle", "finished"}
    /\ installed \in BOOLEAN
    /\ pending \subseteq {"SIGTERM", "SIGHUP"}
    /\ ending \in BOOLEAN
    /\ late \subseteq svc
    /\ cut \in BOOLEAN

\* With eventlet no service is ever run by two wrappers: restart() has killed
\* the old ones, also those still in start(), before it adds new ones, although
\* every kill and every hook yields (684-717).
OneWrapper ==
    Eventlet => \A s \in Service : Cardinality({g \in Gen : Live(<<s, g>>)}) <= 1

\* While ServiceLauncher waits in its loop (281) and nothing has ended it, every
\* service has a wrapper that waits for the present event: neither the event
\* nor the kills of a restart hit the wrappers that the restart added.
AllServed ==
    Eventlet /\ InLoop /\ ~ending => \A s \in Service : Live(<<s, gen>>)

\* No wrapper waits for ever for an event that restart() has replaced
\* or that was sent (338-350, 688-711): native threads, which nobody kills, end.
WaitsForOld == \E w \in Wrapper : Live(w) /\ (w[2] < gen \/ w[2] \in sent)
OldWrappersEnd == WaitsForOld ~> ~WaitsForOld \/ pc["main"] \in Over

\* With eventlet a SIGTERM whose handler runs, and a service that fails to
\* start ("except SystemExit", 287-289) or raises in its wait(), make
\* ServiceLauncher.wait end.  Without an alarm there are two exceptions: a start()
\* that was in progress returned after its service was stopped, and a service raised
\* in the stop() of SIGTERM's handler, which leaves the others running (684).
Ends == Eventlet /\ ending ~> pc["main"] \in Over \/ (~AlarmSet /\ (late # {} \/ cut))
=============================================================================
