--------------------------- MODULE ProcessLauncher ---------------------------
(***************************************************************************)
(* The eventlet ProcessLauncher (backend/_eventlet/service.py): a parent   *)
(* process that keeps Workers[w] child processes alive for every launched  *)
(* service w, reloads them on SIGHUP and shuts them down on SIGTERM.       *)
(*                                                                         *)
(* The parent is cooperative.  A POSIX signal runs _handle_signal, which   *)
(* only spawns the callback on the eventlet hub; the callback runs when    *)
(* every greenthread of the parent is at a point that yields.  Signals     *)
(* whose handlers were cleared have their default action, death, at once.  *)
(* Child processes and POSIX signals interleave with every step.           *)
(***************************************************************************)
EXTENDS Naturals, FiniteSets

CONSTANTS
    Wrap,        \* the ServiceWrappers: one per launch_service call
    Workers,     \* Workers[w]: the number of processes of w
    Pid,         \* process ids; an id is free again once it was waited for
    None,        \* no wrapper
    Confs,       \* the configurations the launcher may be started with
    HookYields,  \* do service.stop, service.reset or mutate hooks yield?
    Extern       \* what another greenthread may do: "stop", "kill"

ConfType == [reload : BOOLEAN, daemon : BOOLEAN, timeout : BOOLEAN]

ASSUME WorkersAssumption == Workers \in [Wrap -> Nat \ {0}]
ASSUME NoneAssumption == None \notin Wrap
ASSUME PidAssumption == IsFiniteSet(Pid)
ASSUME ConfAssumption == Confs \subseteq ConfType
ASSUME HookAssumption == HookYields \in BOOLEAN

Greenlet == {"main", "other"}   \* the one in wait(), and one that calls stop()
Signal == {"TERM", "HUP", "INT", "ALRM"}

VARIABLES
    conf,       \* restart_method, is_daemon(), graceful_shutdown_timeout > 0
    alive,      \* the parent process exists
    pc,         \* where each greenthread of the parent is
    running,    \* self.running
    sigcaught,  \* self.sigcaught
    installed,  \* the handlers are added (FALSE: cleared, SIG_DFL)
    hub,        \* _handle_signal_cb calls scheduled on the parent's hub
    alarm,      \* signal.alarm is set
    cur,        \* the wrapper whose children are being started
    children,   \* self.children
    wkids,      \* wrap.children
    forktimes,  \* Len(wrap.forktimes)
    proc        \* the child processes, by pid

parentVars == <<conf, alive, pc, running, sigcaught, installed, hub, alarm,
                cur, children, wkids, forktimes>>
vars == <<parentVars, proc>>
-----------------------------------------------------------------------------
(***************************************************************************)
(* Child processes.  "forked" and "bare" children have not yet replaced    *)
(* the handlers inherited from the parent (the parent's own, or SIG_DFL);  *)
(* "cleared" is between clear() and add_handler, "setup" has its handlers  *)
(* but still the parent's hub, where a scheduled callback is never run;    *)
(* "up" serves; "caught" and "rereading" are in the restart after SIGHUP,  *)
(* "stopping" in launcher.stop(), all three with cleared handlers.         *)
(***************************************************************************)
Early == {"forked", "bare", "cleared", "setup"}
Live == Early \cup {"up", "caught", "rereading", "stopping"}
Deaf == {"forked", "setup"}
DefaultAction == {"bare", "cleared", "caught", "rereading", "stopping"}

\* stale: still runs with the configuration from before the last reload.
\* lost: a signal of the parent was dropped (history, read by properties only).
Process == [phase : Live \cup {"zombie", "free"}, inbox : SUBSET {"TERM", "HUP"},
            stale : BOOLEAN, lost : BOOLEAN]
Fresh(ph) == [phase |-> ph, inbox |-> {}, stale |-> FALSE, lost |-> FALSE]

\* A stale process that was told, or never will be.
Leaving(r) ==
    \/ r.lost
    \/ r.phase = "up" /\ r.inbox # {}
    \/ r.phase \in {"caught", "stopping"}

IsLive(p) == proc[p].phase \in Live
Processes == {p \in Pid : proc[p].phase # "free"}

\* The effect of os.kill(pid, sig) on the process r.
Receive(r, sig) ==
    CASE r.phase \in DefaultAction -> Fresh("zombie")
      [] r.phase \in Deaf -> [r EXCEPT !.lost = TRUE]
      [] r.phase = "up" -> [r EXCEPT !.inbox = @ \cup {sig}]
      [] OTHER -> r

\* Every signal to a tracked child; a signal to an unknown pid would be a bug.
Kill(S, sig) ==
    proc' = [p \in Pid |-> IF p \in S THEN Receive(proc[p], sig) ELSE proc[p]]

Tracked == {p \in Pid : children[p] # None}
-----------------------------------------------------------------------------
YieldPoints == {"idle", "throttle"}
                 \cup (IF HookYields THEN {"hup_hooks", "stop_hooks"} ELSE {})
Yields(g) == pc[g] \in YieldPoints \cup {"none", "done"}

\* Greenthreads are cooperative: g runs only while the others have yielded.
MayRun(g) == alive /\ \A h \in Greenlet \ {g} : Yields(h)
At(g, l) == MayRun(g) /\ pc[g] = l
Goto(g, l) == pc' = [pc EXCEPT ![g] = l]

PcMain == {"app", "launching", "respawn", "idle", "refill", "throttle",
           "hup_hooks", "stop_hooks", "reaping", "returned", "gone"}
PcOther == {"none", "stop_hooks", "reaping", "done", "gone"}

\* The parent process ends, however it does: its memory is gone, its children
\* are not.
ParentGone ==
    /\ alive' = FALSE
    /\ pc' = [g \in Greenlet |-> "gone"]
    /\ running' = FALSE
    /\ sigcaught' = "none"
    /\ installed' = FALSE
    /\ hub' = {}
    /\ alarm' = FALSE
    /\ cur' = None
    /\ UNCHANGED <<conf, children, wkids, forktimes, proc>>
-----------------------------------------------------------------------------
Init ==
    /\ conf \in Confs
    /\ alive = TRUE
    /\ pc = [g \in Greenlet |-> IF g = "main" THEN "app" ELSE "none"]
    /\ running = TRUE
    /\ sigcaught = "none"
    /\ installed = TRUE
    /\ hub = {}
    /\ alarm = FALSE
    /\ cur = None
    /\ children = [p \in Pid |-> None]
    /\ wkids = [w \in Wrap |-> {}]
    /\ forktimes = [w \in Wrap |-> 0]
    /\ proc = [p \in Pid |-> Fresh("free")]

(***************************************************************************)
(* Starting children.                                                      *)
(***************************************************************************)

\* Mutant: the oldest fork time is not popped.
StartChildNoPop(w) ==
    /\ forktimes' = [forktimes EXCEPT ![w] = @ + 1]
    /\ \E p \in Pid :
         /\ proc[p].phase = "free"
         /\ proc' = [proc EXCEPT ![p] = Fresh(IF installed THEN "forked" ELSE "bare")]
         /\ wkids' = [wkids EXCEPT ![w] = @ \cup {p}]
         /\ children' = [children EXCEPT ![p] = w]

\* The fork itself, with the update of forktimes before it (461-498).
StartChild(w) ==
    /\ forktimes' = [forktimes EXCEPT ![w] = IF @ > Workers[w] THEN @ ELSE @ + 1]
    /\ \E p \in Pid :
         /\ proc[p].phase = "free"
         /\ proc' = [proc EXCEPT ![p] = Fresh(IF installed THEN "forked" ELSE "bare")]
         /\ wkids' = [wkids EXCEPT ![w] = @ \cup {p}]
         /\ children' = [children EXCEPT ![p] = w]

\* Mutant: one process too many.
ShortOrFull(w) == Cardinality(wkids[w]) <= Workers[w]

Short(w) == Cardinality(wkids[w]) < Workers[w]

\* launch_service, of a service that was not launched yet.
LaunchService(w) ==
    /\ At("main", "app")
    /\ forktimes[w] = 0
    /\ cur' = w
    /\ Goto("main", "launching")
    /\ UNCHANGED <<conf, alive, running, sigcaught, installed, hub, alarm,
                   children, wkids, forktimes, proc>>

LaunchFork ==
    /\ At("main", "launching")
    /\ running /\ Short(cur)
    /\ StartChild(cur)
    /\ UNCHANGED <<conf, alive, pc, running, sigcaught, installed, hub, alarm, cur>>

LaunchDone ==
    /\ At("main", "launching")
    /\ ~(running /\ Short(cur))
    /\ cur' = None
    /\ Goto("main", "app")
    /\ UNCHANGED <<conf, alive, running, sigcaught, installed, hub, alarm,
                   children, wkids, forktimes, proc>>

\* wait() entered: the handlers are added again, then _respawn_children.
Wait ==
    /\ At("main", "app")
    /\ \A w \in Wrap : forktimes[w] > 0
    /\ installed' = TRUE
    /\ Goto("main", "respawn")
    /\ UNCHANGED <<conf, alive, running, sigcaught, hub, alarm, cur, children,
                   wkids, forktimes, proc>>

(***************************************************************************)
(* _respawn_children.                                                      *)
(***************************************************************************)

\* Mutant: the exited child stays in wrap.children.
WaitChildKeeps(p) ==
    /\ proc[p].phase = "zombie"
    /\ proc' = [proc EXCEPT ![p] = Fresh("free")]
    /\ wkids' = wkids
    /\ children' = [children EXCEPT ![p] = None]

\* waitpid returned p: both records of p are dropped.
WaitChild(p) ==
    /\ proc[p].phase = "zombie"
    /\ proc' = [proc EXCEPT ![p] = Fresh("free")]
    /\ wkids' = [w \in Wrap |-> IF w = children[p] THEN wkids[w] \ {p} ELSE wkids[w]]
    /\ children' = [children EXCEPT ![p] = None]

NoZombie == \A p \in Pid : proc[p].phase # "zombie"

\* Mutant: a child is waited for after self.running was cleared.
RespawnReapStopped ==
    /\ At("main", "respawn")
    /\ \E p \in Pid : WaitChild(p) /\ cur' = children[p]
    /\ Goto("main", "refill")
    /\ UNCHANGED <<conf, alive, running, sigcaught, installed, hub, alarm, forktimes>>

RespawnReap ==
    /\ At("main", "respawn")
    /\ running
    /\ \E p \in Pid : WaitChild(p) /\ cur' = children[p]
    /\ Goto("main", "refill")
    /\ UNCHANGED <<conf, alive, running, sigcaught, installed, hub, alarm, forktimes>>

\* No child has exited: sleep(wait_interval), which yields.
RespawnSleep ==
    /\ At("main", "respawn")
    /\ running
    /\ NoZombie
    /\ Goto("main", "idle")
    /\ UNCHANGED <<conf, alive, running, sigcaught, installed, hub, alarm, cur,
                   children, wkids, forktimes, proc>>

RespawnWake ==
    /\ At("main", "idle")
    /\ Goto("main", "respawn")
    /\ UNCHANGED <<conf, alive, running, sigcaught, installed, hub, alarm, cur,
                   children, wkids, forktimes, proc>>

RefillFork ==
    /\ At("main", "refill")
    /\ running /\ Short(cur)
    /\ StartChild(cur)
    /\ UNCHANGED <<conf, alive, pc, running, sigcaught, installed, hub, alarm, cur>>

\* Workers[w] + 1 forks in less than Workers[w] seconds: sleep(1), which yields.
RefillThrottle ==
    /\ At("main", "refill")
    /\ running /\ Short(cur)
    /\ forktimes[cur] > Workers[cur]
    /\ Goto("main", "throttle")
    /\ UNCHANGED <<conf, alive, running, sigcaught, installed, hub, alarm, cur,
                   children, wkids, forktimes, proc>>

\* Mutant: after the sleep self.running is looked at again.
ThrottleWakeLooks ==
    /\ At("main", "throttle")
    /\ IF running THEN StartChild(cur) ELSE UNCHANGED <<children, wkids, forktimes, proc>>
    /\ Goto("main", "refill")
    /\ UNCHANGED <<conf, alive, running, sigcaught, installed, hub, alarm, cur>>

\* The sleep over, the fork happens whatever self.running is by now.
ThrottleWake ==
    /\ At("main", "throttle")
    /\ StartChild(cur)
    /\ Goto("main", "refill")
    /\ UNCHANGED <<conf, alive, running, sigcaught, installed, hub, alarm, cur>>

RefillDone ==
    /\ At("main", "refill")
    /\ ~(running /\ Short(cur))
    /\ cur' = None
    /\ Goto("main", "respawn")
    /\ UNCHANGED <<conf, alive, running, sigcaught, installed, hub, alarm,
                   children, wkids, forktimes, proc>>

(***************************************************************************)
(* wait() once _respawn_children has returned.                             *)
(***************************************************************************)
RespawnOver == At("main", "respawn") /\ ~running

\* No signal means that stop was called.
WaitStopCalled ==
    /\ RespawnOver
    /\ sigcaught = "none"
    /\ Goto("main", "returned")
    /\ UNCHANGED <<conf, alive, running, sigcaught, installed, hub, alarm, cur,
                   children, wkids, forktimes, proc>>

\* _is_sighup_and_daemon: the configuration is reloaded or mutated, and the
\* services are reset; from now on every existing process is out of date.
BeginHup ==
    /\ RespawnOver
    /\ sigcaught = "HUP" /\ conf.daemon
    /\ proc' = [p \in Pid |-> [proc[p] EXCEPT !.stale = IsLive(p)]]
    /\ Goto("main", "hup_hooks")
    /\ UNCHANGED <<conf, alive, running, sigcaught, installed, hub, alarm, cur,
                   children, wkids, forktimes>>

\* Mutant: child_signal is only set for restart_method='mutate'.
SignalKidsMutateOnly ==
    /\ At("main", "hup_hooks")
    /\ Kill(IF conf.reload THEN {} ELSE Tracked, "HUP")
    /\ running' = TRUE
    /\ sigcaught' = "none"
    /\ installed' = TRUE
    /\ Goto("main", "respawn")
    /\ UNCHANGED <<conf, alive, hub, alarm, cur, children, wkids, forktimes>>

\* The children are told, and wait() starts its loop over with handle_signal().
SignalKids ==
    /\ At("main", "hup_hooks")
    /\ Kill(Tracked, IF conf.reload THEN "TERM" ELSE "HUP")
    /\ running' = TRUE
    /\ sigcaught' = "none"
    /\ installed' = TRUE
    /\ Goto("main", "respawn")
    /\ UNCHANGED <<conf, alive, hub, alarm, cur, children, wkids, forktimes>>

\* Mutant: the alarm is not set.
GracefulShutdownNoAlarm ==
    /\ RespawnOver
    /\ sigcaught = "TERM" \/ (sigcaught = "HUP" /\ ~conf.daemon)
    /\ running' = FALSE
    /\ Goto("main", "stop_hooks")
    /\ UNCHANGED <<conf, alive, sigcaught, installed, hub, alarm, cur, children,
                   wkids, forktimes, proc>>

\* After the loop of wait(): arm the alarm and call stop().
GracefulShutdown ==
    /\ RespawnOver
    /\ sigcaught = "TERM" \/ (sigcaught = "HUP" /\ ~conf.daemon)
    /\ alarm' = conf.timeout
    /\ running' = FALSE
    /\ Goto("main", "stop_hooks")
    /\ UNCHANGED <<conf, alive, sigcaught, installed, hub, cur, children,
                   wkids, forktimes, proc>>

\* GreenletExit is raised in wait() where it yields: same cleanup.
KilledWait ==
    /\ "kill" \in Extern
    /\ MayRun("main")
    /\ pc["main"] \in YieldPoints \ {"stop_hooks"}
    /\ alarm' = conf.timeout
    /\ running' = FALSE
    /\ cur' = None
    /\ Goto("main", "stop_hooks")
    /\ UNCHANGED <<conf, alive, sigcaught, installed, hub, children, wkids,
                   forktimes, proc>>

(***************************************************************************)
(* stop(), run by the main greenthread or by another one.                  *)
(***************************************************************************)
OtherStop ==
    /\ "stop" \in Extern
    /\ At("other", "none")
    /\ running' = FALSE
    /\ Goto("other", "stop_hooks")
    /\ UNCHANGED <<conf, alive, sigcaught, installed, hub, alarm, cur,
                   children, wkids, forktimes, proc>>

\* Mutant: the loop over the children ends with those of one service.
StopKillOne(g) ==
    /\ At(g, "stop_hooks")
    /\ \E w \in Wrap : Kill(wkids[w], "TERM")
    /\ Goto(g, "reaping")
    /\ UNCHANGED <<conf, alive, running, sigcaught, installed, hub, alarm, cur,
                   children, wkids, forktimes>>

StopKill(g) ==
    /\ At(g, "stop_hooks")
    /\ Kill(Tracked, "TERM")
    /\ Goto(g, "reaping")
    /\ UNCHANGED <<conf, alive, running, sigcaught, installed, hub, alarm, cur,
                   children, wkids, forktimes>>

\* The loop never yields: only reaping changes anything while children are left.
StopReap(g) ==
    /\ At(g, "reaping")
    /\ \E p \in Pid : WaitChild(p)
    /\ UNCHANGED <<conf, alive, pc, running, sigcaught, installed, hub, alarm,
                   cur, forktimes>>

StopReturn(g) ==
    /\ At(g, "reaping")
    /\ Tracked = {}
    /\ Goto(g, IF g = "main" THEN "returned" ELSE "done")
    /\ UNCHANGED <<conf, alive, running, sigcaught, installed, hub, alarm, cur,
                   children, wkids, forktimes, proc>>

\* The application exits once wait() has returned.
ParentExit ==
    /\ At("main", "returned")
    /\ ParentGone

(***************************************************************************)
(* Signals to the parent.                                                  *)
(***************************************************************************)

\* _handle_signal only schedules the callback; a cleared handler is SIG_DFL.
Arrive(sig) ==
    \/ /\ installed
       /\ hub' = hub \cup {sig}
       /\ UNCHANGED <<conf, alive, pc, running, sigcaught, installed, cur,
                      children, wkids, forktimes, proc>>
    \/ ~installed /\ ParentGone

SignalParent(sig) == alive /\ Arrive(sig) /\ alarm' = (alarm /\ installed)

AlarmFires == alive /\ alarm /\ Arrive("ALRM") /\ alarm' = FALSE

\* _handle_signal_cb runs on the hub while every greenthread has yielded.
Due(sig) == alive /\ sig \in hub /\ \A g \in Greenlet : Yields(g)

Callback(sig) ==
    /\ Due(sig)
    /\ hub' = hub \ {sig}
    /\ UNCHANGED <<conf, alive, pc, alarm, cur, children, wkids, forktimes, proc>>

\* Mutant: the handlers are not cleared.
HandleTermKeeps ==
    /\ Callback("TERM")
    /\ installed
    /\ sigcaught' = "TERM"
    /\ running' = FALSE
    /\ UNCHANGED installed

HandleTerm ==
    /\ Callback("TERM")
    /\ installed
    /\ sigcaught' = "TERM"
    /\ running' = FALSE
    /\ installed' = FALSE

HandleHup ==
    /\ Callback("HUP")
    /\ installed
    /\ sigcaught' = "HUP"
    /\ running' = FALSE
    /\ UNCHANGED installed

\* _fast_exit and _on_alarm_exit.
ExitNow ==
    /\ Due("INT") \/ Due("ALRM")
    /\ installed
    /\ ParentGone

\* The handlers were cleared after the signal was accepted: nothing to call.
NoHandler ==
    /\ \E sig \in Signal : Callback(sig)
    /\ ~installed
    /\ UNCHANGED <<running, sigcaught, installed>>

(***************************************************************************)
(* Steps of child processes (_child_process, _start_child 476-491).        *)
(***************************************************************************)
ChildGoes(p, from, to) ==
    /\ proc[p].phase = from
    /\ proc' = [proc EXCEPT ![p].phase = to]
    /\ UNCHANGED parentVars

\* tpool.killall(), clear(), add_handler; then use_hub() and launch_service.
ChildClear(p) == ChildGoes(p, "forked", "cleared") \/ ChildGoes(p, "bare", "cleared")
ChildSetup(p) == ChildGoes(p, "cleared", "setup")
ChildUseHub(p) == ChildGoes(p, "setup", "up")

\* _sigterm: clear() and launcher.stop().
ChildTerm(p) ==
    /\ proc[p].phase = "up" /\ "TERM" \in proc[p].inbox
    /\ proc' = [proc EXCEPT ![p].phase = "stopping", ![p].inbox = @ \ {"TERM"}]
    /\ UNCHANGED parentVars

\* _sighup: clear() and raise SignalExit out of launcher.wait().
ChildHup(p) ==
    /\ proc[p].phase = "up" /\ "HUP" \in proc[p].inbox
    /\ proc' = [proc EXCEPT ![p].phase = "caught", ![p].inbox = @ \ {"HUP"}]
    /\ UNCHANGED parentVars

\* launcher.restart(): read the configuration, then Services.restart().
ChildReread(p) ==
    /\ proc[p].phase = "caught"
    /\ proc' = [proc EXCEPT ![p].phase = "rereading", ![p].stale = FALSE]
    /\ UNCHANGED parentVars

ChildReinstall(p) == ChildGoes(p, "rereading", "up")

\* A callback scheduled before the handlers were cleared runs and does nothing.
ChildNoHandler(p) ==
    /\ proc[p].phase \in {"caught", "rereading", "stopping"}
    /\ \E sig \in proc[p].inbox :
         proc' = [proc EXCEPT ![p].inbox = @ \ {sig}, ![p].lost = TRUE]
    /\ UNCHANGED parentVars

ChildStopped(p) ==
    /\ proc[p].phase = "stopping"
    /\ proc' = [proc EXCEPT ![p] = Fresh("zombie")]
    /\ UNCHANGED parentVars

\* Mutant: the children keep their inherited write ends open.
PipeHeld == ~alive /\ \A p \in Pid : proc[p].phase \notin Live

\* The last write end of the pipe is closed: _pipe_watcher stops the child.
PipeClosed == ~alive /\ \A p \in Pid : proc[p].phase \notin Early

PipeWatcher(p) ==
    /\ PipeClosed
    /\ proc[p].phase \in Live
    /\ proc' = [proc EXCEPT ![p] = Fresh("zombie")]
    /\ UNCHANGED parentVars

\* The environment: a worker crashes, is killed, or its services end.
ChildDies(p) ==
    /\ IsLive(p)
    /\ proc' = [proc EXCEPT ![p] = Fresh("zombie")]
    /\ UNCHANGED parentVars

Terminated ==
    /\ ~alive
    /\ \A p \in Pid : ~IsLive(p)
    /\ UNCHANGED vars
-----------------------------------------------------------------------------
MainStep ==
    \/ \E w \in Wrap : LaunchService(w)
    \/ LaunchFork \/ LaunchDone \/ Wait
    \/ RespawnReap \/ RespawnSleep \/ RespawnWake
    \/ RefillFork \/ RefillThrottle \/ ThrottleWake \/ RefillDone
    \/ WaitStopCalled \/ BeginHup \/ SignalKids \/ GracefulShutdown
    \/ StopKill("main") \/ StopReap("main") \/ StopReturn("main")
    \/ ParentExit

OtherStep == StopKill("other") \/ StopReap("other") \/ StopReturn("other")

ChildStep(p) ==
    \/ ChildClear(p) \/ ChildSetup(p) \/ ChildUseHub(p)
    \/ ChildTerm(p) \/ ChildHup(p) \/ ChildReread(p) \/ ChildReinstall(p)
    \/ ChildNoHandler(p) \/ ChildStopped(p) \/ PipeWatcher(p)

CallbackStep == HandleTerm \/ HandleHup \/ ExitNow \/ NoHandler

Environment ==
    \/ \E sig \in {"TERM", "HUP", "INT"} : SignalParent(sig)
    \/ AlarmFires
    \/ KilledWait \/ OtherStop
    \/ \E p \in Pid : ChildDies(p)

Next ==
    \/ MainStep \/ OtherStep \/ CallbackStep
    \/ \E p \in Pid : ChildStep(p)
    \/ Environment
    \/ Terminated

Spec == Init /\ [][Next]_vars

(***************************************************************************)
(* Fairness.  The scheduler runs every greenthread that can run and every  *)
(* process; the hub runs a scheduled callback at some yield; an armed      *)
(* alarm expires; a crash loop cannot go on for ever without either a      *)
(* sleep for want of an exited child or a throttled fork, because          *)
(* forktimes holds Workers[w] + 1 times.  Signals to the parent, crashes   *)
(* of children and calls by other greenthreads are never promised.         *)
(***************************************************************************)
Fairness ==
    /\ WF_vars(MainStep)
    /\ WF_vars(OtherStep)
    /\ SF_vars(RespawnSleep \/ RefillThrottle)
    /\ SF_vars(HandleTerm) /\ SF_vars(HandleHup) /\ SF_vars(ExitNow)
    /\ WF_vars(AlarmFires)
    /\ \A p \in Pid : WF_vars(ChildStep(p))

FairSpec == Spec /\ Fairness
-----------------------------------------------------------------------------
\* The state is well-formed (the attributes of 324-346 and of 313-317).
TypeOK ==
    /\ conf \in Confs
    /\ alive \in BOOLEAN
    /\ pc \in [Greenlet -> PcMain \cup PcOther]
    /\ pc["main"] \in PcMain /\ pc["other"] \in PcOther
    /\ running \in BOOLEAN
    /\ sigcaught \in {"none", "TERM", "HUP"}
    /\ installed \in BOOLEAN
    /\ hub \subseteq Signal
    /\ alarm \in BOOLEAN
    /\ cur \in Wrap \cup {None}
    /\ cur \in Wrap <=> pc["main"] \in {"launching", "refill", "throttle"}
    /\ children \in [Pid -> Wrap \cup {None}]
    /\ wkids \in [Wrap -> SUBSET Pid]
    /\ forktimes \in [Wrap -> Nat]
    /\ \A w \in Wrap : forktimes[w] <= Workers[w] + 1
    /\ proc \in [Pid -> Process]

\* self.children and the wrap.children sets always agree, and they hold exactly
\* the processes that were forked and not yet waited for: os.kill (599, 627)
\* can neither fail with ESRCH nor reach an unrelated process whose pid is a
\* recycled one, and no child is forgotten (495-496, 550-551).
Tracking ==
    /\ Tracked = Processes
    /\ \A w \in Wrap : wkids[w] = {p \in Pid : children[p] = w}

\* A service never has more than its number of processes, through crashes,
\* reloads, throttled forks and concurrent stops (519, 563).
AtMostWorkers == \A w \in Wrap : Cardinality(wkids[w]) <= Workers[w]

\* Whenever wait() sleeps and nobody has called stop(), every service has all
\* its processes, exited ones that wait() has still to collect included: a
\* SIGHUP or SIGTERM that clears self.running halfway through a refill leaves
\* no service short (554-564).
FullStrength ==
    pc["main"] = "idle" /\ pc["other"] = "none"
        => \A w \in Wrap : Cardinality(wkids[w]) = Workers[w]

\* After a reload, a process that still has the old configuration is about to
\* leave it (its signal is queued, or it is restarting or stopping), unless the
\* signal was lost: no other process is overlooked (587-599).
OldConfigLeaves ==
    \A p \in Pid : pc["main"] = "idle" /\ proc[p].stale => Leaving(proc[p])

\* While the loop at the end of stop() waits for the children (633-636), each
\* that lives was told to end by this stop() or has lost the signal: no fork of
\* wait() or of a throttle that was asleep comes between the kills and the loop,
\* and no SIGHUP makes a child forget what it was told.
StopTellsAll ==
    \A g \in Greenlet : pc[g] = "reaping" =>
        \A p \in Pid : IsLive(p) =>
            proc[p].lost \/ proc[p].phase = "stopping" \/ "TERM" \in proc[p].inbox

\* An accepted SIGTERM is never forgotten: once _handle_term has recorded it no
\* later SIGHUP and no turn of wait() replaces it ("If a non-HUP is received
\* before #wait loops, the second event will overwrite the HUP", 376-378).
TermSticks == [][sigcaught = "TERM" /\ alive' => sigcaught' = "TERM"]_vars

\* SIGTERM ends the parent, whatever crashes and SIGHUPs come in between: by
\* stop(), or at the latest by the alarm; with no timeout a lost signal may
\* keep it waiting.
TermStops ==
    ("TERM" \in hub /\ conf.daemon)
        ~> (~alive \/ (~conf.timeout /\ \E p \in Pid : proc[p].lost))

\* However the parent goes, its children follow (_pipe_watcher, 388-398), even
\* those that lost a signal.
OrphansExit == ~alive ~> \A p \in Pid : ~IsLive(p)

\* A reload reaches every process that was running when it began.
HupRefreshes ==
    \A p \in Pid : proc[p].stale ~> (~proc[p].stale \/ proc[p].lost \/ ~alive)

\* A graceful shutdown with a timeout ends ("Specify a timeout after which a
\* gracefully shutdown server will exit", _options.py:69-70).
TimeoutEnforced == alarm ~> ~alive
-----------------------------------------------------------------------------
\* What a process is to the supervisor.
Status(r) ==
    CASE r.phase = "free" -> "free"
      [] r.phase = "zombie" -> "exited"
      [] r.phase \in Live /\ ~r.stale -> "current"
      [] OTHER -> IF Leaving(r) THEN "told" ELSE "old"

Closing ==
    \/ ~alive
    \/ pc["main"] \in {"stop_hooks", "reaping", "returned"}
    \/ pc["other"] # "none"

Resting == pc["main"] = "idle" /\ pc["other"] = "none"

Sup == INSTANCE Supervisor WITH
         Service <- Wrap, Size <- Workers, Proc <- Pid, nobody <- None,
         up <- alive, closing <- Closing, resting <- Resting,
         owner <- children, state <- [p \in Pid |-> Status(proc[p])]

\* The launcher keeps the promises of Supervisor: the tables, the loops of
\* wait() and stop(), the throttle, the signals and the handlers (312-636)
\* behave as a supervisor that rests only when its services are complete.
ImplementsSupervisor == Sup!Spec
=============================================================================
