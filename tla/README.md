# oslo.service in TLA+

TLA+ models of oslo.service, TLC configurations that check them on small
instances, and TLAPS proofs. Line numbers in the modules' comments refer to the
file named in the module's header; `PROJECT.json` maps every definition to the
lines it models. Paths below are relative to `src/oslo_service/`.

1. [The system](#1-the-system)
2. [What is modelled](#2-what-is-modelled)
3. [What the runs check](#3-what-the-runs-check)
4. [Fairness](#4-fairness)
5. [What is proved](#5-what-is-proved)
6. [Disagreements between code and documentation](#6-disagreements-between-code-and-documentation)
7. [Plan](#7-plan)
8. [What is not modelled](#8-what-is-not-modelled)

## 1. The system

oslo.service runs long-lived services. A *launcher* starts service objects, in
the same process or in child processes, waits for them, and reacts to signals.
Two back ends implement the same interface: *eventlet* (greenthreads that yield
only at certain points, and the library's own process manager) and *threading*
(native threads, and the external process manager cotyledon).

| Component | State | Operations | What is hard | What makes it correct |
|---|---|---|---|---|
| eventlet `ProcessLauncher` (`backend/_eventlet/service.py` 312-636) | `running`, `sigcaught`, `children`, per service `wrap.children` and `forktimes`; signal handlers; child processes and the parent's pipe | `launch_service`, `wait`, `stop`, handlers of SIGTERM, SIGHUP, SIGINT, SIGALRM; in the child `_child_process`, restart | signals become hub callbacks that run only where the parent yields; handlers come and go; crashes, forks, reloads and stops overlap; a signal can miss a new child | the child table is exact; never too many processes and, at rest, never too few; a reload reaches every process; a termination signal is not lost and ends everything |
| `Services` and the launchers of one process, both backends (`_eventlet/service.py` 166-310 and 664-733, `_threading/service.py` 289-368) | list of services, their group, the `done` event | `add`, `stop`, `wait`, `restart`, signal exits | `restart` replaces the event while old wrappers may wait for it; a `start()` that fails or is still in progress | each service has one wrapper, old wrappers end, the launcher ends when told to |
| threading `ProcessLauncher`, `no_fork` (`_threading/service.py` 370-535) | signal handlers, the service | `launch_service`, `_wait_no_fork`, `restart`, `_graceful_shutdown` | native signal handlers run in the middle of `start`, `stop`, `restart`, and one may want a lock that the frame below holds | SIGTERM ends the process; SIGHUP restarts the service; no stopped service is waited for |
| threading launchers with forks (`_threading/service.py` 226-288, 406-518) | one `ServiceManager` under a lock | `launch_service`, `wait`, `stop` | concurrent launches | exactly one manager, no launch refused because of another |
| looping calls (`backend/_common/loopingcall.py`, `_threading/`, `_eventlet/`) | `_thread`, `done`, `_abort`; the event of every run | `start`, `stop`, `wait`, the loop, the done callback; the interval of each variant | the same fields serve successive runs; callbacks interleave with `start()`; drift, jitter, time-outs | runs do not overlap; a result reaches its own waiters; `stop()` is prompt and affects its own run only; intervals are kept |
| retry decorator (`_common/loopingcall.py` 402-504) | retry counter | a decorated call | the counter is shared by calls and threads | a call that goes on failing is given up |
| thread group, threading (`_common/threadgroup.py`, `_threading/threadgroup.py`) | `threads`, `timers`, `_lock`, pool size | `add_thread`, `add_timer*`, `timer_done`, `stop_timers`, `stop`, `wait`/`waitall` | members use the group while others stop it; lock held over waits; unstarted and forgotten threads | the list is exact, the pool bounded, a wait waits, a stop stops and returns |
| thread group, eventlet (`_eventlet/threadgroup.py`) | `threads`, the GreenPool | `add_thread`, `stop`, `wait`, `cancel` | a kill is an exception that the group's own loops swallow; a full pool runs a callback in its caller; loops over a list that shrinks | the list is exact, a stop ends what it found, a wait waits for it |
| periodic tasks (`periodic_task.py`) | last run and spacing per task | `add_periodic_task`, `run_periodic_tasks`, `..._in_parallel` | drift, long tasks, failures between marking and running | no task twice in a period |
| backend selection (`backend/__init__.py`) | cached backend, its type, components, hook | `init_backend`, `get_backend`, `get_component` | lazy initialisation by several threads without a lock | one backend for all, for good |
| WSGI server (`wsgi.py`) | server greenthread, pool | `start`, `stop`, `reset`, `wait` | a resized pool with running requests | what was accepted is served; slots add up |
| backdoor (`eventlet_backdoor.py`) | port or path | start-up in every process | several processes, one range or path | each has a port of its own; the path leads to an open one |
| systemd, spawn helpers, common helpers | little | | | steps of the models above |
| options, TLS options, interface classes, facades, fixture | none | | | |

How they interact: launchers call `start`, `stop`, `wait` and `reset` of the
services. A service keeps its threads and timers in a thread group; timers are
looping calls; `Services` runs each service in a thread of its own group. In a
child of the eventlet `ProcessLauncher` a `Launcher` with one service runs, and
parent and child share only signals, exit statuses and one pipe. The facades
(`service.py`, `threadgroup.py`, `loopingcall.py`) re-export the classes of the
selected backend.

The full list of what is hard to test, each at its line and with the properties
that cover it, is `hazards` in `PROJECT.json`.

## 2. What is modelled

### ProcessLauncher

One parent process, `Workers[w]` children for each wrapper `w`, process ids that
are reused as soon as a child was waited for. The state variables are the
attributes of the class (`running`, `sigcaught`, `children`, `wkids` for
`wrap.children`, `forktimes` by its length) and the surroundings: `installed`
(the Python handlers are in place, or cleared and SIG_DFL), `hub` (the callbacks
`_handle_signal` has scheduled), `alarm`, `proc` (the child processes).

* *Cooperative scheduling.* `pc["main"]` is the greenthread in `launch_service`
  and `wait`, `pc["other"]` one that may call `stop()`. A greenthread moves only
  while the other one yields (`MayRun`), a hub callback only while both do
  (`Due`). Yield points are the sleeps of 561 and 469 and, with `HookYields`, the
  user's hooks (conf hooks, `service.reset`, `service.stop`). The loop at the end
  of `stop()` never yields. What the application does between `launch_service()` and
  `wait()` is taken not to yield.
* *Signals.* `Arrive` is the asynchronous part: with handlers in place the
  callback is scheduled, with cleared handlers the process dies. `HandleTerm`,
  `HandleHup`, `ExitNow` and `NoHandler` are what `_handle_signal_cb` finds.
* *Children* go through the stages in which a signal means something different:
  inherited handlers, none, own handlers on the parent's hub, serving,
  restarting with cleared handlers, stopping. A child's services are one phase.
* *Time.* The throttle compares clock times; the model forks at once or sleeps
  whenever `forktimes` is long enough, whichever the clock would say.
* `stale` and `lost` are history: properties read them, no action does.

`Supervisor` is what any supervisor of processes promises: a table of processes
with one service each, never too many, that rests only when every service is
complete and every process that a reload left out of date was told, and never
again once it was told to close. `ProcessLauncher` implements it
(`ImplementsSupervisor`): it rests where `wait()` sleeps in its loop, closes from
where `wait()` leaves the loop or the other greenthread begins `stop()`, `owner`
is `children`, and `Status` reads what a process is to the supervisor off its
phase and its inbox.

### LoopingCall

A run is one call of `_start`, with its loop and its event. In the threading
backend every assignment of `_start`, the loop and the done callback is a step;
in eventlet a greenthread keeps the processor from one yield to the next
(`LoopMayRun`, `ClientMayRun`). `add_done_callback` and `link` call the callback
at once if the run is already over (`StartLink`), and `start()` stores the thread
only afterwards (`StartAssign`). What the variants of the class compute as an
interval is abstracted to "sleep, or raise" (`LoopRecheck`).

Only the threads in `Starters` call `start()`, and the instances have one: the
code does not guard against two, and no document says it does.

`LoopingRuns` is what a looping call promises whatever the backend: runs that
begin only while none is active, alternate between calling the function and not,
are told once, "true" only after a `stop()` and a result only from a call, and
call the function at most once more after `stop()`. `LoopingCall` implements it
(`ImplementsRuns`): a run's `Phase` is "active" from where `stop()` can reach it
(the abort flag was cleared for it) to where its outcome is sent or never will
be, "calling" while the function runs; its outcome is what its event was sent;
`asked` and `late` are the model's history of calls of `stop()`.

### ThreadGroup

The threading backend. Actors are outside callers, the threads of the group and
the callbacks of its timers; each may call the operations its constant
(`CallerOps`, `ThreadOps`, `TimerOps`) names. A `with self._lock` block that does
not wait is one step, guarded by a free lock; the one that waits
(`stop_timers(wait=True)`) holds `lock` from step to step. A timer is reduced to
its loop. The lists are sets: joining order matters only in that threads come
before timers (`JoinNext`). `owed`, `forgotten` and `removed` are history.
`WaitsFor` says whom an actor cannot go on without: the holder of the lock, the
timers and threads that it joins. A timer whose callback raises what is no
`Exception` ends in the phase "silent": its loop is over, nothing was sent, and who
waits for it waits for ever (`Answers`).

### GreenThreadGroup

The eventlet group: a step goes from one yield to the next, and kills, adds and
ends of other greenthreads fall between them. A kill ends its victim at once, lets
it yield in its clean-up first ("dying"), or is swallowed (`GTSwallowed`): inside
`_perform_action_on_threads` and `_safe_wait` the victim takes the GreenletExit
for that of the thread it deals with. With a full pool `add_thread()` blocks a
caller from outside and runs the callback inline in a thread of the pool.
`gtTodo` is what a loop has left of its copy of the list, `gtOwed` and
`gtUnharmed` are history. A callback that runs inline is not modelled to use
the group itself.

### NoForkLauncher

The main thread is two frames that matter: `main`, where `launch_service()` is,
and `shut`, the latest `_graceful_shutdown()` above it. A handler is enabled in
every state of both, since Python runs it between any two bytecodes; SIGHUP's
unwinds both frames up to the `try` of `_wait_no_fork()`, or out of
`launch_service()`. `SelfDeadlock` is a handler that wants the group's lock which
the frame below holds. The hooks of the service may raise: out of `main`
(`HookRaises`) or out of a shutdown (`ShutRaises`), which leaves SIGTERM ignored.
`unwound` is the history of what has unwound a shutdown.

### Services

`Services`, `Launcher` and `ServiceLauncher` for both backends, with wrappers
named by their service and the generation of the event they were given. The actor
"main" launches, waits and restarts; "other" calls `stop()`, a native thread or
the greenthread of SIGTERM's handler. With eventlet a greenthread yields in hooks,
in kills and in waits (`MayRun`), signals are hub callbacks as in
ProcessLauncher, and a kill that hits a wrapper in `start()` ends it there. A
service is the set of its threads: it runs or does not. An `Exception` of a
service's `stop()` (`StopRaises`) ends the loop of `Services.stop()` where it is:
in the handler of SIGTERM the hub swallows it, in `wait()` and `restart()` it goes
to the caller, as do those of `wait()` and `reset()` (`HookRaises`). `cut` is the
history of a `stop()` of "other" that ended so.

### The small components

Each is a module of its own; they share no state. `MCComponents` composes them
for one run: the variable `part`, which never changes, says which of them moves.

| Module | Correspondence |
|---|---|
| `PeriodicTasks` | clock, list of the class, times of the object; a task is listed twice if a subclass overrides it or it is added again, which forgets its last run; a pass goes from entry to entry, marks the task, runs it or submits it to the pool, and may fail at each |
| `RetryDecorator` | calls by several threads; the increment of the shared counter is a read and a write; a call whose function raises what is no `Exception` is never answered |
| `Intervals` | what `idle_for` of the four variants computes, call after call, with calls of any length and late sleeps; a fixed interval's delay is rounded to hundredths of a second, each `IVGrain` units of the clock |
| `BackendSelection` | the test of the cache, the load, and the three assignments are separate steps of every thread |
| `ManagedLaunch` | launches under the lock, the one manager, `wait` and `stop`; the manager itself is cotyledon's |
| `WSGIServer` | the pool's size and the semaphore, which goes below zero when the pool shrinks; resizing wakes nobody |
| `Backdoor` | ports tried one after the other, port 0 being any free one of `BDEphemeral`; for a path unlink and bind are separate steps of each process; each may be refused |

## 3. What the runs check

| Run | Instance | Shows |
|---|---|---|
| `PLSafety` | two services of one process, hooks that yield, another greenthread may stop or kill; three configurations | table exact, never too many, full strength at rest, old configuration leaves, a `stop()` reaches every child; the refinement of `Supervisor` |
| `PLLiveness` | one service of two processes, hooks that do not yield | SIGTERM sticks and ends the parent, orphans exit, a reload refreshes all |
| `PLHooks` | as before, hooks yield | *violation*: SIGTERM erased |
| `PLForeground` | one service of one process, not a daemon | *violation*: time-out not enforced |
| `LoopingCall` | both backends, an owner and a user, two runs | no overlap, results to the right event, `stop()` prompt and local, waiters wake, eventlet calls restartable; the refinement of `LoopingRuns` |
| `LoopingCallRestart` | threading, one run | *violation*: call not restartable |
| `ThreadGroup` | two callers, two threads that may add threads, one timer, pool of one, four operations | list exact, pool bounded, waits wait, stops stop, only timers and threads of the group can deadlock it, graceful stop returns |
| `TGTimerDeadlock` | one caller, a timer callback that adds a thread | *violation*: graceful stop never returns |
| `TGForgotten` | one caller, stop then waitall | *violation*: waitall does not wait |
| `NoFork` | all eight configurations, any signals at any point | shutdown ends the process, SIGHUP takes effect, no stopped service is waited for |
| `Services` | two services, pool of two, one restart, both backends | one wrapper per service, all served, old wrappers end, the launcher ends |
| `Components` | the eight small components, see below | one property each |

Some properties name exceptions, each something that the code does:

* `TermEnds`: SIGHUP unwinds a shutdown before its alarm is armed, or nothing arms
  one because no time-out is configured while `stop()` raises, SIGHUP comes or the
  handler waits for itself.
* `Ends`: without an alarm, a service whose `start()` returned after it was stopped,
  or those that a `stop()` cut short by an exception did not come to.
* `GracefulReturns`: a `stop()` holds the lock and waits for a timer that ended
  without an answer. `GivesUp`: a call that is never answered for the same reason.
* `OncePerPeriod`: a task that is listed twice. A parallel pass plans it twice before
  it marks it as run (343-344, 360-361) and starts it twice in one period, and adding
  it again forgets that it has run (239).
* `IntervalsKept`: half a hundredth of a second, lost by rounding.

Why the bounds are enough.

* *ProcessLauncher*: what goes wrong needs two services (one refilled while the
  other is short) or two processes of one service (one forked while the other is
  told something); pids are as many as workers, so that they are recycled at once.
  `forktimes` reaches its limit with three forks. Nothing else is bounded.
* *LoopingCall*: every property relates a run to the next one, so `MaxRuns = 2`;
  `late` counts to two because the question is whether it exceeds one.
* *ThreadGroup*: `MaxCalls = 4` lets one caller add a thread and a timer while
  another stops and a third operation interferes; a pool of one is full after one
  thread.
* *NoForkLauncher* is not bounded. Handlers nest as deep as they like: a further
  `_graceful_shutdown()` replaces the frame of the one below, to which nothing
  ever returns.
* *Services*: two services, so that one can be dealt with while the other is not;
  `MaxGen = 1`, since every property is about one event and the next; a pool that
  just holds the wrappers, so that a restart has to free its slots.
* *Components*. Periodic tasks: a spacing with a jitter (21), one without, an
  external task, the clock past two periods of the longest, and a list of three, in which one
  task can be twice beside another that is there once (`PTMaxList`). Retries: three
  callers and two retries, so that the calls lose each other's increments.
  Intervals: each variant with and without a time-out, calls shorter and longer
  than the interval, sleeps on time and late, a clock on which every time-out can
  expire, and a unit of half a hundredth, so that rounding goes either way.
  Backend: two threads, two types. Launches: three, one with a service that cannot
  be pickled. WSGI: a pool of two and three starts. Backdoor: three processes and
  ranges with a taken port, too few ports and none, port 0 alone and at the start of a
  range, with two ports for the kernel to choose from. Greenthreads: one caller and
  three threads, a pool of two; a thread can stop the group while the caller waits
  and the third is new, inline or dying.

Deadlock is checked for ProcessLauncher and NoForkLauncher (a system that has
ended is an explicit step). LoopingCall, ThreadGroup, Services and Components may
stop: nobody has to call anything, and the bounds end the calls.

The type invariants of `ThreadGroup`, `NoForkLauncher` and `Services` are no run's
property: they are proved. Every property of a passing run has a mutant, an operator next to the
definition it mutates, marked `Mutant` in its comment; no action uses it.

## 4. Fairness

* *ProcessLauncher*: greenthreads and processes run (WF). A callback on the hub
  runs at some yield (SF: it is enabled only while the parent yields, and eventlet
  runs what is scheduled before it resumes a sleeper). `SF(RespawnSleep \/
  RefillThrottle)`: children that crash for ever cannot keep `wait()` from sleeping
  for ever, because `forktimes` allows `Workers[w] + 1` forks in `Workers[w]`
  seconds and then sleeps. An armed alarm expires. No fairness for signals, crashes
  or other greenthreads.
* *LoopingCall*: threads run, sleeps and calls of the function end (WF). A
  greenthread whose event was sent is queued on the hub and runs (SF on
  `WaitReturn`).
* *ThreadGroup*: threads run and callbacks end (WF). Operations are finitely
  many, so the lock cannot be withheld for ever by an unfair schedule.
* *NoForkLauncher*: the main thread and a shutdown that runs on it go on, hooks of
  the service end, an armed alarm expires (WF). No fairness for other signals.
* *Services*: each actor and each wrapper goes on and hooks end (WF). Nobody has
  to call, no signal has to arrive and no service has to end by itself.
* *Components*: the threads of the retry decorator run and its sleeps end; a
  request of the WSGI server is answered some day, and its hub gets round to a
  greenthread that it was told to wake (WF). The others need none.

## 5. What is proved

Every theorem is proved from the specification without fairness and from the
named `ASSUME`s of its module, for every value of the constants, except where a
hypothesis is named below. Every invariant that a passing run checks is a
theorem, and so are both refinements, the one action property `TermSticks` and
the type invariants (`TypesKept` of each module).

`ProcessLauncherProofs`, for any services, workers and pids:

* `TableCorrect`: `Spec => [](TypeOK /\ Tracking)`. The conjunction is inductive.
  The two need each other: that a reaped pid belongs to a service (so that
  `cur` is one) is `Tracking`, that there are tables at all is `TypeOK`. Steps are
  sorted into those that fork, those that reap, and the rest, which leave both
  tables and the set of unreaped processes alone (`StepKinds`).
* `NeverTooMany`: `Spec => []AtMostWorkers`. Not inductive: `ThrottleWake` forks
  without looking at the number of processes. `CountInv` adds that the service in
  the throttle is short, which holds because only a fork adds a process, and only
  to the service being refilled (`CountGrows`), and forks need the main
  greenthread.
* `AlwaysFullStrength`: `Spec => []FullStrength`. `StrengthInv` follows `wait()`
  through its phases: asleep or in a hook all services are full; in a refill, all
  but the one being refilled; launched services are full before `wait()` begins. A
  signal can only clear `running` at a yield, and the two yields are the sleep with
  everything full and the throttle, whose fork happens anyway.
* `OldConfigurationsLeave`: `Spec => []OldConfigLeaves`. `OldInv` says more: outside
  the SIGHUP section and the shutdown every stale process is leaving, wherever
  `wait()` is, and only a living process is stale. The section is left by the
  signals to the children or by a shutdown (`SectionLeft`), and a process that
  leaves is never made to stay by what it receives later.
* `TermNeverForgotten`: `Spec => TermSticks` for hooks that do not yield
  (`~HookYields`; run `PLHooks` shows it false otherwise). `TermInv`: after a SIGTERM
  was recorded the handlers are gone, `wait()` is past the launches, and it is in a
  SIGHUP section only if hooks yield. `OnlyHooksForgetTerm` says for every
  instance that nothing else can take a SIGTERM back.
* `TermIsBounded`, for `~HookYields`: a shutdown after SIGTERM with a configured
  time-out waits with the alarm armed and the handlers cleared.
* `StopReachesAll`: `Spec => []StopTellsAll`. With the table exact it is inductive:
  the loop of `stop()` begins right after the kills, nothing else forks until it
  ends, and a process that was told does not come to serve again (`ChildAnswers`).
* `LauncherSupervises`: `Spec => ImplementsSupervisor`. One lemma for each abstract
  action (`SupFork`, `SupReap`, `SupReload`, `SupRest`, ...), on top of the
  invariants above: a fork of `Supervisor` finds its service short (`CountInv`), and
  it rests only with all services complete (`StrengthInv`) and nothing old
  (`OldInv`).

`LoopingCallProofs`, for any clients, backends and number of runs, and for one
thread that starts the call (`OneStarter`): `LoopsDoNotOverlap`, `ToldIsQuiet`,
`StopTakesEffect`, `StopStaysInItsRun`, and `Refinement: Spec => ImplementsRuns`.
The invariant says which run the fields belong to: runs older than the newest are
over, later ones untouched, `self.done` is the newest run's event, and a future
that is stored tells whether that run is over (`Newest`); the abort flag is set
exactly when the newest run was asked to stop, except between the parts of
`stop()` and of `start()` (`Stops`). The refinement has one lemma per abstract
action that an action can map to.

Three more say, under `OneStarter`, why waiters wake and calls restart.
`WaitersAreWaiting`: who waits, waits for a run that has begun; its invariant adds
that `done` is the event of such a run and that a loop says "sent" only of an event
that was. `OnlyFatalIsSilent`: a loop ends without telling its waiters only when a
`BaseException` ended it. `StaysStartable`, for eventlet: `FutureLeaves` says that a
future which is stored is the newest run's, is linked and has not yet had its
callback; it holds because the loop cannot move between spawn and assignment,
which is why `LoopingCallRestart` has to be a run of the threading backend.

`ThreadGroupProofs`, for any callers, threads, timers and any operations that each
may call, also `TimerOps`: `ListIsExact`, `PoolIsBounded`, `WaitsWait`,
`StopsStop`. The invariant is `Shape` (where each kind of actor and each operation
can be), `Lists` (a listed member is alive, a member that is alive is listed or
was dropped), `Held` (who has the lock, and what nobody else changes meanwhile)
and `Owed` (what a wait or stop still owes is in what it has left to do, or has
ended). `OnlyInsidersDeadlock: Spec => []DeadlockNeedsInsider` follows from it:
whoever holds the lock while it waits is a graceful `stop()` that waits for timers
(`LockWaiters`), so that actors which wait for one another without a timer are all
joining, and what they join are threads of the group, in a stop or a wait of their
own.

`ComponentsProofs`: `SelectedForGood` (a thread past the test of the cache loads
what the others do), `OneManager` (the lock and the manager that was made),
`Slots` (which also shows that no more requests run than the pool may hold),
`SlotsAreOffered` (a server that waits for a slot is the last one started, its pool
has all its slots, and either none is free or the hub knows whom to wake),
`RetriesAreNotLost` (a number that the counter and every increment in progress have
reached stays reached: each thread overwrites with more than it read),
`BackdoorsReached` (a process that has unlinked the path binds it again, is
refused or is gone; a port of its own also when the kernel chooses it),
`IntervalsHold` (what the next sleep leads to, up to the rounding), and `GroupIsSettled` for
the greenthread group: what a loop over the group has left to do is all it found
that has not ended; an inlined thread is known to the one that runs it only.

`PeriodicTasksProofs`: `PeriodsKept`, for any tasks, spacings, jitters and clock
steps, and for each task that is listed once, whatever else is listed or added. The
number of starts of a task is bounded through its recorded boundary:
a task's boundary moves by at least a spacing whenever the task is marked, the
boundary lies at most the jitter after the clock, such a
task is started at most once after it was marked, and what the pool has still to
run was marked before it was submitted. A task that is listed twice stays so, which
is what lets the invariant speak of the others alone.

`NoForkLauncherProofs`: `StoppedIsNotAwaited`. Inductive is a little more: outside
a shutdown the service is not stopped wherever `launch_service()` has not gone
past the wait; what unwinds a shutdown is a SIGHUP, which leads to the restart,
or out. `TermIsAnswered` and `HupIsAnswered` are further parts of the invariant:
SIGTERM is ignored only during a shutdown, or after SIGHUP or an exception of
`stop()` has unwound one; with a time-out configured the alarm is armed after such
an exception, and where a handler waits for the lock of the frame below it; a SIGHUP that was caught outside a shutdown is on its way
to `reset()`.

`ServicesProofs`, for both backends and any number of services, restarts and
slots: `OneWrapperEach` and `AllAreServed`. With eventlet the list holds exactly
the wrappers that live, all of them wait for the present event, and `restart()`
makes the next one only when its kills have emptied the list (`Wrappers`); until
something ends the launcher only its main greenthread sends events, and its loops
leave a wrapper for every service they have dealt with (`Serving`). That a
reload is never begun twice (`Reloads`) bounds the events. `OldWrappersTold`
(`Events`): `restart()` replaces an event only after its `stop()` has sent it, also
with native threads, which it leaves behind. `EndingIsCarriedOut` (`Ending`), for
eventlet: a launcher that ends is in its last stop or wait and never restarts,
because the SIGTERM that ended it took the handlers away or a failed wrapper made
`wait()` leave its loop; once the stop is over, what still runs are services that
were started after they were stopped, or that a `stop()` cut short by an exception
(`cut`) did not come to.

Only model-checked are the liveness properties: fairness and ENABLED are beyond
TLAPS. What can be proved of each is its safety half, that the system is never in
a state from which the promise is out of reach:

| Liveness (TLC) | Safety half (TLAPS) |
|---|---|
| `TermStops` | `TermNeverForgotten`, `TermIsBounded`, `StopReachesAll` |
| `HupRefreshes` | `OldConfigurationsLeave` |
| `OrphansExit` | none: it is about fairness alone, the pipe's reader runs |
| `StoppedWaitReturns` | `WaitersAreWaiting`, `OnlyFatalIsSilent` |
| `EventletRestartable` | `StaysStartable` |
| `GracefulReturns` | `OnlyInsidersDeadlock` |
| `TermEnds`, `HupTakesEffect` | `TermIsAnswered`, `HupIsAnswered` |
| `OldWrappersEnd`, `Ends` | `OldWrappersTold`, `EndingIsCarriedOut` (eventlet) |
| `GivesUp` | `RetriesAreNotLost` |
| `AcceptedIsServed` | `SlotsAreOffered` |

Each invariant that no run lists, such as `OldInv`, `TermInv`, `Ending` or
`FutureLeaves`, was checked by TLC on the instances of section 3 before it was
proved. No module uses RECURSIVE operators.

## 6. Disagreements between code and documentation

Each is a run that TLC refutes; `findings` in `PROJECT.json` quotes the lines.

1. `PLHooks`: a SIGTERM handled while the hooks of a reload yield is erased at
   `_eventlet/service.py:601-602`.
2. `PLForeground`: after SIGHUP in the foreground, SIGALRM's callback can never
   run, because `stop()` does not yield (635) and the handlers were not cleared.
3. `LoopingCallRestart`: `_thread` is assigned after the done callback may have
   run (`_common/loopingcall.py:174`); a short run makes the call unusable.
4. `TGTimerDeadlock`: a graceful stop waits for timers with the lock held
   (`_common/threadgroup.py:233`).
5. `TGForgotten`: `stop()` drops threads that still run
   (`_threading/threadgroup.py:121`), and `waitall()` does not wait for them.

## 7. Plan

Done, in this order: `ProcessLauncher`, `LoopingCall`, `ThreadGroup`;
`NoForkLauncher`; `Services`; the small components; `LoopingRuns` with its
refinement; the proofs of section 5.

Then `Supervisor` with its refinement, deadlocks of `ThreadGroup`, and the safety
halves of the liveness properties.

Left:

1. An abstract thread group (members come, end, are told to stop; a wait returns
   when what it found is over) that `ThreadGroup` implements, and each of its
   timers as a `LoopingRuns` of one run.
2. The threading half of `Ends`: what a launcher of native threads that is ending
   still waits for.
3. What `TermIsBounded` says with hooks that yield: which callbacks can come
   between the alarm and its end.

The number of runs is kept at a dozen: a new question joins the run whose
instance fits it.

## 8. What is not modelled

* The external process manager cotyledon, with what happens in its processes;
  eventlet, futurist and the operating system beyond what the code relies on.
* `SystemExit` and other exceptions that are no `Exception` from a service's
  `stop()`, `wait()` or `reset()`; what `ProcessLauncher`'s hooks raise.
* An application that yields between `launch_service()` and `wait()`: a SIGTERM
  handled there finds the launcher before its loop.
* `_reset_backend()`, which undoes the selection of the backend for tests.
* Sockets, TLS, the Loader and the request handling of the WSGI server; the
  debugging backdoor's shell; the sending of systemd's messages.
* `idle_for`, the value that a pass over the periodic tasks returns.
* Uses of the eventlet group by a callback that a full pool runs inline.
* Two threads that start the same looping call at once, which the documented use
  excludes.
* Option declarations, interface and error classes, the facades and the test
  fixture: they have no state, or no steps.

`components` in `PROJECT.json` gives the reason for each part that is left out.
