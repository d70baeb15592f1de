----------------------------- MODULE LoopingCall -----------------------------
(***************************************************************************)
(* A looping call (backend/_common/loopingcall.py, LoopingCallBase, with   *)
(* the thread, the event and the future of either backend): start() spawns *)
(* a loop that calls a function until it is stopped, the function ends it  *)
(* or fails; wait() waits for the result of the last start().              *)
(*                                                                         *)
(* With the threading backend every step interleaves.  With eventlet only  *)
(* the function and the sleeps of the loop yield, and wait().              *)
(***************************************************************************)
EXTENDS Naturals

CONSTANTS
    Backends,   \* a subset of {"threading", "eventlet"}: the backends to check
    Client,     \* threads that use the looping call
    Starters,   \* those that call start()
    MaxRuns     \* bound: how often start() gets past its check

ASSUME BackendsAssumption == Backends \subseteq {"threading", "eventlet"}
ASSUME StartersAssumption == Starters \subseteq Client
ASSUME MaxRunsAssumption == MaxRuns \in Nat

Run == 1 .. MaxRuns   \* a run is one call of _start, its loop and its event

VARIABLES
    backend,
    nruns,      \* the number of runs created
    thread,     \* self._thread: the run whose future it holds, 0 for None
    done,       \* self.done: the run whose event it holds, 0 for None
    abort,      \* self._abort.is_set()
    event,      \* the outcome in the event of each run
    loop,       \* the point at which the loop of each run is
    linked,     \* _on_done was added to the future of the run
    cpc,        \* what each client is doing
    ctarget,    \* the run a client starts or waits for
    stopped,    \* stop() was called during the run (history)
    late        \* calls of the function begun after that, at most 2 counted (history)

vars == <<backend, nruns, thread, done, abort, event, loop, linked, cpc,
          ctarget, stopped, late>>

Outcomes == {"true", "retvalue", "exception"}

\* "none": not spawned; "begin": found the flag clear; "sent": the event was sent; "fatal": a BaseException
\* escapes; "finished": the future is done; "over": its callbacks were called.
LoopPhases == {"none", "spawned", "delay", "check", "begin", "call", "recheck",
               "idle", "sent", "fatal", "finished", "over"}
LoopYields == {"none", "spawned", "delay", "call", "idle", "over"}

ClientPhases == {"ready", "create", "clear", "spawn", "link", "assign", "blocked"}
ClientYields == {"ready", "blocked"}

Busy(r) == loop[r] \notin {"none", "finished", "over"}

LoopsPaused(but) == \A r \in Run \ but : loop[r] \in LoopYields
ClientsPaused(but) == \A c \in Client \ but : cpc[c] \in ClientYields

LoopMayRun(r) ==
    backend = "eventlet" => LoopsPaused({r}) /\ ClientsPaused({})
ClientMayRun(c) ==
    backend = "eventlet" => LoopsPaused({}) /\ ClientsPaused({c})
-----------------------------------------------------------------------------
Init ==
    /\ backend \in Backends
    /\ nruns = 0
    /\ thread = 0
    /\ done = 0
    /\ abort = FALSE
    /\ event = [r \in Run |-> "unset"]
    /\ loop = [r \in Run |-> "none"]
    /\ linked = [r \in Run |-> FALSE]
    /\ cpc = [c \in Client |-> "ready"]
    /\ ctarget = [c \in Client |-> 0]
    /\ stopped = [r \in Run |-> FALSE]
    /\ late = [r \in Run |-> 0]

(***************************************************************************)
(* start()                                                                 *)
(***************************************************************************)
ClientAt(c, l) == ClientMayRun(c) /\ cpc[c] = l
ClientGoto(c, l) == cpc' = [cpc EXCEPT ![c] = l]

\* Mutant: start() does not look at self._thread.
StartUnchecked(c) ==
    /\ ClientAt(c, "ready")
    /\ c \in Starters
    /\ nruns < MaxRuns
    /\ nruns' = nruns + 1
    /\ ctarget' = [ctarget EXCEPT ![c] = nruns']
    /\ ClientGoto(c, "create")
    /\ UNCHANGED <<backend, thread, done, abort, event, loop, linked, stopped, late>>

\* Otherwise RuntimeError is raised, which changes nothing.
StartCheck(c) ==
    /\ ClientAt(c, "ready")
    /\ c \in Starters
    /\ thread = 0
    /\ nruns < MaxRuns
    /\ nruns' = nruns + 1
    /\ ctarget' = [ctarget EXCEPT ![c] = nruns']
    /\ ClientGoto(c, "create")
    /\ UNCHANGED <<backend, thread, done, abort, event, loop, linked, stopped, late>>

\* Mutant: the event of the previous run is used again.
StartOldEvent(c) ==
    /\ ClientAt(c, "create")
    /\ ClientGoto(c, "clear")
    /\ UNCHANGED <<backend, nruns, thread, done, abort, event, loop, linked,
                   ctarget, stopped, late>>

StartCreate(c) ==
    /\ ClientAt(c, "create")
    /\ done' = ctarget[c]
    /\ ClientGoto(c, "clear")
    /\ UNCHANGED <<backend, nruns, thread, abort, event, loop, linked, ctarget,
                   stopped, late>>

\* Mutant: the abort flag of the previous run stays set.
StartKeepsAbort(c) ==
    /\ ClientAt(c, "clear")
    /\ ClientGoto(c, "spawn")
    /\ UNCHANGED <<backend, nruns, thread, done, abort, event, loop, linked,
                   ctarget, stopped, late>>

StartClear(c) ==
    /\ ClientAt(c, "clear")
    /\ abort' = FALSE
    /\ ClientGoto(c, "spawn")
    /\ UNCHANGED <<backend, nruns, thread, done, event, loop, linked, ctarget,
                   stopped, late>>

\* executor.submit, greenthread.spawn.
StartSpawn(c) ==
    /\ ClientAt(c, "spawn")
    /\ loop' = [loop EXCEPT ![ctarget[c]] = "spawned"]
    /\ ClientGoto(c, "link")
    /\ UNCHANGED <<backend, nruns, thread, done, abort, event, linked, ctarget,
                   stopped, late>>

\* add_done_callback, link: the callback is called at once if the run is over.
StartLink(c) ==
    /\ ClientAt(c, "link")
    /\ IF loop[ctarget[c]] \in {"finished", "over"}
         THEN thread' = 0 /\ linked' = linked
         ELSE thread' = thread /\ linked' = [linked EXCEPT ![ctarget[c]] = TRUE]
    /\ ClientGoto(c, "assign")
    /\ UNCHANGED <<backend, nruns, done, abort, event, loop, ctarget, stopped, late>>

StartAssign(c) ==
    /\ ClientAt(c, "assign")
    /\ thread' = ctarget[c]
    /\ ClientGoto(c, "ready")
    /\ UNCHANGED <<backend, nruns, done, abort, event, loop, linked, ctarget,
                   stopped, late>>

(***************************************************************************)
(* stop() and wait()                                                       *)
(***************************************************************************)
BeingSpawned(r) == \E c \in Client : cpc[c] = "spawn" /\ ctarget[c] = r

Stop(c) ==
    /\ ClientAt(c, "ready")
    /\ ~abort
    /\ abort' = TRUE
    /\ stopped' = [r \in Run |-> stopped[r] \/ Busy(r) \/ BeingSpawned(r)]
    /\ UNCHANGED <<backend, nruns, thread, done, event, loop, linked, cpc,
                   ctarget, late>>

WaitBegin(c) ==
    /\ ClientAt(c, "ready")
    /\ done # 0
    /\ ctarget' = [ctarget EXCEPT ![c] = done]
    /\ ClientGoto(c, "blocked")
    /\ UNCHANGED <<backend, nruns, thread, done, abort, event, loop, linked,
                   stopped, late>>

WaitReturn(c) ==
    /\ ClientAt(c, "blocked")
    /\ event[ctarget[c]] # "unset"
    /\ ClientGoto(c, "ready")
    /\ UNCHANGED <<backend, nruns, thread, done, abort, event, loop, linked,
                   ctarget, stopped, late>>

(***************************************************************************)
(* _run_loop, of run r                                                     *)
(***************************************************************************)
LoopAt(r, ls) == LoopMayRun(r) /\ loop[r] \in ls
LoopGoto(r, l) == loop' = [loop EXCEPT ![r] = l]

\* The outcome goes to self.done, whichever event that is by now.
Send(r, outcome) ==
    /\ event' = [event EXCEPT ![done] = outcome]
    /\ LoopGoto(r, "sent")

LoopBegin(r) ==
    /\ LoopAt(r, {"spawned"})
    /\ \E l \in {"delay", "check"} : LoopGoto(r, l)
    /\ UNCHANGED <<backend, nruns, thread, done, abort, event, linked, cpc,
                   ctarget, stopped, late>>

\* _sleep: the abort flag ends it early; then the while condition is next.
LoopWake(r) ==
    /\ LoopAt(r, {"delay", "idle"})
    /\ LoopGoto(r, "check")
    /\ UNCHANGED <<backend, nruns, thread, done, abort, event, linked, cpc,
                   ctarget, stopped, late>>

\* Mutant: the loop goes on without looking at the flag.
LoopCheckNever(r) ==
    /\ LoopAt(r, {"check"})
    /\ LoopGoto(r, "begin")
    /\ UNCHANGED <<backend, nruns, thread, done, abort, event, linked, cpc,
                   ctarget, stopped, late>>

LoopCheck(r) ==
    /\ LoopAt(r, {"check"})
    /\ IF abort THEN Send(r, "true")
                ELSE LoopGoto(r, "begin") /\ UNCHANGED event
    /\ UNCHANGED <<backend, nruns, thread, done, abort, linked, cpc, ctarget,
                   stopped, late>>

LoopCall(r) ==
    /\ LoopAt(r, {"begin"})
    /\ LoopGoto(r, "call")
    /\ late' = [late EXCEPT ![r] = IF stopped[r] /\ @ < 2 THEN @ + 1 ELSE @]
    /\ UNCHANGED <<backend, nruns, thread, done, abort, event, linked, cpc,
                   ctarget, stopped>>

\* The function returns, or fails under _safe_wrapper.
LoopReturn(r) ==
    /\ LoopAt(r, {"call"})
    /\ LoopGoto(r, "recheck")
    /\ UNCHANGED <<backend, nruns, thread, done, abort, event, linked, cpc,
                   ctarget, stopped, late>>

\* The function raises LoopingCallDone, an Exception, or another BaseException.
LoopRaise(r) ==
    /\ LoopAt(r, {"call"})
    /\ \/ Send(r, "retvalue")
       \/ Send(r, "exception")
       \/ LoopGoto(r, "fatal") /\ UNCHANGED event
    /\ UNCHANGED <<backend, nruns, thread, done, abort, linked, cpc, ctarget,
                   stopped, late>>

\* Mutant: the flag is not looked at after the call, nor before the next one.
LoopRecheckNever(r) ==
    /\ LoopAt(r, {"recheck"})
    /\ LoopGoto(r, "begin")
    /\ UNCHANGED <<backend, nruns, thread, done, abort, event, linked, cpc,
                   ctarget, stopped, late>>

\* After the call: break, sleep for what idle_for_func says, or its exception.
LoopRecheck(r) ==
    /\ LoopAt(r, {"recheck"})
    /\ \/ abort /\ Send(r, "true")
       \/ ~abort /\ LoopGoto(r, "idle") /\ UNCHANGED event
       \/ ~abort /\ Send(r, "exception")
    /\ UNCHANGED <<backend, nruns, thread, done, abort, linked, cpc, ctarget,
                   stopped, late>>

\* The future becomes done, and then its callbacks are called.
LoopFinish(r) ==
    /\ LoopAt(r, {"sent", "fatal"})
    /\ LoopGoto(r, "finished")
    /\ UNCHANGED <<backend, nruns, thread, done, abort, event, linked, cpc,
                   ctarget, stopped, late>>

\* Mutant: the callback is lost.
OnDoneNever(r) ==
    /\ LoopAt(r, {"finished"})
    /\ LoopGoto(r, "over")
    /\ UNCHANGED <<backend, nruns, thread, done, abort, event, linked, cpc,
                   ctarget, stopped, late>>

OnDone(r) ==
    /\ LoopAt(r, {"finished"})
    /\ LoopGoto(r, "over")
    /\ thread' = IF linked[r] THEN 0 ELSE thread
    /\ UNCHANGED <<backend, nruns, done, abort, event, linked, cpc, ctarget,
                   stopped, late>>
-----------------------------------------------------------------------------
StartStep(c) == StartCreate(c) \/ StartClear(c) \/ StartSpawn(c) \/ StartLink(c)
                  \/ StartAssign(c)

LoopStep(r) ==
    \/ LoopBegin(r) \/ LoopWake(r) \/ LoopCheck(r) \/ LoopCall(r)
    \/ LoopReturn(r) \/ LoopRaise(r) \/ LoopRecheck(r) \/ LoopFinish(r) \/ OnDone(r)

Next ==
    \/ \E c \in Client :
         StartCheck(c) \/ StartStep(c) \/ Stop(c) \/ WaitBegin(c) \/ WaitReturn(c)
    \/ \E r \in Run : LoopStep(r)

Spec == Init /\ [][Next]_vars

\* Threads run, sleeps and calls of the function end; nobody has to call
\* start(), stop() or wait().  A greenthread whose event was sent is queued on
\* the hub and gets its turn however busy the loop of a later run is: SF.
FairSpec ==
    /\ Spec
    /\ \A c \in Client : WF_vars(StartStep(c)) /\ SF_vars(WaitReturn(c))
    /\ \A r \in Run : WF_vars(LoopStep(r))
-----------------------------------------------------------------------------
\* The types; and a loop that runs finds an event to send to in self.done.
TypeOK ==
    /\ backend \in Backends
    /\ nruns \in 0 .. MaxRuns
    /\ thread \in 0 .. nruns
    /\ done \in 0 .. nruns
    /\ abort \in BOOLEAN
    /\ event \in [Run -> Outcomes \cup {"unset"}]
    /\ loop \in [Run -> LoopPhases]
    /\ linked \in [Run -> BOOLEAN]
    /\ cpc \in [Client -> ClientPhases]
    /\ ctarget \in [Client -> 0 .. nruns]
    /\ stopped \in [Run -> BOOLEAN]
    /\ late \in [Run -> 0 .. 2]
    /\ done = 0 => \A r \in Run : loop[r] = "none"

\* With one thread that starts it, a looping call never runs two loops at once
\* ("A looping call can only run one function at a time", 84-86), however the
\* callbacks of earlier runs, stop() and wait() interleave with start().
OneLoop == \A r, s \in Run : Busy(r) /\ Busy(s) => r = s

\* The event of a run says that this run's function is not running any more and
\* will not be called again: an outcome is never sent to another run's event,
\* although the loop looks up self.done only when it sends (229, 233).
DoneMeansQuiet ==
    \A r \in Run : event[r] # "unset" => loop[r] \in {"sent", "finished", "over"}

\* Once stop() has returned the function is called at most once more, by a
\* thread that had just looked at the flag (198-200); by no greenthread; and not
\* because the flag is cleared for a next run (169).
StopIsPrompt ==
    \A r \in Run : late[r] <= IF backend = "threading" THEN 1 ELSE 0

\* A stop() ends the run it was called in and no other: a run that reports the
\* outcome of a stopped loop was itself stopped, however stop() interleaves
\* with the end of one run and the start() of the next (160-174).
StopIsNotInherited == \A r \in Run : event[r] = "true" => stopped[r]

\* A wait() on a run that was stopped returns; the one exception is a function
\* that raised a BaseException other than Exception, of which nothing is sent.
StoppedWaitReturns ==
    \A c \in Client : \A r \in Run :
        (cpc[c] = "blocked" /\ ctarget[c] = r /\ stopped[r])
            ~> (cpc[c] # "blocked" \/ (loop[r] = "over" /\ event[r] = "unset"))

\* A call that nothing runs any more can be started again ("Callback when the
\* loop is done", 148): infinitely often it is either running or startable.
Startable == thread = 0 \/ \E r \in Run : Busy(r) \/ loop[r] = "finished"
Restartable == []<>Startable
EventletRestartable == backend = "eventlet" => []<>Startable
-----------------------------------------------------------------------------
\* The phase of a run: active from where stop() can reach it, ended when its
\* outcome is sent or will never be.
Phase(r) ==
    CASE loop[r] = "none" -> IF BeingSpawned(r) THEN "active" ELSE "new"
      [] loop[r] = "call" -> "calling"
      [] loop[r] \in {"sent", "fatal", "finished", "over"} -> "ended"
      [] OTHER -> "active"

Runs == INSTANCE LoopingRuns WITH
          phase <- [r \in Run |-> Phase(r)], outcome <- event, asked <- stopped

\* The looping call keeps the promises of LoopingRuns: the loop, the event, the
\* abort flag and the future of either backend (145-233) behave as runs that do
\* not overlap, each with its own stop() and its own outcome.
ImplementsRuns == Runs!Spec
=============================================================================
