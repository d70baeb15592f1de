----------------------------- MODULE ThreadGroup -----------------------------
(***************************************************************************)
(* ThreadGroup of the threading backend (_threading/threadgroup.py and     *)
(* _common/threadgroup.py): a list of native threads and a list of timers, *)
(* under one lock, that callers from outside, the threads of the group and *)
(* the callbacks of its timers all use at the same time.                   *)
(*                                                                         *)
(* A timer is a looping call, reduced to what LoopingCall shows of it: its *)
(* loop looks at the abort flag, calls the callback, looks again, sleeps.  *)
(***************************************************************************)
EXTENDS Naturals, FiniteSets

CONSTANTS
    Caller,     \* threads outside the group
    Thread,     \* the threads that add_thread() may create
    Timer,      \* the timers that add_timer_args() may create
    PoolSize,   \* thread_pool_size
    CallerOps, ThreadOps, TimerOps,   \* what each kind of actor does to the group
    MaxCalls,   \* bound: how many operations are begun
    nobody

Ops == {"add_thread", "add_timer", "timer_done", "stop_timers", "stop_now",
        "stop_graceful", "waitall"}

ASSUME ActorsAssumption ==
    /\ IsFiniteSet(Thread)
    /\ Caller \cap Thread = {} /\ Caller \cap Timer = {} /\ Thread \cap Timer = {}
    /\ nobody \notin Caller \cup Thread \cup Timer
ASSUME OpsAssumption == CallerOps \cup ThreadOps \cup TimerOps \subseteq Ops
ASSUME BoundsAssumption == PoolSize \in Nat /\ MaxCalls \in Nat

Actor == Caller \cup Thread \cup Timer
Member == Thread \cup Timer

VARIABLES
    threads,    \* self.threads
    timers,     \* self.timers
    lock,       \* the holder of self._lock across steps, or nobody
    pc,         \* what each actor is doing
    op,         \* the operation it is in
    item,       \* the member it adds or removes
    tojoin,     \* the members its operation still has to wait for
    stopped,    \* the abort flag of each timer
    failed,     \* the callback of the timer raised an exception
    ncalls,     \* operations begun
    owed,       \* the members whose end the operation is to outlive (history)
    forgotten,  \* members dropped from the lists while they ran (history)
    removed     \* timers dropped by timer_done() (history)

vars == <<threads, timers, lock, pc, op, item, tojoin, stopped, failed, ncalls,
          owed, forgotten, removed>>

\* "ready": in the body of a caller, a thread or a callback; "ending": the body
\* of a thread is over; "idle", "looked": the loop of a timer between two calls;
\* "silent": that loop ended without sending done.
Phases == {"none", "ready", "locking", "starting", "appending", "waittimers",
           "locking2", "joining", "returned", "created", "ending", "leaving",
           "dead", "idle", "looked", "done", "silent"}

Answers(m) == pc[m] \in {"none", "dead", "done"}   \* a join or a wait() of it ends
Over(m) == Answers(m) \/ pc[m] = "silent"
Finished(m) == Over(m) \/ pc[m] = "leaving"    \* the callback is over
Listed(t) == pc[t] \notin {"none", "leaving", "dead"}
Unstarted(t) == pc[t] = "created"

Goto(a, l) == pc' = [pc EXCEPT ![a] = l]

history == <<owed, forgotten, removed>>
-----------------------------------------------------------------------------
Init ==
    /\ threads = {} /\ timers = {}
    /\ lock = nobody
    /\ pc = [a \in Actor |-> IF a \in Caller THEN "ready" ELSE "none"]
    /\ op = [a \in Actor |-> "none"]
    /\ item = [a \in Actor |-> nobody]
    /\ tojoin = [a \in Actor |-> {}]
    /\ stopped = [m \in Timer |-> FALSE]
    /\ failed = [m \in Timer |-> FALSE]
    /\ ncalls = 0
    /\ owed = [a \in Actor |-> {}]
    /\ forgotten = {} /\ removed = {}

MayDo(a) == IF a \in Caller THEN CallerOps ELSE IF a \in Thread THEN ThreadOps ELSE TimerOps

\* An actor calls a method.  add_timer_args creates the timer and starts its
\* loop before it takes the lock (99-105).
Call(a, o) ==
    /\ pc[a] = "ready" /\ o \in MayDo(a)
    /\ ncalls < MaxCalls
    /\ ncalls' = ncalls + 1
    /\ op' = [op EXCEPT ![a] = o]
    /\ owed' = [owed EXCEPT ![a] =
                  {t \in Thread : ~Over(t) /\ ~Unstarted(t)} \cup timers]
    /\ CASE o = "add_timer" ->
              \E m \in Timer : /\ pc[m] = "none"
                               /\ pc' = [pc EXCEPT ![a] = "appending", ![m] = "idle"]
                               /\ item' = [item EXCEPT ![a] = m]
         [] o = "timer_done" ->
              \E m \in timers : Goto(a, "locking") /\ item' = [item EXCEPT ![a] = m]
         [] OTHER -> Goto(a, "locking") /\ UNCHANGED item
    /\ UNCHANGED <<threads, timers, lock, tojoin, stopped, failed, forgotten, removed>>

\* The next with self._lock block of operation o.
Locks(a, l, os) == pc[a] = l /\ op[a] \in os /\ lock = nobody

Return(a) ==
    /\ pc[a] = "returned"
    /\ Goto(a, "ready")
    /\ op' = [op EXCEPT ![a] = "none"]
    /\ item' = [item EXCEPT ![a] = nobody]
    /\ tojoin' = [tojoin EXCEPT ![a] = {}]
    /\ owed' = [owed EXCEPT ![a] = {}]
    /\ UNCHANGED <<threads, timers, lock, stopped, failed, ncalls, forgotten, removed>>

\* The call ends with an exception: it promises nothing.
Raise(a) ==
    /\ Goto(a, "returned")
    /\ owed' = [owed EXCEPT ![a] = {}]

(***************************************************************************)
(* Threads                                                                 *)
(***************************************************************************)
\* Mutant: > for >=.
AddThreadOver(a) ==
    /\ Locks(a, "locking", {"add_thread"})
    /\ Cardinality(threads) <= PoolSize
    /\ \E t \in Thread :
         /\ pc[t] = "none"
         /\ threads' = threads \cup {t}
         /\ pc' = [pc EXCEPT ![a] = "starting", ![t] = "created"]
         /\ item' = [item EXCEPT ![a] = t]
    /\ UNCHANGED <<timers, lock, op, tojoin, stopped, failed, ncalls, history>>

AddThread(a) ==
    /\ Locks(a, "locking", {"add_thread"})
    /\ Cardinality(threads) < PoolSize
    /\ \E t \in Thread :
         /\ pc[t] = "none"
         /\ threads' = threads \cup {t}
         /\ pc' = [pc EXCEPT ![a] = "starting", ![t] = "created"]
         /\ item' = [item EXCEPT ![a] = t]
    /\ UNCHANGED <<timers, lock, op, tojoin, stopped, failed, ncalls, history>>

\* RuntimeError; also where the bound on the threads to create is reached.
AddThreadFull(a) ==
    /\ Locks(a, "locking", {"add_thread"})
    /\ Cardinality(threads) >= PoolSize \/ \A t \in Thread : pc[t] # "none"
    /\ Raise(a)
    /\ UNCHANGED <<threads, timers, lock, op, item, tojoin, stopped, failed,
                   ncalls, forgotten, removed>>

StartThread(a) ==
    /\ pc[a] = "starting"
    /\ pc' = [pc EXCEPT ![a] = "returned", ![item[a]] = "ready"]
    /\ UNCHANGED <<threads, timers, lock, op, item, tojoin, stopped, failed,
                   ncalls, history>>

\* The callback returns or raises.
ThreadEnds(t) ==
    /\ pc[t] = "ready"
    /\ Goto(t, "ending")
    /\ UNCHANGED <<threads, timers, lock, op, item, tojoin, stopped, failed,
                   ncalls, history>>

\* Mutant: run_and_cleanup does not call thread_done.
ThreadDoneNever(t) ==
    /\ pc[t] = "ending" /\ lock = nobody
    /\ Goto(t, "leaving")
    /\ UNCHANGED <<threads, timers, lock, op, item, tojoin, stopped, failed,
                   ncalls, history>>

ThreadDone(t) ==
    /\ pc[t] = "ending" /\ lock = nobody
    /\ threads' = threads \ {t}
    /\ Goto(t, "leaving")
    /\ UNCHANGED <<timers, lock, op, item, tojoin, stopped, failed, ncalls, history>>

ThreadDies(t) ==
    /\ pc[t] = "leaving"
    /\ Goto(t, "dead")
    /\ UNCHANGED <<threads, timers, lock, op, item, tojoin, stopped, failed,
                   ncalls, history>>

(***************************************************************************)
(* Timers: the loop of a looping call, and the list                        *)
(***************************************************************************)
TimerLook(m) ==
    /\ pc[m] = "idle"
    /\ Goto(m, IF stopped[m] THEN "done" ELSE "looked")
    /\ UNCHANGED <<threads, timers, lock, op, item, tojoin, stopped, failed,
                   ncalls, history>>

TimerCalls(m) ==
    /\ pc[m] = "looked"
    /\ Goto(m, "ready")
    /\ UNCHANGED <<threads, timers, lock, op, item, tojoin, stopped, failed,
                   ncalls, history>>

\* The callback returns, ends the loop with LoopingCallDone, or raises: an
\* Exception is sent to done, any other exception leaves the loop with nothing sent.
TimerReturns(m) ==
    /\ pc[m] = "ready"
    /\ \/ Goto(m, IF stopped[m] THEN "done" ELSE "idle") /\ UNCHANGED failed
       \/ Goto(m, "done") /\ UNCHANGED failed
       \/ Goto(m, "silent") /\ UNCHANGED failed
       \/ Goto(m, "done") /\ failed' = [failed EXCEPT ![m] = TRUE]
    /\ UNCHANGED <<threads, timers, lock, op, item, tojoin, stopped, ncalls, history>>

AppendTimer(a) ==
    /\ Locks(a, "appending", {"add_timer"})
    /\ timers' = timers \cup {item[a]}
    /\ Goto(a, "returned")
    /\ UNCHANGED <<threads, lock, op, item, tojoin, stopped, failed, ncalls, history>>

TimerDone(a) ==
    /\ Locks(a, "locking", {"timer_done"})
    /\ timers' = timers \ {item[a]}
    /\ removed' = removed \cup {item[a]}
    /\ Goto(a, "returned")
    /\ UNCHANGED <<threads, lock, op, item, tojoin, stopped, failed, ncalls,
                   owed, forgotten>>

(***************************************************************************)
(* stop_timers(), stop()                                                   *)
(***************************************************************************)
StopAll == stopped' = [m \in Timer |-> stopped[m] \/ m \in timers]

\* stop_timers(wait=False), by itself or in stop(): nothing is waited for.
StopTimers(a) ==
    /\ Locks(a, "locking", {"stop_timers", "stop_now"})
    /\ StopAll
    /\ timers' = {}
    /\ forgotten' = forgotten \cup {m \in timers : ~Over(m)}
    /\ Goto(a, IF op[a] = "stop_now" THEN "locking2" ELSE "returned")
    /\ UNCHANGED <<threads, lock, op, item, tojoin, failed, ncalls, owed, removed>>

\* Mutant: a graceful stop waits for the timers without stopping them.
StopTimersWaitOnly(a) ==
    /\ Locks(a, "locking", {"stop_graceful"})
    /\ lock' = a
    /\ tojoin' = [tojoin EXCEPT ![a] = timers]
    /\ Goto(a, "waittimers")
    /\ UNCHANGED <<threads, timers, op, item, stopped, failed, ncalls, history>>

\* stop_timers(wait=True): the lock is held while the callbacks end.
StopTimersWait(a) ==
    /\ Locks(a, "locking", {"stop_graceful"})
    /\ StopAll
    /\ lock' = a
    /\ tojoin' = [tojoin EXCEPT ![a] = timers]
    /\ Goto(a, "waittimers")
    /\ UNCHANGED <<threads, timers, op, item, failed, ncalls, history>>

\* timer.wait(); the exception of a failed one is logged.
WaitTimer(a) ==
    /\ pc[a] = "waittimers"
    /\ \E m \in tojoin[a] :
         pc[m] = "done" /\ tojoin' = [tojoin EXCEPT ![a] = @ \ {m}]
    /\ UNCHANGED <<threads, timers, lock, pc, op, item, stopped, failed, ncalls, history>>

\* Mutant: the lock is not given back.
TimersWaitedHolds(a) ==
    /\ pc[a] = "waittimers" /\ tojoin[a] = {}
    /\ timers' = {}
    /\ Goto(a, "locking2")
    /\ UNCHANGED <<threads, lock, op, item, tojoin, stopped, failed, ncalls, history>>

TimersWaited(a) ==
    /\ pc[a] = "waittimers" /\ tojoin[a] = {}
    /\ timers' = {}
    /\ lock' = nobody
    /\ Goto(a, "locking2")
    /\ UNCHANGED <<threads, op, item, tojoin, stopped, failed, ncalls, history>>

\* _stop_threads.
StopThreads(a) ==
    /\ Locks(a, "locking2", {"stop_now"})
    /\ threads' = threads \cap {a}
    /\ forgotten' = forgotten \cup (threads \ {a})
    /\ Goto(a, "returned")
    /\ UNCHANGED <<timers, lock, op, item, tojoin, stopped, failed, ncalls, owed, removed>>

\* _wait_threads: the list is copied under the lock.
CopyThreads(a) ==
    /\ Locks(a, "locking2", {"stop_graceful"})
    /\ tojoin' = [tojoin EXCEPT ![a] = threads \ {a}]
    /\ Goto(a, "joining")
    /\ UNCHANGED <<threads, timers, lock, op, item, stopped, failed, ncalls, history>>

(***************************************************************************)
(* waitall(), and the joins of both                                        *)
(***************************************************************************)
WaitAll(a) ==
    /\ Locks(a, "locking", {"waitall"})
    /\ tojoin' = [tojoin EXCEPT ![a] = threads \cup timers]
    /\ Goto(a, "joining")
    /\ UNCHANGED <<threads, timers, lock, op, item, stopped, failed, ncalls, history>>

JoinNext(a) ==
    IF tojoin[a] \cap Thread # {} THEN tojoin[a] \cap Thread ELSE tojoin[a]

\* Mutant: a thread that is still in thread_done counts as joined, and so does
\* one that is running (a join with a timeout).
JoinTimesOut(a) ==
    /\ pc[a] = "joining"
    /\ \E m \in JoinNext(a) : tojoin' = [tojoin EXCEPT ![a] = @ \ {m}]
    /\ UNCHANGED <<threads, timers, lock, pc, op, item, stopped, failed, ncalls, history>>

\* t.join(), timer.wait().
Join(a) ==
    /\ pc[a] = "joining"
    /\ \E m \in JoinNext(a) :
         /\ Answers(m) /\ (m \in Timer => ~failed[m])
         /\ tojoin' = [tojoin EXCEPT ![a] = @ \ {m}]
    /\ UNCHANGED <<threads, timers, lock, pc, op, item, stopped, failed, ncalls, history>>

\* join() raises RuntimeError for a thread not started yet and for the caller
\* itself; wait() raises the exception of the timer.  _wait_threads logs it.
JoinRaises(a) ==
    /\ pc[a] = "joining"
    /\ \E m \in JoinNext(a) :
         /\ \/ m \in Thread /\ Unstarted(m)
            \/ m = a
            \/ m \in Timer /\ Answers(m) /\ failed[m]
         /\ IF op[a] = "waitall"
              THEN Raise(a) /\ UNCHANGED tojoin
              ELSE tojoin' = [tojoin EXCEPT ![a] = @ \ {m}] /\ UNCHANGED <<pc, owed>>
    /\ UNCHANGED <<threads, timers, lock, op, item, stopped, failed, ncalls,
                   forgotten, removed>>

Joined(a) ==
    /\ pc[a] = "joining" /\ tojoin[a] = {}
    /\ Goto(a, "returned")
    /\ UNCHANGED <<threads, timers, lock, op, item, tojoin, stopped, failed,
                   ncalls, history>>
-----------------------------------------------------------------------------
Operate(a) ==
    \/ Return(a) \/ AddThread(a) \/ AddThreadFull(a) \/ StartThread(a)
    \/ AppendTimer(a) \/ TimerDone(a)
    \/ StopTimers(a) \/ StopTimersWait(a) \/ WaitTimer(a) \/ TimersWaited(a)
    \/ StopThreads(a) \/ CopyThreads(a)
    \/ WaitAll(a) \/ Join(a) \/ JoinRaises(a) \/ Joined(a)

ThreadStep(t) == ThreadEnds(t) \/ ThreadDone(t) \/ ThreadDies(t)

TimerStep(m) == TimerLook(m) \/ TimerCalls(m) \/ TimerReturns(m)

Next ==
    \/ \E a \in Actor : Operate(a) \/ \E o \in Ops : Call(a, o)
    \/ \E t \in Thread : ThreadStep(t)
    \/ \E m \in Timer : TimerStep(m)

Spec == Init /\ [][Next]_vars

\* Native threads run, and callbacks end; nobody has to call anything.  Only
\* finitely many operations are begun, so that weak fairness of all of them
\* together is that of each, and stands for a lock that is passed on.
FairSpec ==
    /\ Spec
    /\ WF_vars((\E a \in Actor : Operate(a)) \/ (\E t \in Thread : ThreadStep(t)))
    /\ \A m \in Timer : WF_vars(TimerStep(m))
-----------------------------------------------------------------------------
TypeOK ==
    /\ threads \subseteq Thread /\ timers \subseteq Timer
    /\ lock \in Actor \cup {nobody}
    /\ pc \in [Actor -> Phases]
    /\ op \in [Actor -> Ops \cup {"none"}]
    /\ item \in [Actor -> Member \cup {nobody}]
    /\ tojoin \in [Actor -> SUBSET Member]
    /\ stopped \in [Timer -> BOOLEAN] /\ failed \in [Timer -> BOOLEAN]
    /\ ncalls \in 0 .. MaxCalls
    /\ owed \in [Actor -> SUBSET Member]
    /\ forgotten \subseteq Member /\ removed \subseteq Timer
    /\ \A a \in Actor : lock = a <=> pc[a] = "waittimers"

\* The list holds the threads whose clean-up has not run, each of them, whoever
\* adds and ends them at the same time, but for those a stop() dropped.
ListedExactly == threads = {t \in Thread : Listed(t)} \ forgotten

\* The pool is never larger than thread_pool_size (84), not counting threads
\* that a stop() dropped from the list while they ran.
PoolBounded == Cardinality({t \in Thread : Listed(t)} \ forgotten) <= PoolSize

\* When a graceful stop() or waitall() returns, the threads that ran and the
\* timers that were listed when it was called have finished, apart from those that
\* another call dropped and from the thread that called it itself.
WaitedFor ==
    \A a \in Actor :
        (pc[a] = "returned" /\ op[a] \in {"stop_graceful", "waitall"})
            => \A m \in owed[a] \ {a} : Finished(m) \/ m \in forgotten \cup removed

\* When a stop() or stop_timers() returns, the timers that were listed when it
\* was called are stopped, unless timer_done() removed them before (224-234).
TimersStopped ==
    \A a \in Actor :
        (pc[a] = "returned" /\ op[a] \in {"stop_timers", "stop_now", "stop_graceful"})
            => \A m \in owed[a] \cap Timer : stopped[m] \/ m \in removed

\* Whom an actor cannot go on without: the holder of the lock, the timers whose
\* callbacks it lets end, the threads and timers it joins in whatever order.
WaitsFor(a) ==
    CASE pc[a] \in {"locking", "appending", "locking2", "ending"} -> {lock} \ {nobody}
      [] pc[a] = "waittimers" -> {m \in tojoin[a] : pc[m] # "done"}
      [] pc[a] = "joining" -> {m \in tojoin[a] \ {a} : ~Answers(m)}
      [] OTHER -> {}

\* Actors that all wait for one another always include one that the group itself
\* runs and that must not wait for it: the callback of a timer, or a thread of the
\* group in a graceful stop() or a waitall().  Callers from outside and threads that
\* come and go never deadlock, whoever holds the lock while it waits (224-242).
DeadlockNeedsInsider ==
    \A S \in SUBSET {a \in Actor : WaitsFor(a) # {}} :
        S # {} /\ (\A a \in S : WaitsFor(a) \cap S # {}) =>
            \E a \in S : a \in Timer \/ (a \in Thread /\ op[a] \in {"stop_graceful", "waitall"})

\* Some stop() waits, with the lock held, for a timer whose loop ended with an
\* exception that is no Exception: nobody will send its done.
HeldBySilence ==
    \E b \in Actor : pc[b] = "waittimers" /\ \E m \in tojoin[b] : pc[m] = "silent"

\* A graceful stop() returns once the callbacks end ("wait for completion before
\* returning", 247), unless it, or another one that holds the lock, waits for a timer
\* that ended without an answer (loopingcall.py 196-225): then it never does.
GracefulReturns ==
    \A a \in Caller :
        (pc[a] = "locking" /\ op[a] = "stop_graceful")
            ~> (pc[a] = "returned" \/ HeldBySilence)

\* waitall() returns only when the threads that ran when it was called are done
\* ("Block until all timers and threads in the group are complete", 161).
WaitallWaits ==
    \A a \in Actor :
        (pc[a] = "returned" /\ op[a] = "waitall")
            => \A t \in owed[a] \cap Thread : Finished(t)
=============================================================================
