--------------------------- MODULE GreenThreadGroup ---------------------------
(***************************************************************************)
(* The threads of ThreadGroup in the eventlet backend                      *)
(* (_eventlet/threadgroup.py): a list of greenthreads over a GreenPool,    *)
(* which callers and the threads themselves extend, stop, cancel and wait  *)
(* for.  A step goes from one yield to the next; the timers of the group,  *)
(* and its lock, are the same in both backends (ThreadGroup).              *)
(***************************************************************************)
EXTENDS Naturals, FiniteSets

CONSTANTS
    GTCaller,   \* greenthreads outside the group
    GTThread,   \* the threads that add_thread() may create
    GTPool      \* thread_pool_size

GTActor == GTCaller \cup GTThread

VARIABLES
    gtThreads,  \* self.threads
    gtPc,       \* what each greenthread is doing
    gtTodo,     \* what is left of its copy of the list
    gtInline,   \* the thread whose callback it runs itself
    gtOwed,     \* the threads listed when it began (history)
    gtUnharmed  \* threads that took their own end for that of another (history)

gtVars == <<gtThreads, gtPc, gtTodo, gtInline, gtOwed, gtUnharmed>>

GTNobody == "nobody"

ASSUME GTActorsAssumption == GTCaller \cap GTThread = {} /\ GTNobody \notin GTActor

GTEnded(t) == gtPc[t] \in {"none", "inlined", "dead"}
GTHasRoom == Cardinality({t \in GTThread : ~GTEnded(t)}) < GTPool
GTLeft(a) == {t \in gtTodo[a] : ~GTEnded(t)}
GTOthers(a) == gtThreads \ {a}

\* In _perform_action_on_threads and _safe_wait.
GTActing == {"stop", "cancelstop", "cancel", "wait"}
-----------------------------------------------------------------------------
GTInit ==
    /\ gtThreads = {}
    /\ gtPc = [a \in GTActor |-> IF a \in GTCaller THEN "body" ELSE "none"]
    /\ gtTodo = [a \in GTActor |-> {}]
    /\ gtInline = [a \in GTActor |-> GTNobody]
    /\ gtOwed = [a \in GTActor |-> {}]
    /\ gtUnharmed = {}

\* The greenthread that is made next: which one it is makes no difference.
GTIsNew(t) == gtPc[t] = "none" /\ t = CHOOSE u \in GTThread : gtPc[u] = "none"

GTGoto(a, l) == gtPc' = [gtPc EXCEPT ![a] = l]

\* pool.spawn, append and link, without a yield.
GTSpawn(a, t) ==
    /\ GTIsNew(t)
    /\ gtThreads' = gtThreads \cup {t}
    /\ gtPc' = [gtPc EXCEPT ![a] = "body", ![t] = "spawned"]
    /\ UNCHANGED <<gtTodo, gtInline, gtOwed, gtUnharmed>>

\* add_thread() while the pool has room, or once it has.
GTAdd(a) ==
    /\ gtPc[a] \in {"body", "blocked"}
    /\ GTHasRoom
    /\ \E t \in GTThread : GTSpawn(a, t)

GTBlock(a) ==
    /\ a \in GTCaller /\ gtPc[a] = "body"
    /\ ~GTHasRoom
    /\ GTGoto(a, "blocked")
    /\ UNCHANGED <<gtThreads, gtTodo, gtInline, gtOwed, gtUnharmed>>

\* A full pool runs the callback in the thread of the pool that called it.
GTRunInline(a) ==
    /\ a \in GTThread /\ gtPc[a] = "body"
    /\ ~GTHasRoom
    /\ \E t \in GTThread :
         /\ GTIsNew(t)
         /\ gtPc' = [gtPc EXCEPT ![a] = "inline", ![t] = "inlined"]
         /\ gtInline' = [gtInline EXCEPT ![a] = t]
    /\ UNCHANGED <<gtThreads, gtTodo, gtOwed, gtUnharmed>>

\* The thread is appended, and removed by the link, since it is over.
GTInlineEnds(a) ==
    /\ gtPc[a] = "inline"
    /\ gtPc' = [gtPc EXCEPT ![a] = "body", ![gtInline[a]] = "dead"]
    /\ gtInline' = [gtInline EXCEPT ![a] = GTNobody]
    /\ UNCHANGED <<gtThreads, gtTodo, gtOwed, gtUnharmed>>

GTStart(t) ==
    /\ t \in GTThread /\ gtPc[t] = "spawned"
    /\ GTGoto(t, "body")
    /\ UNCHANGED <<gtThreads, gtTodo, gtInline, gtOwed, gtUnharmed>>

\* The callback, or its clean-up after a kill, is over: _on_thread_done.
GTEnds(t) ==
    /\ t \in GTThread /\ gtPc[t] \in {"body", "dying"}
    /\ GTGoto(t, "dead")
    /\ gtThreads' = gtThreads \ {t}
    /\ UNCHANGED <<gtTodo, gtInline, gtOwed, gtUnharmed>>

\* stop(), wait() and cancel() copy the list; without another thread in it they
\* change nothing.
GTBegin(a) ==
    /\ gtPc[a] = "body" /\ GTOthers(a) # {}
    /\ \E l \in {"stop", "wait", "cancel"} : GTGoto(a, l)
    /\ gtTodo' = [gtTodo EXCEPT ![a] = GTOthers(a)]
    /\ gtOwed' = [gtOwed EXCEPT ![a] = IF gtPc'[a] = "cancel" THEN {} ELSE GTOthers(a)]
    /\ UNCHANGED <<gtThreads, gtInline, gtUnharmed>>

\* x.kill() by a.  A thread that never ran ends; one that runs ends, or yields
\* in its clean-up first.
GTKilled(a, x) ==
    /\ \E l \in IF gtPc[x] = "spawned" THEN {"dead"} ELSE {"dead", "dying"} :
         /\ gtPc' = [u \in GTActor |-> IF u = x THEN l
                                       ELSE IF u = gtInline[x] THEN "dead" ELSE gtPc[u]]
         /\ gtThreads' = IF l = "dead" THEN gtThreads \ {x} ELSE gtThreads
    /\ gtTodo' = [gtTodo EXCEPT ![a] = @ \ {x}, ![x] = {}]
    /\ gtInline' = [gtInline EXCEPT ![x] = GTNobody]
    /\ gtOwed' = [gtOwed EXCEPT ![x] = {}]
    /\ UNCHANGED gtUnharmed

\* Inside the group's own loops x takes its GreenletExit for that of the thread it
\* waits for, if it waits, and goes on with the next one.
GTSwallowed(a, x) ==
    /\ \E u \in (IF gtPc[x] = "wait" THEN GTLeft(x) ELSE {}) \cup {x} :
         gtTodo' = [gtTodo EXCEPT ![a] = @ \ {x}, ![x] = @ \ {u}]
    /\ gtUnharmed' = gtUnharmed \cup {x}
    /\ UNCHANGED <<gtThreads, gtPc, gtInline, gtOwed>>

\* Mutant: the loop is over the list itself, from which threads remove themselves.
GTKillUncopied(a) ==
    /\ gtPc[a] \in {"stop", "cancelstop"}
    /\ \E x \in GTLeft(a) :
         /\ gtPc[x] \notin GTActing
         /\ GTGoto(x, "dead")
         /\ gtThreads' = gtThreads \ {x}
         /\ \E y \in GTLeft(a) : gtTodo' = [gtTodo EXCEPT ![a] = @ \ {x, y}]
    /\ UNCHANGED <<gtInline, gtOwed, gtUnharmed>>

GTKill(a) ==
    /\ gtPc[a] \in {"stop", "cancelstop"}
    /\ \E x \in GTLeft(a) :
         IF gtPc[x] \in GTActing THEN GTSwallowed(a, x) ELSE GTKilled(a, x)

\* x.cancel() by a: a thread that has started is left alone.
GTCancelOne(a) ==
    /\ gtPc[a] = "cancel"
    /\ \E x \in GTLeft(a) :
         \/ gtPc[x] = "spawned" /\ GTKilled(a, x)
         \/ /\ gtPc[x] # "spawned"
            /\ gtTodo' = [gtTodo EXCEPT ![a] = @ \ {x}]
            /\ UNCHANGED <<gtThreads, gtPc, gtInline, gtOwed, gtUnharmed>>

\* cancel() with a timeout, or without.
GTCancelled(a) ==
    /\ gtPc[a] = "cancel" /\ GTLeft(a) = {}
    /\ GTGoto(a, "body") \/ GTGoto(a, "cancelwait")
    /\ gtTodo' = [gtTodo EXCEPT ![a] = {}]
    /\ UNCHANGED <<gtThreads, gtInline, gtOwed, gtUnharmed>>

\* _any_threads_alive, and the watch has expired or not.
GTCancelWaits(a) ==
    /\ gtPc[a] = "cancelwait"
    /\ \/ GTOthers(a) = {} /\ GTGoto(a, "body") /\ UNCHANGED gtTodo
       \/ /\ GTOthers(a) # {}
          /\ GTGoto(a, "cancelstop")
          /\ gtTodo' = [gtTodo EXCEPT ![a] = GTOthers(a)]
    /\ UNCHANGED <<gtThreads, gtInline, gtOwed, gtUnharmed>>

GTLoopEnds(a) ==
    /\ gtPc[a] \in {"stop", "cancelstop", "wait"} /\ GTLeft(a) = {}
    /\ GTGoto(a, CASE gtPc[a] = "stop" -> "stopped"
                   [] gtPc[a] = "cancelstop" -> "cancelwait"
                   [] gtPc[a] = "wait" -> "waited")
    /\ gtTodo' = [gtTodo EXCEPT ![a] = {}]
    /\ UNCHANGED <<gtThreads, gtInline, gtOwed, gtUnharmed>>

GTReturn(a) ==
    /\ gtPc[a] \in {"stopped", "waited"}
    /\ GTGoto(a, "body")
    /\ gtOwed' = [gtOwed EXCEPT ![a] = {}]
    /\ UNCHANGED <<gtThreads, gtTodo, gtInline, gtUnharmed>>
-----------------------------------------------------------------------------
GTNext ==
    \E a \in GTActor :
        \/ GTAdd(a) \/ GTBlock(a) \/ GTRunInline(a) \/ GTInlineEnds(a)
        \/ GTStart(a) \/ GTEnds(a)
        \/ GTBegin(a) \/ GTKill(a) \/ GTLoopEnds(a) \/ GTReturn(a)
        \/ GTCancelOne(a) \/ GTCancelled(a) \/ GTCancelWaits(a)

GTSpec == GTInit /\ [][GTNext]_gtVars
-----------------------------------------------------------------------------
\* The list holds exactly the threads that have not ended, in whatever way they
\* end; a stop() leaves none of those it found but the ones still in their own
\* clean-up, and a wait() none at all, while threads of the group add, end, kill and
\* wait for one another.  Excepted are threads killed inside the group's own loops
\* (131, 157) and what such a thread waits for.
GroupSettled ==
    /\ gtThreads = {t \in GTThread : ~GTEnded(t)}
    /\ \A a \in GTActor :
         /\ gtPc[a] = "stopped" =>
              \A t \in gtOwed[a] \ gtUnharmed : GTEnded(t) \/ gtPc[t] = "dying"
         /\ gtPc[a] = "waited" /\ a \notin gtUnharmed =>
              \A t \in gtOwed[a] : GTEnded(t)
=============================================================================
