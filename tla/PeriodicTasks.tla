---------------------------- MODULE PeriodicTasks ----------------------------
(***************************************************************************)
(* Periodic tasks (periodic_task.py): one object runs the tasks of its     *)
(* class that are due, one after the other (run_periodic_tasks) or in a    *)
(* pool of processes (run_periodic_tasks_in_parallel), and records for     *)
(* each the boundary of its spacing that precedes the run. A task is       *)
(* listed under its name, once for each time it was collected or added: a  *)
(* class copies the list of its base, so that a task it overrides is       *)
(* listed twice, and nothing keeps a task from being added again.          *)
(***************************************************************************)
EXTENDS Integers, Sequences

CONSTANTS
    PTDecl,      \* what each task's decorator says, a function on 1 .. some number
    PTEarly,     \* the tasks of the class, the inherited ones first; others are added later
    PTExternal,  \* conf.run_external_periodic_tasks
    PTDefault,   \* DEFAULT_INTERVAL
    PTSteps,     \* by how much the clock moves at once
    PTMaxTime,   \* bound: the last value of the clock
    PTMaxList    \* bound: the length of the list up to which tasks are added

PTTask == DOMAIN PTDecl

ASSUME PTDeclAssumption ==
    PTDecl \in [PTTask -> [spacing : Int, immediate : BOOLEAN,
                           enabled : BOOLEAN, external : BOOLEAN]]
ASSUME PTDefaultAssumption == PTDefault \in Nat \ {0}
ASSUME PTStepsAssumption == PTSteps \subseteq Nat /\ PTMaxTime \in Nat /\ PTMaxList \in Nat

VARIABLES
    ptClock,    \* now()
    ptList,     \* cls._periodic_tasks
    ptLast,     \* self._periodic_last_run
    ptKind,     \* the method that is called
    ptRaise,    \* its raise_on_error
    ptPos,      \* the position in the list
    ptPc,       \* where it is
    ptRead,     \* last_run, while a task that is due is handled
    ptDue,      \* due_tasks: a task, its next_run and its position in the list
    ptWorkers,  \* positions of the tasks the pool has to run or runs
    ptFailed,   \* some task of the pool failed
    ptFirst,    \* from when the periods of each task count (history)
    ptRuns      \* how often each task was started after that (history)

ptVars == <<ptClock, ptList, ptLast, ptKind, ptRaise, ptPos, ptPc, ptRead,
            ptDue, ptWorkers, ptFailed, ptFirst, ptRuns>>

PTNone == -1       \* run_immediately: the task has not run
PTMissing == -2    \* no key in self._periodic_last_run

PTSpacing(t) == IF PTDecl[t].spacing = 0 THEN PTDefault ELSE PTDecl[t].spacing
PTAccepted(t) == PTDecl[t].spacing >= 0 /\ PTDecl[t].enabled
PTLastOf(t) == IF PTDecl[t].immediate THEN PTNone ELSE 0

\* int(spacing * random() / 20), with random() < 1
PTJitter(s) == 0 .. (s - 1) \div 20

\* Mutant: the boundary after the present time's, one period back.
PTEarlierBoundary(last, s, jitter) ==
    IF last = PTNone THEN ptClock ELSE (ptClock - ((ptClock - last) % s)) - s + jitter

PTNearestBoundary(last, s, jitter) ==
    IF last = PTNone THEN ptClock ELSE (ptClock - ((ptClock - last) % s)) + jitter

PTCur == ptList[ptPos]

\* What the metaclass collects from the body of the class.
PTClassList == SelectSeq(PTEarly, PTAccepted)

\* The body of a class is finite.
ASSUME PTClassAssumption == PTClassList \in Seq({t \in PTTask : PTAccepted(t)})
-----------------------------------------------------------------------------
\* The tasks are decorated at time 0.
PTInit ==
    /\ ptClock = 0
    /\ ptList = PTClassList
    /\ ptLast = [t \in PTTask |-> IF \E i \in 1 .. Len(PTClassList) : PTClassList[i] = t
                                    THEN PTLastOf(t) ELSE PTMissing]
    /\ ptKind = "serial"
    /\ ptRaise = FALSE
    /\ ptPos = 1
    /\ ptPc = "idle"
    /\ ptRead = PTMissing
    /\ ptDue = {}
    /\ ptWorkers = {}
    /\ ptFailed = FALSE
    /\ ptFirst = [t \in PTTask |-> 0]
    /\ ptRuns = [t \in PTTask |-> 0]

PTTick ==
    /\ \E d \in PTSteps : ptClock + d <= PTMaxTime /\ ptClock' = ptClock + d
    /\ UNCHANGED <<ptList, ptLast, ptKind, ptRaise, ptPos, ptPc, ptRead, ptDue,
                   ptWorkers, ptFailed, ptFirst, ptRuns>>

\* add_periodic_task() of this object, which forgets when the task ran if it was
\* listed already, or of another object of the class.
PTAdd(t) ==
    /\ PTAccepted(t)
    /\ Len(ptList) < PTMaxList
    /\ ptList' = Append(ptList, t)
    /\ ptLast' \in {ptLast, [ptLast EXCEPT ![t] = PTLastOf(t)]}
    /\ UNCHANGED <<ptClock, ptKind, ptRaise, ptPos, ptPc, ptRead, ptDue, ptWorkers,
                   ptFailed, ptFirst, ptRuns>>

\* With the eventlet backend the parallel method raises and changes nothing.
PTBegin ==
    /\ ptPc = "idle"
    /\ ptKind' \in {"serial", "parallel"}
    /\ ptRaise' \in BOOLEAN
    /\ ptPc' = "next"
    /\ UNCHANGED <<ptClock, ptList, ptLast, ptPos, ptRead, ptDue, ptWorkers, ptFailed,
                   ptFirst, ptRuns>>

\* last_run is used no more once the task has been marked, planned or passed over.
PTGoto(l) ==
    /\ ptPc' = l
    /\ ptRead' = IF l = "due" THEN ptLast[PTCur] ELSE PTMissing
    /\ UNCHANGED <<ptClock, ptList, ptKind, ptRaise, ptFirst>>

\* The method returns or raises, and its local variables are gone.
PTLeave ==
    /\ ptPc' = "idle" /\ ptKind' = "serial" /\ ptRaise' = FALSE
    /\ ptPos' = 1 /\ ptRead' = PTMissing /\ ptDue' = {} /\ ptFailed' = FALSE
    /\ UNCHANGED <<ptClock, ptList, ptFirst>>

PTAtTask == ptPc = "next" /\ ptPos <= Len(ptList)
PTSkipped(t) == PTDecl[t].external /\ ~PTExternal
PTIsDue(t) == ptLast[t] = PTNone \/ ptLast[t] + PTSpacing(t) <= ptClock

PTPass ==
    /\ PTAtTask
    /\ \/ PTSkipped(PTCur)
       \/ ptLast[PTCur] # PTMissing /\ ~PTIsDue(PTCur)
    /\ ptPos' = ptPos + 1
    /\ PTGoto("next")
    /\ UNCHANGED <<ptLast, ptDue, ptWorkers, ptFailed, ptRuns>>

\* A task that another object added to the class ends the pass.
PTKeyError ==
    /\ PTAtTask
    /\ ~PTSkipped(PTCur) /\ ptLast[PTCur] = PTMissing
    /\ PTLeave
    /\ UNCHANGED <<ptLast, ptWorkers, ptRuns>>

PTDue ==
    /\ PTAtTask
    /\ ~PTSkipped(PTCur) /\ ptLast[PTCur] # PTMissing /\ PTIsDue(PTCur)
    /\ PTGoto("due")
    /\ UNCHANGED <<ptLast, ptPos, ptDue, ptWorkers, ptFailed, ptRuns>>

\* The first run of an immediate task starts its periods.
PTMark(t, b) ==
    /\ ptLast' = [ptLast EXCEPT ![t] = b]
    /\ ptFirst' = [ptFirst EXCEPT ![t] = IF ptRead = PTNone THEN b - PTSpacing(t) ELSE @]

\* The clock is read again, the last run is not: the task may just have been added
\* again.
PTMarkSerial ==
    /\ ptPc = "due" /\ ptKind = "serial"
    /\ \E j \in PTJitter(PTSpacing(PTCur)) :
         PTMark(PTCur, PTNearestBoundary(ptRead, PTSpacing(PTCur), j))
    /\ ptPc' = "call" /\ ptRead' = PTMissing
    /\ UNCHANGED <<ptClock, ptList, ptKind, ptRaise, ptPos, ptDue, ptWorkers, ptFailed, ptRuns>>

PTCall ==
    /\ ptPc = "call"
    /\ ptRuns' = [ptRuns EXCEPT ![PTCur] = @ + 1]
    /\ PTGoto("running")
    /\ UNCHANGED <<ptLast, ptPos, ptDue, ptWorkers, ptFailed>>

\* The task returns or fails.
PTReturn ==
    /\ ptPc = "running"
    /\ \/ ptPos' = ptPos + 1 /\ PTGoto("next") /\ UNCHANGED <<ptDue, ptFailed>>
       \/ ptRaise /\ PTLeave
    /\ UNCHANGED <<ptLast, ptWorkers, ptRuns>>

PTPlan ==
    /\ ptPc = "due" /\ ptKind = "parallel"
    /\ \E j \in PTJitter(PTSpacing(PTCur)) :
         ptDue' = ptDue \cup
           {<<PTCur, PTNearestBoundary(ptRead, PTSpacing(PTCur), j), ptPos>>}
    /\ ptPos' = ptPos + 1
    /\ PTGoto("next")
    /\ UNCHANGED <<ptLast, ptWorkers, ptFailed, ptRuns>>

\* The end of the list; in parallel, nothing to do or an object that cannot be pickled.
PTEnd ==
    /\ ptPc = "next" /\ ptPos > Len(ptList)
    /\ PTLeave
    /\ UNCHANGED <<ptLast, ptWorkers, ptRuns>>

\* The plans are recorded in the order of the list, so the last one of a task stays.
PTLastPlan(t) ==
    {p \in ptDue : p[1] = t /\ \A q \in ptDue : q[1] = t => q[3] <= p[3]}

PTMarkParallel ==
    /\ ptPc = "next" /\ ptPos > Len(ptList)
    /\ ptDue # {}
    /\ LET next(t) == (CHOOSE p \in PTLastPlan(t) : TRUE)[2]
           due == {t \in PTTask : PTLastPlan(t) # {}}
       IN /\ ptLast' = [t \in PTTask |-> IF t \in due THEN next(t) ELSE ptLast[t]]
          /\ ptFirst' = [t \in PTTask |-> IF t \in due /\ ptLast[t] = PTNone
                                            THEN next(t) - PTSpacing(t) ELSE ptFirst[t]]
    /\ ptPc' = "pool"
    /\ UNCHANGED <<ptClock, ptList, ptKind, ptRaise, ptPos, ptRead, ptDue, ptWorkers,
                   ptFailed, ptRuns>>

\* get_spawn_pool() fails: the marked tasks miss a period.
PTPoolFails ==
    /\ ptPc = "pool"
    /\ PTLeave
    /\ UNCHANGED <<ptLast, ptWorkers, ptRuns>>

PTPool ==
    /\ ptPc = "pool"
    /\ PTGoto("submit")
    /\ UNCHANGED <<ptLast, ptPos, ptDue, ptWorkers, ptFailed, ptRuns>>

PTSubmit ==
    /\ ptPc = "submit"
    /\ \E p \in ptDue :
         /\ ptDue' = ptDue \ {p}
         /\ ptWorkers' = ptWorkers \cup {p[3]}
         /\ ptRuns' = [ptRuns EXCEPT ![p[1]] = @ + 1]
    /\ PTGoto(IF ptDue' = {} THEN "collect" ELSE "submit")
    /\ UNCHANGED <<ptLast, ptPos, ptFailed>>

PTWorkerEnds(i) ==
    /\ ptWorkers' = ptWorkers \ {i}
    /\ ptFailed' \in {ptFailed, TRUE}
    /\ UNCHANGED <<ptClock, ptList, ptLast, ptKind, ptRaise, ptPos, ptPc, ptRead, ptDue,
                   ptFirst, ptRuns>>

\* All results, or the first failure with raise_on_error.
PTCollect ==
    /\ ptPc = "collect"
    /\ ptWorkers = {} \/ (ptFailed /\ ptRaise)
    /\ PTGoto("join")
    /\ UNCHANGED <<ptLast, ptPos, ptDue, ptWorkers, ptFailed, ptRuns>>

\* The finally clause waits for the workers that are left.
PTJoin ==
    /\ ptPc = "join"
    /\ ptWorkers = {}
    /\ PTLeave
    /\ UNCHANGED <<ptLast, ptWorkers, ptRuns>>
-----------------------------------------------------------------------------
PTNext ==
    \/ PTTick
    \/ \E t \in PTTask : PTAdd(t)
    \/ \E i \in ptWorkers : PTWorkerEnds(i)
    \/ PTBegin \/ PTPass \/ PTKeyError \/ PTDue
    \/ PTMarkSerial \/ PTCall \/ PTReturn
    \/ PTPlan \/ PTEnd \/ PTMarkParallel
    \/ PTPoolFails \/ PTPool \/ PTSubmit \/ PTCollect \/ PTJoin

PTSpec == PTInit /\ [][PTNext]_ptVars
-----------------------------------------------------------------------------
\* The task is listed at two positions: it was overridden or added again.
PTTwice(t) ==
    \E i, j \in 1 .. Len(ptList) : i # j /\ ptList[i] = t /\ ptList[j] = t

\* The n-th start of the task is not earlier than n spacings after it was
\* decorated, or n - 1 after its first run if that was immediate, less the jitter.
PTPeriodKept(t) ==
    ptRuns[t] > 0 =>
        ptFirst[t] + ptRuns[t] * PTSpacing(t) <= ptClock + (PTSpacing(t) - 1) \div 20

\* A task that is listed once is never run more than once per spacing, although
\* the clock is read twice, the boundary lies in the past, starts are late, passes
\* fail in the middle and parallel passes mark and start at different times
\* (253-275, 329-377). Excepted are the tasks that a subclass overrides or that are
\* added again, which the list has twice: a parallel pass plans them twice before it
\* marks them as run, and starts them twice in one period (343-344, 360-361).
OncePerPeriod == \A t \in PTTask : ~PTTwice(t) => PTPeriodKept(t)
=============================================================================
