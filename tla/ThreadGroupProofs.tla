-------------------------- MODULE ThreadGroupProofs --------------------------
(***************************************************************************)
(* Proofs about the thread group of the threading backend: its list is     *)
(* exact and bounded, and its waits and stops mean what they say, for any  *)
(* callers, threads and timers, whatever operations each of them calls.    *)
(***************************************************************************)
EXTENDS ThreadGroup, FiniteSetTheorems, TLAPS

\* What each kind of actor can be doing.
Kinds ==
    /\ \A c \in Caller : pc[c] \in {"ready", "locking", "starting", "appending",
                                    "waittimers", "locking2", "joining", "returned"}
    /\ \A t \in Thread : pc[t] \notin {"idle", "looked", "done", "silent"}
    /\ \A m \in Timer : pc[m] \notin {"created", "ending", "leaving", "dead"}

\* Where each operation can be, and the member it deals with.
InOperation(a) ==
    /\ pc[a] = "starting" => op[a] = "add_thread" /\ item[a] \in Thread /\ pc[item[a]] = "created"
    /\ pc[a] = "appending" => op[a] = "add_timer" /\ item[a] \in Timer /\ pc[item[a]] # "none"
    /\ pc[a] = "locking" /\ op[a] = "timer_done" => item[a] \in Timer
    /\ pc[a] = "waittimers" => op[a] = "stop_graceful" /\ tojoin[a] \subseteq Timer
    /\ pc[a] = "locking2" => op[a] \in {"stop_now", "stop_graceful"}
    /\ pc[a] = "joining" => op[a] \in {"stop_graceful", "waitall"}

Operations ==
    /\ \A a \in Actor : InOperation(a)
    /\ \A a, b \in Actor :
         pc[a] = "starting" /\ pc[b] = "starting" /\ item[a] = item[b] => a = b

Shape == TypeOK /\ Kinds /\ Operations

\* The lists: what was dropped had begun, and so had the timers that are listed.
Lists ==
    /\ ListedExactly
    /\ \A t \in Thread \cap forgotten : pc[t] # "none"
    /\ \A m \in timers : pc[m] # "none"

\* While a graceful stop holds the lock, the list of timers is the one it stopped.
Held(a) ==
    pc[a] = "waittimers" => \A m \in timers : stopped[m] /\ (m \in tojoin[a] \/ pc[m] = "done")

\* What is owed to a waiting operation is still to be waited for, or settled.
Settled(m) == Finished(m) \/ m \in forgotten \cup removed

Owed(a) ==
    /\ \A m \in owed[a] : pc[m] \notin {"none", "created"}
    /\ op[a] \in {"stop_graceful", "waitall"} =>
         \A m \in owed[a] \ {a} :
           /\ pc[a] \in {"locking", "waittimers"} => Settled(m) \/ m \in threads \cup timers
           /\ pc[a] = "locking2" => Settled(m) \/ m \in threads
           /\ pc[a] = "joining" => Settled(m) \/ m \in tojoin[a]
           /\ pc[a] = "returned" => Settled(m)
    /\ op[a] \in {"stop_timers", "stop_now", "stop_graceful"} =>
         \A m \in owed[a] \cap Timer :
           /\ pc[a] = "locking" => stopped[m] \/ m \in removed \/ m \in timers
           /\ pc[a] \in {"waittimers", "locking2", "joining", "returned"} =>
                stopped[m] \/ m \in removed

AllHeld == \A a \in Actor : Held(a)
AllOwed == \A a \in Actor : Owed(a)

Inv == Shape /\ Lists /\ AllHeld /\ AllOwed
-----------------------------------------------------------------------------
\* So does a stutter.
LEMMA TypeStutter == TypeOK /\ UNCHANGED vars => TypeOK'
  BY DEF TypeOK, vars, history

\* Every step keeps the state well-formed.
LEMMA TypeStep == Shape /\ [Next]_vars => TypeOK'
<1> SUFFICES ASSUME Shape, [Next]_vars PROVE TypeOK'
  OBVIOUS
<1>0. CASE UNCHANGED vars
  BY <1>0, TypeStutter DEF Shape
<1> USE ActorsAssumption, OpsAssumption, BoundsAssumption
    DEF Shape, TypeOK, Kinds, Operations, InOperation, Actor, Member, Phases, Ops,
    Goto, Locks, Raise, history, StopAll, Over, Answers, Unstarted, JoinNext
<1>1. ASSUME NEW a \in Actor, NEW o \in Ops, Call(a, o) PROVE TypeOK'
  BY <1>1 DEF Call, MayDo, history
<1>2. ASSUME NEW a \in Actor, Return(a) PROVE TypeOK'
  BY <1>2 DEF Return
<1>3. ASSUME NEW a \in Actor, AddThread(a) PROVE TypeOK'
  BY <1>3 DEF AddThread
<1>4. ASSUME NEW a \in Actor, AddThreadFull(a) PROVE TypeOK'
  BY <1>4 DEF AddThreadFull
<1>5. ASSUME NEW a \in Actor, StartThread(a) PROVE TypeOK'
  BY <1>5 DEF StartThread
<1>6. ASSUME NEW a \in Actor, AppendTimer(a) PROVE TypeOK'
  BY <1>6 DEF AppendTimer
<1>7. ASSUME NEW a \in Actor, TimerDone(a) PROVE TypeOK'
  BY <1>7 DEF TimerDone
<1>8. ASSUME NEW a \in Actor, StopTimers(a) PROVE TypeOK'
  BY <1>8 DEF StopTimers
<1>9. ASSUME NEW a \in Actor, StopTimersWait(a) PROVE TypeOK'
  BY <1>9 DEF StopTimersWait
<1>10. ASSUME NEW a \in Actor, WaitTimer(a) PROVE TypeOK'
  BY <1>10 DEF WaitTimer
<1>11. ASSUME NEW a \in Actor, TimersWaited(a) PROVE TypeOK'
  BY <1>11 DEF TimersWaited
<1>12. ASSUME NEW a \in Actor, StopThreads(a) PROVE TypeOK'
  BY <1>12 DEF StopThreads
<1>13. ASSUME NEW a \in Actor, CopyThreads(a) PROVE TypeOK'
  BY <1>13 DEF CopyThreads
<1>14. ASSUME NEW a \in Actor, WaitAll(a) PROVE TypeOK'
  BY <1>14 DEF WaitAll
<1>15. ASSUME NEW a \in Actor, Join(a) PROVE TypeOK'
  BY <1>15 DEF Join
<1>16. ASSUME NEW a \in Actor, JoinRaises(a) PROVE TypeOK'
  BY <1>16, SMTT(30) DEF JoinRaises
<1>17. ASSUME NEW a \in Actor, Joined(a) PROVE TypeOK'
  BY <1>17 DEF Joined
<1>18. ASSUME NEW t \in Thread, ThreadEnds(t) PROVE TypeOK'
  BY <1>18 DEF ThreadEnds
<1>19. ASSUME NEW t \in Thread, ThreadDone(t) PROVE TypeOK'
  BY <1>19 DEF ThreadDone
<1>20. ASSUME NEW t \in Thread, ThreadDies(t) PROVE TypeOK'
  BY <1>20 DEF ThreadDies
<1>21. ASSUME NEW m \in Timer, TimerLook(m) PROVE TypeOK'
  BY <1>21 DEF TimerLook
<1>22. ASSUME NEW m \in Timer, TimerCalls(m) PROVE TypeOK'
  BY <1>22 DEF TimerCalls
<1>23. ASSUME NEW m \in Timer, TimerReturns(m) PROVE TypeOK'
  <2>1. PICK l \in {"done", "idle", "silent"} : pc' = [pc EXCEPT ![m] = l]
    BY <1>23 DEF TimerReturns
  <2>2. failed' = failed \/ failed' = [failed EXCEPT ![m] = TRUE]
    BY <1>23 DEF TimerReturns
  <2>3. failed' \in [Timer -> BOOLEAN]
    <3>1. failed \in [Timer -> BOOLEAN]
      OBVIOUS
    <3> QED
      BY ONLY <2>2, <3>1
  <2> QED
    BY <1>23, <2>1, <2>3 DEF TimerReturns
<1> HIDE DEF Shape, TypeOK, Kinds, Operations, InOperation, Actor, Member, Phases, Ops,
    Goto, Locks, Raise, history, StopAll, Over, Answers, Unstarted, JoinNext
<1> QED
  BY <1>0, <1>1, <1>2, <1>3, <1>4, <1>5, <1>6, <1>7, <1>8, <1>9, <1>10, <1>11, <1>12,
     <1>13, <1>14, <1>15, <1>16, <1>17, <1>18, <1>19, <1>20, <1>21, <1>22, <1>23
     DEF Next, Operate, ThreadStep, TimerStep

\* Callers, threads and timers stay in phases of their own.
LEMMA KindsStep == Shape /\ [Next]_vars => Kinds'
<1> SUFFICES ASSUME Shape, [Next]_vars PROVE Kinds'
  OBVIOUS
<1> USE ActorsAssumption, OpsAssumption, BoundsAssumption
    DEF Shape, TypeOK, Kinds, Operations, InOperation, Actor, Member, Phases, Ops,
    Goto, Locks, Raise, history, StopAll, Over, Answers, Unstarted, JoinNext
<1>1. ASSUME NEW a \in Actor, NEW o \in Ops, Call(a, o) PROVE Kinds'
  <2>1. \A b \in Actor : pc'[b] = pc[b] \/ (b = a /\ pc'[b] \in {"locking", "appending"})
                          \/ (b \in Timer /\ pc'[b] = "idle")
    BY <1>1 DEF Call
  <2> QED
    BY <2>1
<1>2. ASSUME NEW a \in Actor, Return(a) PROVE Kinds'
  BY <1>2 DEF Return
<1>3. ASSUME NEW a \in Actor, AddThread(a) PROVE Kinds'
  BY <1>3 DEF AddThread
<1>4. ASSUME NEW a \in Actor, AddThreadFull(a) PROVE Kinds'
  BY <1>4 DEF AddThreadFull
<1>5. ASSUME NEW a \in Actor, StartThread(a) PROVE Kinds'
  BY <1>5 DEF StartThread
<1>6. ASSUME NEW a \in Actor, AppendTimer(a) PROVE Kinds'
  BY <1>6 DEF AppendTimer
<1>7. ASSUME NEW a \in Actor, TimerDone(a) PROVE Kinds'
  BY <1>7 DEF TimerDone
<1>8. ASSUME NEW a \in Actor, StopTimers(a) PROVE Kinds'
  BY <1>8 DEF StopTimers
<1>9. ASSUME NEW a \in Actor, StopTimersWait(a) PROVE Kinds'
  BY <1>9 DEF StopTimersWait
<1>10. ASSUME NEW a \in Actor, WaitTimer(a) PROVE Kinds'
  BY <1>10 DEF WaitTimer
<1>11. ASSUME NEW a \in Actor, TimersWaited(a) PROVE Kinds'
  BY <1>11 DEF TimersWaited
<1>12. ASSUME NEW a \in Actor, StopThreads(a) PROVE Kinds'
  BY <1>12 DEF StopThreads
<1>13. ASSUME NEW a \in Actor, CopyThreads(a) PROVE Kinds'
  BY <1>13 DEF CopyThreads
<1>14. ASSUME NEW a \in Actor, WaitAll(a) PROVE Kinds'
  BY <1>14 DEF WaitAll
<1>15. ASSUME NEW a \in Actor, Join(a) PROVE Kinds'
  BY <1>15 DEF Join
<1>16. ASSUME NEW a \in Actor, JoinRaises(a) PROVE Kinds'
  BY <1>16 DEF JoinRaises
<1>17. ASSUME NEW a \in Actor, Joined(a) PROVE Kinds'
  BY <1>17 DEF Joined
<1>18. ASSUME NEW t \in Thread, ThreadEnds(t) PROVE Kinds'
  BY <1>18 DEF ThreadEnds
<1>19. ASSUME NEW t \in Thread, ThreadDone(t) PROVE Kinds'
  BY <1>19 DEF ThreadDone
<1>20. ASSUME NEW t \in Thread, ThreadDies(t) PROVE Kinds'
  BY <1>20 DEF ThreadDies
<1>21. ASSUME NEW m \in Timer, TimerLook(m) PROVE Kinds'
  BY <1>21 DEF TimerLook
<1>22. ASSUME NEW m \in Timer, TimerCalls(m) PROVE Kinds'
  BY <1>22 DEF TimerCalls
<1>23. ASSUME NEW m \in Timer, TimerReturns(m) PROVE Kinds'
  BY <1>23 DEF TimerReturns
<1>24. CASE UNCHANGED vars
  BY <1>24 DEF vars
<1> HIDE DEF Shape, TypeOK, Kinds, Operations, InOperation, Actor, Member, Phases, Ops,
    Goto, Locks, Raise, history, StopAll, Over, Answers, Unstarted, JoinNext
<1> QED
  BY <1>1, <1>2, <1>3, <1>4, <1>5, <1>6, <1>7, <1>8, <1>9, <1>10, <1>11, <1>12,
     <1>13, <1>14, <1>15, <1>16, <1>17, <1>18, <1>19, <1>20, <1>21, <1>22, <1>23, <1>24
     DEF Next, Operate, ThreadStep, TimerStep

\* An operation stays in its phases, and a new thread has one starter.
LEMMA OperationsStep == Shape /\ [Next]_vars => Operations'
<1> SUFFICES ASSUME Shape, [Next]_vars PROVE Operations'
  OBVIOUS
<1> USE ActorsAssumption, OpsAssumption, BoundsAssumption
    DEF Shape, TypeOK, Kinds, Operations, InOperation, Actor, Member, Phases, Ops,
    Goto, Locks, Raise, history, StopAll, Over, Answers, Unstarted, JoinNext
<1>1. ASSUME NEW a \in Actor, NEW o \in Ops, Call(a, o) PROVE Operations'
  BY <1>1 DEF Call, MayDo, history
<1>2. ASSUME NEW a \in Actor, Return(a) PROVE Operations'
  BY <1>2 DEF Return
<1>3. ASSUME NEW a \in Actor, AddThread(a) PROVE Operations'
  BY <1>3 DEF AddThread
<1>4. ASSUME NEW a \in Actor, AddThreadFull(a) PROVE Operations'
  BY <1>4 DEF AddThreadFull
<1>5. ASSUME NEW a \in Actor, StartThread(a) PROVE Operations'
  BY <1>5 DEF StartThread
<1>6. ASSUME NEW a \in Actor, AppendTimer(a) PROVE Operations'
  BY <1>6 DEF AppendTimer
<1>7. ASSUME NEW a \in Actor, TimerDone(a) PROVE Operations'
  BY <1>7 DEF TimerDone
<1>8. ASSUME NEW a \in Actor, StopTimers(a) PROVE Operations'
  BY <1>8 DEF StopTimers
<1>9. ASSUME NEW a \in Actor, StopTimersWait(a) PROVE Operations'
  BY <1>9 DEF StopTimersWait
<1>10. ASSUME NEW a \in Actor, WaitTimer(a) PROVE Operations'
  BY <1>10 DEF WaitTimer
<1>11. ASSUME NEW a \in Actor, TimersWaited(a) PROVE Operations'
  BY <1>11 DEF TimersWaited
<1>12. ASSUME NEW a \in Actor, StopThreads(a) PROVE Operations'
  BY <1>12 DEF StopThreads
<1>13. ASSUME NEW a \in Actor, CopyThreads(a) PROVE Operations'
  BY <1>13 DEF CopyThreads
<1>14. ASSUME NEW a \in Actor, WaitAll(a) PROVE Operations'
  BY <1>14 DEF WaitAll
<1>15. ASSUME NEW a \in Actor, Join(a) PROVE Operations'
  BY <1>15 DEF Join
<1>16. ASSUME NEW a \in Actor, JoinRaises(a) PROVE Operations'
  BY <1>16 DEF JoinRaises
<1>17. ASSUME NEW a \in Actor, Joined(a) PROVE Operations'
  BY <1>17 DEF Joined
<1>18. ASSUME NEW t \in Thread, ThreadEnds(t) PROVE Operations'
  BY <1>18 DEF ThreadEnds
<1>19. ASSUME NEW t \in Thread, ThreadDone(t) PROVE Operations'
  BY <1>19 DEF ThreadDone
<1>20. ASSUME NEW t \in Thread, ThreadDies(t) PROVE Operations'
  BY <1>20 DEF ThreadDies
<1>21. ASSUME NEW m \in Timer, TimerLook(m) PROVE Operations'
  BY <1>21 DEF TimerLook
<1>22. ASSUME NEW m \in Timer, TimerCalls(m) PROVE Operations'
  BY <1>22 DEF TimerCalls
<1>23. ASSUME NEW m \in Timer, TimerReturns(m) PROVE Operations'
  BY <1>23 DEF TimerReturns
<1>24. CASE UNCHANGED vars
  BY <1>24 DEF vars
<1> HIDE DEF Shape, TypeOK, Kinds, Operations, InOperation, Actor, Member, Phases, Ops,
    Goto, Locks, Raise, history, StopAll, Over, Answers, Unstarted, JoinNext
<1> QED
  BY <1>1, <1>2, <1>3, <1>4, <1>5, <1>6, <1>7, <1>8, <1>9, <1>10, <1>11, <1>12,
     <1>13, <1>14, <1>15, <1>16, <1>17, <1>18, <1>19, <1>20, <1>21, <1>22, <1>23, <1>24
     DEF Next, Operate, ThreadStep, TimerStep

\* Who joins and who leaves the list is whom the step says, or is forgotten.
LEMMA ListsStep == Shape /\ Lists /\ [Next]_vars => Lists'
<1> SUFFICES ASSUME Shape, Lists, [Next]_vars PROVE Lists'
  OBVIOUS
<1> USE ActorsAssumption, OpsAssumption, BoundsAssumption
    DEF Shape, TypeOK, Kinds, Operations, InOperation, Actor, Member, Phases, Ops,
    Goto, Locks, Raise, history, StopAll, Over, Answers, Unstarted, JoinNext, Lists, ListedExactly, Listed
<1>1. ASSUME NEW a \in Actor, NEW o \in Ops, Call(a, o) PROVE Lists'
  <2>1. UNCHANGED <<threads, timers, forgotten>>
    BY <1>1 DEF Call
  <2>2. \A t \in Thread : pc[t] = "ready" => pc'[t] = "locking" \/ pc'[t] = "appending" \/ pc'[t] = "ready"
    BY <1>1 DEF Call
  <2>3. \A t \in Thread : pc[t] # "ready" => pc'[t] = pc[t]
    BY <1>1 DEF Call
  <2>4. \A m \in Timer : pc[m] # "none" => pc'[m] # "none"
    BY <1>1 DEF Call
  <2> QED
    BY <2>1, <2>2, <2>3, <2>4
<1>2. ASSUME NEW a \in Actor, Return(a) PROVE Lists'
  BY <1>2 DEF Return
<1>3. ASSUME NEW a \in Actor, AddThread(a) PROVE Lists'
  BY <1>3 DEF AddThread
<1>4. ASSUME NEW a \in Actor, AddThreadFull(a) PROVE Lists'
  BY <1>4 DEF AddThreadFull
<1>5. ASSUME NEW a \in Actor, StartThread(a) PROVE Lists'
  BY <1>5 DEF StartThread
<1>6. ASSUME NEW a \in Actor, AppendTimer(a) PROVE Lists'
  BY <1>6 DEF AppendTimer
<1>7. ASSUME NEW a \in Actor, TimerDone(a) PROVE Lists'
  BY <1>7 DEF TimerDone
<1>8. ASSUME NEW a \in Actor, StopTimers(a) PROVE Lists'
  BY <1>8 DEF StopTimers
<1>9. ASSUME NEW a \in Actor, StopTimersWait(a) PROVE Lists'
  BY <1>9 DEF StopTimersWait
<1>10. ASSUME NEW a \in Actor, WaitTimer(a) PROVE Lists'
  BY <1>10 DEF WaitTimer
<1>11. ASSUME NEW a \in Actor, TimersWaited(a) PROVE Lists'
  BY <1>11 DEF TimersWaited
<1>12. ASSUME NEW a \in Actor, StopThreads(a) PROVE Lists'
  BY <1>12 DEF StopThreads
<1>13. ASSUME NEW a \in Actor, CopyThreads(a) PROVE Lists'
  BY <1>13 DEF CopyThreads
<1>14. ASSUME NEW a \in Actor, WaitAll(a) PROVE Lists'
  BY <1>14 DEF WaitAll
<1>15. ASSUME NEW a \in Actor, Join(a) PROVE Lists'
  BY <1>15 DEF Join
<1>16. ASSUME NEW a \in Actor, JoinRaises(a) PROVE Lists'
  BY <1>16 DEF JoinRaises
<1>17. ASSUME NEW a \in Actor, Joined(a) PROVE Lists'
  BY <1>17 DEF Joined
<1>18. ASSUME NEW t \in Thread, ThreadEnds(t) PROVE Lists'
  BY <1>18 DEF ThreadEnds
<1>19. ASSUME NEW t \in Thread, ThreadDone(t) PROVE Lists'
  BY <1>19 DEF ThreadDone
<1>20. ASSUME NEW t \in Thread, ThreadDies(t) PROVE Lists'
  BY <1>20 DEF ThreadDies
<1>21. ASSUME NEW m \in Timer, TimerLook(m) PROVE Lists'
  BY <1>21 DEF TimerLook
<1>22. ASSUME NEW m \in Timer, TimerCalls(m) PROVE Lists'
  BY <1>22 DEF TimerCalls
<1>23. ASSUME NEW m \in Timer, TimerReturns(m) PROVE Lists'
  BY <1>23 DEF TimerReturns
<1>24. CASE UNCHANGED vars
  BY <1>24 DEF vars
<1> HIDE DEF Shape, TypeOK, Kinds, Operations, InOperation, Actor, Member, Phases, Ops,
    Goto, Locks, Raise, history, StopAll, Over, Answers, Unstarted, JoinNext, Lists, ListedExactly, Listed
<1> QED
  BY <1>1, <1>2, <1>3, <1>4, <1>5, <1>6, <1>7, <1>8, <1>9, <1>10, <1>11, <1>12,
     <1>13, <1>14, <1>15, <1>16, <1>17, <1>18, <1>19, <1>20, <1>21, <1>22, <1>23, <1>24
     DEF Next, Operate, ThreadStep, TimerStep

\* Nobody changes the list of timers while a graceful stop holds the lock.
LEMMA HeldStep == Shape /\ Lists /\ AllHeld /\ [Next]_vars => AllHeld'
<1> SUFFICES ASSUME Shape, Lists, AllHeld, [Next]_vars PROVE AllHeld'
  OBVIOUS
<1> USE ActorsAssumption, OpsAssumption, BoundsAssumption
    DEF Shape, TypeOK, Kinds, Operations, InOperation, Actor, Member, Phases, Ops,
    Goto, Locks, Raise, history, StopAll, Over, Answers, Unstarted, JoinNext, Lists, Held, AllHeld
<1>1. ASSUME NEW a \in Actor, NEW o \in Ops, Call(a, o) PROVE AllHeld'
  BY <1>1 DEF Call, MayDo, history
<1>2. ASSUME NEW a \in Actor, Return(a) PROVE AllHeld'
  BY <1>2 DEF Return
<1>3. ASSUME NEW a \in Actor, AddThread(a) PROVE AllHeld'
  BY <1>3 DEF AddThread
<1>4. ASSUME NEW a \in Actor, AddThreadFull(a) PROVE AllHeld'
  BY <1>4 DEF AddThreadFull
<1>5. ASSUME NEW a \in Actor, StartThread(a) PROVE AllHeld'
  BY <1>5 DEF StartThread
<1>6. ASSUME NEW a \in Actor, AppendTimer(a) PROVE AllHeld'
  BY <1>6 DEF AppendTimer
<1>7. ASSUME NEW a \in Actor, TimerDone(a) PROVE AllHeld'
  BY <1>7 DEF TimerDone
<1>8. ASSUME NEW a \in Actor, StopTimers(a) PROVE AllHeld'
  BY <1>8 DEF StopTimers
<1>9. ASSUME NEW a \in Actor, StopTimersWait(a) PROVE AllHeld'
  BY <1>9 DEF StopTimersWait
<1>10. ASSUME NEW a \in Actor, WaitTimer(a) PROVE AllHeld'
  BY <1>10 DEF WaitTimer
<1>11. ASSUME NEW a \in Actor, TimersWaited(a) PROVE AllHeld'
  BY <1>11 DEF TimersWaited
<1>12. ASSUME NEW a \in Actor, StopThreads(a) PROVE AllHeld'
  BY <1>12 DEF StopThreads
<1>13. ASSUME NEW a \in Actor, CopyThreads(a) PROVE AllHeld'
  BY <1>13 DEF CopyThreads
<1>14. ASSUME NEW a \in Actor, WaitAll(a) PROVE AllHeld'
  BY <1>14 DEF WaitAll
<1>15. ASSUME NEW a \in Actor, Join(a) PROVE AllHeld'
  BY <1>15 DEF Join
<1>16. ASSUME NEW a \in Actor, JoinRaises(a) PROVE AllHeld'
  BY <1>16 DEF JoinRaises
<1>17. ASSUME NEW a \in Actor, Joined(a) PROVE AllHeld'
  BY <1>17 DEF Joined
<1>18. ASSUME NEW t \in Thread, ThreadEnds(t) PROVE AllHeld'
  BY <1>18 DEF ThreadEnds
<1>19. ASSUME NEW t \in Thread, ThreadDone(t) PROVE AllHeld'
  BY <1>19 DEF ThreadDone
<1>20. ASSUME NEW t \in Thread, ThreadDies(t) PROVE AllHeld'
  BY <1>20 DEF ThreadDies
<1>21. ASSUME NEW m \in Timer, TimerLook(m) PROVE AllHeld'
  BY <1>21 DEF TimerLook
<1>22. ASSUME NEW m \in Timer, TimerCalls(m) PROVE AllHeld'
  BY <1>22 DEF TimerCalls
<1>23. ASSUME NEW m \in Timer, TimerReturns(m) PROVE AllHeld'
  BY <1>23 DEF TimerReturns
<1>24. CASE UNCHANGED vars
  BY <1>24 DEF vars
<1> HIDE DEF Shape, TypeOK, Kinds, Operations, InOperation, Actor, Member, Phases, Ops,
    Goto, Locks, Raise, history, StopAll, Over, Answers, Unstarted, JoinNext, Lists, Held, AllHeld
<1> QED
  BY <1>1, <1>2, <1>3, <1>4, <1>5, <1>6, <1>7, <1>8, <1>9, <1>10, <1>11, <1>12,
     <1>13, <1>14, <1>15, <1>16, <1>17, <1>18, <1>19, <1>20, <1>21, <1>22, <1>23, <1>24
     DEF Next, Operate, ThreadStep, TimerStep

\* What is owed to an operation is never lost before it is settled.
LEMMA OwedStep == Shape /\ Lists /\ AllHeld /\ AllOwed /\ [Next]_vars => AllOwed'
<1> SUFFICES ASSUME Shape, Lists, AllHeld, AllOwed, [Next]_vars PROVE AllOwed'
  OBVIOUS
<1> USE ActorsAssumption, OpsAssumption, BoundsAssumption
    DEF Shape, TypeOK, Kinds, Operations, InOperation, Actor, Member, Phases, Ops,
    Goto, Locks, Raise, history, StopAll, Over, Answers, Unstarted, JoinNext, Lists, ListedExactly, Listed,
    Held, Owed, AllHeld, AllOwed, Settled, Finished
<1>1. ASSUME NEW a \in Actor, NEW o \in Ops, Call(a, o) PROVE AllOwed'
  BY <1>1 DEF Call, MayDo, history
<1>2. ASSUME NEW a \in Actor, Return(a) PROVE AllOwed'
  BY <1>2 DEF Return
<1>3. ASSUME NEW a \in Actor, AddThread(a) PROVE AllOwed'
  BY <1>3 DEF AddThread
<1>4. ASSUME NEW a \in Actor, AddThreadFull(a) PROVE AllOwed'
  BY <1>4 DEF AddThreadFull
<1>5. ASSUME NEW a \in Actor, StartThread(a) PROVE AllOwed'
  BY <1>5 DEF StartThread
<1>6. ASSUME NEW a \in Actor, AppendTimer(a) PROVE AllOwed'
  BY <1>6 DEF AppendTimer
<1>7. ASSUME NEW a \in Actor, TimerDone(a) PROVE AllOwed'
  BY <1>7 DEF TimerDone
<1>8. ASSUME NEW a \in Actor, StopTimers(a) PROVE AllOwed'
  <2>1. \A m \in Member : Settled(m) => Settled(m)'
    BY <1>8 DEF StopTimers
  <2>2. \A m \in Timer : stopped[m] \/ m \in timers => stopped'[m]
    BY <1>8 DEF StopTimers
  <2>3. /\ \A x \in Actor \ {a} : pc'[x] = pc[x] /\ tojoin'[x] = tojoin[x]
        /\ pc[a] = "locking" 
        /\ op[a] \in {"stop_timers", "stop_now"} /\ pc'[a] \in {"locking2", "returned"}
        /\ UNCHANGED <<threads, op, owed, removed>>
    BY <1>8 DEF StopTimers
  <2>4. \A m \in timers : Settled(m)'
    BY <1>8 DEF StopTimers
  <2>5. ASSUME NEW x \in Actor, x # a PROVE Owed(x)'
    <3>1. owed[x] \subseteq Member /\ Owed(x)
      OBVIOUS
    <3>2. \A m \in Member : pc[m] \notin {"none", "created"} => pc'[m] \notin {"none", "created"}
      BY <2>3
    <3> HIDE DEF Settled
    <3> QED
      BY ONLY <2>1, <2>2, <2>3, <2>4, <2>5, <3>1, <3>2 DEF Owed, Member, Actor
  <2>6. Owed(a)'
    <3> HIDE DEF Settled
    <3> QED
      BY <2>1, <2>2, <2>3, <2>4
  <2> QED
    BY <2>5, <2>6 DEF AllOwed
<1>9. ASSUME NEW a \in Actor, StopTimersWait(a) PROVE AllOwed'
  <2>1. \A m \in Member : Settled(m) => Settled(m)'
    BY <1>9 DEF StopTimersWait
  <2>2. \A m \in Timer : stopped[m] \/ m \in timers => stopped'[m]
    BY <1>9 DEF StopTimersWait
  <2>3. /\ \A x \in Actor \ {a} : pc'[x] = pc[x] /\ tojoin'[x] = tojoin[x]
        /\ pc[a] = "locking" 
        /\ op[a] = "stop_graceful" /\ pc'[a] = "waittimers"
        /\ UNCHANGED <<threads, op, owed, removed>>
    BY <1>9 DEF StopTimersWait
  <2>4. \A m \in timers : m \in timers'
    BY <1>9 DEF StopTimersWait
  <2>5. ASSUME NEW x \in Actor, x # a PROVE Owed(x)'
    <3>1. owed[x] \subseteq Member /\ Owed(x)
      OBVIOUS
    <3>2. \A m \in Member : pc[m] \notin {"none", "created"} => pc'[m] \notin {"none", "created"}
      BY <2>3
    <3> HIDE DEF Settled
    <3> QED
      BY ONLY <2>1, <2>2, <2>3, <2>4, <2>5, <3>1, <3>2 DEF Owed, Member, Actor
  <2>6. Owed(a)'
    <3> HIDE DEF Settled
    <3> QED
      BY <2>1, <2>2, <2>3, <2>4
  <2> QED
    BY <2>5, <2>6 DEF AllOwed
<1>10. ASSUME NEW a \in Actor, WaitTimer(a) PROVE AllOwed'
  BY <1>10 DEF WaitTimer
<1>11. ASSUME NEW a \in Actor, TimersWaited(a) PROVE AllOwed'
  BY <1>11 DEF TimersWaited
<1>12. ASSUME NEW a \in Actor, StopThreads(a) PROVE AllOwed'
  BY <1>12 DEF StopThreads
<1>13. ASSUME NEW a \in Actor, CopyThreads(a) PROVE AllOwed'
  BY <1>13 DEF CopyThreads
<1>14. ASSUME NEW a \in Actor, WaitAll(a) PROVE AllOwed'
  BY <1>14 DEF WaitAll
<1>15. ASSUME NEW a \in Actor, Join(a) PROVE AllOwed'
  BY <1>15 DEF Join
<1>16. ASSUME NEW a \in Actor, JoinRaises(a) PROVE AllOwed'
  BY <1>16 DEF JoinRaises
<1>17. ASSUME NEW a \in Actor, Joined(a) PROVE AllOwed'
  BY <1>17 DEF Joined
<1>18. ASSUME NEW t \in Thread, ThreadEnds(t) PROVE AllOwed'
  BY <1>18 DEF ThreadEnds
<1>19. ASSUME NEW t \in Thread, ThreadDone(t) PROVE AllOwed'
  BY <1>19 DEF ThreadDone
<1>20. ASSUME NEW t \in Thread, ThreadDies(t) PROVE AllOwed'
  BY <1>20 DEF ThreadDies
<1>21. ASSUME NEW m \in Timer, TimerLook(m) PROVE AllOwed'
  BY <1>21 DEF TimerLook
<1>22. ASSUME NEW m \in Timer, TimerCalls(m) PROVE AllOwed'
  BY <1>22 DEF TimerCalls
<1>23. ASSUME NEW m \in Timer, TimerReturns(m) PROVE AllOwed'
  BY <1>23 DEF TimerReturns
<1>24. CASE UNCHANGED vars
  BY <1>24 DEF vars
<1> HIDE DEF Shape, TypeOK, Kinds, Operations, InOperation, Actor, Member, Phases, Ops,
    Goto, Locks, Raise, history, StopAll, Over, Answers, Unstarted, JoinNext, Lists, ListedExactly, Listed,
    Held, Owed, AllHeld, AllOwed, Settled, Finished
<1> QED
  BY <1>1, <1>2, <1>3, <1>4, <1>5, <1>6, <1>7, <1>8, <1>9, <1>10, <1>11, <1>12,
     <1>13, <1>14, <1>15, <1>16, <1>17, <1>18, <1>19, <1>20, <1>21, <1>22, <1>23, <1>24
     DEF Next, Operate, ThreadStep, TimerStep

\* The lists, waits and stops of the group are as they should be whatever outside
\* callers, threads of the group and callbacks of its timers do.
THEOREM Invariant == Spec => []Inv
<1>1. Init => Inv
  BY ActorsAssumption, OpsAssumption, BoundsAssumption
     DEF Init, Inv, Shape, TypeOK, Kinds, Operations, InOperation, Lists, ListedExactly,
         Listed, Held, Owed, AllHeld, AllOwed, Actor, Member, Phases
<1>2. Inv /\ [Next]_vars => Inv'
  BY TypeStep, KindsStep, OperationsStep, ListsStep, HeldStep, OwedStep DEF Inv, Shape
<1> QED
  BY <1>1, <1>2, PTL DEF Spec

\* The state is well-formed; the lock is held by a graceful stop or by nobody.
THEOREM TypesKept == Spec => []TypeOK
<1>1. Inv => TypeOK
  BY DEF Inv, Shape
<1> QED
  BY <1>1, Invariant, PTL

\* The list holds exactly the threads whose clean-up has not run and that no stop
\* has dropped.
THEOREM ListIsExact == Spec => []ListedExactly
<1>1. Inv => ListedExactly
  BY DEF Inv, Lists
<1> QED
  BY <1>1, Invariant, PTL

\* Only AddThread lengthens the list, and it looks at its length under the lock.
Room == Cardinality(threads) <= PoolSize

LEMMA PoolStep == TypeOK /\ Room /\ [Next]_vars => Room'
<1> SUFFICES ASSUME TypeOK, Room, [Next]_vars PROVE Cardinality(threads') <= PoolSize
  BY DEF Room
<1>1. IsFiniteSet(threads) /\ Cardinality(threads) \in Nat /\ PoolSize \in Nat
      /\ Cardinality(threads) <= PoolSize
  BY ActorsAssumption, BoundsAssumption, FS_Subset, FS_CardinalityType DEF TypeOK, Room
<1>2. CASE threads' \subseteq threads
  BY <1>1, <1>2, FS_Subset, FS_CardinalityType
<1>3. ASSUME NEW a \in Actor, AddThread(a) PROVE Cardinality(threads') <= PoolSize
  <2>1. PICK t \in Thread : threads' = threads \cup {t}
    BY <1>3 DEF AddThread
  <2>2. Cardinality(threads \cup {t}) \in {Cardinality(threads), Cardinality(threads) + 1}
    BY <1>1, FS_AddElement, Zenon
  <2>3. Cardinality(threads) < PoolSize
    BY <1>3 DEF AddThread
  <2> QED
    BY <1>1, <2>1, <2>2, <2>3
<1>4. threads' \subseteq threads \/ \E a \in Actor : AddThread(a)
  BY DEF Next, vars, Operate, ThreadStep, TimerStep, Call, Return, AddThreadFull, StartThread,
     AppendTimer, TimerDone, StopTimers, StopTimersWait, WaitTimer, TimersWaited,
     StopThreads, CopyThreads, WaitAll, Join, JoinRaises, Joined, ThreadEnds, ThreadDone,
     ThreadDies, TimerLook, TimerCalls, TimerReturns
<1> QED
  BY <1>2, <1>3, <1>4

\* The pool is never larger than thread_pool_size, but for what a stop dropped.
THEOREM PoolIsBounded == Spec => []PoolBounded
<1>1. Init => Room
  BY BoundsAssumption, FS_EmptySet DEF Init, Room
<1>2. ListedExactly /\ Room => PoolBounded
  BY DEF ListedExactly, PoolBounded, Room
<1> QED
  BY <1>1, <1>2, PoolStep, TypesKept, ListIsExact, PTL DEF Spec

\* A graceful stop() and waitall() return only when what ran has finished.
THEOREM WaitsWait == Spec => []WaitedFor
<1>1. Inv => WaitedFor
  BY DEF Inv, AllOwed, Owed, Settled, WaitedFor
<1> QED
  BY <1>1, Invariant, PTL

\* A stop returns only when the timers that were listed are told to stop.
THEOREM StopsStop == Spec => []TimersStopped
<1>1. Inv => TimersStopped
  BY DEF Inv, AllOwed, Owed, TimersStopped
<1> QED
  BY <1>1, Invariant, PTL

\* Whoever holds the lock is a graceful stop, and it waits for timers only.
LEMMA LockWaiters ==
    ASSUME TypeOK, Operations, NEW S \in SUBSET Actor, S \cap Timer = {},
           NEW a \in S, pc[a] # "joining", WaitsFor(a) \cap S # {}
    PROVE  \E b \in S : b = lock /\ op[b] = "stop_graceful" /\ WaitsFor(b) \cap S = {}
<1>1. ASSUME NEW b \in S, pc[b] = "waittimers"
      PROVE  op[b] = "stop_graceful" /\ WaitsFor(b) \cap S = {}
  <2>1. op[b] = "stop_graceful" /\ tojoin[b] \subseteq Timer
    BY <1>1 DEF Operations, InOperation
  <2> QED
    BY <1>1, <2>1 DEF WaitsFor
<1>2. pc[a] \in {"locking", "appending", "locking2", "ending"}
  BY <1>1 DEF WaitsFor
<1>3. lock \in S
  BY <1>2 DEF WaitsFor
<1> QED
  BY <1>1, <1>3 DEF TypeOK

\* Actors that wait for one another include a callback of a timer, or a thread of
\* the group that waits for the group: any callers, threads and timers, and any
\* operations of them.
THEOREM OnlyInsidersDeadlock == Spec => []DeadlockNeedsInsider
<1>1. Inv => DeadlockNeedsInsider
  <2> SUFFICES ASSUME Inv, NEW S \in SUBSET Actor, S # {}, \A a \in S : WaitsFor(a) \cap S # {},
                      ~ \E a \in S : a \in Timer
                          \/ (a \in Thread /\ op[a] \in {"stop_graceful", "waitall"})
               PROVE  FALSE
    BY DEF DeadlockNeedsInsider
  <2>a. TypeOK /\ Operations
    BY DEF Inv, Shape
  <2>b. S \cap Timer = {} /\ (\A a \in S : a \in Thread => op[a] \notin {"stop_graceful", "waitall"})
    OBVIOUS
  <2>1. \A a \in S : pc[a] = "joining"
    BY <2>a, <2>b, LockWaiters
  <2>2. PICK a \in S : pc[a] = "joining"
    BY <2>1
  <2>3. PICK b \in S : b \in tojoin[a]
    BY <2>2 DEF WaitsFor
  <2>4. b \in Thread
    BY <2>a, <2>b, <2>2, <2>3 DEF TypeOK, Member
  <2>5. op[b] \in {"stop_graceful", "waitall"}
    BY <2>a, <2>1, <2>3 DEF Operations, InOperation
  <2> QED
    BY <2>b, <2>3, <2>4, <2>5
<1> QED
  BY <1>1, Invariant, PTL
==============================================================================
