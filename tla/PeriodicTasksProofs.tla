------------------------- MODULE PeriodicTasksProofs -------------------------
(***************************************************************************)
(* Proof that no periodic task that is listed once runs more often than    *)
(* once per spacing, for any tasks, spacings and jitters, however the      *)
(* clock advances and whatever happens to the tasks that are listed twice. *)
(***************************************************************************)
EXTENDS PeriodicTasks, TLAPS

PTJ(t) == (PTSpacing(t) - 1) \div 20
PTListed == {ptList[i] : i \in 1 .. Len(ptList)}
PTPlanned == {p[1] : p \in ptDue}
PTRunnable == {t \in PTTask : PTAccepted(t)}

PTTypeOK ==
    /\ ptClock \in Nat
    /\ ptList \in Seq(PTRunnable)
    /\ ptLast \in [PTTask -> Int]
    /\ \A t \in PTTask : ptLast[t] >= 0 \/ ptLast[t] = PTNone \/ ptLast[t] = PTMissing
    /\ ptKind \in {"serial", "parallel"}
    /\ ptPos \in Nat \ {0}
    /\ ptRead \in Int
    /\ ptPc \in {"idle", "next", "due", "call", "running", "pool", "submit", "collect", "join"}
    /\ ptDue \subseteq PTTask \X Int \X Nat
    /\ ptFirst \in [PTTask -> Int]
    /\ ptRuns \in [PTTask -> Nat]

\* A pass comes once to a task that is listed once, and plans it once.
PTOnce ==
    /\ \A t \in PTTask : ptLast[t] # PTMissing => t \in PTListed
    /\ \A p, q \in ptDue : p[1] = q[1] /\ ~PTTwice(p[1]) => p = q
    /\ \A p \in ptDue : ptPc \in {"next", "due"} =>
         \E i \in 1 .. Len(ptList) : i < ptPos /\ p[1] = ptList[i]

\* Where a pass can be.
PTPhases ==
    /\ ptPc = "idle" \/ ptKind = "serial" => ptDue = {}
    /\ ptPc \in {"call", "running"} => ptKind = "serial"
    /\ ptPc \in {"pool", "submit", "collect", "join"} => ptKind = "parallel"
    /\ ptPc \in {"due", "call", "running"} => ptPos <= Len(ptList)
    /\ ptPc = "due" =>
         /\ ptRead >= 0 \/ ptRead = PTNone
         /\ ptRead = PTNone \/ ptRead + PTSpacing(PTCur) <= ptClock
         /\ ~PTTwice(PTCur) => ptRead = ptLast[PTCur]

\* A planned boundary is at least a spacing after the last one.
PTPlans ==
    ptPc \in {"next", "due"} =>
      \A p \in ptDue :
        /\ 0 <= p[2]
        /\ p[2] <= ptClock + PTJ(p[1])
        /\ ~PTTwice(p[1]) =>
             /\ ptLast[p[1]] # PTMissing
             /\ ptLast[p[1]] # PTNone => ptLast[p[1]] + PTSpacing(p[1]) <= p[2]

\* Marked, and still to be started.
PTPending(t) ==
    \/ ptPc = "call" /\ PTCur = t
    \/ ptPc \in {"pool", "submit"} /\ t \in PTPlanned

\* A task that has run, or is about to, has had one boundary for each time.
PTStarts(t) == IF PTPending(t) THEN ptRuns[t] + 1 ELSE ptRuns[t]

PTCounted(t) ==
    IF ptLast[t] \in {PTNone, PTMissing}
      THEN PTStarts(t) = 0 /\ ptFirst[t] = 0
      ELSE /\ ptFirst[t] + PTStarts(t) * PTSpacing(t) <= ptLast[t]
           /\ ptLast[t] <= ptClock + PTJ(t)

PTInv == PTTypeOK /\ PTOnce /\ PTPhases /\ PTPlans /\ \A t \in PTTask : PTTwice(t) \/ PTCounted(t)
-----------------------------------------------------------------------------
LEMMA PTSpacings ==
    ASSUME NEW t \in PTRunnable
    PROVE  /\ t \in PTTask
           /\ PTSpacing(t) \in Nat \ {0} /\ PTJ(t) \in Nat
           /\ PTJitter(PTSpacing(t)) = 0 .. PTJ(t)
<1>1. PTSpacing(t) \in Nat \ {0} /\ t \in PTTask
  BY PTDeclAssumption, PTDefaultAssumption DEF PTRunnable, PTAccepted, PTSpacing
<1>2. ASSUME NEW x \in Nat PROVE x \div 20 \in Nat
  OBVIOUS
<1> QED
  BY <1>1, <1>2 DEF PTJ, PTJitter

\* The boundary that precedes the present is at least one spacing after the last
\* one of a task that is due.
LEMMA PTBoundary ==
    ASSUME NEW now \in Nat, NEW last \in Nat, NEW s \in Nat \ {0}, last + s <= now
    PROVE  /\ now - ((now - last) % s) \in Nat
           /\ last + s <= now - ((now - last) % s)
           /\ now - ((now - last) % s) <= now
<1> DEFINE d == now - last
           r == d % s
           q == d \div s
<1>1. d \in Nat /\ s <= d
  OBVIOUS
<1>2. d = s * q + r /\ 0 <= r /\ r < s /\ q \in Int /\ r \in Int
  BY <1>1
<1>3. q >= 1
  <2> HIDE DEF d, r, q
  <2> SUFFICES ASSUME q <= 0 PROVE FALSE
    BY <1>2
  <2>1. s * q <= 0
    BY <1>2
  <2> QED
    BY <1>1, <1>2, <2>1
<1>4. s * q >= s
  <2> HIDE DEF q
  <2> QED
    BY <1>2, <1>3
<1>5. d - r >= s
  <2> HIDE DEF d, r, q
  <2> QED
    BY <1>1, <1>2, <1>4
<1> QED
  BY <1>1, <1>2, <1>5

\* What the boundary computed for the task at hand can be.
LEMMA PTNearest ==
    ASSUME PTTypeOK, PTPhases, ptPc = "due",
           NEW j \in PTJitter(PTSpacing(PTCur)),
           NEW b, b = PTNearestBoundary(ptRead, PTSpacing(PTCur), j)
    PROVE  /\ PTCur \in PTRunnable /\ PTCur \in PTTask
           /\ b \in Nat
           /\ b <= ptClock + PTJ(PTCur)
           /\ ~PTTwice(PTCur) =>
                /\ ptRead = ptLast[PTCur] /\ ptLast[PTCur] # PTMissing
                /\ ptLast[PTCur] # PTNone => ptLast[PTCur] + PTSpacing(PTCur) <= b
<1> DEFINE s == PTSpacing(PTCur)
           last == ptRead
<1>1. ptPos \in 1 .. Len(ptList) /\ ptList \in Seq(PTRunnable)
  BY DEF PTTypeOK, PTPhases
<1>2. PTCur \in PTRunnable
  BY <1>1 DEF PTCur
<1>3. PTCur \in PTTask /\ s \in Nat \ {0} /\ PTJ(PTCur) \in Nat /\ j \in 0 .. PTJ(PTCur)
  BY <1>2, PTSpacings
<1>4. /\ last = PTNone \/ last + s <= ptClock
      /\ ~PTTwice(PTCur) => last = ptLast[PTCur]
  BY DEF PTPhases
<1>5. ptClock \in Nat /\ last \in Int /\ (last >= 0 \/ last = PTNone) /\ last # PTMissing
  BY DEF PTTypeOK, PTPhases, PTNone, PTMissing
<1>6. CASE last = PTNone
  <2>1. b = ptClock
    BY <1>6 DEF PTNearestBoundary
  <2> QED
    BY <2>1, <1>2, <1>3, <1>4, <1>5, <1>6
<1>7. CASE last # PTNone
  <2> DEFINE c == ptClock - ((ptClock - last) % s)
  <2>1. b = c + j
    BY <1>7 DEF PTNearestBoundary
  <2>2. last \in Nat /\ last + s <= ptClock
    BY <1>4, <1>5, <1>7
  <2>3. c \in Nat /\ last + s <= c /\ c <= ptClock
    BY <2>2, <1>3, <1>5, PTBoundary
  <2> HIDE DEF c, last, s
  <2>4. b \in Nat /\ last + s <= b /\ b <= ptClock + PTJ(PTCur)
    BY <2>1, <2>2, <2>3, <1>3, <1>5
  <2> QED
    BY <2>4, <1>2, <1>3, <1>4, <1>5 DEF last, s
<1> QED
  BY <1>6, <1>7

\* The boundary a parallel pass records for a task: the last one it planned.
PTMarked == {t \in PTTask : PTLastPlan(t) # {}}
PTNextOf(t) == (CHOOSE p \in PTLastPlan(t) : TRUE)[2]

LEMMA PTNextPlanned ==
    ASSUME PTTypeOK, NEW t \in PTMarked
    PROVE  t \in PTTask /\ \E p \in ptDue : p[1] = t /\ p[2] = PTNextOf(t)
<1>1. PTLastPlan(t) # {}
  BY DEF PTMarked
<1>2. (CHOOSE p \in PTLastPlan(t) : TRUE) \in PTLastPlan(t)
  BY <1>1
<1> QED
  BY <1>2 DEF PTNextOf, PTLastPlan, PTMarked

\* A planned task that is listed once is marked.
LEMMA PTMarkedOnce ==
    ASSUME PTTypeOK, PTOnce, NEW t, ~PTTwice(t)
    PROVE  t \in PTPlanned <=> t \in PTMarked
<1>1. ASSUME t \in PTPlanned PROVE t \in PTMarked
  <2>1. PICK p \in ptDue : p[1] = t
    BY <1>1 DEF PTPlanned
  <2>2. p[1] \in PTTask /\ p[3] \in Nat
    BY DEF PTTypeOK
  <2>3. \A q \in ptDue : q[1] = t => q = p
    BY <2>1 DEF PTOnce
  <2>4. p[3] <= p[3]
    BY <2>2
  <2>5. p \in PTLastPlan(t)
    BY <2>1, <2>3, <2>4 DEF PTLastPlan
  <2> QED
    BY <2>1, <2>2, <2>5 DEF PTMarked
<1>2. ASSUME t \in PTMarked PROVE t \in PTPlanned
  BY <1>2 DEF PTMarked, PTLastPlan, PTPlanned
<1> QED
  BY <1>1, <1>2

LEMMA PTMarkedParallel ==
    ASSUME PTMarkParallel
    PROVE  /\ ptLast' = [t \in PTTask |-> IF t \in PTMarked THEN PTNextOf(t) ELSE ptLast[t]]
           /\ ptFirst' = [t \in PTTask |-> IF t \in PTMarked /\ ptLast[t] = PTNone
                                            THEN PTNextOf(t) - PTSpacing(t) ELSE ptFirst[t]]
  BY DEF PTMarkParallel, PTMarked, PTNextOf

\* The list only grows.
LEMMA PTTwiceStep ==
    ASSUME PTTypeOK, [PTNext]_ptVars
    PROVE  /\ \A u \in PTTask : PTTwice(u) => PTTwice(u)'
           /\ \A t \in PTTask : PTAdd(t) /\ t \in PTListed => PTTwice(t)'
           /\ (\A t \in PTTask : ~PTAdd(t)) => ptList' = ptList
<1>1. ASSUME \A t \in PTTask : ~PTAdd(t) PROVE ptList' = ptList
  BY <1>1 DEF PTNext, ptVars, PTTick, PTWorkerEnds, PTBegin, PTPass, PTKeyError, PTDue,
     PTMarkSerial, PTCall, PTReturn, PTPlan, PTEnd, PTMarkParallel, PTPoolFails, PTPool,
     PTSubmit, PTCollect, PTJoin, PTGoto, PTLeave
<1>2. ASSUME NEW t \in PTTask, PTAdd(t)
      PROVE  /\ Len(ptList) \in Nat /\ Len(ptList') = Len(ptList) + 1
             /\ ptList'[Len(ptList) + 1] = t
             /\ \A i \in 1 .. Len(ptList) : ptList'[i] = ptList[i]
  <2>1. t \in PTRunnable
    BY <1>2 DEF PTAdd, PTRunnable
  <2> QED
    BY <1>2, <2>1 DEF PTAdd, PTTypeOK
<1>3. ASSUME NEW u \in PTTask, PTTwice(u), NEW t \in PTTask, PTAdd(t) PROVE PTTwice(u)'
  <2>1. PICK i, j \in 1 .. Len(ptList) : i # j /\ ptList[i] = u /\ ptList[j] = u
    BY <1>3 DEF PTTwice
  <2>2. i \in 1 .. Len(ptList') /\ j \in 1 .. Len(ptList')
    BY <1>2, <1>3
  <2>3. ptList'[i] = u /\ ptList'[j] = u
    BY <1>2, <1>3, <2>1
  <2> QED
    BY <2>1, <2>2, <2>3 DEF PTTwice
<1>4. ASSUME NEW u \in PTTask, PTTwice(u), \A t \in PTTask : ~PTAdd(t) PROVE PTTwice(u)'
  BY <1>1, <1>4 DEF PTTwice
<1>5. ASSUME NEW t \in PTTask, PTAdd(t), t \in PTListed PROVE PTTwice(t)'
  <2>1. PICK i \in 1 .. Len(ptList) : ptList[i] = t
    BY <1>5 DEF PTListed
  <2>2. i \in 1 .. Len(ptList') /\ Len(ptList) + 1 \in 1 .. Len(ptList') /\ i # Len(ptList) + 1
    BY <1>2, <1>5
  <2>3. ptList'[i] = t /\ ptList'[Len(ptList) + 1] = t
    BY <1>2, <1>5, <2>1
  <2> QED
    BY <2>2, <2>3 DEF PTTwice
<1> QED
  BY <1>1, <1>3, <1>4, <1>5

LEMMA PTCurrent ==
    ASSUME PTTypeOK, ptPos <= Len(ptList)
    PROVE  PTCur \in PTRunnable /\ PTCur \in PTTask /\ PTCur \in PTListed
  BY DEF PTTypeOK, PTCur, PTListed, PTRunnable

\* The clock goes on.
LEMMA PTTickTypes == PTTypeOK /\ PTTick => PTTypeOK'
<1> SUFFICES ASSUME PTTypeOK, PTTick PROVE PTTypeOK'
  OBVIOUS
<1>1. ptClock' \in Nat
  BY PTStepsAssumption DEF PTTick, PTTypeOK
<1> QED
  BY <1>1 DEF PTTick, PTTypeOK

\* Every step keeps the state well-formed.
LEMMA PTTypeStep == PTTypeOK /\ PTOnce /\ PTPhases /\ PTPlans /\ [PTNext]_ptVars => PTTypeOK'
<1> SUFFICES ASSUME PTTypeOK, PTOnce, PTPhases, PTPlans, [PTNext]_ptVars PROVE PTTypeOK'
  OBVIOUS
<1>1. CASE PTTick
  BY <1>1, PTTickTypes
<1>2. ASSUME NEW t \in PTTask, PTAdd(t) PROVE PTTypeOK'
  <2>1. ptLast \in [PTTask -> Int]
    BY DEF PTTypeOK
  <2>2. PTLastOf(t) \in Int /\ (PTLastOf(t) >= 0 \/ PTLastOf(t) = PTNone)
    BY DEF PTLastOf, PTNone
  <2>3. ptLast' \in [PTTask -> Int]
    BY <1>2, <2>1, <2>2 DEF PTAdd
  <2>4. \A u \in PTTask : ptLast'[u] = ptLast[u] \/ ptLast'[u] = PTLastOf(t)
    BY <1>2, <2>1 DEF PTAdd
  <2>5. \A u \in PTTask : ptLast'[u] >= 0 \/ ptLast'[u] = PTNone \/ ptLast'[u] = PTMissing
    BY <2>2, <2>4 DEF PTTypeOK
  <2>6. ptList' \in Seq(PTRunnable)
    BY <1>2 DEF PTAdd, PTTypeOK, PTRunnable
  <2> QED
    BY <1>2, <2>3, <2>5, <2>6 DEF PTAdd, PTTypeOK
<1> USE PTDeclAssumption, PTStepsAssumption
    DEF PTTypeOK, PTRunnable, PTLastOf, PTNone, PTMissing,
        PTGoto, PTLeave, PTAtTask
<1>3. ASSUME NEW i \in ptWorkers, PTWorkerEnds(i) PROVE PTTypeOK'
  BY <1>3 DEF PTWorkerEnds
<1>4. CASE PTBegin
  BY <1>4 DEF PTBegin
<1>5. CASE PTPass
  <2>1. ptPos' = ptPos + 1 /\ ptPc' = "next"
        /\ ptRead' = PTMissing
        /\ UNCHANGED <<ptClock, ptList, ptLast, ptKind, ptDue, ptFirst, ptRuns>>
    BY <1>5 DEF PTPass
  <2> QED
    BY <2>1
<1>6. CASE PTKeyError
  <2>1. ptPos' = 1 /\ ptPc' = "idle" /\ ptKind' = "serial" /\ ptDue' = {}
        /\ ptRead' = PTMissing
        /\ UNCHANGED <<ptClock, ptList, ptLast, ptFirst, ptRuns>>
    BY <1>6 DEF PTKeyError
  <2> QED
    BY <2>1
<1>7. CASE PTDue
  <2>1. PTCur \in PTTask
    BY <1>7, PTCurrent DEF PTDue
  <2> QED
    BY <1>7, <2>1 DEF PTDue
<1>8. CASE PTMarkSerial
  <2>1. PICK j \in PTJitter(PTSpacing(PTCur)) :
          PTMark(PTCur, PTNearestBoundary(ptRead, PTSpacing(PTCur), j))
    BY <1>8 DEF PTMarkSerial
  <2> DEFINE b == PTNearestBoundary(ptRead, PTSpacing(PTCur), j)
  <2>2. PTCur \in PTRunnable /\ PTCur \in PTTask /\ b \in Nat
    BY <1>8, PTNearest DEF PTMarkSerial
  <2>3. PTSpacing(PTCur) \in Nat \ {0}
    BY <2>2, PTSpacings
  <2> HIDE DEF b
  <2>4. ptFirst' \in [PTTask -> Int]
    BY <2>1, <2>2, <2>3 DEF PTMark, b
  <2>5. ptLast' = [ptLast EXCEPT ![PTCur] = b]
    BY <2>1 DEF PTMark, b
  <2>6. \A t \in PTTask : ptLast'[t] = b \/ ptLast'[t] = ptLast[t]
    BY <2>5
  <2>7. ptLast' \in [PTTask -> Int]
    BY <2>2, <2>5
  <2>8. \A t \in PTTask :
          ptLast'[t] >= 0 \/ ptLast'[t] = PTNone \/ ptLast'[t] = PTMissing
    <3> SUFFICES ASSUME NEW t \in PTTask
                 PROVE  ptLast'[t] >= 0 \/ ptLast'[t] = PTNone \/ ptLast'[t] = PTMissing
      OBVIOUS
    <3>1. CASE ptLast'[t] = b
      <4>1. b >= 0
        BY <2>2
      <4> QED
        BY <3>1, <4>1
    <3>2. CASE ptLast'[t] = ptLast[t]
      BY <3>2
    <3> QED
      BY <2>6, <3>1, <3>2
  <2>9. /\ UNCHANGED <<ptClock, ptList, ptKind, ptPos, ptDue, ptRuns>>
        /\ ptPc' = "call" /\ ptRead' = PTMissing
    BY <1>8 DEF PTMarkSerial
  <2> QED
    BY <2>4, <2>7, <2>8, <2>9
<1>9. CASE PTCall
  <2>1. PTCur \in PTTask
    BY <1>9, PTCurrent DEF PTCall, PTPhases
  <2>2. /\ ptRuns' = [ptRuns EXCEPT ![PTCur] = ptRuns[PTCur] + 1]
        /\ ptPc' = "running" /\ ptRead' = PTMissing
        /\ UNCHANGED <<ptClock, ptList, ptLast, ptKind, ptPos, ptDue, ptFirst>>
    BY <1>9 DEF PTCall
  <2>3. ptRuns' \in [PTTask -> Nat]
    BY <2>1, <2>2
  <2> QED
    BY <2>2, <2>3
<1>10. CASE PTReturn
  BY <1>10 DEF PTReturn
<1>11. CASE PTPlan
  <2>1. PICK j \in PTJitter(PTSpacing(PTCur)) :
          ptDue' = ptDue \cup {<<PTCur, PTNearestBoundary(ptRead, PTSpacing(PTCur), j), ptPos>>}
    BY <1>11 DEF PTPlan
  <2> DEFINE b == PTNearestBoundary(ptRead, PTSpacing(PTCur), j)
  <2>2. PTCur \in PTTask /\ b \in Nat
    BY <1>11, PTNearest DEF PTPlan
  <2> HIDE DEF b
  <2>3. ptDue' \subseteq PTTask \X Int \X Nat
    BY <2>1, <2>2 DEF b
  <2> QED
    BY <1>11, <2>3 DEF PTPlan
<1>12. CASE PTEnd
  BY <1>12 DEF PTEnd
<1>13. CASE PTMarkParallel
  <2>1. \A t \in PTMarked : /\ t \in PTTask /\ PTNextOf(t) \in Nat /\ t \in PTRunnable
                            /\ PTSpacing(t) \in Int
    <3> SUFFICES ASSUME NEW t \in PTMarked
                 PROVE  t \in PTTask /\ PTNextOf(t) \in Nat /\ t \in PTRunnable /\ PTSpacing(t) \in Int
      OBVIOUS
    <3>0. PICK p \in ptDue : p[1] = t /\ p[2] = PTNextOf(t)
      BY PTNextPlanned
    <3>1. t \in PTTask /\ PTNextOf(t) \in Int
      BY <3>0
    <3>2. 0 <= PTNextOf(t)
      BY <1>13, <3>0 DEF PTMarkParallel, PTPlans
    <3>3. t \in PTRunnable
      <4>1. PICK i \in 1 .. Len(ptList) : t = ptList[i]
        BY <1>13, <3>0, ZenonT(60) DEF PTMarkParallel, PTOnce
      <4> QED
        BY <4>1
    <3> QED
      BY <3>1, <3>2, <3>3, PTSpacings
  <2>2. ptLast' \in [PTTask -> Int] /\ ptFirst' \in [PTTask -> Int]
    BY <1>13, <2>1, PTMarkedParallel
  <2>3. \A t \in PTTask : ptLast'[t] >= 0 \/ ptLast'[t] = PTNone \/ ptLast'[t] = PTMissing
    <3>1. ptLast' = [t \in PTTask |-> IF t \in PTMarked THEN PTNextOf(t) ELSE ptLast[t]]
      BY <1>13, PTMarkedParallel
    <3> SUFFICES ASSUME NEW t \in PTTask
                 PROVE  ptLast'[t] >= 0 \/ ptLast'[t] = PTNone \/ ptLast'[t] = PTMissing
      OBVIOUS
    <3>2. CASE t \in PTMarked
      BY <3>1, <3>2, <2>1
    <3>3. CASE t \notin PTMarked
      BY <3>1, <3>3
    <3> QED
      BY <3>2, <3>3
  <2> QED
    BY <1>13, <2>2, <2>3 DEF PTMarkParallel
<1>14. CASE PTPoolFails
  BY <1>14 DEF PTPoolFails
<1>15. CASE PTPool
  BY <1>15 DEF PTPool
<1>16. CASE PTSubmit
  BY <1>16, SMTT(40) DEF PTSubmit
<1>17. CASE PTCollect
  BY <1>17 DEF PTCollect
<1>18. CASE PTJoin
  BY <1>18 DEF PTJoin
<1>19. CASE UNCHANGED ptVars
  BY <1>19 DEF ptVars
<1> QED
  BY <1>1, <1>2, <1>3, <1>4, <1>5, <1>6, <1>7, <1>8, <1>9, <1>10,
     <1>11, <1>12, <1>13, <1>14, <1>15, <1>16, <1>17, <1>18, <1>19
     DEF PTNext

\* Every step leaves the object in one of its phases.
LEMMA PTPhasesStep == PTTypeOK /\ PTPhases /\ [PTNext]_ptVars => PTPhases'
<1> SUFFICES ASSUME PTTypeOK, PTPhases, [PTNext]_ptVars PROVE PTPhases'
  OBVIOUS
<1> USE PTDeclAssumption, PTStepsAssumption
    DEF PTTypeOK, PTPhases,
        PTGoto, PTLeave, PTAtTask
<1>1. CASE PTTick
  <2>1. \A d \in PTSteps : d \in Nat
    OBVIOUS
  <2>2. ptPc = "due" => PTSpacing(PTCur) \in Int
    <3> SUFFICES ASSUME ptPc = "due" PROVE PTSpacing(PTCur) \in Int
      OBVIOUS
    <3>1. PTCur \in PTRunnable /\ PTCur \in PTTask
      BY PTCurrent
    <3> QED
      BY <3>1, PTSpacings
  <2>3. PICK d \in Nat : ptClock' = ptClock + d
    BY <1>1, <2>1 DEF PTTick
  <2>4. PTCur' = PTCur /\ UNCHANGED <<ptLast, ptRead>> /\ (PTTwice(PTCur)' <=> PTTwice(PTCur))
    BY <1>1 DEF PTTick, PTCur, PTTwice
  <2>5. ptPc = "due" => ptRead = PTNone \/ ptRead + PTSpacing(PTCur) <= ptClock'
    BY <2>2, <2>3
  <2>6. UNCHANGED <<ptPc, ptDue, ptKind, ptPos, ptList>>
    BY <1>1 DEF PTTick
  <2>7. PTSpacing(PTCur)' = PTSpacing(PTCur)
    BY <2>4 DEF PTSpacing
  <2> QED
    BY <2>4, <2>5, <2>6, <2>7
<1>2. ASSUME NEW t \in PTTask, PTAdd(t) PROVE PTPhases'
  <2>1. CASE ptPc # "due"
    <3>1. Len(ptList') = Len(ptList) + 1 /\ Len(ptList) \in Nat
      BY <1>2 DEF PTAdd, PTRunnable
    <3>2. UNCHANGED <<ptPc, ptKind, ptPos, ptDue>>
      BY <1>2 DEF PTAdd
    <3> QED
      BY <2>1, <3>1, <3>2
  <2>2. CASE ptPc = "due"
    <3>1. PTCur' = PTCur /\ ptPos <= Len(ptList')
      <4>1. t \in PTRunnable
        BY <1>2 DEF PTAdd, PTRunnable
      <4> QED
        BY <1>2, <2>2, <4>1 DEF PTAdd, PTCur
    <3>2. PICK c \in PTListed : c = PTCur /\ c \in PTTask
      BY <2>2, PTCurrent
    <3>3. (PTTwice(c) => PTTwice(c)') /\ (c = t => PTTwice(c)')
      BY <1>2, <3>2, PTTwiceStep
    <3>4. c # t => ptLast'[c] = ptLast[c]
      BY <1>2, <3>2 DEF PTAdd
    <3>5. ~PTTwice(c)' => ptRead = ptLast'[c]
      BY <2>2, <3>2, <3>3, <3>4
    <3>6. UNCHANGED <<ptPc, ptKind, ptPos, ptDue, ptClock, ptRead>>
      BY <1>2 DEF PTAdd
    <3>7. PTCur' = c /\ (PTTwice(PTCur)' <=> PTTwice(c)')
      BY <3>1, <3>2 DEF PTTwice
    <3>8. PTSpacing(PTCur)' = PTSpacing(PTCur)
      BY <3>1 DEF PTSpacing
    <3> QED
      BY <2>2, <3>1, <3>5, <3>6, <3>7, <3>8
  <2> QED
    BY <2>1, <2>2
<1>3. ASSUME NEW i \in ptWorkers, PTWorkerEnds(i) PROVE PTPhases'
  BY <1>3 DEF PTWorkerEnds, PTTwice, PTCur, PTSpacing
<1>4. CASE PTBegin
  BY <1>4 DEF PTBegin
<1>5. CASE PTPass
  BY <1>5 DEF PTPass
<1>6. CASE PTKeyError
  BY <1>6 DEF PTKeyError
<1>7. CASE PTDue
  <2>1. PTCur' = PTCur /\ PTCur \in PTTask /\ ptRead' = ptLast[PTCur] /\ ptPos <= Len(ptList)
    BY <1>7, PTCurrent DEF PTDue, PTCur
  <2>2. /\ ptRead' >= 0 \/ ptRead' = PTNone
        /\ ptRead' = PTNone \/ ptRead' + PTSpacing(PTCur) <= ptClock
    BY <1>7, <2>1 DEF PTDue, PTIsDue
  <2>3. UNCHANGED <<ptClock, ptList, ptLast, ptKind, ptPos, ptDue>> /\ ptPc' = "due"
    BY <1>7 DEF PTDue
  <2> QED
    BY <1>7, <2>1, <2>2, <2>3 DEF PTDue, PTSpacing
<1>8. CASE PTMarkSerial
  BY <1>8 DEF PTMarkSerial
<1>9. CASE PTCall
  BY <1>9 DEF PTCall
<1>10. CASE PTReturn
  BY <1>10 DEF PTReturn
<1>11. CASE PTPlan
  BY <1>11 DEF PTPlan
<1>12. CASE PTEnd
  BY <1>12 DEF PTEnd
<1>13. CASE PTMarkParallel
  BY <1>13 DEF PTMarkParallel
<1>14. CASE PTPoolFails
  BY <1>14 DEF PTPoolFails
<1>15. CASE PTPool
  BY <1>15 DEF PTPool
<1>16. CASE PTSubmit
  BY <1>16 DEF PTSubmit
<1>17. CASE PTCollect
  BY <1>17 DEF PTCollect
<1>18. CASE PTJoin
  BY <1>18 DEF PTJoin
<1>19. CASE UNCHANGED ptVars
  BY <1>19 DEF ptVars, PTTwice, PTCur, PTSpacing
<1> QED
  BY <1>1, <1>2, <1>3, <1>4, <1>5, <1>6, <1>7, <1>8, <1>9, <1>10,
     <1>11, <1>12, <1>13, <1>14, <1>15, <1>16, <1>17, <1>18, <1>19
     DEF PTNext

\* Every step keeps the list and the plan free of repetitions.
LEMMA PTOnceStep == PTTypeOK /\ PTOnce /\ PTPhases /\ [PTNext]_ptVars => PTOnce'
<1> SUFFICES ASSUME PTTypeOK, PTOnce, PTPhases, [PTNext]_ptVars PROVE PTOnce'
  OBVIOUS
<1> USE PTDeclAssumption
    DEF PTOnce, PTListed,
        PTGoto, PTLeave, PTAtTask
<1>1. CASE PTTick
  BY <1>1 DEF PTTick, PTTwice
<1>2. ASSUME NEW t \in PTTask, PTAdd(t) PROVE PTOnce'
  <2>1. t \in PTRunnable
    BY <1>2 DEF PTAdd, PTRunnable
  <2>2. /\ ptList \in Seq(PTRunnable) /\ ptList' = Append(ptList, t)
        /\ Len(ptList') = Len(ptList) + 1 /\ ptList'[Len(ptList) + 1] = t
        /\ \A i \in 1 .. Len(ptList) : ptList'[i] = ptList[i]
    BY <1>2, <2>1 DEF PTAdd, PTTypeOK
  <2>4. \A p, q \in ptDue' : p[1] = q[1] /\ ~PTTwice(p[1])' => p = q
    <3>1. UNCHANGED ptDue /\ \A p \in ptDue : p[1] \in PTTask
      BY <1>2 DEF PTAdd, PTTypeOK
    <3> QED
      BY <3>1, PTTwiceStep
  <2>5. PTListed' = PTListed \cup {t}
    <3>1. Len(ptList) \in Nat
      BY <2>2
    <3>2. \A i \in 1 .. Len(ptList') : i \in 1 .. Len(ptList) \/ ptList'[i] = t
      BY <2>2, <3>1
    <3>3. ASSUME NEW x \in PTListed' PROVE x \in PTListed \cup {t}
      BY <2>2, <3>1, <3>2 DEF PTListed
    <3>4. ASSUME NEW x \in PTListed PROVE x \in PTListed'
      <4>1. PICK i \in 1 .. Len(ptList) : x = ptList[i]
        BY DEF PTListed
      <4>2. i \in 1 .. Len(ptList') /\ ptList'[i] = x
        BY <2>2, <3>1, <4>1
      <4> QED
        BY <4>2 DEF PTListed
    <3>5. t \in PTListed'
      <4>1. Len(ptList) + 1 \in 1 .. Len(ptList')
        BY <2>2, <3>1
      <4> QED
        BY <2>2, <4>1 DEF PTListed
    <3> QED
      BY <3>3, <3>4, <3>5
  <2>6. \A u \in PTTask : ptLast'[u] # PTMissing => u \in PTListed'
    BY <1>2, <2>5 DEF PTAdd, PTTypeOK
  <2>7. \A p \in ptDue' : ptPc' \in {"next", "due"} =>
          \E i \in 1 .. Len(ptList') : i < ptPos' /\ p[1] = ptList'[i]
    BY <1>2, <2>2 DEF PTAdd
  <2> QED
    BY <1>2, <2>4, <2>6, <2>7 DEF PTAdd
<1>3. ASSUME NEW i \in ptWorkers, PTWorkerEnds(i) PROVE PTOnce'
  BY <1>3 DEF PTWorkerEnds, PTTwice
<1>4. CASE PTBegin
  BY <1>4 DEF PTBegin, PTPhases, PTTwice
<1>5. CASE PTPass
  BY <1>5 DEF PTPass, PTTwice, PTTypeOK
<1>6. CASE PTKeyError
  BY <1>6 DEF PTKeyError, PTTwice
<1>7. CASE PTDue
  BY <1>7 DEF PTDue, PTTwice
<1>8. CASE PTMarkSerial
  <2>1. PTCur \in PTListed
    BY <1>8, PTCurrent DEF PTMarkSerial, PTPhases
  <2>2. \A u \in PTTask : ptLast'[u] # PTMissing => u \in PTListed
    BY <1>8, <2>1 DEF PTMarkSerial, PTMark, PTTypeOK
  <2> QED
    BY <1>8, <2>2 DEF PTMarkSerial, PTListed, PTTwice
<1>9. CASE PTCall
  BY <1>9 DEF PTCall, PTTwice
<1>10. CASE PTReturn
  BY <1>10 DEF PTReturn, PTPhases, PTTwice
<1>11. CASE PTPlan
  <2>1. PICK b : ptDue' = ptDue \cup {<<PTCur, b, ptPos>>}
    BY <1>11 DEF PTPlan
  <2>2. ~PTTwice(PTCur) => \A p \in ptDue : p[1] # PTCur
    <3> SUFFICES ASSUME NEW p \in ptDue, p[1] = PTCur PROVE PTTwice(PTCur)
      OBVIOUS
    <3>1. PICK i \in 1 .. Len(ptList) : i < ptPos /\ p[1] = ptList[i]
      BY <1>11 DEF PTPlan
    <3>2. ptPos \in 1 .. Len(ptList) /\ ptPos # i
      BY <1>11, <3>1 DEF PTPlan, PTPhases, PTTypeOK
    <3> QED
      BY <3>1, <3>2 DEF PTTwice, PTCur
  <2>3. ptPos \in 1 .. Len(ptList) /\ ptPos' = ptPos + 1 /\ ptPc' = "next"
        /\ UNCHANGED <<ptList, ptLast>>
    BY <1>11 DEF PTPlan, PTPhases, PTTypeOK
  <2>4. \A p, q \in ptDue' : p[1] = q[1] /\ ~PTTwice(p[1]) => p = q
    BY <2>1, <2>2
  <2>5. \A p \in ptDue' : \E i \in 1 .. Len(ptList) : i < ptPos + 1 /\ p[1] = ptList[i]
    <3> SUFFICES ASSUME NEW p \in ptDue'
                 PROVE  \E i \in 1 .. Len(ptList) : i < ptPos + 1 /\ p[1] = ptList[i]
      OBVIOUS
    <3>1. CASE p = <<PTCur, b, ptPos>>
      BY <3>1, <2>3 DEF PTCur
    <3>2. CASE p \in ptDue
      BY <1>11, <3>2, <2>3 DEF PTPlan
    <3> QED
      BY <2>1, <3>1, <3>2
  <2> QED
    BY <2>3, <2>4, <2>5 DEF PTListed, PTTwice
<1>12. CASE PTEnd
  BY <1>12 DEF PTEnd, PTTwice
<1>13. CASE PTMarkParallel
  <2>1. \A u \in PTMarked : u \in PTListed
    BY <1>13 DEF PTMarkParallel, PTListed, PTMarked, PTLastPlan
  <2>2. ptLast' = [u \in PTTask |-> IF u \in PTMarked THEN PTNextOf(u) ELSE ptLast[u]]
    BY <1>13, PTMarkedParallel
  <2>3. \A u \in PTTask : ptLast'[u] # PTMissing => u \in PTListed
    BY <2>1, <2>2
  <2>4. UNCHANGED <<ptDue, ptPos, ptList>> /\ ptPc' = "pool"
    BY <1>13 DEF PTMarkParallel
  <2> QED
    BY <2>3, <2>4 DEF PTTwice
<1>14. CASE PTPoolFails
  BY <1>14 DEF PTPoolFails, PTTwice
<1>15. CASE PTPool
  BY <1>15 DEF PTPool, PTTwice
<1>16. CASE PTSubmit
  BY <1>16 DEF PTSubmit, PTTwice
<1>17. CASE PTCollect
  BY <1>17 DEF PTCollect, PTTwice
<1>18. CASE PTJoin
  BY <1>18 DEF PTJoin, PTTwice
<1>19. CASE UNCHANGED ptVars
  BY <1>19 DEF ptVars, PTTwice
<1> QED
  BY <1>1, <1>2, <1>3, <1>4, <1>5, <1>6, <1>7, <1>8, <1>9, <1>10,
     <1>11, <1>12, <1>13, <1>14, <1>15, <1>16, <1>17, <1>18, <1>19
     DEF PTNext

\* Every step keeps the plan a spacing ahead.
LEMMA PTPlansStep == PTTypeOK /\ PTOnce /\ PTPhases /\ PTPlans /\ [PTNext]_ptVars => PTPlans'
<1> SUFFICES ASSUME PTTypeOK, PTOnce, PTPhases, PTPlans, [PTNext]_ptVars PROVE PTPlans'
  OBVIOUS
<1> USE PTDeclAssumption
    DEF PTPlans,
        PTGoto, PTLeave, PTAtTask
<1>1. CASE PTTick
  <2>1. PICK d \in Nat : ptClock' = ptClock + d
    BY <1>1, PTStepsAssumption DEF PTTick
  <2>2. \A p \in ptDue : p[1] \in PTTask /\ p[2] \in Int
    BY DEF PTTypeOK
  <2>3. ptPc \in {"next", "due"} => \A p \in ptDue : PTJ(p[1]) \in Nat
    <3> SUFFICES ASSUME ptPc \in {"next", "due"}, NEW p \in ptDue PROVE PTJ(p[1]) \in Nat
      OBVIOUS
    <3>1. p[1] \in PTRunnable
      <4>1. PICK i \in 1 .. Len(ptList) : p[1] = ptList[i]
        BY DEF PTOnce
      <4> QED
        BY <4>1 DEF PTTypeOK
    <3> QED
      BY <3>1, PTSpacings
  <2>4. ptClock \in Nat
    BY DEF PTTypeOK
  <2> QED
    BY <1>1, <2>1, <2>2, <2>3, <2>4 DEF PTTick, PTTwice
<1>2. ASSUME NEW t \in PTTask, PTAdd(t) PROVE PTPlans'
  <2>1. UNCHANGED <<ptPc, ptDue, ptClock>> /\ \A p \in ptDue : p[1] \in PTTask
    BY <1>2 DEF PTAdd, PTTypeOK
  <2>2. ASSUME ptPc \in {"next", "due"}, NEW p \in ptDue, ~PTTwice(p[1])'
        PROVE  ~PTTwice(p[1]) /\ ptLast'[p[1]] = ptLast[p[1]]
    <3>1. p[1] \in PTListed
      BY <2>2 DEF PTOnce, PTListed
    <3>2. p[1] # t /\ ~PTTwice(p[1])
      BY <1>2, <2>1, <2>2, <3>1, PTTwiceStep
    <3> QED
      BY <1>2, <3>2 DEF PTAdd, PTTypeOK
  <2> QED
    BY <2>1, <2>2 DEF PTJ, PTSpacing
<1>3. ASSUME NEW i \in ptWorkers, PTWorkerEnds(i) PROVE PTPlans'
  BY <1>3 DEF PTWorkerEnds, PTTwice
<1>4. CASE PTBegin
  BY <1>4 DEF PTBegin, PTPhases
<1>5. CASE PTPass
  BY <1>5 DEF PTPass, PTTwice
<1>6. CASE PTKeyError
  BY <1>6 DEF PTKeyError
<1>7. CASE PTDue
  BY <1>7 DEF PTDue, PTTwice
<1>8. CASE PTMarkSerial
  BY <1>8 DEF PTMarkSerial
<1>9. CASE PTCall
  BY <1>9 DEF PTCall
<1>10. CASE PTReturn
  BY <1>10 DEF PTReturn, PTPhases
<1>11. CASE PTPlan
  <2>1. PICK j \in PTJitter(PTSpacing(PTCur)) :
          ptDue' = ptDue \cup {<<PTCur, PTNearestBoundary(ptRead, PTSpacing(PTCur), j), ptPos>>}
    BY <1>11 DEF PTPlan
  <2> DEFINE b == PTNearestBoundary(ptRead, PTSpacing(PTCur), j)
  <2>2. /\ 0 <= b /\ b <= ptClock + PTJ(PTCur)
        /\ ~PTTwice(PTCur) =>
             /\ ptLast[PTCur] # PTMissing
             /\ ptLast[PTCur] # PTNone => ptLast[PTCur] + PTSpacing(PTCur) <= b
    BY <1>11, PTNearest DEF PTPlan
  <2>3. ptDue' = ptDue \cup {<<PTCur, b, ptPos>>}
    BY <2>1
  <2> HIDE DEF b
  <2> QED
    BY <1>11, <2>2, <2>3 DEF PTPlan, PTTwice
<1>12. CASE PTEnd
  BY <1>12 DEF PTEnd
<1>13. CASE PTMarkParallel
  BY <1>13 DEF PTMarkParallel
<1>14. CASE PTPoolFails
  BY <1>14 DEF PTPoolFails
<1>15. CASE PTPool
  BY <1>15 DEF PTPool
<1>16. CASE PTSubmit
  BY <1>16 DEF PTSubmit
<1>17. CASE PTCollect
  BY <1>17 DEF PTCollect
<1>18. CASE PTJoin
  BY <1>18 DEF PTJoin
<1>19. CASE UNCHANGED ptVars
  BY <1>19 DEF ptVars, PTTwice
<1> QED
  BY <1>1, <1>2, <1>3, <1>4, <1>5, <1>6, <1>7, <1>8, <1>9, <1>10,
     <1>11, <1>12, <1>13, <1>14, <1>15, <1>16, <1>17, <1>18, <1>19
     DEF PTNext

\* A count that is not raised stays right.
LEMMA PTKept ==
    ASSUME NEW u \in PTTask, PTTypeOK, PTOnce, PTCounted(u),
           ptLast'[u] = ptLast[u], ptFirst'[u] = ptFirst[u],
           ptClock' \in Nat, ptClock <= ptClock',
           PTStarts(u)' \in 0 .. PTStarts(u)
    PROVE  PTCounted(u)'
<1>1. CASE ptLast[u] \in {PTNone, PTMissing}
  BY <1>1 DEF PTCounted
<1>2. CASE ptLast[u] \notin {PTNone, PTMissing}
  <2>1. u \in PTRunnable
    <3>1. u \in PTListed
      BY <1>2 DEF PTOnce
    <3> QED
      BY <3>1 DEF PTListed, PTTypeOK
  <2>2. PTSpacing(u) \in Nat \ {0} /\ PTJ(u) \in Nat
    BY <2>1, PTSpacings
  <2>3. ptLast[u] \in Int /\ ptFirst[u] \in Int /\ ptClock \in Nat /\ PTStarts(u) \in Nat
    BY DEF PTTypeOK, PTStarts
  <2> DEFINE n == PTStarts(u)
             m == PTStarts(u)'
             s == PTSpacing(u)
  <2>4. m * s <= n * s
    <3>0. n \in Nat /\ m \in 0 .. n /\ s \in Nat
      BY <2>2, <2>3
    <3> HIDE DEF n, m, s
    <3>1. n * s = m * s + (n - m) * s /\ (n - m) * s >= 0
      BY <3>0
    <3>2. m * s \in Int /\ n * s \in Int /\ (n - m) * s \in Int
      BY <3>0
    <3> QED
      BY <3>1, <3>2
  <2>5. m * s \in Int /\ n * s \in Int
    BY <2>2, <2>3
  <2>6. ptFirst[u] + n * s <= ptLast[u] /\ ptLast[u] <= ptClock + PTJ(u)
    BY <1>2 DEF PTCounted
  <2> HIDE DEF n, m, s
  <2>7. ptFirst[u] + m * s <= ptLast[u] /\ ptLast[u] <= ptClock' + PTJ(u)
    BY <2>2, <2>3, <2>4, <2>5, <2>6
  <2> QED
    BY <2>7, <1>2 DEF PTCounted, m, s
<1> QED
  BY <1>1, <1>2

\* Nothing that counts for the task changes.
LEMMA PTStay ==
    ASSUME NEW u \in PTTask, PTTypeOK, PTOnce, PTCounted(u),
           ptLast'[u] = ptLast[u], ptFirst'[u] = ptFirst[u], ptClock' = ptClock,
           PTStarts(u)' = PTStarts(u)
    PROVE  PTCounted(u)'
<1>1. ptClock \in Nat /\ PTStarts(u) \in Nat
  BY DEF PTTypeOK, PTStarts
<1> QED
  BY <1>1, PTKept

\* A boundary a spacing later makes up for one more start.
LEMMA PTRan ==
    ASSUME NEW u \in PTRunnable, PTTypeOK, PTCounted(u),
           NEW b \in Nat, ptLast'[u] = b, ptLast[u] # PTMissing, b <= ptClock + PTJ(u),
           ptFirst'[u] = IF ptLast[u] = PTNone THEN b - PTSpacing(u) ELSE ptFirst[u],
           ptLast[u] # PTNone => ptLast[u] + PTSpacing(u) <= b,
           ptClock' = ptClock,
           PTStarts(u)' = PTStarts(u) + 1
    PROVE  PTCounted(u)'
<1> DEFINE n == PTStarts(u)
           s == PTSpacing(u)
<1>1. s \in Nat \ {0} /\ PTJ(u) \in Nat /\ u \in PTTask
  BY PTSpacings
<1>2. ptLast[u] \in Int /\ ptFirst[u] \in Int /\ n \in Nat /\ ptClock \in Nat
  BY <1>1 DEF PTTypeOK, PTStarts
<1>3. b \notin {PTNone, PTMissing}
  BY DEF PTNone, PTMissing
<1>4. (n + 1) * s = n * s + s /\ n * s \in Int
  <2> HIDE DEF n, s
  <2> QED
    BY <1>1, <1>2
<1>5. CASE ptLast[u] = PTNone
  <2>1. n = 0
    BY <1>5 DEF PTCounted
  <2>2. ptFirst'[u] + (n + 1) * s <= b
    <3>1. ptFirst'[u] = b - s
      BY <1>5
    <3> HIDE DEF n, s
    <3> QED
      BY <3>1, <2>1, <1>1
  <2> QED
    BY <2>2, <1>3 DEF PTCounted
<1>6. CASE ptLast[u] # PTNone
  <2>1. ptFirst[u] + n * s <= ptLast[u] /\ ptLast[u] + s <= b /\ ptFirst'[u] = ptFirst[u]
    BY <1>6 DEF PTCounted
  <2>2. ptFirst'[u] + (n + 1) * s <= b
    <3> HIDE DEF n, s
    <3> QED
      BY <2>1, <1>1, <1>2, <1>4
  <2> QED
    BY <2>2, <1>3 DEF PTCounted
<1> QED
  BY <1>5, <1>6

\* A task that is not started and whose mark stays keeps its count.
LEMMA PTSame ==
    ASSUME NEW u \in PTTask, PTTypeOK, PTOnce, PTCounted(u),
           UNCHANGED <<ptLast, ptFirst, ptClock, ptRuns>>,
           PTPending(u)' => PTPending(u)
    PROVE  PTCounted(u)'
<1>1. PTStarts(u)' \in 0 .. PTStarts(u)
  <2>1. ptRuns[u] \in Nat /\ ptRuns'[u] = ptRuns[u]
    BY DEF PTTypeOK
  <2>2. CASE PTPending(u)'
    BY <2>1, <2>2 DEF PTStarts
  <2>3. CASE ~PTPending(u)'
    BY <2>1, <2>3 DEF PTStarts
  <2> QED
    BY <2>2, <2>3
<1>2. ptClock' \in Nat /\ ptClock <= ptClock' /\ ptLast'[u] = ptLast[u] /\ ptFirst'[u] = ptFirst[u]
  BY DEF PTTypeOK
<1> QED
  BY <1>1, <1>2, PTKept

\* Every step keeps the starts within the periods.
LEMMA PTCountedStep ==
    ASSUME NEW u \in PTTask, ~PTTwice(u), PTTypeOK, PTOnce, PTPhases, PTPlans,
           PTCounted(u), [PTNext]_ptVars, ~PTTwice(u)'
    PROVE  PTCounted(u)'
<1> USE DEF PTGoto, PTLeave, PTAtTask
<1>1. CASE PTTick
  <2>1. ptClock \in Nat /\ ptClock' \in Nat /\ ptClock <= ptClock'
    BY <1>1, PTStepsAssumption DEF PTTick, PTTypeOK
  <2>2. UNCHANGED <<ptLast, ptFirst, ptRuns>> /\ (PTPending(u)' <=> PTPending(u))
    BY <1>1 DEF PTTick, PTPending, PTCur, PTPlanned
  <2>3. PTStarts(u) \in Nat /\ PTStarts(u)' = PTStarts(u)
    BY <2>2 DEF PTStarts, PTTypeOK
  <2> QED
    BY <2>1, <2>2, <2>3, PTKept
<1>2. ASSUME NEW t \in PTTask, PTAdd(t) PROVE PTCounted(u)'
  <2>1. UNCHANGED <<ptFirst, ptRuns, ptClock, ptPc, ptDue, ptPos>>
    BY <1>2 DEF PTAdd
  <2>2. PTPending(u)' <=> PTPending(u)
    <3>1. t \in PTRunnable
      BY <1>2 DEF PTAdd, PTRunnable
    <3>2. ptPc = "call" => PTCur' = PTCur
      BY <1>2, <3>1 DEF PTAdd, PTPhases, PTTypeOK, PTCur
    <3> QED
      BY <2>1, <3>2 DEF PTPending, PTPlanned
  <2>3. PTStarts(u) \in Nat /\ PTStarts(u)' = PTStarts(u)
    BY <2>1, <2>2 DEF PTStarts, PTTypeOK
  <2>4. CASE ptLast'[u] = ptLast[u]
    BY <2>1, <2>3, <2>4, PTStay
  <2>5. CASE ptLast'[u] # ptLast[u]
    <3>1. u = t /\ ptLast'[u] = PTLastOf(u)
      BY <1>2, <2>5 DEF PTAdd, PTTypeOK
    <3>2. ptLast[u] = PTMissing
      BY <1>2, <3>1, PTTwiceStep DEF PTOnce
    <3>3. PTStarts(u)' = 0 /\ ptFirst'[u] = 0
      BY <2>1, <2>3, <3>2 DEF PTCounted
    <3>4. CASE ptLast'[u] = PTNone
      BY <3>3, <3>4 DEF PTCounted
    <3>5. CASE ptLast'[u] = 0
      <4>1. PTSpacing(u) \in Nat /\ PTJ(u) \in Nat
        BY <1>2, <3>1, PTSpacings DEF PTAdd, PTRunnable
      <4>2. ptClock' \in Nat
        BY <2>1 DEF PTTypeOK
      <4>3. 0 + 0 * PTSpacing(u) = 0
        BY <4>1
      <4> QED
        BY <3>3, <3>5, <4>1, <4>2, <4>3 DEF PTCounted, PTNone, PTMissing
    <3> QED
      BY <3>1, <3>4, <3>5 DEF PTLastOf
  <2> QED
    BY <2>4, <2>5
<1>3. ASSUME NEW i \in ptWorkers, PTWorkerEnds(i) PROVE PTCounted(u)'
  <2>1. UNCHANGED <<ptLast, ptFirst, ptClock, ptRuns>>
    BY <1>3 DEF PTWorkerEnds
  <2>2. PTPending(u)' => PTPending(u)
    BY <1>3 DEF PTWorkerEnds, PTPending, PTCur, PTPlanned
  <2> QED
    BY <2>1, <2>2, PTSame
<1>4. CASE PTBegin
  <2>1. UNCHANGED <<ptLast, ptFirst, ptClock, ptRuns>>
    BY <1>4 DEF PTBegin
  <2>2. PTPending(u)' => PTPending(u)
    BY <1>4 DEF PTBegin, PTPending, PTPhases
  <2> QED
    BY <2>1, <2>2, PTSame
<1>5. CASE PTPass
  <2>1. UNCHANGED <<ptLast, ptFirst, ptClock, ptRuns>>
    BY <1>5 DEF PTPass
  <2>2. PTPending(u)' => PTPending(u)
    BY <1>5 DEF PTPass, PTPending, PTPhases
  <2> QED
    BY <2>1, <2>2, PTSame
<1>6. CASE PTKeyError
  <2>1. UNCHANGED <<ptLast, ptFirst, ptClock, ptRuns>>
    BY <1>6 DEF PTKeyError
  <2>2. PTPending(u)' => PTPending(u)
    BY <1>6 DEF PTKeyError, PTPending, PTPhases
  <2> QED
    BY <2>1, <2>2, PTSame
<1>7. CASE PTDue
  <2>1. UNCHANGED <<ptLast, ptFirst, ptClock, ptRuns>>
    BY <1>7 DEF PTDue
  <2>2. PTPending(u)' => PTPending(u)
    BY <1>7 DEF PTDue, PTPending, PTPhases
  <2> QED
    BY <2>1, <2>2, PTSame
<1>8. CASE PTMarkSerial
  <2>1. PICK j \in PTJitter(PTSpacing(PTCur)) :
          PTMark(PTCur, PTNearestBoundary(ptRead, PTSpacing(PTCur), j))
    BY <1>8 DEF PTMarkSerial
  <2> DEFINE b == PTNearestBoundary(ptRead, PTSpacing(PTCur), j)
  <2>2. /\ PTCur \in PTRunnable /\ b \in Nat /\ b <= ptClock + PTJ(PTCur)
        /\ ~PTTwice(PTCur) =>
             /\ ptRead = ptLast[PTCur] /\ ptLast[PTCur] # PTMissing
             /\ ptLast[PTCur] # PTNone => ptLast[PTCur] + PTSpacing(PTCur) <= b
    BY <1>8, PTNearest DEF PTMarkSerial
  <2>3. PTMark(PTCur, b)
    BY <2>1
  <2> HIDE DEF b
  <2>4. UNCHANGED <<ptClock, ptRuns>> /\ PTCur' = PTCur /\ ~PTPending(u)
        /\ (PTPending(u)' <=> PTCur = u)
    BY <1>8 DEF PTMarkSerial, PTPending, PTCur
  <2>5. CASE u = PTCur
    <3>1. ptLast'[u] = b
          /\ ptFirst'[u] = IF ptLast[u] = PTNone THEN b - PTSpacing(u) ELSE ptFirst[u]
      BY <2>2, <2>3, <2>5 DEF PTMark, PTTypeOK
    <3>2. PTStarts(u)' = PTStarts(u) + 1
      BY <2>4, <2>5 DEF PTStarts, PTTypeOK
    <3> QED
      BY <2>2, <2>4, <2>5, <3>1, <3>2, PTRan
  <2>6. CASE u # PTCur
    <3>1. ptLast'[u] = ptLast[u] /\ ptFirst'[u] = ptFirst[u]
      BY <2>3, <2>6 DEF PTMark, PTTypeOK
    <3>2. PTStarts(u)' = PTStarts(u) /\ PTStarts(u) \in Nat
      BY <2>4, <2>6 DEF PTStarts, PTTypeOK
    <3> QED
      BY <2>4, <3>1, <3>2, PTStay
  <2> QED
    BY <2>5, <2>6
<1>9. CASE PTCall
  <2>1. UNCHANGED <<ptClock, ptLast, ptFirst>> /\ ~PTPending(u)' /\ (PTPending(u) <=> PTCur = u)
    BY <1>9 DEF PTCall, PTPending
  <2>2. ptRuns' = [ptRuns EXCEPT ![PTCur] = ptRuns[PTCur] + 1]
    BY <1>9 DEF PTCall
  <2>3. PTStarts(u)' = PTStarts(u) /\ PTStarts(u) \in Nat
    BY <2>1, <2>2 DEF PTStarts, PTTypeOK
  <2> QED
    BY <2>1, <2>3, PTStay
<1>10. CASE PTReturn
  <2>1. UNCHANGED <<ptLast, ptFirst, ptClock, ptRuns>>
    BY <1>10 DEF PTReturn
  <2>2. PTPending(u)' => PTPending(u)
    BY <1>10 DEF PTReturn, PTPending, PTPhases
  <2> QED
    BY <2>1, <2>2, PTSame
<1>11. CASE PTPlan
  <2>1. UNCHANGED <<ptLast, ptFirst, ptClock, ptRuns>>
    BY <1>11 DEF PTPlan
  <2>2. PTPending(u)' => PTPending(u)
    BY <1>11 DEF PTPlan, PTPending, PTPhases
  <2> QED
    BY <2>1, <2>2, PTSame
<1>12. CASE PTEnd
  <2>1. UNCHANGED <<ptLast, ptFirst, ptClock, ptRuns>>
    BY <1>12 DEF PTEnd
  <2>2. PTPending(u)' => PTPending(u)
    BY <1>12 DEF PTEnd, PTPending, PTPhases
  <2> QED
    BY <2>1, <2>2, PTSame
<1>13. CASE PTMarkParallel
  <2>1. UNCHANGED <<ptClock, ptRuns, ptDue>> /\ ~PTPending(u) /\ (PTPending(u)' <=> u \in PTPlanned)
    BY <1>13 DEF PTMarkParallel, PTPending, PTPlanned
  <2>2. CASE u \in PTPlanned
    <3> DEFINE b == PTNextOf(u)
    <3>0. u \in PTMarked
      BY <2>2, PTMarkedOnce
    <3>1. PICK p \in ptDue : p[1] = u /\ p[2] = b
      BY <3>0, PTNextPlanned
    <3>2. /\ b \in Nat /\ ptLast[u] # PTMissing
          /\ ptLast[u] # PTNone => ptLast[u] + PTSpacing(u) <= b
          /\ b <= ptClock + PTJ(u)
      <4>1. ptPc \in {"next", "due"}
        BY <1>13 DEF PTMarkParallel
      <4> QED
        BY <3>1, <4>1 DEF PTPlans, PTTypeOK
    <3>3. u \in PTRunnable
      <4>1. PICK i \in 1 .. Len(ptList) : u = ptList[i]
        BY <1>13, <3>1 DEF PTMarkParallel, PTOnce
      <4> QED
        BY <4>1 DEF PTTypeOK
    <3>4. ptLast'[u] = b
          /\ ptFirst'[u] = IF ptLast[u] = PTNone THEN b - PTSpacing(u) ELSE ptFirst[u]
      BY <1>13, <3>0, PTMarkedParallel
    <3>5. PTStarts(u)' = PTStarts(u) + 1
      BY <2>1, <2>2 DEF PTStarts
    <3> HIDE DEF b
    <3> QED
      BY <2>1, <3>2, <3>3, <3>4, <3>5, PTRan
  <2>3. CASE u \notin PTPlanned
    <3>1. ptLast'[u] = ptLast[u] /\ ptFirst'[u] = ptFirst[u]
      BY <1>13, <2>3, PTMarkedOnce, PTMarkedParallel
    <3>2. PTStarts(u)' = PTStarts(u) /\ PTStarts(u) \in Nat
      BY <2>1, <2>3 DEF PTStarts, PTTypeOK
    <3> QED
      BY <2>1, <3>1, <3>2, PTStay
  <2> QED
    BY <2>2, <2>3
<1>14. CASE PTPoolFails
  <2>1. UNCHANGED <<ptLast, ptFirst, ptClock, ptRuns>>
    BY <1>14 DEF PTPoolFails
  <2>2. PTPending(u)' => PTPending(u)
    BY <1>14 DEF PTPoolFails, PTPending, PTPhases
  <2> QED
    BY <2>1, <2>2, PTSame
<1>15. CASE PTPool
  <2>1. UNCHANGED <<ptLast, ptFirst, ptClock, ptRuns>>
    BY <1>15 DEF PTPool
  <2>2. PTPending(u)' => PTPending(u)
    BY <1>15 DEF PTPool, PTPending, PTPlanned
  <2> QED
    BY <2>1, <2>2, PTSame
<1>16. CASE PTSubmit
  <2>1. PICK p \in ptDue : ptDue' = ptDue \ {p} /\ ptRuns' = [ptRuns EXCEPT ![p[1]] = ptRuns[p[1]] + 1]
    BY <1>16 DEF PTSubmit
  <2>2. UNCHANGED <<ptClock, ptLast, ptFirst>> /\ ptPc = "submit" /\ p[1] \in PTTask
        /\ ptPc' = IF ptDue' = {} THEN "collect" ELSE "submit"
    BY <1>16 DEF PTSubmit, PTTypeOK
  <2>3. PTPending(u) <=> u \in PTPlanned
    BY <2>2 DEF PTPending
  <2>4. PTPending(u)' <=> u \in PTPlanned'
    BY <2>2 DEF PTPending, PTPlanned
  <2>5. u \in PTPlanned' <=> (u \in PTPlanned /\ u # p[1])
    BY <2>1 DEF PTPlanned, PTOnce
  <2>6. p[1] \in PTPlanned
    BY <2>1 DEF PTPlanned
  <2>7. PTStarts(u)' = PTStarts(u) /\ PTStarts(u) \in Nat
    <3>1. ptRuns \in [PTTask -> Nat]
      BY DEF PTTypeOK
    <3>2. CASE u = p[1]
      <4>1. PTPending(u) /\ ~PTPending(u)' /\ ptRuns'[u] = ptRuns[u] + 1
        BY <2>1, <2>3, <2>4, <2>5, <2>6, <3>1, <3>2
      <4> QED
        BY <3>1, <4>1 DEF PTStarts
    <3>3. CASE u # p[1]
      <4>1. (PTPending(u) <=> PTPending(u)') /\ ptRuns'[u] = ptRuns[u]
        BY <2>1, <2>3, <2>4, <2>5, <3>1, <3>3
      <4> QED
        BY <3>1, <4>1 DEF PTStarts
    <3> QED
      BY <3>2, <3>3
  <2> QED
    BY <2>2, <2>7, PTStay
<1>17. CASE PTCollect
  <2>1. UNCHANGED <<ptLast, ptFirst, ptClock, ptRuns>>
    BY <1>17 DEF PTCollect
  <2>2. PTPending(u)' => PTPending(u)
    BY <1>17 DEF PTCollect, PTPending, PTPhases
  <2> QED
    BY <2>1, <2>2, PTSame
<1>18. CASE PTJoin
  <2>1. UNCHANGED <<ptLast, ptFirst, ptClock, ptRuns>>
    BY <1>18 DEF PTJoin
  <2>2. PTPending(u)' => PTPending(u)
    BY <1>18 DEF PTJoin, PTPending, PTPhases
  <2> QED
    BY <2>1, <2>2, PTSame
<1>19. CASE UNCHANGED ptVars
  BY <1>19 DEF ptVars, PTPending, PTPlanned, PTCur, PTCounted, PTStarts
<1> QED
  BY <1>1, <1>2, <1>3, <1>4, <1>5, <1>6, <1>7, <1>8, <1>9, <1>10,
     <1>11, <1>12, <1>13, <1>14, <1>15, <1>16, <1>17, <1>18, <1>19
     DEF PTNext

-----------------------------------------------------------------------------
LEMMA PTInitially == PTInit => PTInv
<1> SUFFICES ASSUME PTInit PROVE PTInv
  OBVIOUS
<1> USE DEF PTInit
<1>1. PTTypeOK
  BY PTClassAssumption DEF PTTypeOK, PTRunnable, PTLastOf, PTNone, PTMissing
<1>2. PTOnce
  BY PTClassAssumption DEF PTOnce, PTListed
<1>3. PTPhases /\ PTPlans
  BY DEF PTPhases, PTPlans
<1>4. ASSUME NEW t \in PTTask PROVE PTCounted(t)
  <2>1. PTStarts(t) = 0 /\ ptFirst[t] = 0 /\ ptClock = 0
    BY DEF PTStarts, PTPending
  <2>2. CASE ptLast[t] \in {PTNone, PTMissing}
    BY <2>1, <2>2 DEF PTCounted
  <2>3. CASE ptLast[t] \notin {PTNone, PTMissing}
    <3>1. t \in PTRunnable
      <4>1. PICK i \in 1 .. Len(PTClassList) : PTClassList[i] = t
        BY <2>3
      <4> QED
        BY <4>1, PTClassAssumption DEF PTRunnable
    <3>2. PTSpacing(t) \in Nat /\ PTJ(t) \in Nat
      BY <3>1, PTSpacings
    <3>3. ptLast[t] = 0
      BY <2>3 DEF PTLastOf
    <3>4. 0 * PTSpacing(t) = 0
      BY <3>2
    <3> QED
      BY <2>1, <2>3, <3>2, <3>3, <3>4 DEF PTCounted
  <2> QED
    BY <2>2, <2>3
<1> QED
  BY <1>1, <1>2, <1>3, <1>4 DEF PTInv

\* What is counted bounds the runs.
LEMMA PTBounds == PTInv => OncePerPeriod
<1> SUFFICES ASSUME PTInv, NEW t \in PTTask, ~PTTwice(t), ptRuns[t] > 0
             PROVE  ptFirst[t] + ptRuns[t] * PTSpacing(t) <= ptClock + PTJ(t)
  BY DEF OncePerPeriod, PTPeriodKept, PTJ
<1>1. PTTypeOK /\ PTOnce /\ PTCounted(t)
  BY DEF PTInv
<1>2. ptRuns[t] \in Nat /\ ptLast[t] \in Int /\ ptFirst[t] \in Int /\ ptClock \in Nat
  BY <1>1 DEF PTTypeOK
<1>3. PTStarts(t) \in {ptRuns[t], ptRuns[t] + 1}
  BY DEF PTStarts
<1>4. ptLast[t] \notin {PTNone, PTMissing}
  BY <1>1, <1>2, <1>3 DEF PTCounted
<1>5. ptFirst[t] + PTStarts(t) * PTSpacing(t) <= ptLast[t] /\ ptLast[t] <= ptClock + PTJ(t)
  BY <1>1, <1>4 DEF PTCounted
<1>6. t \in PTRunnable
  <2>1. t \in PTListed
    BY <1>1, <1>4 DEF PTOnce
  <2> QED
    BY <2>1, <1>1 DEF PTListed, PTTypeOK
<1>7. PTSpacing(t) \in Nat /\ PTJ(t) \in Nat
  BY <1>6, PTSpacings
<1>8. ptRuns[t] * PTSpacing(t) <= PTStarts(t) * PTSpacing(t)
  <2> DEFINE n == ptRuns[t]
             s == PTSpacing(t)
  <2>1. n \in Nat /\ s \in Nat
    BY <1>2, <1>7
  <2>2. CASE PTStarts(t) = n
    BY <2>1, <2>2
  <2>3. CASE PTStarts(t) = n + 1
    <3>1. (n + 1) * s = n * s + s /\ n * s \in Int
      <4> HIDE DEF n, s
      <4> QED
        BY <2>1
    <3> QED
      BY <2>1, <2>3, <3>1
  <2> QED
    BY <1>3, <2>2, <2>3
<1>9. ptRuns[t] * PTSpacing(t) \in Int /\ PTStarts(t) * PTSpacing(t) \in Int
  BY <1>2, <1>3, <1>7
<1> QED
  BY <1>2, <1>5, <1>7, <1>8, <1>9

\* No periodic task that is listed once runs more often than once per spacing, whatever
\* the tasks, their spacings and jitters, however far the clock advances, wherever passes
\* fail and however often other tasks are added again (periodic_task.py).
THEOREM PeriodsKept == PTSpec => []OncePerPeriod
<1>1. PTInv /\ [PTNext]_ptVars => PTInv'
  <2> SUFFICES ASSUME PTInv, [PTNext]_ptVars PROVE PTInv'
    OBVIOUS
  <2>1. PTTypeOK /\ PTOnce /\ PTPhases /\ PTPlans
    BY DEF PTInv
  <2>2. PTTypeOK' /\ PTOnce' /\ PTPhases' /\ PTPlans'
    BY <2>1, PTTypeStep, PTOnceStep, PTPhasesStep, PTPlansStep
  <2>3. ASSUME NEW u \in PTTask, ~PTTwice(u)' PROVE PTCounted(u)'
    <3>1. ~PTTwice(u)
      BY <2>1, <2>3, PTTwiceStep
    <3>2. PTCounted(u)
      BY <3>1 DEF PTInv
    <3> QED
      BY <2>1, <2>3, <3>1, <3>2, PTCountedStep
  <2> QED
    BY <2>2, <2>3 DEF PTInv
<1> QED
  BY PTInitially, PTBounds, <1>1, PTL DEF PTSpec

==============================================================================
