-------------------------- MODULE LoopingCallProofs --------------------------
(***************************************************************************)
(* Proofs about LoopingCall, for any backends, clients and number of runs, *)
(* and for one thread that starts the call: loops do not overlap, outcomes *)
(* go to the right waiters, stop() is prompt and ends no other run, and    *)
(* the looping call implements LoopingRuns.                                *)
(***************************************************************************)
EXTENDS LoopingCall, TLAPS

\* Two threads in start() may both find that no run is active (165): one starts.
OneStarter == \A a, b \in Starters : a = b

Starting == {"create", "clear", "spawn", "link", "assign"}
Unspawned == {"create", "clear", "spawn"}
Ended == {"sent", "fatal", "finished", "over"}

(***************************************************************************)
(* The inductive invariant.  Only the newest run can be in progress: a     *)
(* start() in progress is for it, and without one the future says whether  *)
(* its callback has run.                                                   *)
(***************************************************************************)
StarterOfNewest ==
    \A c \in Client : cpc[c] \in Starting =>
        /\ c \in Starters
        /\ ctarget[c] = nruns /\ nruns > 0
        /\ cpc[c] \in Unspawned <=> loop[nruns] = "none"

OlderAreOver == \A r \in Run : r < nruns => loop[r] = "over"

LaterAreNew ==
    \A r \in Run : r > nruns =>
        loop[r] = "none" /\ event[r] = "unset" /\ ~stopped[r] /\ late[r] = 0

FutureTells ==
    (\A c \in Client : cpc[c] \notin Starting) /\ nruns > 0 =>
        /\ loop[nruns] # "none"
        /\ thread = 0 => loop[nruns] = "over"

EventOfNewest ==
    nruns > 0 /\ (loop[nruns] # "none" \/ \E c \in Client : cpc[c] \in {"clear", "spawn"})
        => done = nruns

\* stop() and the flag: the flag is set for a run if and only if stop() was
\* called during it, from the time at which start() has cleared it.
StoppedIsFlagged ==
    \A r \in Run :
        /\ stopped[r] /\ loop[r] \notin Ended => abort
        /\ stopped[r] => \A c \in Client : cpc[c] \in {"create", "clear"} => r # nruns

FlaggedIsStopped ==
    abort /\ nruns > 0 /\ (BeingSpawned(nruns) \/ loop[nruns] \notin {"none", "finished", "over"})
        => stopped[nruns]

LateOnce ==
    \A r \in Run :
        /\ late[r] # 0 => /\ late[r] = 1 /\ stopped[r] /\ loop[r] # "begin"
                          /\ backend = "threading"
        /\ backend = "eventlet" /\ loop[r] = "begin" => ~stopped[r]

Newest == StarterOfNewest /\ OlderAreOver /\ LaterAreNew /\ FutureTells /\ EventOfNewest
Stops == StoppedIsFlagged /\ FlaggedIsStopped /\ StopIsNotInherited /\ LateOnce

Inv == TypeOK /\ Newest /\ DoneMeansQuiet /\ Stops
-----------------------------------------------------------------------------
\* A loop that is neither new nor over is the newest run's, and has its event.
LEMMA NewestRun ==
    ASSUME TypeOK, Newest, NEW r \in Run, loop[r] \notin {"none", "over"}
    PROVE  r = nruns /\ done = nruns /\ nruns > 0
  BY DEF TypeOK, Newest, OlderAreOver, LaterAreNew, EventOfNewest, Run

LEMMA TypeInit == Init => TypeOK
<1> SUFFICES ASSUME Init PROVE TypeOK
  OBVIOUS
<1>1. /\ backend \in Backends /\ nruns \in 0 .. MaxRuns
      /\ thread \in 0 .. nruns /\ done \in 0 .. nruns
  BY MaxRunsAssumption DEF Init
<1>2. /\ event \in [Run -> Outcomes \cup {"unset"}]
      /\ loop \in [Run -> LoopPhases]
      /\ cpc \in [Client -> ClientPhases]
      /\ ctarget \in [Client -> 0 .. nruns]
      /\ late \in [Run -> 0 .. 2]
  BY DEF Init, LoopPhases, ClientPhases
<1>3. abort \in BOOLEAN /\ linked \in [Run -> BOOLEAN] /\ stopped \in [Run -> BOOLEAN]
  BY DEF Init
<1>4. \A r \in Run : loop[r] = "none"
  BY DEF Init
<1> QED
  BY <1>1, <1>2, <1>3, <1>4 DEF TypeOK

LEMMA TypeStep == TypeOK /\ Newest /\ [Next]_vars => TypeOK'
<1> SUFFICES ASSUME TypeOK, Newest, [Next]_vars PROVE TypeOK'
  OBVIOUS
<1> USE MaxRunsAssumption DEF TypeOK, Outcomes, LoopPhases, ClientPhases
<1>1. ASSUME NEW c \in Client, StartCheck(c) PROVE TypeOK'
  BY <1>1
     DEF StartCheck, ClientAt, ClientGoto, Run
<1>2. ASSUME NEW c \in Client, StartCreate(c) PROVE TypeOK'
  <2>1. ctarget[c] # 0
    BY <1>2 DEF StartCreate, ClientAt, Newest, StarterOfNewest, Starting
  <2> QED
    BY <1>2, <2>1 DEF StartCreate, ClientAt, ClientGoto
<1>3. ASSUME NEW c \in Client, StartClear(c) PROVE TypeOK'
  BY <1>3
     DEF StartClear, ClientAt, ClientGoto, Run
<1>4. ASSUME NEW c \in Client, StartSpawn(c) PROVE TypeOK'
  <2>1. done # 0
    BY <1>4 DEF StartSpawn, ClientAt, Newest, StarterOfNewest, EventOfNewest, Starting
  <2> QED
    BY <1>4, <2>1 DEF StartSpawn, ClientAt, ClientGoto
<1>5. ASSUME NEW c \in Client, StartLink(c) PROVE TypeOK'
  <2>1. linked' \in [Run -> BOOLEAN]
    BY <1>5 DEF StartLink
  <2>2. thread' \in 0 .. nruns
    BY <1>5 DEF StartLink
  <2> QED
    BY <1>5, <2>1, <2>2 DEF StartLink, ClientAt, ClientGoto
<1>6. ASSUME NEW c \in Client, StartAssign(c) PROVE TypeOK'
  BY <1>6
     DEF StartAssign, ClientAt, ClientGoto, Run
<1>7. ASSUME NEW c \in Client, Stop(c) PROVE TypeOK'
  BY <1>7
     DEF Stop, ClientAt, ClientGoto, Run
<1>8. ASSUME NEW c \in Client, WaitBegin(c) PROVE TypeOK'
  BY <1>8
     DEF WaitBegin, ClientAt, ClientGoto, Run
<1>9. ASSUME NEW c \in Client, WaitReturn(c) PROVE TypeOK'
  BY <1>9
     DEF WaitReturn, ClientAt, ClientGoto, Run
<1>10. ASSUME NEW r \in Run, LoopBegin(r) PROVE TypeOK'
  BY <1>10
     DEF LoopBegin, LoopAt, LoopGoto, Run
<1>11. ASSUME NEW r \in Run, LoopWake(r) PROVE TypeOK'
  BY <1>11
     DEF LoopWake, LoopAt, LoopGoto, Run
<1>12. ASSUME NEW r \in Run, LoopCheck(r) PROVE TypeOK'
  BY <1>12
     DEF LoopCheck, LoopAt, LoopGoto, Send, Run
<1>13. ASSUME NEW r \in Run, LoopCall(r) PROVE TypeOK'
  BY <1>13
     DEF LoopCall, LoopAt, LoopGoto, Run
<1>14. ASSUME NEW r \in Run, LoopReturn(r) PROVE TypeOK'
  BY <1>14
     DEF LoopReturn, LoopAt, LoopGoto, Run
<1>15. ASSUME NEW r \in Run, LoopRaise(r) PROVE TypeOK'
  BY <1>15
     DEF LoopRaise, LoopAt, LoopGoto, Send, Run
<1>16. ASSUME NEW r \in Run, LoopRecheck(r) PROVE TypeOK'
  BY <1>16
     DEF LoopRecheck, LoopAt, LoopGoto, Send, Run
<1>17. ASSUME NEW r \in Run, LoopFinish(r) PROVE TypeOK'
  BY <1>17
     DEF LoopFinish, LoopAt, LoopGoto, Run
<1>18. ASSUME NEW r \in Run, OnDone(r) PROVE TypeOK'
  BY <1>18
     DEF OnDone, LoopAt, LoopGoto, Run
<1>19. CASE UNCHANGED vars
  BY <1>19 DEF vars, Run
<1> QED
  BY <1>1, <1>2, <1>3, <1>4, <1>5, <1>6, <1>7, <1>8, <1>9, <1>10, <1>11, <1>12, <1>13, <1>14, <1>15, <1>16, <1>17, <1>18, <1>19 DEF Next, StartStep, LoopStep

LEMMA NewestInit == Init => Newest
  BY MaxRunsAssumption
     DEF Init, Newest, StarterOfNewest, OlderAreOver, LaterAreNew, FutureTells,
         EventOfNewest, Starting, Run

LEMMA NewestStep == OneStarter /\ TypeOK /\ Newest /\ [Next]_vars => Newest'
<1> SUFFICES ASSUME OneStarter, TypeOK, Newest, [Next]_vars PROVE Newest'
  OBVIOUS
<1> USE MaxRunsAssumption
    DEF TypeOK, Newest, StarterOfNewest, OlderAreOver, LaterAreNew, FutureTells,
        EventOfNewest, Starting, Unspawned, Run
<1>1. ASSUME NEW c \in Client, StartCheck(c) PROVE Newest'
  BY <1>1, NewestRun
     DEF StartCheck, ClientAt, ClientGoto, OneStarter
<1>2. ASSUME NEW c \in Client, StartCreate(c) PROVE Newest'
  BY <1>2, NewestRun
     DEF StartCreate, ClientAt, ClientGoto, OneStarter
<1>3. ASSUME NEW c \in Client, StartClear(c) PROVE Newest'
  BY <1>3, NewestRun
     DEF StartClear, ClientAt, ClientGoto, OneStarter
<1>4. ASSUME NEW c \in Client, StartSpawn(c) PROVE Newest'
  BY <1>4, NewestRun
     DEF StartSpawn, ClientAt, ClientGoto, OneStarter
<1>5. ASSUME NEW c \in Client, StartLink(c) PROVE Newest'
  BY <1>5, NewestRun
     DEF StartLink, ClientAt, ClientGoto, OneStarter
<1>6. ASSUME NEW c \in Client, StartAssign(c) PROVE Newest'
  BY <1>6, NewestRun
     DEF StartAssign, ClientAt, ClientGoto, OneStarter
<1>7. ASSUME NEW c \in Client, Stop(c) PROVE Newest'
  BY <1>7
     DEF Stop, ClientAt, Busy, BeingSpawned
<1>8. ASSUME NEW c \in Client, WaitBegin(c) PROVE Newest'
  BY <1>8, NewestRun
     DEF WaitBegin, ClientAt, ClientGoto, OneStarter
<1>9. ASSUME NEW c \in Client, WaitReturn(c) PROVE Newest'
  BY <1>9, NewestRun
     DEF WaitReturn, ClientAt, ClientGoto, OneStarter
<1>10. ASSUME NEW r \in Run, LoopBegin(r) PROVE Newest'
  BY <1>10, NewestRun
     DEF LoopBegin, LoopAt, LoopGoto, OneStarter
<1>11. ASSUME NEW r \in Run, LoopWake(r) PROVE Newest'
  BY <1>11, NewestRun
     DEF LoopWake, LoopAt, LoopGoto, OneStarter
<1>12. ASSUME NEW r \in Run, LoopCheck(r) PROVE Newest'
  BY <1>12, NewestRun
     DEF LoopCheck, LoopAt, LoopGoto, Send, OneStarter
<1>13. ASSUME NEW r \in Run, LoopCall(r) PROVE Newest'
  BY <1>13, NewestRun
     DEF LoopCall, LoopAt, LoopGoto, OneStarter
<1>14. ASSUME NEW r \in Run, LoopReturn(r) PROVE Newest'
  BY <1>14, NewestRun
     DEF LoopReturn, LoopAt, LoopGoto, OneStarter
<1>15. ASSUME NEW r \in Run, LoopRaise(r) PROVE Newest'
  BY <1>15, NewestRun
     DEF LoopRaise, LoopAt, LoopGoto, Send, OneStarter
<1>16. ASSUME NEW r \in Run, LoopRecheck(r) PROVE Newest'
  BY <1>16, NewestRun
     DEF LoopRecheck, LoopAt, LoopGoto, Send, OneStarter
<1>17. ASSUME NEW r \in Run, LoopFinish(r) PROVE Newest'
  BY <1>17, NewestRun
     DEF LoopFinish, LoopAt, LoopGoto, OneStarter
<1>18. ASSUME NEW r \in Run, OnDone(r) PROVE Newest'
  BY <1>18, NewestRun
     DEF OnDone, LoopAt, LoopGoto, OneStarter
<1>19. CASE UNCHANGED vars
  BY <1>19 DEF vars, OneStarter
<1> QED
  BY <1>1, <1>2, <1>3, <1>4, <1>5, <1>6, <1>7, <1>8, <1>9, <1>10, <1>11, <1>12, <1>13, <1>14, <1>15, <1>16, <1>17, <1>18, <1>19 DEF Next, StartStep, LoopStep

LEMMA QuietStep ==
    TypeOK /\ Newest /\ DoneMeansQuiet /\ [Next]_vars => DoneMeansQuiet'
<1> SUFFICES ASSUME TypeOK, Newest, DoneMeansQuiet, [Next]_vars PROVE DoneMeansQuiet'
  OBVIOUS
<1> USE DEF TypeOK, DoneMeansQuiet
<1>1. ASSUME NEW c \in Client, StartCheck(c) PROVE DoneMeansQuiet'
  BY <1>1, NewestRun
     DEF StartCheck, ClientAt, ClientGoto
<1>2. ASSUME NEW c \in Client, StartCreate(c) PROVE DoneMeansQuiet'
  BY <1>2, NewestRun
     DEF StartCreate, ClientAt, ClientGoto
<1>3. ASSUME NEW c \in Client, StartClear(c) PROVE DoneMeansQuiet'
  BY <1>3, NewestRun
     DEF StartClear, ClientAt, ClientGoto
<1>4. ASSUME NEW c \in Client, StartSpawn(c) PROVE DoneMeansQuiet'
  BY <1>4 DEF StartSpawn, ClientAt, Newest, StarterOfNewest, Starting, Unspawned
<1>5. ASSUME NEW c \in Client, StartLink(c) PROVE DoneMeansQuiet'
  BY <1>5, NewestRun
     DEF StartLink, ClientAt, ClientGoto
<1>6. ASSUME NEW c \in Client, StartAssign(c) PROVE DoneMeansQuiet'
  BY <1>6, NewestRun
     DEF StartAssign, ClientAt, ClientGoto
<1>7. ASSUME NEW c \in Client, Stop(c) PROVE DoneMeansQuiet'
  BY <1>7, NewestRun
     DEF Stop, ClientAt, ClientGoto
<1>8. ASSUME NEW c \in Client, WaitBegin(c) PROVE DoneMeansQuiet'
  BY <1>8, NewestRun
     DEF WaitBegin, ClientAt, ClientGoto
<1>9. ASSUME NEW c \in Client, WaitReturn(c) PROVE DoneMeansQuiet'
  BY <1>9, NewestRun
     DEF WaitReturn, ClientAt, ClientGoto
<1>10. ASSUME NEW r \in Run, LoopBegin(r) PROVE DoneMeansQuiet'
  BY <1>10, NewestRun
     DEF LoopBegin, LoopAt, LoopGoto
<1>11. ASSUME NEW r \in Run, LoopWake(r) PROVE DoneMeansQuiet'
  BY <1>11, NewestRun
     DEF LoopWake, LoopAt, LoopGoto
<1>12. ASSUME NEW r \in Run, LoopCheck(r) PROVE DoneMeansQuiet'
  BY <1>12, NewestRun
     DEF LoopCheck, LoopAt, LoopGoto, Send
<1>13. ASSUME NEW r \in Run, LoopCall(r) PROVE DoneMeansQuiet'
  BY <1>13, NewestRun
     DEF LoopCall, LoopAt, LoopGoto
<1>14. ASSUME NEW r \in Run, LoopReturn(r) PROVE DoneMeansQuiet'
  BY <1>14, NewestRun
     DEF LoopReturn, LoopAt, LoopGoto
<1>15. ASSUME NEW r \in Run, LoopRaise(r) PROVE DoneMeansQuiet'
  BY <1>15, NewestRun
     DEF LoopRaise, LoopAt, LoopGoto, Send
<1>16. ASSUME NEW r \in Run, LoopRecheck(r) PROVE DoneMeansQuiet'
  BY <1>16, NewestRun
     DEF LoopRecheck, LoopAt, LoopGoto, Send
<1>17. ASSUME NEW r \in Run, LoopFinish(r) PROVE DoneMeansQuiet'
  BY <1>17, NewestRun
     DEF LoopFinish, LoopAt, LoopGoto
<1>18. ASSUME NEW r \in Run, OnDone(r) PROVE DoneMeansQuiet'
  BY <1>18, NewestRun
     DEF OnDone, LoopAt, LoopGoto
<1>19. CASE UNCHANGED vars
  BY <1>19 DEF vars
<1> QED
  BY <1>1, <1>2, <1>3, <1>4, <1>5, <1>6, <1>7, <1>8, <1>9, <1>10, <1>11, <1>12, <1>13, <1>14, <1>15, <1>16, <1>17, <1>18, <1>19 DEF Next, StartStep, LoopStep

LEMMA StopsStep ==
    OneStarter /\ TypeOK /\ Newest /\ Stops /\ [Next]_vars => Stops'
<1> SUFFICES ASSUME OneStarter, TypeOK, Newest, Stops, [Next]_vars PROVE Stops'
  OBVIOUS
<1> USE MaxRunsAssumption
    DEF TypeOK, Newest, StarterOfNewest, OlderAreOver, LaterAreNew, Starting, Unspawned,
        Stops, StoppedIsFlagged, FlaggedIsStopped, StopIsNotInherited, LateOnce,
        BeingSpawned, Ended, Run
<1>1. ASSUME NEW c \in Client, StartCheck(c) PROVE Stops'
  BY <1>1, NewestRun
     DEF StartCheck, ClientAt, ClientGoto
<1>2. ASSUME NEW c \in Client, StartCreate(c) PROVE Stops'
  BY <1>2, NewestRun
     DEF StartCreate, ClientAt, ClientGoto
<1>3. ASSUME NEW c \in Client, StartClear(c) PROVE Stops'
  BY <1>3, NewestRun
     DEF StartClear, ClientAt, ClientGoto
<1>4. ASSUME NEW c \in Client, StartSpawn(c) PROVE Stops'
  BY <1>4, NewestRun
     DEF StartSpawn, ClientAt, ClientGoto
<1>5. ASSUME NEW c \in Client, StartLink(c) PROVE Stops'
  BY <1>5, NewestRun
     DEF StartLink, ClientAt, ClientGoto
<1>6. ASSUME NEW c \in Client, StartAssign(c) PROVE Stops'
  BY <1>6, NewestRun
     DEF StartAssign, ClientAt, ClientGoto
<1>7. ASSUME NEW c \in Client, Stop(c) PROVE Stops'
  <2>1. /\ abort' = TRUE
        /\ \A r \in Run : stopped'[r] <=> stopped[r] \/ Busy(r) \/ BeingSpawned(r)
        /\ UNCHANGED <<backend, nruns, event, loop, cpc, ctarget, late>>
    BY <1>7 DEF Stop
  <2>2. StoppedIsFlagged'
    BY <2>1 DEF Busy, OneStarter
  <2>3. FlaggedIsStopped'
    BY <2>1 DEF Busy
  <2>4. StopIsNotInherited'
    BY <2>1
  <2>5. backend = "eventlet" => \A r \in Run : loop[r] # "begin"
    BY <1>7 DEF Stop, ClientAt, ClientMayRun, LoopsPaused, LoopYields
  <2>6. LateOnce'
    BY <2>1, <2>5
  <2> QED
    BY <2>2, <2>3, <2>4, <2>6
<1>8. ASSUME NEW c \in Client, WaitBegin(c) PROVE Stops'
  BY <1>8, NewestRun
     DEF WaitBegin, ClientAt, ClientGoto
<1>9. ASSUME NEW c \in Client, WaitReturn(c) PROVE Stops'
  BY <1>9, NewestRun
     DEF WaitReturn, ClientAt, ClientGoto
<1>10. ASSUME NEW r \in Run, LoopBegin(r) PROVE Stops'
  BY <1>10, NewestRun
     DEF LoopBegin, LoopAt, LoopGoto
<1>11. ASSUME NEW r \in Run, LoopWake(r) PROVE Stops'
  <2>1. StoppedIsFlagged'
    BY <1>11, NewestRun DEF LoopWake, LoopAt, LoopGoto
  <2>2. FlaggedIsStopped'
    BY <1>11, NewestRun DEF LoopWake, LoopAt, LoopGoto
  <2>3. StopIsNotInherited'
    BY <1>11, NewestRun DEF LoopWake, LoopAt, LoopGoto
  <2>4. LateOnce'
    BY <1>11, NewestRun DEF LoopWake, LoopAt, LoopGoto
  <2> QED
    BY <2>1, <2>2, <2>3, <2>4
<1>12. ASSUME NEW r \in Run, LoopCheck(r) PROVE Stops'
  <2>1. StoppedIsFlagged'
    BY <1>12, NewestRun DEF LoopCheck, LoopAt, LoopGoto, Send
  <2>2. FlaggedIsStopped'
    BY <1>12, NewestRun DEF LoopCheck, LoopAt, LoopGoto, Send
  <2>3. StopIsNotInherited'
    BY <1>12, NewestRun DEF LoopCheck, LoopAt, LoopGoto, Send
  <2>4. LateOnce'
    BY <1>12, NewestRun DEF LoopCheck, LoopAt, LoopGoto, Send
  <2> QED
    BY <2>1, <2>2, <2>3, <2>4
<1>13. ASSUME NEW r \in Run, LoopCall(r) PROVE Stops'
  <2>1. /\ loop[r] = "begin" /\ late[r] = 0
        /\ loop' = [loop EXCEPT ![r] = "call"]
        /\ UNCHANGED <<backend, nruns, abort, event, cpc, ctarget, stopped>>
    BY <1>13 DEF LoopCall, LoopAt, LoopGoto
  <2>2. late' = [late EXCEPT ![r] = IF stopped[r] THEN 1 ELSE 0]
    BY <1>13, <2>1 DEF LoopCall
  <2>3. StoppedIsFlagged'
    BY <2>1
  <2>4. FlaggedIsStopped'
    BY <2>1, NewestRun
  <2>5. StopIsNotInherited'
    BY <2>1
  <2>6. backend \in {"threading", "eventlet"}
    BY BackendsAssumption
  <2>7. LateOnce'
    BY <2>1, <2>2, <2>6
  <2> QED
    BY <2>3, <2>4, <2>5, <2>7
<1>14. ASSUME NEW r \in Run, LoopReturn(r) PROVE Stops'
  BY <1>14, NewestRun
     DEF LoopReturn, LoopAt, LoopGoto
<1>15. ASSUME NEW r \in Run, LoopRaise(r) PROVE Stops'
  BY <1>15, NewestRun
     DEF LoopRaise, LoopAt, LoopGoto, Send
<1>16. ASSUME NEW r \in Run, LoopRecheck(r) PROVE Stops'
  BY <1>16, NewestRun
     DEF LoopRecheck, LoopAt, LoopGoto, Send
<1>17. ASSUME NEW r \in Run, LoopFinish(r) PROVE Stops'
  BY <1>17, NewestRun
     DEF LoopFinish, LoopAt, LoopGoto
<1>18. ASSUME NEW r \in Run, OnDone(r) PROVE Stops'
  BY <1>18, NewestRun
     DEF OnDone, LoopAt, LoopGoto
<1>19. CASE UNCHANGED vars
  BY <1>19 DEF vars
<1> QED
  BY <1>1, <1>2, <1>3, <1>4, <1>5, <1>6, <1>7, <1>8, <1>9, <1>10, <1>11, <1>12, <1>13, <1>14, <1>15, <1>16, <1>17, <1>18, <1>19 DEF Next, StartStep, LoopStep

LEMMA RestInit == Init => DoneMeansQuiet /\ Stops
<1> SUFFICES ASSUME Init PROVE DoneMeansQuiet /\ Stops
  OBVIOUS
<1>1. \A r \in Run : event[r] = "unset" /\ ~stopped[r] /\ late[r] = 0 /\ loop[r] = "none"
  BY DEF Init
<1>2. abort = FALSE
  BY DEF Init
<1> QED
  BY <1>1, <1>2 DEF DoneMeansQuiet, Stops, StoppedIsFlagged, FlaggedIsStopped,
       StopIsNotInherited, LateOnce

\* The inductive invariant of a looping call that one thread starts.
THEOREM Invariant == ASSUME OneStarter PROVE Spec => []Inv
<1>1. Init => Inv
  BY TypeInit, NewestInit, RestInit DEF Inv
<1>2. Inv /\ [Next]_vars => Inv'
  BY TypeStep, NewestStep, QuietStep, StopsStep DEF Inv
<1> QED
  BY <1>1, <1>2, PTL DEF Spec

\* The types are kept, and a loop that runs finds an event in self.done.
THEOREM TypesKept == ASSUME OneStarter PROVE Spec => []TypeOK
<1>1. Inv => TypeOK
  BY DEF Inv
<1> QED
  BY <1>1, Invariant, PTL

\* A looping call never runs two loops at once, on any backend, whatever the
\* other threads stop and wait for.
THEOREM LoopsDoNotOverlap == ASSUME OneStarter PROVE Spec => []OneLoop
<1>1. Inv => OneLoop
  BY NewestRun DEF Inv, OneLoop, Busy
<1> QED
  BY <1>1, Invariant, PTL

\* A run whose outcome was told does not call its function again.
THEOREM ToldIsQuiet == ASSUME OneStarter PROVE Spec => []DoneMeansQuiet
<1>1. Inv => DoneMeansQuiet
  BY DEF Inv
<1> QED
  BY <1>1, Invariant, PTL

\* After stop() the function is called at most once more, and not at all with
\* eventlet.
THEOREM StopTakesEffect == ASSUME OneStarter PROVE Spec => []StopIsPrompt
<1>1. Inv => StopIsPrompt
  BY BackendsAssumption DEF Inv, TypeOK, Stops, LateOnce, StopIsPrompt
<1> QED
  BY <1>1, Invariant, PTL

\* A stop() ends the run it was called in and no other.
THEOREM StopStaysInItsRun == ASSUME OneStarter PROVE Spec => []StopIsNotInherited
<1>1. Inv => StopIsNotInherited
  BY DEF Inv, Stops
<1> QED
  BY <1>1, Invariant, PTL

-----------------------------------------------------------------------------
(***************************************************************************)
(* Waiters.  A client waits for a run that was spawned or is about to be,  *)
(* and a loop that ends otherwise than by a BaseException has told.        *)
(***************************************************************************)
Begun(r) ==
    /\ r \in Run
    /\ loop[r] = "none" =>
         \E c \in Client : cpc[c] \in {"clear", "spawn"} /\ ctarget[c] = r

WaitersHaveRun == \A c \in Client : cpc[c] = "blocked" => Begun(ctarget[c])

SentIsTold == \A r \in Run : loop[r] = "sent" => event[r] # "unset"

Waiters == (done # 0 => Begun(done)) /\ WaitersHaveRun /\ SentIsTold

\* A step of a loop that sends its outcome, or goes on, keeps this.
LEMMA SendsToOwn ==
    ASSUME TypeOK, Newest, Waiters, NEW r \in Run, loop[r] \notin {"none", "over"},
           UNCHANGED <<done, cpc, ctarget>>,
           \/ \E o \in Outcomes : Send(r, o)
           \/ \E l \in LoopPhases \ {"none", "sent"} : LoopGoto(r, l) /\ UNCHANGED event
    PROVE  Waiters'
<1> USE DEF TypeOK, Waiters, Begun, WaitersHaveRun, SentIsTold, LoopGoto, Send
<1>1. \A q \in Run : loop[q] # "none" => loop'[q] # "none"
  BY DEF LoopPhases
<1>2. \A q : Begun(q) => Begun(q)'
  BY <1>1
<1>3. SentIsTold'
  BY NewestRun DEF Outcomes, LoopPhases
<1> QED
  BY <1>2, <1>3

\* Each step keeps this: a loop sends to the newest run's event, which is its own.
LEMMA WaitersStep ==
    OneStarter /\ TypeOK /\ Newest /\ Waiters /\ [Next]_vars => Waiters'
<1> SUFFICES ASSUME OneStarter, TypeOK, Newest, Waiters, [Next]_vars PROVE Waiters'
  OBVIOUS
<1> USE MaxRunsAssumption
    DEF TypeOK, Newest, StarterOfNewest, Starting, Unspawned, Waiters, Begun,
        WaitersHaveRun, SentIsTold, OneStarter, Run, Outcomes
<1>0. ASSUME UNCHANGED <<loop, event, done>>,
             \A d \in Client : cpc[d] \in {"clear", "spawn"} =>
                 cpc'[d] \in {"clear", "spawn"} /\ ctarget'[d] = ctarget[d],
             \A d \in Client : cpc'[d] = "blocked" =>
                 \/ cpc[d] = "blocked" /\ ctarget'[d] = ctarget[d]
                 \/ ctarget'[d] = done /\ done # 0
      PROVE  Waiters'
  <2>1. ASSUME NEW q, Begun(q) PROVE Begun(q)'
    <3>1. CASE loop[q] # "none"
      BY <1>0, <2>1, <3>1
    <3>2. CASE loop[q] = "none"
      <4>1. PICK d \in Client : cpc[d] \in {"clear", "spawn"} /\ ctarget[d] = q
        BY <2>1, <3>2
      <4>2. cpc'[d] \in {"clear", "spawn"} /\ ctarget'[d] = q
        BY <1>0, <4>1
      <4> QED
        BY <1>0, <2>1, <4>2
    <3> QED
      BY <3>1, <3>2
  <2>2. ASSUME NEW d \in Client, cpc'[d] = "blocked" PROVE Begun(ctarget[d])'
    <3>1. Begun(ctarget'[d])
      BY <1>0, <2>2
    <3> QED
      BY <3>1, <2>1
  <2>3. WaitersHaveRun'
    BY <2>2
  <2>4. (done # 0 => Begun(done))'
    BY <1>0, <2>1
  <2>5. SentIsTold'
    BY <1>0
  <2> QED
    BY <2>3, <2>4, <2>5
<1>1. ASSUME NEW c \in Client, StartCheck(c) PROVE Waiters'
  <2>1. /\ UNCHANGED <<loop, event, done>>
        /\ cpc[c] = "ready" /\ cpc' = [cpc EXCEPT ![c] = "create"]
        /\ \A d \in Client : d # c => ctarget'[d] = ctarget[d]
    BY <1>1 DEF StartCheck, ClientAt, ClientGoto
  <2> QED
    BY <2>1, <1>0
<1>2. ASSUME NEW c \in Client, StartCreate(c) PROVE Waiters'
  BY <1>2, NewestRun
     DEF StartCreate, ClientAt, ClientGoto
<1>3. ASSUME NEW c \in Client, StartClear(c) PROVE Waiters'
  BY <1>3, NewestRun
     DEF StartClear, ClientAt, ClientGoto
<1>4. ASSUME NEW c \in Client, StartSpawn(c) PROVE Waiters'
  BY <1>4, NewestRun
     DEF StartSpawn, ClientAt, ClientGoto
<1>5. ASSUME NEW c \in Client, StartLink(c) PROVE Waiters'
  BY <1>5, NewestRun
     DEF StartLink, ClientAt, ClientGoto
<1>6. ASSUME NEW c \in Client, StartAssign(c) PROVE Waiters'
  <2>1. /\ UNCHANGED <<loop, event, done, ctarget>>
        /\ cpc[c] = "assign" /\ cpc' = [cpc EXCEPT ![c] = "ready"]
    BY <1>6 DEF StartAssign, ClientAt, ClientGoto
  <2> QED
    BY <2>1, <1>0
<1>7. ASSUME NEW c \in Client, Stop(c) PROVE Waiters'
  BY <1>7, <1>0 DEF Stop
<1>8. ASSUME NEW c \in Client, WaitBegin(c) PROVE Waiters'
  <2>1. /\ UNCHANGED <<loop, event, done>> /\ done # 0
        /\ cpc[c] = "ready" /\ cpc' = [cpc EXCEPT ![c] = "blocked"]
        /\ ctarget' = [ctarget EXCEPT ![c] = done]
    BY <1>8 DEF WaitBegin, ClientAt, ClientGoto
  <2> QED
    BY <2>1, <1>0
<1>9. ASSUME NEW c \in Client, WaitReturn(c) PROVE Waiters'
  <2>1. /\ UNCHANGED <<loop, event, done, ctarget>>
        /\ cpc[c] = "blocked" /\ cpc' = [cpc EXCEPT ![c] = "ready"]
    BY <1>9 DEF WaitReturn, ClientAt, ClientGoto
  <2> QED
    BY <2>1, <1>0
<1>10. ASSUME NEW r \in Run, LoopBegin(r) PROVE Waiters'
  BY <1>10, NewestRun
     DEF LoopBegin, LoopAt, LoopGoto
<1>11. ASSUME NEW r \in Run, LoopWake(r) PROVE Waiters'
  BY <1>11, NewestRun
     DEF LoopWake, LoopAt, LoopGoto
<1>12. ASSUME NEW r \in Run, LoopCheck(r) PROVE Waiters'
  BY <1>12, SendsToOwn DEF LoopCheck, LoopAt, LoopGoto, Send
<1>13. ASSUME NEW r \in Run, LoopCall(r) PROVE Waiters'
  BY <1>13, NewestRun
     DEF LoopCall, LoopAt, LoopGoto
<1>14. ASSUME NEW r \in Run, LoopReturn(r) PROVE Waiters'
  BY <1>14, NewestRun
     DEF LoopReturn, LoopAt, LoopGoto
<1>15. ASSUME NEW r \in Run, LoopRaise(r) PROVE Waiters'
  <2>1. loop[r] = "call" /\ UNCHANGED <<done, cpc, ctarget>>
    BY <1>15 DEF LoopRaise, LoopAt
  <2>2. \/ \E o \in Outcomes : Send(r, o)
        \/ \E l \in LoopPhases \ {"none", "sent"} : LoopGoto(r, l) /\ UNCHANGED event
    BY <1>15 DEF LoopRaise, LoopPhases
  <2> QED
    BY <2>1, <2>2, SendsToOwn
<1>16. ASSUME NEW r \in Run, LoopRecheck(r) PROVE Waiters'
  BY <1>16, SendsToOwn DEF LoopRecheck, LoopAt, LoopGoto, Send
<1>17. ASSUME NEW r \in Run, LoopFinish(r) PROVE Waiters'
  BY <1>17, NewestRun
     DEF LoopFinish, LoopAt, LoopGoto
<1>18. ASSUME NEW r \in Run, OnDone(r) PROVE Waiters'
  BY <1>18, NewestRun
     DEF OnDone, LoopAt, LoopGoto
<1>19. CASE UNCHANGED vars
  BY <1>19 DEF vars
<1> QED
  BY <1>1, <1>2, <1>3, <1>4, <1>5, <1>6, <1>7, <1>8, <1>9, <1>10, <1>11, <1>12,
     <1>13, <1>14, <1>15, <1>16, <1>17, <1>18, <1>19 DEF Next, StartStep, LoopStep

\* Nobody waits for a run that start() never gets to spawn: start() publishes the
\* event of a run (168) only when its loop follows (174), and wait() takes no other.
THEOREM WaitersAreWaiting == ASSUME OneStarter PROVE Spec => []WaitersHaveRun
<1>1. Init => Waiters
  BY DEF Init, Waiters, WaitersHaveRun, SentIsTold
<1>2. Waiters => WaitersHaveRun
  BY DEF Waiters
<1> QED
  BY <1>1, <1>2, WaitersStep, Invariant, PTL DEF Inv, Spec

\* A run that finishes untold is one that a BaseException has ended.
UntoldIsFatal ==
    [][\A r \in Run : event[r] = "unset" /\ loop[r] # "finished" /\ loop'[r] = "finished"
                       => loop[r] = "fatal"]_vars

\* The only run that ends with its waiters untold is one whose function raised a
\* BaseException other than Exception (210-225): the safety half of
\* StoppedWaitReturns.
THEOREM OnlyFatalIsSilent == ASSUME OneStarter PROVE Spec => UntoldIsFatal
<1> DEFINE A == \A r \in Run :
      event[r] = "unset" /\ loop[r] # "finished" /\ loop'[r] = "finished" => loop[r] = "fatal"
<1>1. Init => Waiters
  BY DEF Init, Waiters, WaitersHaveRun, SentIsTold
<1>2. Inv /\ Waiters /\ [Next]_vars => A
  <2> SUFFICES ASSUME TypeOK, SentIsTold, [Next]_vars, NEW r \in Run, loop[r] # "finished",
                      loop'[r] = "finished", event[r] = "unset"
               PROVE  loop[r] = "fatal"
    BY DEF Inv, Waiters
  <2>1. loop' # loop
    OBVIOUS
  <2>2. ~\E c \in Client : StartSpawn(c)
    BY DEF StartSpawn, TypeOK
  <2>3. PICK s \in Run : LoopStep(s)
    BY <2>1, <2>2 DEF Next, StartCheck, StartStep, StartCreate, StartClear, StartLink,
       StartAssign, Stop, WaitBegin, WaitReturn, vars
  <2>4. s = r /\ LoopFinish(r)
    BY <2>3 DEF LoopStep, LoopBegin, LoopWake, LoopCheck, LoopCall, LoopReturn, LoopRaise,
       LoopRecheck, LoopFinish, OnDone, LoopGoto, Send, TypeOK
  <2> QED
    BY <2>4 DEF LoopFinish, LoopAt, SentIsTold
<1> QED
  BY <1>1, <1>2, WaitersStep, Invariant, PTL DEF Inv, Spec, UntoldIsFatal
-----------------------------------------------------------------------------
(***************************************************************************)
(* With eventlet nothing yields from the spawn to the assignment, so that  *)
(* the future is there before its loop runs and its callback takes it out. *)
(***************************************************************************)
FutureLeaves ==
    backend = "eventlet" =>
        /\ \A c \in Client : cpc[c] \in {"link", "assign"} => loop[nruns] = "spawned"
        /\ \A c \in Client : cpc[c] = "assign" => linked[nruns]
        /\ (\A c \in Client : cpc[c] \notin Starting) /\ thread # 0 =>
             thread = nruns /\ linked[nruns] /\ loop[nruns] \notin {"none", "over"}

\* Each step keeps this.
LEMMA FutureStep ==
    OneStarter /\ TypeOK /\ Newest /\ FutureLeaves /\ [Next]_vars => FutureLeaves'
<1> SUFFICES ASSUME OneStarter, TypeOK, Newest, FutureLeaves, [Next]_vars PROVE FutureLeaves'
  OBVIOUS
<1> USE MaxRunsAssumption
    DEF TypeOK, Newest, StarterOfNewest, Starting, Unspawned, FutureLeaves, OneStarter,
        Run, ClientYields, ClientsPaused, LoopsPaused, LoopYields
<1>1. ASSUME NEW c \in Client, StartCheck(c) PROVE FutureLeaves'
  BY <1>1, NewestRun
     DEF StartCheck, ClientAt, ClientGoto, ClientMayRun
<1>2. ASSUME NEW c \in Client, StartCreate(c) PROVE FutureLeaves'
  BY <1>2, NewestRun
     DEF StartCreate, ClientAt, ClientGoto, ClientMayRun
<1>3. ASSUME NEW c \in Client, StartClear(c) PROVE FutureLeaves'
  BY <1>3, NewestRun
     DEF StartClear, ClientAt, ClientGoto, ClientMayRun
<1>4. ASSUME NEW c \in Client, StartSpawn(c) PROVE FutureLeaves'
  BY <1>4, NewestRun
     DEF StartSpawn, ClientAt, ClientGoto, ClientMayRun
<1>5. ASSUME NEW c \in Client, StartLink(c) PROVE FutureLeaves'
  BY <1>5, NewestRun
     DEF StartLink, ClientAt, ClientGoto, ClientMayRun
<1>6. ASSUME NEW c \in Client, StartAssign(c) PROVE FutureLeaves'
  BY <1>6, NewestRun
     DEF StartAssign, ClientAt, ClientGoto, ClientMayRun
<1>7. ASSUME NEW c \in Client, Stop(c) PROVE FutureLeaves'
  BY <1>7, NewestRun
     DEF Stop, ClientAt, ClientGoto, ClientMayRun
<1>8. ASSUME NEW c \in Client, WaitBegin(c) PROVE FutureLeaves'
  BY <1>8, NewestRun
     DEF WaitBegin, ClientAt, ClientGoto, ClientMayRun
<1>9. ASSUME NEW c \in Client, WaitReturn(c) PROVE FutureLeaves'
  BY <1>9, NewestRun
     DEF WaitReturn, ClientAt, ClientGoto, ClientMayRun
<1>10. ASSUME NEW r \in Run, LoopBegin(r) PROVE FutureLeaves'
  <2>1. PICK l \in {"delay", "check"} : loop' = [loop EXCEPT ![r] = l]
    BY <1>10 DEF LoopBegin, LoopGoto
  <2>2. backend = "eventlet" => \A c \in Client : cpc[c] \notin Starting
    BY <1>10 DEF LoopBegin, LoopAt, LoopMayRun
  <2>3. UNCHANGED <<backend, nruns, thread, linked, cpc>>
    BY <1>10 DEF LoopBegin
  <2>4. nruns \in Run => loop'[nruns] = loop[nruns] \/ loop'[nruns] \in {"delay", "check"}
    BY <2>1
  <2> QED
    BY <2>2, <2>3, <2>4
<1>11. ASSUME NEW r \in Run, LoopWake(r) PROVE FutureLeaves'
  BY <1>11, NewestRun
     DEF LoopWake, LoopAt, LoopGoto, LoopMayRun
<1>12. ASSUME NEW r \in Run, LoopCheck(r) PROVE FutureLeaves'
  BY <1>12, NewestRun
     DEF LoopCheck, LoopAt, LoopGoto, Send, LoopMayRun
<1>13. ASSUME NEW r \in Run, LoopCall(r) PROVE FutureLeaves'
  BY <1>13, NewestRun
     DEF LoopCall, LoopAt, LoopGoto, LoopMayRun
<1>14. ASSUME NEW r \in Run, LoopReturn(r) PROVE FutureLeaves'
  BY <1>14, NewestRun
     DEF LoopReturn, LoopAt, LoopGoto, LoopMayRun
<1>15. ASSUME NEW r \in Run, LoopRaise(r) PROVE FutureLeaves'
  BY <1>15, NewestRun
     DEF LoopRaise, LoopAt, LoopGoto, Send, LoopMayRun
<1>16. ASSUME NEW r \in Run, LoopRecheck(r) PROVE FutureLeaves'
  BY <1>16, NewestRun
     DEF LoopRecheck, LoopAt, LoopGoto, Send, LoopMayRun
<1>17. ASSUME NEW r \in Run, LoopFinish(r) PROVE FutureLeaves'
  BY <1>17, NewestRun
     DEF LoopFinish, LoopAt, LoopGoto, LoopMayRun
<1>18. ASSUME NEW r \in Run, OnDone(r) PROVE FutureLeaves'
  BY <1>18, NewestRun
     DEF OnDone, LoopAt, LoopGoto, LoopMayRun
<1>19. CASE UNCHANGED vars
  BY <1>19 DEF vars, ClientMayRun
<1> QED
  BY <1>1, <1>2, <1>3, <1>4, <1>5, <1>6, <1>7, <1>8, <1>9, <1>10, <1>11, <1>12,
     <1>13, <1>14, <1>15, <1>16, <1>17, <1>18, <1>19 DEF Next, StartStep, LoopStep

\* Startable wherever an eventlet client can be between two operations.
EventletStartable == backend = "eventlet" /\ ClientsPaused({}) => Startable

\* With eventlet, whenever start() is not in progress, a looping call can be started
\* or a loop is under way that will make it so (147-174): the safety half of
\* EventletRestartable.
THEOREM StaysStartable == ASSUME OneStarter PROVE Spec => []EventletStartable
<1>1. Init => FutureLeaves
  BY DEF Init, FutureLeaves
<1>2. Inv /\ FutureLeaves => EventletStartable
  BY DEF Inv, TypeOK, FutureLeaves, EventletStartable, ClientsPaused, ClientYields, Starting,
     Startable, Busy, Run
<1> QED
  BY <1>1, <1>2, FutureStep, Invariant, PTL DEF Inv, Spec
-----------------------------------------------------------------------------
\* The refinement.  The phase of a run moves only with its loop, and when
\* start() is about to spawn it.
PhaseAt(l) ==
    CASE l = "call" -> "calling"
      [] l \in Ended -> "ended"
      [] OTHER -> "active"

phases == [r \in Run |-> Phase(r)]

LEMMA PhaseMoves ==
    ASSUME TypeOK, NEW r \in Run, NEW l \in LoopPhases \ {"none"}, loop[r] # "none",
           LoopGoto(r, l), UNCHANGED <<cpc, ctarget>>
    PROVE  /\ phases[r] = PhaseAt(loop[r])
           /\ phases' = [phases EXCEPT ![r] = PhaseAt(l)]
<1>1. \A s \in Run : loop'[s] = IF s = r THEN l ELSE loop[s]
  BY DEF LoopGoto, TypeOK
<1>2. \A s \in Run : BeingSpawned(s)' <=> BeingSpawned(s)
  BY DEF BeingSpawned
<1>3. Phase(r) = PhaseAt(loop[r]) /\ Phase(r)' = PhaseAt(l)
  BY <1>1 DEF Phase, PhaseAt, Ended
<1>4. \A s \in Run \ {r} : Phase(s)' = Phase(s)
  BY <1>1, <1>2 DEF Phase
<1> QED
  BY <1>3, <1>4 DEF phases

\* A step of a client outside of the spawning moves no phase.
LEMMA PhasesStay ==
    ASSUME UNCHANGED loop, \A r \in Run : BeingSpawned(r)' <=> BeingSpawned(r)
    PROVE  phases' = phases
<1>1. \A r \in Run : Phase(r)' = Phase(r)
  BY DEF Phase
<1> QED
  BY <1>1 DEF phases

\* Only the newest run is active, and what that means.
LEMMA ActiveRuns ==
    ASSUME TypeOK, Newest
    PROVE  \A r \in Run :
             /\ BeingSpawned(r) => r = nruns /\ loop[r] = "none"
             /\ Phase(r) \in {"active", "calling"} => r = nruns /\ (Busy(r) \/ BeingSpawned(r))
             /\ Phase(r) = "new" => ~Busy(r) /\ ~BeingSpawned(r)
             /\ Phase(r) \in {"new", "active", "calling", "ended"}
<1> SUFFICES ASSUME NEW r \in Run
             PROVE  /\ BeingSpawned(r) => r = nruns /\ loop[r] = "none"
                    /\ Phase(r) \in {"active", "calling"} => r = nruns /\ (Busy(r) \/ BeingSpawned(r))
                    /\ Phase(r) = "new" => ~Busy(r) /\ ~BeingSpawned(r)
                    /\ Phase(r) \in {"new", "active", "calling", "ended"}
  OBVIOUS
<1>1. BeingSpawned(r) => r = nruns /\ loop[r] = "none"
  BY DEF BeingSpawned, Newest, StarterOfNewest, Starting, Unspawned
<1>2. CASE loop[r] = "none"
  BY <1>1, <1>2 DEF Phase, Busy
<1>3. CASE loop[r] # "none"
  BY <1>1, <1>3, NewestRun DEF Phase, Busy
<1> QED
  BY <1>1, <1>2, <1>3

LEMMA RefinesInit == Init => Runs!Init
<1> SUFFICES ASSUME Init PROVE Runs!Init
  OBVIOUS
<1>1. \A r \in Run : Phase(r) = "new"
  BY DEF Init, Phase, BeingSpawned
<1> QED
  BY <1>1 DEF Init, Runs!Init

LEMMA RefinesStep ==
    OneStarter /\ Inv /\ [Next]_vars => [Runs!Next]_Runs!runVars
<1> SUFFICES ASSUME OneStarter, Inv, [Next]_vars
             PROVE  Runs!Next \/ UNCHANGED <<phases, event, stopped, late>>
  BY DEF phases, Runs!runVars
<1> USE DEF Inv
<1>r. \A r \in Run : phases[r] = Phase(r)
  BY DEF phases
<1>1. ASSUME NEW c \in Client, StartCheck(c)
      PROVE  UNCHANGED <<phases, event, stopped, late>>
  <2>1. \A r \in Run : BeingSpawned(r)' <=> BeingSpawned(r)
    BY <1>1 DEF StartCheck, ClientAt, ClientGoto, BeingSpawned, TypeOK
  <2> QED
    BY <1>1, <2>1, PhasesStay DEF StartCheck
<1>2. ASSUME NEW c \in Client, StartCreate(c) \/ StartLink(c) \/ StartAssign(c)
      PROVE  UNCHANGED <<phases, event, stopped, late>>
  <2>1. \A r \in Run : BeingSpawned(r)' <=> BeingSpawned(r)
    BY <1>2 DEF StartCreate, StartLink, StartAssign, ClientAt, ClientGoto, BeingSpawned, TypeOK
  <2> QED
    BY <1>2, <2>1, PhasesStay DEF StartCreate, StartLink, StartAssign
<1>3. ASSUME NEW c \in Client, StartClear(c) PROVE Runs!Begin(nruns)
  <2>1. /\ cpc[c] = "clear" /\ ctarget[c] = nruns /\ nruns \in Run
        /\ loop[nruns] = "none" /\ cpc' = [cpc EXCEPT ![c] = "spawn"]
        /\ UNCHANGED <<loop, ctarget, event, stopped, late>>
    BY <1>3 DEF StartClear, ClientAt, ClientGoto, Newest, StarterOfNewest, Starting,
         Unspawned, TypeOK, Run
  <2>2. \A d \in Client : cpc[d] # "spawn"
    BY <2>1 DEF Newest, StarterOfNewest, Starting, OneStarter
  <2>3. \A r \in Run : ~BeingSpawned(r) /\ (BeingSpawned(r)' <=> r = nruns)
    BY <2>1, <2>2 DEF BeingSpawned, TypeOK
  <2>4. \A r \in Run : Phase(r)' = IF r = nruns THEN "active" ELSE Phase(r)
    BY <2>1, <2>3 DEF Phase
  <2>5. Phase(nruns) = "new"
    BY <2>1, <2>3 DEF Phase
  <2>6. \A r \in Run : Phase(r) \notin {"active", "calling"}
    BY <2>1, <2>3, ActiveRuns DEF Busy
  <2>7. Runs!Active = {}
    BY <2>6 DEF Runs!Active
  <2> QED
    BY <2>1, <2>4, <2>5, <2>7 DEF Runs!Begin
<1>4. ASSUME NEW c \in Client, StartSpawn(c)
      PROVE  UNCHANGED <<phases, event, stopped, late>>
  <2>1. /\ cpc[c] = "spawn" /\ loop' = [loop EXCEPT ![ctarget[c]] = "spawned"]
        /\ cpc' = [cpc EXCEPT ![c] = "link"]
        /\ UNCHANGED <<nruns, ctarget, event, stopped, late>>
    BY <1>4 DEF StartSpawn, ClientAt, ClientGoto
  <2>2. ctarget[c] = nruns /\ nruns > 0 /\ loop[nruns] = "none"
    BY <2>1 DEF Newest, StarterOfNewest, Starting, Unspawned
  <2>3. nruns \in Run /\ loop \in [Run -> LoopPhases] /\ cpc \in [Client -> ClientPhases]
    BY <2>2, MaxRunsAssumption DEF TypeOK, Run
  <2>4. loop'[nruns] = "spawned" /\ \A r \in Run \ {nruns} : loop'[r] = loop[r]
    BY <2>1, <2>2, <2>3
  <2>5. BeingSpawned(nruns)
    BY <2>1, <2>2 DEF BeingSpawned
  <2>6. \A r \in Run \ {nruns} : ~BeingSpawned(r) /\ ~BeingSpawned(r)'
    BY <2>1, <2>3, ActiveRuns DEF BeingSpawned
  <2>7. Phase(nruns) = "active" /\ Phase(nruns)' = "active"
    BY <2>1, <2>2, <2>4, <2>5 DEF Phase
  <2>8. \A r \in Run \ {nruns} : Phase(r)' = Phase(r)
    BY <2>4, <2>6 DEF Phase
  <2>9. \A r \in Run : Phase(r)' = Phase(r)
    BY <2>1, <2>7, <2>8
  <2> QED
    BY <2>1, <2>9 DEF phases
<1>5. ASSUME NEW c \in Client, Stop(c) PROVE Runs!Ask
  <2>1. /\ stopped' = [r \in Run |-> stopped[r] \/ Busy(r) \/ BeingSpawned(r)]
        /\ UNCHANGED <<loop, cpc, ctarget, event, late>>
    BY <1>5 DEF Stop
  <2>2. phases' = phases
    BY <2>1, PhasesStay DEF BeingSpawned
  <2> DEFINE S == {r \in Run : Phase(r) = "ended" /\ Busy(r)}
  <2>3. S \in SUBSET {r \in Run : phases[r] = "ended"}
    BY <1>r
  <2>4. \A r \in Run : Busy(r) \/ BeingSpawned(r) <=> r \in Runs!Active \/ r \in S
    BY ActiveRuns DEF Runs!Active, Busy, Phase
  <2>5. stopped' = [r \in Run |-> stopped[r] \/ r \in Runs!Active \/ r \in S]
    BY <2>1, <2>4
  <2> QED
    BY <2>1, <2>2, <2>3, <2>5 DEF Runs!Ask, phases
<1>6. ASSUME NEW c \in Client, WaitBegin(c) \/ WaitReturn(c)
      PROVE  UNCHANGED <<phases, event, stopped, late>>
  <2>1. \A r \in Run : BeingSpawned(r)' <=> BeingSpawned(r)
    BY <1>6 DEF WaitBegin, WaitReturn, ClientAt, ClientGoto, BeingSpawned, TypeOK
  <2> QED
    BY <1>6, <2>1, PhasesStay DEF WaitBegin, WaitReturn
<1>7. ASSUME NEW r \in Run, LoopBegin(r) \/ LoopWake(r) \/ LoopFinish(r) \/ OnDone(r)
      PROVE  UNCHANGED <<phases, event, stopped, late>>
  <2>1. PICK l \in LoopPhases \ {"none"} :
          LoopGoto(r, l) /\ loop[r] # "none" /\ PhaseAt(l) = PhaseAt(loop[r])
    BY <1>7 DEF LoopBegin, LoopWake, LoopFinish, OnDone, LoopAt, LoopGoto, LoopPhases,
         PhaseAt, Ended
  <2>2. UNCHANGED <<cpc, ctarget, event, stopped, late>>
    BY <1>7 DEF LoopBegin, LoopWake, LoopFinish, OnDone
  <2>3. phases[r] = PhaseAt(loop[r]) /\ phases' = [phases EXCEPT ![r] = PhaseAt(l)]
    BY <2>1, <2>2, PhaseMoves
  <2> QED
    BY <2>1, <2>2, <2>3 DEF phases
\* What a loop that sends its outcome does.
<1>s. ASSUME NEW r \in Run, NEW o, Send(r, o), loop[r] \in {"check", "call", "recheck"},
             UNCHANGED <<cpc, ctarget, stopped, late>>,
             \/ o = "true" /\ stopped[r] /\ loop[r] # "call"
             \/ o = "retvalue" /\ loop[r] = "call"
             \/ o = "exception"
      PROVE  Runs!Tell(r)
  <2>1. done = r
    BY <1>s, NewestRun
  <2>2. event' = [event EXCEPT ![r] = o] /\ LoopGoto(r, "sent")
    BY <1>s, <2>1 DEF Send
  <2>3. phases[r] = PhaseAt(loop[r]) /\ phases' = [phases EXCEPT ![r] = PhaseAt("sent")]
    BY <1>s, <2>2, PhaseMoves DEF LoopPhases
  <2>4. /\ phases[r] = IF loop[r] = "call" THEN "calling" ELSE "active"
        /\ phases' = [phases EXCEPT ![r] = "ended"]
    BY <1>s, <2>3 DEF PhaseAt, Ended
  <2> QED
    BY <1>s, <2>2, <2>4 DEF Runs!Tell, Runs!Active, phases
\* What a loop that goes on does.
<1>g. ASSUME NEW r \in Run, NEW l \in LoopPhases \ {"none"}, LoopGoto(r, l),
             loop[r] # "none", UNCHANGED <<cpc, ctarget>>
      PROVE  /\ Phase(r) = PhaseAt(loop[r])
             /\ phases' = [phases EXCEPT ![r] = PhaseAt(l)]
  BY <1>g, <1>r, PhaseMoves
<1>8. ASSUME NEW r \in Run, LoopCheck(r)
      PROVE  Runs!Tell(r) \/ UNCHANGED <<phases, event, stopped, late>>
  <2>1. loop[r] = "check" /\ UNCHANGED <<cpc, ctarget, stopped, late>>
    BY <1>8 DEF LoopCheck, LoopAt
  <2>2. CASE abort
    <3>1. stopped[r]
      BY <2>1, <2>2, NewestRun DEF Stops, FlaggedIsStopped
    <3> QED
      BY <1>8, <1>s, <2>1, <2>2, <3>1 DEF LoopCheck
  <2>3. CASE ~abort
    <3>1. LoopGoto(r, "begin") /\ UNCHANGED event
      BY <1>8, <2>3 DEF LoopCheck
    <3>2. Phase(r) = "active" /\ phases' = [phases EXCEPT ![r] = "active"]
      BY <1>g, <2>1, <3>1 DEF PhaseAt, Ended, LoopPhases
    <3> QED
      BY <1>r, <2>1, <3>1, <3>2 DEF phases
  <2> QED
    BY <2>2, <2>3
<1>9. ASSUME NEW r \in Run, LoopCall(r) PROVE Runs!Call(r)
  <2>1. /\ loop[r] = "begin" /\ LoopGoto(r, "call")
        /\ UNCHANGED <<cpc, ctarget, stopped, event>>
    BY <1>9 DEF LoopCall, LoopAt
  <2>2. late[r] = 0
    BY <2>1 DEF Stops, LateOnce
  <2>3. late' = [late EXCEPT ![r] = IF stopped[r] THEN 1 ELSE 0]
    BY <1>9, <2>2 DEF LoopCall
  <2>4. Phase(r) = "active" /\ phases' = [phases EXCEPT ![r] = "calling"]
    BY <1>g, <2>1 DEF PhaseAt, Ended, LoopPhases
  <2> QED
    BY <1>r, <2>1, <2>2, <2>3, <2>4 DEF Runs!Call, phases
<1>10. ASSUME NEW r \in Run, LoopReturn(r) PROVE Runs!Return(r)
  <2>1. /\ loop[r] = "call" /\ LoopGoto(r, "recheck")
        /\ UNCHANGED <<cpc, ctarget, stopped, event, late>>
    BY <1>10 DEF LoopReturn, LoopAt
  <2>2. Phase(r) = "calling" /\ phases' = [phases EXCEPT ![r] = "active"]
    BY <1>g, <2>1 DEF PhaseAt, Ended, LoopPhases
  <2> QED
    BY <1>r, <2>1, <2>2 DEF Runs!Return, phases
<1>11. ASSUME NEW r \in Run, LoopRaise(r) PROVE Runs!Tell(r) \/ Runs!Vanish(r)
  <2>1. loop[r] = "call" /\ UNCHANGED <<cpc, ctarget, stopped, late>>
    BY <1>11 DEF LoopRaise, LoopAt
  <2>2. CASE Send(r, "retvalue") \/ Send(r, "exception")
    BY <1>s, <2>1, <2>2
  <2>3. CASE LoopGoto(r, "fatal") /\ UNCHANGED event
    <3>1. Phase(r) = "calling" /\ phases' = [phases EXCEPT ![r] = "ended"]
      BY <1>g, <2>1, <2>3 DEF PhaseAt, Ended, LoopPhases
    <3> QED
      BY <1>r, <2>1, <2>3, <3>1 DEF Runs!Vanish, phases
  <2> QED
    BY <1>11, <2>2, <2>3 DEF LoopRaise
<1>12. ASSUME NEW r \in Run, LoopRecheck(r)
       PROVE  Runs!Tell(r) \/ UNCHANGED <<phases, event, stopped, late>>
  <2>1. loop[r] = "recheck" /\ UNCHANGED <<cpc, ctarget, stopped, late>>
    BY <1>12 DEF LoopRecheck, LoopAt
  <2>2. CASE abort /\ Send(r, "true")
    <3>1. stopped[r]
      BY <2>1, <2>2, NewestRun DEF Stops, FlaggedIsStopped
    <3> QED
      BY <1>s, <2>1, <2>2, <3>1
  <2>3. CASE LoopGoto(r, "idle") /\ UNCHANGED event
    <3>1. Phase(r) = "active" /\ phases' = [phases EXCEPT ![r] = "active"]
      BY <1>g, <2>1, <2>3 DEF PhaseAt, Ended, LoopPhases
    <3> QED
      BY <1>r, <2>1, <2>3, <3>1 DEF phases
  <2>4. CASE Send(r, "exception")
    BY <1>s, <2>1, <2>4
  <2> QED
    BY <1>12, <2>2, <2>3, <2>4 DEF LoopRecheck
<1>13. CASE UNCHANGED vars
  <2>1. UNCHANGED <<loop, cpc, ctarget, event, stopped, late>>
    BY <1>13 DEF vars
  <2> QED
    BY <2>1, PhasesStay DEF BeingSpawned
<1>14. nruns \in Run \/ nruns = 0
  BY MaxRunsAssumption DEF TypeOK, Run
<1>15. ASSUME NEW c \in Client, StartClear(c) PROVE nruns \in Run
  BY <1>14, <1>15 DEF StartClear, ClientAt, Newest, StarterOfNewest, Starting
<1> QED
  BY <1>1, <1>2, <1>3, <1>4, <1>5, <1>6, <1>7, <1>8, <1>9, <1>10, <1>11, <1>12, <1>13,
     <1>15 DEF Next, StartStep, LoopStep, Runs!Next

\* The looping call of either backend, started by one thread, keeps the promises
\* of LoopingRuns.
THEOREM Refinement == ASSUME OneStarter PROVE Spec => ImplementsRuns
<1>1. Init => Runs!Init
  BY RefinesInit
<1>2. Inv /\ [Next]_vars => [Runs!Next]_Runs!runVars
  BY RefinesStep
<1> QED
  BY <1>1, <1>2, Invariant, PTL DEF Spec, Runs!Spec, ImplementsRuns
=============================================================================
