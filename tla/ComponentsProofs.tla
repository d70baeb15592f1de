--------------------------- MODULE ComponentsProofs ---------------------------
(***************************************************************************)
(* Proofs about the small components: the choice of the backend, launches  *)
(* that share one manager, the slots of the WSGI server, the backdoors of  *)
(* several processes, the intervals of looping calls, the counter of the   *)
(* retry decorator, and the group of greenthreads.                         *)
(***************************************************************************)
EXTENDS Intervals, BackendSelection, ManagedLaunch, WSGIServer, Backdoor,
        RetryDecorator, GreenThreadGroup, TLAPS

-----------------------------------------------------------------------------
\* The backend.  Whoever is past the test of the cached type loads what the
\* others load, which is what they have cached so far.
BSTypeOK ==
    /\ bsBackend \in BSType \cup {BSNone}
    /\ bsType \in BSType \cup {BSNone}
    /\ bsComponents \in BSType \cup {BSNone}
    /\ bsHook \in BSType \cup {BSNone}
    /\ bsPc \in [BSThread -> BSLoading \cup {"idle", "lookup", "check", "use"}]
    /\ bsArg \in [BSThread -> BSType]

BSAgree ==
    /\ \A t, u \in BSThread :
         bsPc[t] \in BSLoading /\ bsPc[u] \in BSLoading => bsArg[t] = bsArg[u]
    /\ \A t \in BSThread :
         /\ bsPc[t] \in {"type", "components"} => bsBackend = bsArg[t]
         /\ bsPc[t] \in BSLoading /\ bsType # BSNone => bsArg[t] = bsType
         /\ bsPc[t] = "components" => bsType # BSNone
    /\ bsType # BSNone => bsBackend = bsType
    /\ bsComponents # BSNone => bsComponents = bsType

BSInv == BSTypeOK /\ (~bsRaced => BSAgree)

LEMMA BSTypeStep == BSTypeOK /\ [BSNext]_bsVars => BSTypeOK'
<1> SUFFICES ASSUME BSTypeOK, [BSNext]_bsVars PROVE BSTypeOK'
  OBVIOUS
<1> USE BSDefaultAssumption DEF BSTypeOK, BSLoading
<1>1. CASE BSRegisterHook
  BY <1>1 DEF BSRegisterHook, bsCached
<1>2. ASSUME NEW t \in BSThread,
             BSInitBackend(t) \/ BSGetBackend(t) \/ BSGetComponent(t) \/ BSFound(t) \/ BSAskHook(t)
      PROVE  BSTypeOK'
  BY <1>2 DEF BSInitBackend, BSGetBackend, BSGetComponent, BSFound, BSAskHook, BSBack,
       BSMove, bsCached
<1>3. ASSUME NEW t \in BSThread, BSCheck(t) \/ BSSelected(t) \/ BSLoad(t) \/ BSUse(t)
      PROVE  BSTypeOK'
  BY <1>3 DEF BSCheck, BSSelected, BSLoad, BSUse, BSBack, BSMove, bsCached
<1>4. ASSUME NEW t \in BSThread,
             BSCacheBackend(t) \/ BSCacheType(t) \/ BSCacheComponents(t)
      PROVE  BSTypeOK'
  BY <1>4 DEF BSCacheBackend, BSCacheType, BSCacheComponents, BSBack, BSMove
<1>5. CASE UNCHANGED bsVars
  BY <1>5 DEF bsVars
<1> QED
  BY <1>1, <1>2, <1>3, <1>4, <1>5 DEF BSNext

LEMMA BSAgreeStep ==
    BSInv /\ [BSNext]_bsVars /\ ~bsRaced' =>
      /\ BSAgree'
      /\ bsType # BSNone =>
           /\ bsBackend' = bsBackend /\ bsType' = bsType
           /\ bsComponents # BSNone => bsComponents' = bsComponents
<1> SUFFICES ASSUME BSInv, [BSNext]_bsVars, ~bsRaced'
             PROVE  /\ BSAgree'
                    /\ bsType # BSNone =>
                         /\ bsBackend' = bsBackend /\ bsType' = bsType
                         /\ bsComponents # BSNone => bsComponents' = bsComponents
  OBVIOUS
<1> USE BSDefaultAssumption DEF BSInv, BSTypeOK, BSAgree, BSLoading, BSNone
<1>1. CASE BSRegisterHook
  BY <1>1 DEF BSRegisterHook, bsCached
<1>2. ASSUME NEW t \in BSThread,
             BSInitBackend(t) \/ BSGetBackend(t) \/ BSGetComponent(t) \/ BSFound(t) \/ BSAskHook(t)
      PROVE  BSAgree' /\ UNCHANGED bsCached
  BY <1>2 DEF BSInitBackend, BSGetBackend, BSGetComponent, BSFound, BSAskHook, BSBack,
       BSMove, bsCached
<1>3. ASSUME NEW t \in BSThread, BSCheck(t) PROVE BSAgree' /\ UNCHANGED bsCached
  BY <1>3, ZenonT(60) DEF BSCheck, BSMove, bsCached
<1>4. ASSUME NEW t \in BSThread, BSSelected(t) \/ BSLoad(t) \/ BSUse(t)
      PROVE  BSAgree' /\ UNCHANGED bsCached
  BY <1>4 DEF BSSelected, BSLoad, BSUse, BSBack, BSMove, bsCached
<1>5. ASSUME NEW t \in BSThread, BSCacheBackend(t)
      PROVE  BSAgree' /\ (bsType # BSNone => UNCHANGED bsCached)
  BY <1>5 DEF BSCacheBackend, BSMove, bsCached
<1>6. ASSUME NEW t \in BSThread, BSCacheType(t)
      PROVE  BSAgree' /\ (bsType # BSNone => UNCHANGED bsCached)
  BY <1>6 DEF BSCacheType, BSMove, bsCached
<1>7. ASSUME NEW t \in BSThread, BSCacheComponents(t)
      PROVE  /\ BSAgree' /\ bsBackend' = bsBackend /\ bsType' = bsType
             /\ bsComponents # BSNone => bsComponents' = bsComponents
  BY <1>7 DEF BSCacheComponents, BSBack, BSMove
<1>8. CASE UNCHANGED bsVars
  BY <1>8 DEF bsVars
<1> QED
  BY <1>1, <1>2, <1>3, <1>4, <1>5, <1>6, <1>7, <1>8 DEF BSNext, bsCached

LEMMA BSRacedStays == BSTypeOK /\ [BSNext]_bsVars /\ bsRaced => bsRaced'
  BY DEF BSNext, bsVars, BSRegisterHook, BSInitBackend, BSGetBackend, BSGetComponent,
     BSFound, BSAskHook, BSCheck, BSSelected, BSLoad, BSCacheBackend, BSCacheType,
     BSCacheComponents, BSUse

\* The invariant of the choice of the backend, for any threads and types.
THEOREM BackendInvariant == BSSpec => []BSInv
<1>1. BSInit => BSInv
  BY BSDefaultAssumption DEF BSInit, BSInv, BSTypeOK, BSAgree, BSLoading, BSNone
<1>2. BSInv /\ [BSNext]_bsVars => BSInv'
  BY BSTypeStep, BSAgreeStep DEF BSInv
<1> QED
  BY <1>1, <1>2, PTL DEF BSSpec

\* Unless two first uses want different types and overlap, a backend that was
\* selected stays selected.
THEOREM SelectedForGood == BSSpec => ChosenForGood
<1>1. BSInv /\ [BSNext]_bsVars =>
        [bsType # BSNone /\ ~bsRaced' =>
           /\ bsBackend' = bsBackend /\ bsType' = bsType
           /\ bsComponents # BSNone => bsComponents' = bsComponents]_bsVars
  BY BSAgreeStep
<1> QED
  BY <1>1, BackendInvariant, PTL DEF BSSpec, ChosenForGood
-----------------------------------------------------------------------------
\* Launches.  The lock is held by whoever is between the test for a manager and
\* its assignment, so that the test still holds when the manager is made.
MLTypeOK ==
    /\ mlMethod \in {"new", "default", "fork", "spawn", "other"}
    /\ mlLock \in MLThread \cup {MLFree}
    /\ mlAdded \subseteq MLThread
    /\ mlPc \in [MLThread -> {"new", "select", "check", "made", "add", "launched", "refused"}]

MLInside == {"select", "check", "made"}

MLOneManager ==
    /\ mlManager # "none" => mlMethod # "new" /\ mlManager = MLSelected
    /\ mlLock = MLFree /\ mlManager = "none" => ~mlMade

MLLaunch(t) ==
    /\ mlPc[t] \in MLInside <=> mlLock = t
    /\ mlPc[t] # "new" => mlMethod # "new"
    /\ mlPc[t] = "select" => mlManager = "none" /\ ~mlMade
    /\ mlPc[t] = "made" => MLUsable(t)
    /\ mlPc[t] \in {"check", "add", "launched"} => mlManager # "none"
    /\ mlPc[t] \in {"add", "launched"} /\ mlManager = "spawn" => t \in MLPicklable
    /\ mlPc[t] = "launched" <=> t \in mlAdded
    /\ mlPc[t] = "refused" => ~MLUsable(t)

MLInv == MLTypeOK /\ MLOneManager /\ \A t \in MLThread : MLLaunch(t)

LEMMA MLStep == MLInv /\ [MLNext]_mlVars => MLInv'
<1> SUFFICES ASSUME MLInv, [MLNext]_mlVars PROVE MLInv'
  OBVIOUS
<1> USE MLPicklableAssumption
    DEF MLInv, MLTypeOK, MLOneManager, MLLaunch, MLInside, MLFree
<1>1. CASE MLCreate
  BY <1>1 DEF MLCreate, MLSelected, MLUsable
<1>2. CASE MLStop \/ MLWait \/ MLRunEnds \/ UNCHANGED mlVars
  BY <1>2 DEF MLStop, MLWait, MLRunEnds, MLSelected, MLUsable, mlVars
<1>3. ASSUME NEW t \in MLThread, MLEnter(t) PROVE MLInv'
  BY <1>3 DEF MLEnter, MLMove, MLSelected, MLUsable
<1>4. ASSUME NEW t \in MLThread, MLRefuse(t) PROVE MLInv'
  BY <1>4 DEF MLRefuse, MLMove, MLSelected, MLUsable
<1>5. ASSUME NEW t \in MLThread, MLMake(t) PROVE MLInv'
  BY <1>5 DEF MLMake, MLMove, MLSelected, MLUsable
<1>6. ASSUME NEW t \in MLThread, MLAssign(t) PROVE MLInv'
  BY <1>6 DEF MLAssign, MLMove, MLSelected, MLUsable
<1>7. ASSUME NEW t \in MLThread, MLReuse(t) PROVE MLInv'
  BY <1>7 DEF MLReuse, MLMove, MLSelected, MLUsable
<1>8. ASSUME NEW t \in MLThread, MLAdd(t) PROVE MLInv'
  BY <1>8 DEF MLAdd, MLMove, MLSelected, MLUsable
<1> QED
  BY <1>1, <1>2, <1>3, <1>4, <1>5, <1>6, <1>7, <1>8 DEF MLNext

\* However many threads launch at once, they share one manager, and a launch is
\* refused only for its own service or method.
THEOREM OneManager == MLSpec => []AllAccepted
<1>1. MLInit => MLInv
  BY MLPicklableAssumption
     DEF MLInit, MLInv, MLTypeOK, MLOneManager, MLLaunch, MLInside, MLFree
<1>2. MLInv => AllAccepted
  BY DEF MLInv, MLTypeOK, MLLaunch, AllAccepted
<1> QED
  BY <1>1, <1>2, MLStep, PTL DEF MLSpec
-----------------------------------------------------------------------------
\* The WSGI server.  The pool is ever only as large as configured, or empty.
WSInv ==
    /\ wsSize \in {0, WSPool}
    /\ wsFree \in Int /\ wsRunning \in Nat
    /\ SlotsAddUp

LEMMA WSInvariant == WSSpec => []WSInv
<1> USE WSPoolAssumption DEF WSInv, SlotsAddUp
<1>1. WSInit => WSInv
  BY DEF WSInit
<1>2. ASSUME WSInv, [WSNext]_wsVars PROVE WSInv'
  <2>1. CASE WSResetPool \/ WSStop
    BY <1>2, <2>1 DEF WSResetPool, WSStop, WSResize
  <2>2. ASSUME NEW i \in WSServer, WSAccept(i) PROVE WSInv'
    BY <1>2, <2>2 DEF WSAccept
  <2>3. CASE WSRequestEnds \/ WSWakeUp
    BY <1>2, <2>3 DEF WSRequestEnds, WSWakeUp
  <2>4. CASE WSStart \/ WSWait \/ WSWaitReturns \/ UNCHANGED wsVars
    BY <1>2, <2>4 DEF WSStart, WSWait, WSWaitReturns, wsVars
  <2>5. ASSUME NEW i \in WSServer, WSServerEnds(i) PROVE WSInv'
    BY <1>2, <2>5 DEF WSServerEnds
  <2> QED
    BY <1>2, <2>1, <2>2, <2>3, <2>4, <2>5 DEF WSNext
<1> QED
  BY <1>1, <1>2, PTL DEF WSSpec

\* The semaphore's counter and the requests that run add up to the size of the
\* pool in every order of start(), stop() and reset(), also while it is negative.
THEOREM Slots == WSSpec => []SlotsAddUp
<1>1. WSInv => SlotsAddUp
  BY DEF WSInv
<1> QED
  BY <1>1, WSInvariant, PTL

\* Used as intended, the server that accepts is the last one, its pool has its size,
\* and a slot that was released wakes it.
WSProper ==
    /\ wsStarted \in 0 .. WSStarts
    /\ wsState \in [WSServer -> {"none", "accepting", "full", "ending", "over"}]
    /\ wsReset => wsSize = WSPool
    /\ ~wsMisused =>
         /\ \A i \in WSServer : wsState[i] \in {"accepting", "full"} => i = wsStarted /\ wsReset
         /\ \A i \in WSServer : wsState[i] = "full" => wsFree <= 0 \/ wsWake

\* Each step keeps this: stop() kills the last server before its pool has no slots.
LEMMA WSProperStep == WSInv /\ WSProper /\ [WSNext]_wsVars => WSProper'
<1> SUFFICES ASSUME WSInv, WSProper, [WSNext]_wsVars PROVE WSProper'
  OBVIOUS
<1> USE WSPoolAssumption DEF WSInv, SlotsAddUp, WSProper, WSServer
<1>1. CASE WSStart
  <2>1. wsStarted' \in WSServer /\ wsStarted' = wsStarted + 1
    BY <1>1 DEF WSStart
  <2>2. wsState' = [wsState EXCEPT ![wsStarted'] = "accepting"]
    BY <1>1, <2>1 DEF WSStart
  <2>3. ~wsMisused' => ~wsMisused /\ wsReset
          /\ \A i \in WSServer : wsState[i] \notin {"accepting", "full"}
    BY <1>1 DEF WSStart
  <2>4. UNCHANGED <<wsSize, wsFree, wsReset, wsWake>>
    BY <1>1 DEF WSStart
  <2> QED
    BY <2>1, <2>2, <2>3, <2>4
<1>2. CASE WSResetPool
  BY <1>2 DEF WSResetPool, WSResize
<1>3. CASE WSStop
  BY <1>3 DEF WSStop, WSResize
<1>4. ASSUME NEW i \in WSServer, WSAccept(i) PROVE WSProper'
  BY <1>4 DEF WSAccept
<1>5. CASE WSRequestEnds
  BY <1>5 DEF WSRequestEnds
<1>6. CASE WSWakeUp
  BY <1>6 DEF WSWakeUp
<1>7. ASSUME NEW i \in WSServer, WSServerEnds(i) PROVE WSProper'
  BY <1>7 DEF WSServerEnds
<1>8. CASE WSWait \/ WSWaitReturns \/ UNCHANGED wsVars
  BY <1>8 DEF WSWait, WSWaitReturns, wsVars
<1> QED
  BY <1>1, <1>2, <1>3, <1>4, <1>5, <1>6, <1>7, <1>8 DEF WSNext

\* A server that waits for a slot: the pool is full of requests that run, or a wake-up
\* that will find a slot is on its way.
WakeComes ==
    ~wsMisused => \A i \in WSServer : wsState[i] = "full" =>
        wsRunning = WSPool \/ (wsWake /\ wsFree > 0)

\* No slot is released unseen by a server that waits for one, for any size of the pool
\* and any order of start(), stop() and reset() but the two that AcceptedIsServed
\* excepts (263-282): the safety half of that property.
THEOREM SlotsAreOffered == WSSpec => []WakeComes
<1>1. WSInit => WSProper
  BY WSPoolAssumption DEF WSInit, WSProper, WSServer
<1>2. WSInv /\ WSProper => WakeComes
  BY WSPoolAssumption DEF WSInv, SlotsAddUp, WSProper, WakeComes
<1> QED
  BY <1>1, <1>2, WSInvariant, WSProperStep, PTL DEF WSSpec
-----------------------------------------------------------------------------
\* Backdoors.
BDTypeOK ==
    /\ bdConf \in BDRange \cup {BDOffConf, BDPathConf}
    /\ bdPort \in [BDProcess -> Int]
    /\ bdTry \in [BDProcess -> Int]
    /\ bdPath \in BDProcess \cup {"nothing", "stale"}
    /\ bdPc \in [BDProcess -> {"new", "port", "listen", "unlink", "again",
                               "open", "failed", "refused", "gone"}]

\* A process that looks for a port is inside the range; the ports are distinct.
BDPorts ==
    /\ \A p \in BDProcess :
         /\ bdConf = BDOffConf => bdPc[p] \in {"new", "gone"} /\ bdPort[p] = BDNoPort
         /\ bdConf = BDPathConf => bdPc[p] # "port" /\ bdPort[p] = BDNoPort
         /\ bdPc[p] \in {"listen", "unlink", "again"} => bdConf = BDPathConf
         /\ bdPc[p] = "port" => bdConf[1] <= bdTry[p] /\ bdTry[p] <= bdConf[2]
         /\ bdPort[p] # BDNoPort =>
              \/ bdConf[1] <= bdPort[p] /\ bdPort[p] <= bdConf[2]
              \/ bdConf[1] = 0 /\ bdPort[p] \in BDEphemeral
    /\ \A p, q \in BDProcess :
         bdPort[p] # BDNoPort /\ bdPort[p] = bdPort[q] => p = q

BDSomeAt(l) == \E p \in BDProcess : bdPc[p] = l

\* A socket's file is that of a process that is open; a path that leads to none
\* while one is open has been unlinked and not bound again, or its process has died.
BDPaths ==
    /\ bdPath \in BDProcess => bdPc[bdPath] = "open"
    /\ bdConf = BDPathConf /\ BDSomeAt("open") =>
         /\ bdPath = "nothing" => BDSomeAt("again") \/ BDSomeAt("refused") \/ BDSomeAt("gone")
         /\ bdPath = "stale" => BDSomeAt("gone")

BDInv == BDTypeOK /\ BDPorts /\ BDPaths

LEMMA BDConfs ==
    /\ BDOffConf \notin BDRange /\ BDPathConf \notin BDRange
    /\ BDOffConf # BDPathConf
    /\ \A r \in BDRange : r[1] \in Nat /\ r[2] \in Nat
  BY BDRangeAssumption DEF BDOffConf, BDPathConf

LEMMA BDPortsStep == BDTypeOK /\ BDPorts /\ [BDNext]_bdVars => BDTypeOK' /\ BDPorts'
<1> SUFFICES ASSUME BDTypeOK, BDPorts, [BDNext]_bdVars PROVE BDTypeOK' /\ BDPorts'
  OBVIOUS
<1> USE BDConfs, BDProcessAssumption DEF BDTypeOK, BDPorts, BDNoPort
<1>1. CASE BDConfigure
  BY <1>1 DEF BDConfigure
<1>2. ASSUME NEW p \in BDProcess, BDBegin(p) PROVE BDTypeOK' /\ BDPorts'
  BY <1>2 DEF BDBegin, BDMove
<1>3. ASSUME NEW p \in BDProcess, BDListen(p) PROVE BDTypeOK' /\ BDPorts'
  <2>1. PICK port \in BDFree(bdTry[p]) : bdPort' = [bdPort EXCEPT ![p] = port]
    BY <1>3 DEF BDListen
  <2>2. /\ bdPc[p] = "port" /\ bdPc' = [bdPc EXCEPT ![p] = "open"]
        /\ UNCHANGED <<bdConf, bdPath, bdTry>>
    BY <1>3 DEF BDListen, BDOpened, BDMove
  <2>3. bdConf \in BDRange /\ bdConf[1] \in Nat /\ bdConf[2] \in Nat
        /\ bdConf # BDOffConf /\ bdConf # BDPathConf
        /\ bdConf[1] <= bdTry[p] /\ bdTry[p] <= bdConf[2] /\ bdTry[p] \in Int
    BY <2>2
  <2>4. /\ port \in Int /\ \A q \in BDProcess : bdPort[q] # port
        /\ port = bdTry[p] \/ (bdTry[p] = 0 /\ port \in BDEphemeral)
    BY <2>1, <2>3, BDEphemeralAssumption DEF BDFree
  <2>5. \/ bdConf[1] <= port /\ port <= bdConf[2]
        \/ bdConf[1] = 0 /\ port \in BDEphemeral
    BY <2>3, <2>4
  <2>6. BDTypeOK'
    BY <2>1, <2>2, <2>4
  <2>7. BDPorts'
    <3>1. \A q \in BDProcess : bdPort'[q] = IF q = p THEN port ELSE bdPort[q]
      BY <2>1
    <3>2. \A q \in BDProcess : bdPc'[q] = IF q = p THEN "open" ELSE bdPc[q]
      BY <2>2
    <3>3. bdConf' = bdConf /\ bdTry' = bdTry
      BY <2>2
    <3> QED
      BY <2>3, <2>4, <2>5, <3>1, <3>2, <3>3
  <2> QED
    BY <2>6, <2>7
<1>4. ASSUME NEW p \in BDProcess, BDInUse(p) PROVE BDTypeOK' /\ BDPorts'
  BY <1>4 DEF BDInUse, BDMove
<1>5. ASSUME NEW p \in BDProcess, BDBind(p) \/ BDPathInUse(p) \/ BDUnlink(p) \/ BDRefused(p)
      PROVE  BDTypeOK' /\ BDPorts'
  <2>1. CASE BDBind(p)
    BY <2>1 DEF BDBind, BDOpened, BDMove
  <2>2. CASE BDPathInUse(p)
    BY <2>2 DEF BDPathInUse, BDMove
  <2>3. CASE BDUnlink(p)
    BY <2>3 DEF BDUnlink, BDMove
  <2>4. CASE BDRefused(p)
    BY <2>4 DEF BDRefused, BDMove
  <2> QED
    BY <1>5, <2>1, <2>2, <2>3, <2>4
<1>6. ASSUME NEW p \in BDProcess, BDExit(p) PROVE BDTypeOK' /\ BDPorts'
  BY <1>6 DEF BDExit
<1>7. CASE UNCHANGED bdVars
  BY <1>7 DEF bdVars
<1> QED
  BY <1>1, <1>2, <1>3, <1>4, <1>5, <1>6, <1>7 DEF BDNext

LEMMA BDPathsStep == BDInv /\ [BDNext]_bdVars => BDPaths'
<1> SUFFICES ASSUME BDInv, [BDNext]_bdVars PROVE BDPaths'
  OBVIOUS
<1> USE BDConfs, BDProcessAssumption DEF BDInv, BDTypeOK, BDPorts, BDPaths, BDSomeAt
<1>1. CASE BDConfigure
  BY <1>1 DEF BDConfigure
<1>2. ASSUME NEW p \in BDProcess, BDBegin(p) \/ BDListen(p) \/ BDInUse(p) PROVE BDPaths'
  BY <1>2 DEF BDBegin, BDListen, BDInUse, BDOpened, BDMove
<1>3. ASSUME NEW p \in BDProcess, BDBind(p) PROVE BDPaths'
  BY <1>3 DEF BDBind, BDOpened, BDMove
<1>4. ASSUME NEW p \in BDProcess, BDPathInUse(p) PROVE BDPaths'
  BY <1>4 DEF BDPathInUse, BDMove
<1>5. ASSUME NEW p \in BDProcess, BDUnlink(p) PROVE BDPaths'
  BY <1>5 DEF BDUnlink, BDMove
<1>6. ASSUME NEW p \in BDProcess, BDExit(p) PROVE BDPaths'
  BY <1>6 DEF BDExit
<1>7. CASE UNCHANGED bdVars
  BY <1>7 DEF bdVars
<1>8. ASSUME NEW p \in BDProcess, BDRefused(p) PROVE BDPaths'
  <2>1. UNCHANGED <<bdConf, bdPort, bdPath, bdTry>>
    BY <1>8 DEF BDRefused
  <2>2. CASE \E l \in {"port", "listen", "unlink"} : BDMove(p, l, "failed")
    BY <2>1, <2>2 DEF BDMove
  <2>3. CASE BDMove(p, "again", "refused")
    BY <2>1, <2>3 DEF BDMove
  <2> QED
    BY <1>8, <2>2, <2>3 DEF BDRefused
<1> QED
  BY <1>1, <1>2, <1>3, <1>4, <1>5, <1>6, <1>7, <1>8 DEF BDNext

\* However many processes share a range of ports or a path, each backdoor is at
\* a port of its own inside the range, or one of the kernel's for port 0, and a path leads to one that is open.
THEOREM BackdoorsReached == BDSpec => []BackdoorOpen
<1>1. BDInit => BDInv
  BY BDConfs, BDProcessAssumption
     DEF BDInit, BDInv, BDTypeOK, BDPorts, BDPaths, BDSomeAt, BDNoPort
<1>2. BDInv /\ [BDNext]_bdVars => BDInv'
  BY BDPortsStep, BDPathsStep DEF BDInv
<1>3. BDInv => BackdoorOpen
  BY DEF BDInv, BDTypeOK, BDPorts, BDPaths, BDSomeAt, BackdoorOpen
<1> QED
  BY <1>1, <1>2, <1>3, PTL DEF BDSpec
-----------------------------------------------------------------------------
\* Intervals.
IVTypeOK ==
    /\ IF ivPc = "new" THEN ivParam = [kind |-> "none"] ELSE ivParam \in IVParams
    /\ ivPc \in {"new", "idle", "call", "over"}
    /\ ivClock \in Nat /\ ivWake \in Int
    /\ ivBegan \in Nat \cup {IVNone}
    /\ ivGap \in Int
    /\ ivInterval \in Int /\ ivError \in Int /\ ivFails \in Nat

IVIsFixed == ivParam.kind \in {"fixed", "timeout"}
IVLimited == ivParam.kind = "timeout" /\ ivParam.timeout > 0

\* What the loop has computed by the time it sleeps.
IVAsleep ==
    ivPc = "idle" =>
      /\ ivBegan = IVNone => ivWake >= 0
      /\ ivWake >= ivBegan
      /\ IVIsFixed /\ ivBegan # IVNone =>
           2 * (ivBegan + ivParam.interval - ivWake) <= IVGrain
      /\ IVLimited /\ ivBegan # IVNone =>
           2 * (ivWake - ivParam.timeout - ivParam.interval) <= IVGrain

IVCalls == ivPc = "call" => ivClock = ivBegan

IVInv ==
    /\ IVTypeOK /\ IVAsleep /\ IVCalls /\ FixedApart
    /\ BackOffBounded
    /\ ivPc = "new" => ivBegan = IVNone /\ ivError = 0 /\ ivFails = 0

LEMMA IVArguments ==
    ASSUME NEW p \in IVParams
    PROVE  /\ p.kind \in {"fixed", "timeout", "dynamic", "backoff"}
           /\ p.interval \in Int /\ p.timeout \in Nat /\ p.max \in Nat
           /\ p.min \in Nat \ {0} /\ p.jitter \in Nat \ {0}
           /\ p.interval >= 0 \/ (p.kind = "dynamic" /\ p.interval = IVNone)
  BY IVParamsAssumption, IVTimesAssumption

LEMMA IVOneMore ==
    ASSUME NEW n \in Int, NEW k \in Int, NEW e \in Int, NEW d \in Int, n * k <= e, k <= d
    PROVE  (n + 1) * k <= e + d
<1>1. (n + 1) * k = n * k + k
  OBVIOUS
<1> QED
  BY <1>1

LEMMA IVGrownLarge ==
    ASSUME NEW j \in Int, ivInterval \in Int, ivParam.min \in Nat
    PROVE  IVGrown(j) \in Int /\ IVGrown(j) >= ivParam.min
  BY DEF IVGrown, IVLarger

LEMMA IVFailureStep == IVInv /\ IVBackOffFailure => IVInv'
<1> SUFFICES ASSUME IVInv, IVBackOffFailure PROVE IVInv'
  OBVIOUS
<1> DEFINE idle(j) == IVSmaller(IVGrown(j), ivParam.max)
           least == IVSmaller(ivParam.min, ivParam.max)
<1>1. /\ ivParam \in IVParams /\ ivParam' = ivParam /\ ivParam.kind = "backoff"
      /\ ivClock' \in Nat /\ ivClock' >= ivClock /\ ivClock = ivBegan
      /\ UNCHANGED <<ivBegan, ivGap>>
      /\ ivInterval' = IVGrown(ivParam.jitter)
  BY IVTimesAssumption DEF IVInv, IVTypeOK, IVCalls, IVBackOffFailure, IVReturn
<1>2. PICK j \in IVRandom :
        IF ivParam.timeout > 0 /\ ivError + idle(j) > ivParam.timeout
          THEN ivPc' = "over" /\ UNCHANGED <<ivWake, ivError, ivFails>>
          ELSE /\ IVSleep(idle(j))
               /\ ivError' = ivError + idle(j)
               /\ ivFails' = ivFails + 1
  BY DEF IVBackOffFailure
<1>3. j \in Int /\ ivParam.jitter \in Int /\ ivInterval \in Int /\ ivParam.min \in Nat \ {0}
      /\ ivParam.max \in Nat /\ ivParam.timeout \in Nat
  BY <1>1, IVArguments DEF IVRandom, IVInv, IVTypeOK
<1>4. IVGrown(j) \in Int /\ IVGrown(j) >= ivParam.min /\ ivInterval' \in Int
  BY <1>1, <1>3, IVGrownLarge
<1>5. idle(j) \in Nat /\ least \in Nat /\ idle(j) >= least
  BY <1>3, <1>4 DEF IVSmaller
<1>6. IVTypeOK' /\ IVAsleep' /\ IVCalls' /\ FixedApart'
  <2> HIDE DEF idle, least
  <2> QED
    BY <1>1, <1>2, <1>3, <1>4, <1>5
       DEF IVInv, IVTypeOK, IVAsleep, IVCalls, FixedApart, IVSleep, IVIsFixed, IVLimited, IVNone
<1>7. BackOffBounded'
  <2>1. CASE ivPc' = "over" /\ UNCHANGED <<ivWake, ivError, ivFails>>
    BY <1>1, <2>1 DEF IVInv, BackOffBounded
  <2>2. CASE /\ ~(ivParam.timeout > 0 /\ ivError + idle(j) > ivParam.timeout)
             /\ ivError' = ivError + idle(j) /\ ivFails' = ivFails + 1
    <3>1. ivParam.timeout > 0 => ivFails * least <= ivError /\ ivError' <= ivParam.timeout
      BY <1>1, <1>3, <1>5, <2>2 DEF IVInv, IVTypeOK, BackOffBounded
    <3>2. ivParam.timeout > 0 => ivFails' * least <= ivError'
      <4> HIDE DEF idle, least
      <4> QED
        BY <1>5, <2>2, <3>1, IVOneMore DEF IVInv, IVTypeOK
    <3> QED
      BY <1>1, <3>1, <3>2 DEF BackOffBounded
  <2> QED
    BY <1>2, <2>1, <2>2 DEF IVSleep
<1> QED
  BY <1>2, <1>6, <1>7 DEF IVInv, IVSleep

LEMMA NatProduct == ASSUME NEW x \in Nat, NEW y \in Nat PROVE x * y \in Nat
  OBVIOUS

LEMMA NatQuarter == ASSUME NEW x \in Nat PROVE x \div 4 \in Nat
  OBVIOUS

LEMMA IVRounding ==
    ASSUME NEW d \in Int, NEW r \in IVRounded(d)
    PROVE  r \in Int /\ 2 * (r - d) <= IVGrain /\ 2 * (d - r) <= IVGrain
<1>1. d \div IVGrain \in Int /\ IVGrain \in Int
  BY IVTimesAssumption
<1>2. IVGrain * (d \div IVGrain) \in Int
  BY <1>1
<1> QED
  BY <1>1, <1>2 DEF IVRounded

LEMMA IVFixedWake ==
    ASSUME NEW now \in Int, NEW began \in Int, NEW i \in Nat, NEW o \in Nat,
           NEW delay \in Int, began <= now,
           2 * (delay - ((now - began) - i)) <= IVGrain,
           2 * (((now - began) - i) - delay) <= IVGrain,
           NEW wake, wake = now + (IF -delay > 0 THEN -delay ELSE 0)
    PROVE  /\ wake \in Int /\ wake >= began
           /\ 2 * (began + i - wake) <= IVGrain
           /\ now <= o => 2 * (wake - o - i) <= IVGrain
<1>1. IVGrain \in Nat
  BY IVTimesAssumption
<1>2. CASE -delay > 0
  <2>1. wake = now - delay
    BY <1>2
  <2> QED
    BY <1>1, <1>2, <2>1
<1>3. CASE ~(-delay > 0)
  <2>1. wake = now
    BY <1>3
  <2> QED
    BY <1>1, <1>3, <2>1
<1> QED
  BY <1>2, <1>3

LEMMA IVStep == IVInv /\ [IVNext]_ivVars => IVInv'
<1> SUFFICES ASSUME IVInv, [IVNext]_ivVars PROVE IVInv'
  OBVIOUS
<1> USE IVTimesAssumption
    DEF IVInv, IVTypeOK, IVAsleep, IVCalls, FixedApart, IVIsFixed, IVLimited, IVNone
<1>1. CASE IVStart
  BY <1>1, IVArguments DEF IVStart, BackOffBounded, IVSmaller
<1>2. CASE IVBegin
  BY <1>2, IVArguments DEF IVBegin, BackOffBounded
<1>3. CASE IVFixed
  <2>1. /\ ivParam \in IVParams /\ ivParam.kind \in {"fixed", "timeout"}
        /\ ivParam.interval \in Nat /\ ivParam.timeout \in Nat /\ ivParam' = ivParam
        /\ ivClock' \in Nat /\ ivClock' >= ivBegan /\ ivBegan \in Nat
        /\ UNCHANGED <<ivBegan, ivGap, ivInterval, ivError, ivFails>> /\ ivPc = "call"
    BY <1>3, IVArguments DEF IVFixed, IVReturn, IVRaise, IVFixedIdle, IVSleep
  <2>2. BackOffBounded'
    BY <2>1 DEF BackOffBounded
  <2>3. CASE IVRaise
    BY <2>1, <2>2, <2>3 DEF IVRaise
  <2>4. CASE IVFixedIdle /\ ~(IVLimited /\ ivClock' > ivParam.timeout)
    <3> DEFINE i == ivParam.interval
               o == ivParam.timeout
               d == (ivClock' - ivBegan) - i
    <3>1. PICK delay \in IVRounded(d) : IVSleep(IVLarger(-delay, 0))
      BY <2>4 DEF IVFixedIdle
    <3>2. d \in Int /\ i \in Nat /\ o \in Nat
      BY <2>1
    <3>3. delay \in Int /\ 2 * (delay - d) <= IVGrain /\ 2 * (d - delay) <= IVGrain
      <4> HIDE DEF d
      <4> QED
        BY <3>1, <3>2, IVRounding
    <3>4. ivPc' = "idle" /\ ivWake' = ivClock' + (IF -delay > 0 THEN -delay ELSE 0)
      BY <3>1 DEF IVSleep, IVLarger
    <3>5. IVLimited => ivClock' <= o
      BY <2>1, <2>4
    <3>6. d = (ivClock' - ivBegan) - i
      OBVIOUS
    <3>7. /\ ivWake' \in Int /\ ivWake' >= ivBegan
          /\ 2 * (ivBegan + i - ivWake') <= IVGrain
          /\ ivClock' <= o => 2 * (ivWake' - o - i) <= IVGrain
      <4> HIDE DEF d, i, o
      <4>1. ivClock' \in Int /\ ivBegan \in Int /\ ivBegan <= ivClock'
        BY <2>1
      <4>2. /\ 2 * (delay - ((ivClock' - ivBegan) - i)) <= IVGrain
            /\ 2 * (((ivClock' - ivBegan) - i) - delay) <= IVGrain
        BY <3>3, <3>6
      <4> QED
        BY ONLY <4>1, <4>2, <3>2, <3>3, <3>4, IVFixedWake
    <3>8. IVTypeOK' /\ IVCalls' /\ FixedApart' /\ (ivPc' = "new" => FALSE)
      BY <2>1, <3>4, <3>7
    <3>9. IVAsleep'
      <4>1. IVLimited' = IVLimited
        BY <2>1 DEF IVLimited
      <4>2. IVLimited => 2 * (ivWake' - ivParam.timeout - ivParam.interval) <= IVGrain
        BY <3>5, <3>7
      <4>3. /\ ivWake' >= ivBegan /\ ivBegan \in Nat
            /\ 2 * (ivBegan + ivParam.interval - ivWake') <= IVGrain
        BY <2>1, <3>7
      <4>4. ivParam' = ivParam /\ ivBegan' = ivBegan
        BY <2>1
      <4> QED
        BY ONLY <4>1, <4>2, <4>3, <4>4 DEF IVAsleep, IVNone
    <3> QED
      BY <2>1, <2>2, <3>8, <3>9
  <2> QED
    BY <1>3, <2>1, <2>3, <2>4 DEF IVFixed
<1>4. CASE IVDynamic
  BY <1>4, IVArguments DEF IVDynamic, IVReturn, IVRaise, IVSleep, IVSmaller, BackOffBounded
<1>5. CASE IVBackOffSuccess
  <2>1. ivParam \in IVParams /\ ivParam.kind = "backoff" /\ ivParam.interval \in Nat
        /\ ivParam.jitter \in Nat \ {0} /\ ivParam.min \in Nat /\ ivParam.max \in Nat
    BY <1>5, IVArguments DEF IVBackOffSuccess, IVReturn
  <2>2. PICK j \in IVRandom : IVSleep((ivInterval' * j) \div 4)
    BY <1>5 DEF IVBackOffSuccess
  <2>3. j \in Nat /\ ivInterval' \in Nat
    BY <1>5, <2>1, <2>2 DEF IVBackOffSuccess, IVRandom
  <2>4. ivInterval' * j \in Nat
    BY <2>3, NatProduct, Zenon
  <2>5. (ivInterval' * j) \div 4 \in Nat
    BY <2>4, NatQuarter, Zenon
  <2>6. BackOffBounded'
    <3>1. ivError' = 0 /\ ivFails' = 0 /\ ivParam' = ivParam
      BY <1>5 DEF IVBackOffSuccess, IVReturn
    <3>2. IVSmaller(ivParam.min, ivParam.max) \in Nat /\ ivParam.timeout \in Nat
      BY <2>1, IVArguments DEF IVSmaller
    <3> QED
      BY ONLY <3>1, <3>2 DEF BackOffBounded
  <2> HIDE <2>4
  <2> QED
    BY <1>5, <2>1, <2>2, <2>3, <2>5, <2>6 DEF IVBackOffSuccess, IVReturn, IVSleep
<1>6. CASE IVBackOffFailure
  BY <1>6, IVFailureStep
<1>7. CASE UNCHANGED ivVars
  BY <1>7 DEF ivVars, BackOffBounded
<1> QED
  BY <1>1, <1>2, <1>3, <1>4, <1>5, <1>6, <1>7 DEF IVNext

\* Fixed intervals are kept up to the rounding and a back-off ends, for any arguments, any lengths
\* of the calls and any late sleeps.
THEOREM IntervalsHold == IVSpec => []IntervalsKept
<1>1. IVInit => IVInv
  BY DEF IVInit, IVInv, IVTypeOK, IVAsleep, IVCalls, FixedApart, BackOffBounded, IVNone
<1>2. IVInv => IntervalsKept
  BY DEF IVInv, IntervalsKept
<1> QED
  BY <1>1, <1>2, IVStep, PTL DEF IVSpec
-----------------------------------------------------------------------------
\* The retry decorator.  The counter and the values that a "+=" has read are numbers.
RDTypeOK ==
    /\ rdCount \in Nat
    /\ rdRead \in [RDCaller -> Nat]
    /\ rdPc \in [RDCaller -> {"none", "calling", "failed", "counting", "adding", "sleeping",
                        "stuck"}]

\* The counter, and what every "+=" in progress has read of it, are at least n.
RDReached(n) ==
    rdCount >= n /\ \A c \in RDCaller : rdPc[c] = "adding" => rdRead[c] >= n

LEMMA RDTypes == RDSpec => []RDTypeOK
<1>1. RDInit => RDTypeOK
  BY DEF RDInit, RDTypeOK
<1>2. RDTypeOK /\ [RDNext]_rdVars => RDTypeOK'
  BY DEF RDTypeOK, RDNext, RDCall, RDStep, RDReturn, RDSilent, RDFail, RDGiveUp, RDRetry,
     RDReadCount, RDWrite, RDWake, RDMove, rdVars
<1> QED
  BY <1>1, <1>2, PTL DEF RDSpec

\* A thread that overwrites the counts of others (487) never takes the counter below
\* a number that it and every "+=" in progress have reached: retries that are lost are
\* lost once, which is why all callers together get to max_retry_count.  The safety
\* half of GivesUp.
THEOREM RetriesAreNotLost == RDSpec => [][\A n \in Nat : RDReached(n) => RDReached(n)']_rdVars
<1>1. RDTypeOK /\ [RDNext]_rdVars => [\A n \in Nat : RDReached(n) => RDReached(n)']_rdVars
  <2> SUFFICES ASSUME RDTypeOK, RDNext, NEW n \in Nat, RDReached(n) PROVE RDReached(n)'
    OBVIOUS
  <2> USE DEF RDTypeOK, RDReached, RDMove
  <2>1. PICK c \in RDCaller : RDCall(c) \/ RDStep(c)
    BY DEF RDNext
  <2>2. CASE RDWrite(c)
    BY <2>2 DEF RDWrite
  <2>3. CASE RDReadCount(c)
    BY <2>3 DEF RDReadCount
  <2>4. CASE ~RDWrite(c) /\ ~RDReadCount(c)
    BY <2>1, <2>4 DEF RDCall, RDStep, RDReturn, RDSilent, RDFail, RDGiveUp, RDRetry, RDWake
  <2> QED
    BY <2>2, <2>3, <2>4
<1> QED
  BY <1>1, RDTypes, PTL DEF RDSpec
-----------------------------------------------------------------------------
\* The group of greenthreads.  What its loops have still to kill, or to wait
\* for, is what they found and has not ended.
GTPhases == {"none", "spawned", "body", "blocked", "inline", "inlined", "stop", "stopped",
             "wait", "waited", "cancel", "cancelwait", "cancelstop", "dying", "dead"}

GTTypeOK ==
    /\ gtThreads \subseteq GTThread
    /\ gtPc \in [GTActor -> GTPhases]
    /\ gtTodo \in [GTActor -> SUBSET GTThread]
    /\ gtOwed \in [GTActor -> SUBSET GTThread]
    /\ gtInline \in [GTActor -> GTThread \cup {GTNobody}]
    /\ gtUnharmed \subseteq GTActor

\* Callbacks that run in another thread.
GTInlines ==
    \A a \in GTActor :
      /\ gtPc[a] = "inline" <=> gtInline[a] # GTNobody
      /\ gtInline[a] # GTNobody =>
           /\ gtPc[gtInline[a]] = "inlined"
           /\ \A b \in GTActor \ {a} : gtInline[b] # gtInline[a]

\* What is left to kill, or to wait for, is what was found and has not ended.
GTPromised ==
    \A a \in GTActor :
      /\ \A t \in gtOwed[a] : t # a /\ gtPc[t] \notin {"none", "inlined"}
      /\ gtPc[a] \in {"stop", "stopped"} =>
           \A t \in gtOwed[a] \ gtUnharmed :
             \/ GTEnded(t) \/ gtPc[t] = "dying"
             \/ gtPc[a] = "stop" /\ t \in gtTodo[a]
      /\ gtPc[a] \in {"wait", "waited"} /\ a \notin gtUnharmed =>
           \A t \in gtOwed[a] : GTEnded(t) \/ (gtPc[a] = "wait" /\ t \in gtTodo[a])

GTInv ==
    /\ GTTypeOK
    /\ gtThreads = {t \in GTThread : ~GTEnded(t)}
    /\ GTInlines
    /\ GTPromised

\* Every step keeps the group's state well-formed.
LEMMA GTTypeStep ==
    ASSUME GTInv, [GTNext]_gtVars
    PROVE  GTTypeOK'
<1> USE GTActorsAssumption DEF GTInv, GTTypeOK, GTPhases, GTActor, GTGoto, GTOthers
<1>1. ASSUME NEW a \in GTActor, GTAdd(a) PROVE GTTypeOK'
  BY <1>1 DEF GTAdd, GTSpawn, GTIsNew
<1>2. ASSUME NEW a \in GTActor, GTBlock(a) PROVE GTTypeOK'
  BY <1>2 DEF GTBlock
<1>3. ASSUME NEW a \in GTActor, GTRunInline(a) PROVE GTTypeOK'
  BY <1>3 DEF GTRunInline, GTIsNew
<1>4. ASSUME NEW a \in GTActor, GTInlineEnds(a) PROVE GTTypeOK'
  BY <1>4 DEF GTInlineEnds
<1>5. ASSUME NEW a \in GTActor, GTStart(a) PROVE GTTypeOK'
  BY <1>5 DEF GTStart
<1>6. ASSUME NEW a \in GTActor, GTEnds(a) PROVE GTTypeOK'
  BY <1>6 DEF GTEnds
<1>7. ASSUME NEW a \in GTActor, GTBegin(a) PROVE GTTypeOK'
  BY <1>7 DEF GTBegin
<1>8. ASSUME NEW a \in GTActor, GTKill(a) PROVE GTTypeOK'
  BY <1>8 DEF GTKill, GTKilled, GTSwallowed, GTLeft, GTActing
<1>9. ASSUME NEW a \in GTActor, GTLoopEnds(a) PROVE GTTypeOK'
  BY <1>9 DEF GTLoopEnds, GTLeft
<1>10. ASSUME NEW a \in GTActor, GTReturn(a) PROVE GTTypeOK'
  BY <1>10 DEF GTReturn
<1>11. ASSUME NEW a \in GTActor, GTCancelOne(a) PROVE GTTypeOK'
  BY <1>11 DEF GTCancelOne, GTKilled, GTLeft
<1>12. ASSUME NEW a \in GTActor, GTCancelled(a) PROVE GTTypeOK'
  BY <1>12 DEF GTCancelled, GTLeft
<1>13. ASSUME NEW a \in GTActor, GTCancelWaits(a) PROVE GTTypeOK'
  BY <1>13 DEF GTCancelWaits
<1>14. CASE UNCHANGED gtVars
  BY <1>14 DEF gtVars
<1> QED
  BY <1>1, <1>2, <1>3, <1>4, <1>5, <1>6, <1>7, <1>8, <1>9, <1>10, <1>11, <1>12, <1>13, <1>14 DEF GTNext

\* Whatever ends a thread takes it from the list.
LEMMA GTListStep ==
    ASSUME GTInv, [GTNext]_gtVars
    PROVE  (gtThreads = {t \in GTThread : ~GTEnded(t)})'
<1> USE GTActorsAssumption DEF GTInv, GTTypeOK, GTInlines, GTEnded, GTActor, GTGoto, GTOthers
<1>1. ASSUME NEW a \in GTActor, GTAdd(a) PROVE (gtThreads = {t \in GTThread : ~GTEnded(t)})'
  BY <1>1 DEF GTAdd, GTSpawn, GTIsNew
<1>2. ASSUME NEW a \in GTActor, GTBlock(a) PROVE (gtThreads = {t \in GTThread : ~GTEnded(t)})'
  BY <1>2 DEF GTBlock
<1>3. ASSUME NEW a \in GTActor, GTRunInline(a) PROVE (gtThreads = {t \in GTThread : ~GTEnded(t)})'
  BY <1>3 DEF GTRunInline, GTIsNew
<1>4. ASSUME NEW a \in GTActor, GTInlineEnds(a) PROVE (gtThreads = {t \in GTThread : ~GTEnded(t)})'
  BY <1>4 DEF GTInlineEnds
<1>5. ASSUME NEW a \in GTActor, GTStart(a) PROVE (gtThreads = {t \in GTThread : ~GTEnded(t)})'
  BY <1>5 DEF GTStart
<1>6. ASSUME NEW a \in GTActor, GTEnds(a) PROVE (gtThreads = {t \in GTThread : ~GTEnded(t)})'
  BY <1>6 DEF GTEnds
<1>7. ASSUME NEW a \in GTActor, GTBegin(a) PROVE (gtThreads = {t \in GTThread : ~GTEnded(t)})'
  BY <1>7 DEF GTBegin
<1>8. ASSUME NEW a \in GTActor, GTKill(a) PROVE (gtThreads = {t \in GTThread : ~GTEnded(t)})'
  BY <1>8 DEF GTKill, GTKilled, GTSwallowed, GTLeft, GTActing
<1>9. ASSUME NEW a \in GTActor, GTLoopEnds(a) PROVE (gtThreads = {t \in GTThread : ~GTEnded(t)})'
  BY <1>9 DEF GTLoopEnds, GTLeft
<1>10. ASSUME NEW a \in GTActor, GTReturn(a) PROVE (gtThreads = {t \in GTThread : ~GTEnded(t)})'
  BY <1>10 DEF GTReturn
<1>11. ASSUME NEW a \in GTActor, GTCancelOne(a) PROVE (gtThreads = {t \in GTThread : ~GTEnded(t)})'
  BY <1>11 DEF GTCancelOne, GTKilled, GTLeft
<1>12. ASSUME NEW a \in GTActor, GTCancelled(a) PROVE (gtThreads = {t \in GTThread : ~GTEnded(t)})'
  BY <1>12 DEF GTCancelled, GTLeft
<1>13. ASSUME NEW a \in GTActor, GTCancelWaits(a) PROVE (gtThreads = {t \in GTThread : ~GTEnded(t)})'
  BY <1>13 DEF GTCancelWaits
<1>14. CASE UNCHANGED gtVars
  BY <1>14 DEF gtVars
<1> QED
  BY <1>1, <1>2, <1>3, <1>4, <1>5, <1>6, <1>7, <1>8, <1>9, <1>10, <1>11, <1>12, <1>13, <1>14 DEF GTNext

\* A thread that runs in another one is known to that one only.
LEMMA GTInlinesStep ==
    ASSUME GTInv, [GTNext]_gtVars
    PROVE  GTInlines'
<1> USE GTActorsAssumption DEF GTInv, GTTypeOK, GTInlines, GTEnded, GTActor, GTGoto, GTOthers
<1>1. ASSUME NEW a \in GTActor, GTAdd(a) PROVE GTInlines'
  BY <1>1 DEF GTAdd, GTSpawn, GTIsNew
<1>2. ASSUME NEW a \in GTActor, GTBlock(a) PROVE GTInlines'
  BY <1>2 DEF GTBlock
<1>3. ASSUME NEW a \in GTActor, GTRunInline(a) PROVE GTInlines'
  BY <1>3 DEF GTRunInline, GTIsNew
<1>4. ASSUME NEW a \in GTActor, GTInlineEnds(a) PROVE GTInlines'
  BY <1>4 DEF GTInlineEnds
<1>5. ASSUME NEW a \in GTActor, GTStart(a) PROVE GTInlines'
  BY <1>5 DEF GTStart
<1>6. ASSUME NEW a \in GTActor, GTEnds(a) PROVE GTInlines'
  BY <1>6 DEF GTEnds
<1>7. ASSUME NEW a \in GTActor, GTBegin(a) PROVE GTInlines'
  BY <1>7 DEF GTBegin
<1>8. ASSUME NEW a \in GTActor, GTKill(a) PROVE GTInlines'
  BY <1>8 DEF GTKill, GTKilled, GTSwallowed, GTLeft, GTActing
<1>9. ASSUME NEW a \in GTActor, GTLoopEnds(a) PROVE GTInlines'
  BY <1>9 DEF GTLoopEnds, GTLeft
<1>10. ASSUME NEW a \in GTActor, GTReturn(a) PROVE GTInlines'
  BY <1>10 DEF GTReturn
<1>11. ASSUME NEW a \in GTActor, GTCancelOne(a) PROVE GTInlines'
  BY <1>11 DEF GTCancelOne, GTKilled, GTLeft
<1>12. ASSUME NEW a \in GTActor, GTCancelled(a) PROVE GTInlines'
  BY <1>12 DEF GTCancelled, GTLeft
<1>13. ASSUME NEW a \in GTActor, GTCancelWaits(a) PROVE GTInlines'
  BY <1>13 DEF GTCancelWaits
<1>14. CASE UNCHANGED gtVars
  BY <1>14 DEF gtVars
<1> QED
  BY <1>1, <1>2, <1>3, <1>4, <1>5, <1>6, <1>7, <1>8, <1>9, <1>10, <1>11, <1>12, <1>13, <1>14 DEF GTNext

\* The loops keep what they promise.
LEMMA GTPromisedStep ==
    ASSUME GTInv, [GTNext]_gtVars
    PROVE  GTPromised'
<1> USE GTActorsAssumption DEF GTInv, GTTypeOK, GTInlines, GTPromised, GTEnded, GTActor, GTGoto, GTOthers
<1>1. ASSUME NEW a \in GTActor, GTAdd(a) PROVE GTPromised'
  BY <1>1 DEF GTAdd, GTSpawn, GTIsNew
<1>2. ASSUME NEW a \in GTActor, GTBlock(a) PROVE GTPromised'
  BY <1>2 DEF GTBlock
<1>3. ASSUME NEW a \in GTActor, GTRunInline(a) PROVE GTPromised'
  BY <1>3 DEF GTRunInline, GTIsNew
<1>4. ASSUME NEW a \in GTActor, GTInlineEnds(a) PROVE GTPromised'
  BY <1>4 DEF GTInlineEnds
<1>5. ASSUME NEW a \in GTActor, GTStart(a) PROVE GTPromised'
  BY <1>5 DEF GTStart
<1>6. ASSUME NEW a \in GTActor, GTEnds(a) PROVE GTPromised'
  BY <1>6 DEF GTEnds
<1>7. ASSUME NEW a \in GTActor, GTBegin(a) PROVE GTPromised'
  BY <1>7 DEF GTBegin
<1>8. ASSUME NEW a \in GTActor, GTKill(a) PROVE GTPromised'
  BY <1>8 DEF GTKill, GTKilled, GTSwallowed, GTLeft, GTActing
<1>9. ASSUME NEW a \in GTActor, GTLoopEnds(a) PROVE GTPromised'
  BY <1>9 DEF GTLoopEnds, GTLeft
<1>10. ASSUME NEW a \in GTActor, GTReturn(a) PROVE GTPromised'
  BY <1>10 DEF GTReturn
<1>11. ASSUME NEW a \in GTActor, GTCancelOne(a) PROVE GTPromised'
  BY <1>11 DEF GTCancelOne, GTKilled, GTLeft
<1>12. ASSUME NEW a \in GTActor, GTCancelled(a) PROVE GTPromised'
  BY <1>12 DEF GTCancelled, GTLeft
<1>13. ASSUME NEW a \in GTActor, GTCancelWaits(a) PROVE GTPromised'
  BY <1>13 DEF GTCancelWaits
<1>14. CASE UNCHANGED gtVars
  BY <1>14 DEF gtVars
<1> QED
  BY <1>1, <1>2, <1>3, <1>4, <1>5, <1>6, <1>7, <1>8, <1>9, <1>10, <1>11, <1>12, <1>13, <1>14 DEF GTNext

\* It holds of a new group.
LEMMA GTInitially == GTInit => GTInv
  BY GTActorsAssumption
  DEF GTInit, GTInv, GTTypeOK, GTPhases, GTInlines, GTPromised, GTEnded, GTActor

\* It says what stop() and wait() leave when they return.
LEMMA GTSettles == GTInv => GroupSettled
<1> SUFFICES ASSUME GTInv PROVE GroupSettled
  OBVIOUS
<1>1. ASSUME NEW a \in GTActor, gtPc[a] = "stopped", NEW t \in gtOwed[a] \ gtUnharmed
      PROVE  GTEnded(t) \/ gtPc[t] = "dying"
  BY <1>1 DEF GTInv, GTPromised
<1>2. ASSUME NEW a \in GTActor, gtPc[a] = "waited", a \notin gtUnharmed, NEW t \in gtOwed[a]
      PROVE  GTEnded(t)
  BY <1>2 DEF GTInv, GTPromised
<1> QED
  BY <1>1, <1>2 DEF GroupSettled, GTInv

\* Whatever the number of callers and threads and the size of the pool, the list of
\* the eventlet thread group is exact, stop() leaves none of the threads it found
\* running, and wait() returns when all it found are over.
THEOREM GroupIsSettled == GTSpec => []GroupSettled
<1>1. GTInv /\ [GTNext]_gtVars => GTInv'
  BY GTTypeStep, GTListStep, GTInlinesStep, GTPromisedStep DEF GTInv
<1> QED
  BY <1>1, GTInitially, GTSettles, PTL DEF GTSpec

=============================================================================
