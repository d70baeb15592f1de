------------------------ MODULE ProcessLauncherProofs ------------------------
(***************************************************************************)
(* Proofs about ProcessLauncher, for every set of services, every number   *)
(* of workers, every configuration, hooks that yield or not and any call   *)
(* by another greenthread.                                                 *)
(*                                                                         *)
(* The invariant is proved in layers: the types; that the table of         *)
(* children is the set of unreaped processes; and the counts of processes, *)
(* which need to know that a service is short of one process exactly while *)
(* wait() is refilling it.                                                 *)
(***************************************************************************)
EXTENDS ProcessLauncher, FiniteSetTheorems, TLAPS

-----------------------------------------------------------------------------
\* What a signal does to a process record: it stays one, and is not reaped.
LEMMA ReceiveType ==
    ASSUME NEW r \in Process, NEW sig \in {"TERM", "HUP"}
    PROVE  /\ Receive(r, sig) \in Process
           /\ Receive(r, sig).phase = "free" <=> r.phase = "free"
<1>1. CASE r.phase \in DefaultAction
  BY <1>1 DEF Receive, Process, Fresh, DefaultAction, Live, Early
<1>2. CASE r.phase \in Deaf
  BY <1>2 DEF Receive, Process, Deaf, DefaultAction, Live, Early
<1>3. CASE r.phase = "up"
  BY <1>3 DEF Receive, Process, Deaf, DefaultAction, Live, Early
<1>4. CASE r.phase \notin DefaultAction \cup Deaf \cup {"up"}
  BY <1>4 DEF Receive, Process
<1> QED
  BY <1>1, <1>2, <1>3, <1>4

\* A signal to a set of children leaves every record well-formed and frees none.
LEMMA KillType ==
    ASSUME TypeOK, NEW S, NEW sig \in {"TERM", "HUP"}, Kill(S, sig)
    PROVE  /\ proc' \in [Pid -> Process]
           /\ \A p \in Pid : proc'[p].phase = "free" <=> proc[p].phase = "free"
<1>1. \A p \in Pid : proc[p] \in Process
  BY DEF TypeOK
<1>2. \A p \in Pid : proc'[p] = IF p \in S THEN Receive(proc[p], sig) ELSE proc[p]
  BY DEF Kill
<1>3. \A p \in Pid : /\ proc'[p] \in Process
                     /\ proc'[p].phase = "free" <=> proc[p].phase = "free"
  BY <1>1, <1>2, ReceiveType
<1> QED
  BY <1>3 DEF Kill

-----------------------------------------------------------------------------
\* A record of a process that begins or is over is well-formed.
LEMMA FreshType ==
    ASSUME NEW ph \in Live \cup {"zombie", "free"}
    PROVE  Fresh(ph) \in Process
  BY DEF Fresh, Process

\* The launcher starts well-formed.
LEMMA TypeInit == Init => TypeOK
<1> SUFFICES ASSUME Init PROVE TypeOK
  OBVIOUS
<1>1. /\ pc \in [Greenlet -> PcMain \cup PcOther]
      /\ pc["main"] = "app" /\ pc["other"] = "none"
  BY DEF Init, Greenlet, PcMain, PcOther
<1>2. proc \in [Pid -> Process]
  BY FreshType DEF Init
<1>3. /\ forktimes \in [Wrap -> Nat]
      /\ \A w \in Wrap : forktimes[w] <= Workers[w] + 1
  BY WorkersAssumption DEF Init
<1>4. cur \in Wrap \cup {None} /\ cur \notin Wrap
  BY NoneAssumption DEF Init
<1>5. /\ children \in [Pid -> Wrap \cup {None}]
      /\ wkids \in [Wrap -> SUBSET Pid]
  BY DEF Init
<1>6. /\ conf \in Confs /\ alive \in BOOLEAN /\ running \in BOOLEAN
      /\ sigcaught = "none" /\ installed \in BOOLEAN
      /\ hub \subseteq Signal /\ alarm \in BOOLEAN
  BY DEF Init
<1> QED
  BY <1>1, <1>2, <1>3, <1>4, <1>5, <1>6 DEF TypeOK, PcMain, PcOther

\* Forking keeps the two tables and the records well-formed.
LEMMA StartChildType ==
    ASSUME TypeOK, NEW w \in Wrap, StartChild(w)
    PROVE  /\ children' \in [Pid -> Wrap \cup {None}]
           /\ wkids' \in [Wrap -> SUBSET Pid]
           /\ forktimes' \in [Wrap -> Nat]
           /\ \A v \in Wrap : forktimes'[v] <= Workers[v] + 1
           /\ proc' \in [Pid -> Process]
<1>1. PICK p \in Pid :
        /\ proc' = [proc EXCEPT ![p] = Fresh(IF installed THEN "forked" ELSE "bare")]
        /\ wkids' = [wkids EXCEPT ![w] = @ \cup {p}]
        /\ children' = [children EXCEPT ![p] = w]
  BY DEF StartChild
<1>2. Fresh(IF installed THEN "forked" ELSE "bare") \in Process
  BY FreshType DEF Live, Early
<1>3. proc' \in [Pid -> Process]
  BY <1>1, <1>2 DEF TypeOK
<1>4. /\ children' \in [Pid -> Wrap \cup {None}]
      /\ wkids' \in [Wrap -> SUBSET Pid]
  BY <1>1 DEF TypeOK
<1>5. /\ forktimes \in [Wrap -> Nat]
      /\ \A v \in Wrap : Workers[v] \in Nat /\ forktimes[v] <= Workers[v] + 1
  BY WorkersAssumption DEF TypeOK
<1>6. forktimes' = [forktimes EXCEPT ![w] = IF @ > Workers[w] THEN @ ELSE @ + 1]
  BY DEF StartChild
<1>7. \A v \in Wrap : forktimes'[v] \in Nat /\ forktimes'[v] <= Workers[v] + 1
  BY <1>5, <1>6
<1>8. forktimes' \in [Wrap -> Nat]
  BY <1>5, <1>6, <1>7
<1> QED
  BY <1>3, <1>4, <1>7, <1>8

\* Reaping keeps the two tables and the records well-formed.
LEMMA WaitChildType ==
    ASSUME TypeOK, NEW p \in Pid, WaitChild(p)
    PROVE  /\ children' \in [Pid -> Wrap \cup {None}]
           /\ wkids' \in [Wrap -> SUBSET Pid]
           /\ proc' \in [Pid -> Process]
<1>1. Fresh("free") \in Process
  BY FreshType
<1> QED
  BY <1>1 DEF TypeOK, WaitChild
\* A greenthread moves: the other one stays.
LEMMA GotoEffect ==
    ASSUME TypeOK, NEW g \in Greenlet, NEW l, Goto(g, l)
    PROVE  /\ pc'[g] = l
           /\ \A h \in Greenlet \ {g} : pc'[h] = pc[h]
           /\ l \in PcMain \cup PcOther => pc' \in [Greenlet -> PcMain \cup PcOther]
  BY DEF TypeOK, Goto

\* The end of the parent leaves a well-formed state.
LEMMA GoneType ==
    ASSUME TypeOK, ParentGone
    PROVE  TypeOK'
<1>1. /\ pc' \in [Greenlet -> PcMain \cup PcOther]
      /\ pc'["main"] = "gone" /\ pc'["other"] = "gone"
  BY DEF ParentGone, PcMain, PcOther, Greenlet
<1> QED
  BY <1>1, NoneAssumption DEF TypeOK, ParentGone, PcMain, PcOther

\* A step of a child leaves the parent's state alone.
LEMMA ChildFrame ==
    ASSUME NEW p \in Pid, ChildStep(p) \/ ChildDies(p)
    PROVE  UNCHANGED parentVars
  BY DEF ChildStep, ChildDies, ChildClear, ChildSetup, ChildUseHub, ChildGoes,
         ChildTerm, ChildHup, ChildReread, ChildReinstall, ChildNoHandler,
         ChildStopped, PipeWatcher

\* A child's own step changes only its record, which stays one and is not freed.
LEMMA ChildType ==
    ASSUME TypeOK, NEW p \in Pid, ChildStep(p) \/ ChildDies(p)
    PROVE  /\ proc' \in [Pid -> Process]
           /\ \A q \in Pid : proc'[q].phase = "free" <=> proc[q].phase = "free"
<1>0. proc \in [Pid -> Process] /\ proc[p] \in Process
  BY DEF TypeOK
<1>1. ASSUME NEW r \in Process, r.phase # "free", proc[p].phase # "free",
             proc' = [proc EXCEPT ![p] = r]
      PROVE  /\ proc' \in [Pid -> Process]
             /\ \A q \in Pid : proc'[q].phase = "free" <=> proc[q].phase = "free"
  BY <1>0, <1>1
<1>2. ASSUME NEW from \in Live, NEW to \in Live, ChildGoes(p, from, to)
      PROVE  /\ proc' \in [Pid -> Process]
             /\ \A q \in Pid : proc'[q].phase = "free" <=> proc[q].phase = "free"
  <2> DEFINE r == [proc[p] EXCEPT !.phase = to]
  <2>1. proc' = [proc EXCEPT ![p] = r]
    BY <1>2 DEF ChildGoes
  <2>2. r \in Process /\ r.phase # "free" /\ proc[p].phase # "free"
    BY <1>2, <1>0 DEF ChildGoes, Process, Live, Early
  <2> HIDE DEF r
  <2> QED
    BY <1>1, <2>1, <2>2
<1>3. CASE ChildClear(p) \/ ChildSetup(p) \/ ChildUseHub(p) \/ ChildReinstall(p)
  BY <1>2, <1>3 DEF ChildClear, ChildSetup, ChildUseHub, ChildReinstall, Live, Early
<1>4. CASE ChildTerm(p)
  <2> DEFINE r == [proc[p] EXCEPT !.phase = "stopping", !.inbox = @ \ {"TERM"}]
  <2>1. proc' = [proc EXCEPT ![p] = r]
    BY <1>4 DEF ChildTerm
  <2>2. r \in Process /\ r.phase # "free" /\ proc[p].phase # "free"
    BY <1>4, <1>0 DEF ChildTerm, Process, Live, Early
  <2> HIDE DEF r
  <2> QED
    BY <1>1, <2>1, <2>2
<1>5. CASE ChildHup(p)
  <2> DEFINE r == [proc[p] EXCEPT !.phase = "caught", !.inbox = @ \ {"HUP"}]
  <2>1. proc' = [proc EXCEPT ![p] = r]
    BY <1>5 DEF ChildHup
  <2>2. r \in Process /\ r.phase # "free" /\ proc[p].phase # "free"
    BY <1>5, <1>0 DEF ChildHup, Process, Live, Early
  <2> HIDE DEF r
  <2> QED
    BY <1>1, <2>1, <2>2
<1>6. CASE ChildReread(p)
  <2> DEFINE r == [proc[p] EXCEPT !.phase = "rereading", !.stale = FALSE]
  <2>1. proc' = [proc EXCEPT ![p] = r]
    BY <1>6 DEF ChildReread
  <2>2. r \in Process /\ r.phase # "free" /\ proc[p].phase # "free"
    BY <1>6, <1>0 DEF ChildReread, Process, Live, Early
  <2> HIDE DEF r
  <2> QED
    BY <1>1, <2>1, <2>2
<1> USE DEF TypeOK, Process, Live, Early
<1>7. CASE ChildNoHandler(p)
  <2>1. PICK sig \in proc[p].inbox :
          proc' = [proc EXCEPT ![p].inbox = @ \ {sig}, ![p].lost = TRUE]
    BY <1>7 DEF ChildNoHandler
  <2>2. proc[p] \in Process /\ proc[p].inbox \ {sig} \subseteq {"TERM", "HUP"}
    OBVIOUS
  <2>3. proc'[p] = [phase |-> proc[p].phase, inbox |-> proc[p].inbox \ {sig},
                    stale |-> proc[p].stale, lost |-> TRUE]
    BY <2>1, <2>2
  <2>4. \A q \in Pid \ {p} : proc'[q] = proc[q]
    BY <2>1
  <2>5. proc'[p] \in Process /\ proc'[p].phase = proc[p].phase
    BY <2>2, <2>3
  <2> QED
    BY <2>1, <2>4, <2>5
<1>8. CASE ChildStopped(p) \/ PipeWatcher(p) \/ ChildDies(p)
  <2>1. proc' = [proc EXCEPT ![p] = Fresh("zombie")] /\ proc[p].phase \in Live
    BY <1>8 DEF ChildStopped, PipeWatcher, ChildDies, IsLive
  <2> QED
    BY <2>1, FreshType DEF Fresh
<1> QED
  BY <1>3, <1>4, <1>5, <1>6, <1>7, <1>8 DEF ChildStep

\* Marking the processes as out of date changes no phase.
LEMMA BeginHupType ==
    ASSUME TypeOK, BeginHup
    PROVE  /\ proc' \in [Pid -> Process]
           /\ \A p \in Pid : proc'[p].phase = "free" <=> proc[p].phase = "free"
<1>1. \A p \in Pid : IsLive(p) \in BOOLEAN
  BY DEF IsLive
<1>2. \A p \in Pid : proc[p] \in Process
  BY DEF TypeOK
<1>3. ASSUME NEW p \in Pid
      PROVE  /\ [proc[p] EXCEPT !.stale = IsLive(p)] \in Process
             /\ [proc[p] EXCEPT !.stale = IsLive(p)].phase = proc[p].phase
  BY <1>1, <1>2 DEF Process
<1>4. proc' = [p \in Pid |-> [proc[p] EXCEPT !.stale = IsLive(p)]]
  BY DEF BeginHup
<1> QED
  BY <1>3, <1>4

\* Every configuration says whether there is a timeout.
LEMMA ConfTypes == TypeOK => conf.timeout \in BOOLEAN
  BY ConfAssumption DEF TypeOK, ConfType

\* Every step keeps the state well-formed; that a reaped process belongs to a
\* service (551) takes Tracking.
LEMMA TypeStep == TypeOK /\ Tracking /\ [Next]_vars => TypeOK'
<1> SUFFICES ASSUME TypeOK, Tracking, [Next]_vars PROVE TypeOK'
  OBVIOUS
<1> USE DEF At, Goto, PcMain, PcOther, Greenlet
<1>1. ASSUME NEW w \in Wrap, LaunchService(w) PROVE TypeOK'
  BY <1>1 DEF LaunchService, TypeOK
<1>2. CASE LaunchDone
  BY <1>2, NoneAssumption DEF LaunchDone, TypeOK
<1>3. CASE Wait
  BY <1>3, NoneAssumption DEF Wait, TypeOK
<1>4. CASE RespawnSleep
  BY <1>4, NoneAssumption DEF RespawnSleep, TypeOK
<1>5. CASE RespawnWake
  BY <1>5, NoneAssumption DEF RespawnWake, TypeOK
<1>6. CASE RefillThrottle
  BY <1>6, NoneAssumption DEF RefillThrottle, TypeOK
<1>7. CASE RefillDone
  BY <1>7, NoneAssumption DEF RefillDone, TypeOK
<1>8. CASE WaitStopCalled
  BY <1>8 DEF WaitStopCalled, RespawnOver, TypeOK
<1>9. CASE GracefulShutdown
  BY <1>9, ConfTypes DEF GracefulShutdown, RespawnOver, TypeOK
<1>10. CASE KilledWait
  BY <1>10, ConfTypes, NoneAssumption DEF KilledWait, YieldPoints, TypeOK
<1>11. CASE OtherStop
  BY <1>11 DEF OtherStop, TypeOK
<1>12. CASE LaunchFork
  <2>1. cur \in Wrap /\ StartChild(cur)
    BY <1>12 DEF LaunchFork, TypeOK
  <2> QED
    BY <1>12, <2>1, StartChildType DEF LaunchFork, TypeOK
<1>13. CASE RefillFork
  <2>1. cur \in Wrap /\ StartChild(cur)
    BY <1>13 DEF RefillFork, TypeOK
  <2> QED
    BY <1>13, <2>1, StartChildType DEF RefillFork, TypeOK
<1>14. CASE ThrottleWake
  <2>1. cur \in Wrap /\ StartChild(cur)
    BY <1>14 DEF ThrottleWake, TypeOK
  <2> QED
    BY <1>14, <2>1, StartChildType DEF ThrottleWake, TypeOK
<1>15. CASE RespawnReap
  <2>1. PICK p \in Pid : WaitChild(p) /\ cur' = children[p]
    BY <1>15 DEF RespawnReap
  <2>2. children[p] \in Wrap
    BY <2>1 DEF WaitChild, Tracking, Tracked, Processes, TypeOK
  <2> QED
    BY <1>15, <2>1, <2>2, WaitChildType DEF RespawnReap, TypeOK
<1>16. CASE BeginHup
  <2>1. proc' \in [Pid -> Process]
    BY <1>16, BeginHupType
  <2> QED
    BY <1>16, <2>1 DEF BeginHup, RespawnOver, TypeOK
<1>17. CASE SignalKids
  <2>1. proc' \in [Pid -> Process]
    BY <1>17, KillType DEF SignalKids
  <2> QED
    BY <1>17, <2>1 DEF SignalKids, TypeOK
<1>18. ASSUME NEW g \in Greenlet, StopKill(g) PROVE TypeOK'
  <2>1. proc' \in [Pid -> Process]
    BY <1>18, KillType DEF StopKill
  <2> QED
    BY <1>18, <2>1 DEF StopKill, TypeOK
<1>19. ASSUME NEW g \in Greenlet, StopReap(g) PROVE TypeOK'
  <2>1. PICK p \in Pid : WaitChild(p)
    BY <1>19 DEF StopReap
  <2> QED
    BY <1>19, <2>1, WaitChildType DEF StopReap, TypeOK
<1>20. ASSUME NEW g \in Greenlet, StopReturn(g) PROVE TypeOK'
  BY <1>20 DEF StopReturn, TypeOK
<1>21. ASSUME NEW sig \in Signal, Arrive(sig), alarm' \in BOOLEAN PROVE TypeOK'
  BY <1>21, GoneType DEF Arrive, TypeOK
<1>22. ASSUME NEW sig \in {"TERM", "HUP", "INT"}, SignalParent(sig) PROVE TypeOK'
  BY <1>22, <1>21 DEF SignalParent, Signal, TypeOK
<1>23. CASE AlarmFires
  BY <1>23, <1>21 DEF AlarmFires, Signal
<1>24. CASE ParentExit \/ ExitNow
  BY <1>24, GoneType DEF ParentExit, ExitNow
<1>25. CASE HandleTerm
  BY <1>25 DEF HandleTerm, Callback, Due, TypeOK
<1>26. CASE HandleHup
  BY <1>26 DEF HandleHup, Callback, Due, TypeOK
<1>27. CASE NoHandler
  BY <1>27 DEF NoHandler, Callback, Due, TypeOK
<1>28. ASSUME NEW p \in Pid, ChildStep(p) \/ ChildDies(p) PROVE TypeOK'
  <2>1. proc' \in [Pid -> Process]
    BY <1>28, ChildType
  <2> QED
    BY <1>28, <2>1, ChildFrame DEF parentVars, TypeOK
<1>29. CASE UNCHANGED vars
  BY <1>29 DEF vars, parentVars, TypeOK
<1> QED
  BY <1>1, <1>2, <1>3, <1>4, <1>5, <1>6, <1>7, <1>8, <1>9, <1>10, <1>11, <1>12, <1>13, <1>14, <1>15, <1>16, <1>17, <1>18, <1>19, <1>20, <1>21, <1>22, <1>23, <1>24, <1>25, <1>26, <1>27, <1>28, <1>29
     DEF Next, MainStep, OtherStep, CallbackStep, Environment, Terminated
-----------------------------------------------------------------------------
(***************************************************************************)
(* The table of children.                                                  *)
(***************************************************************************)
Count(w) == Cardinality(wkids[w])
Full(w) == Count(w) = Workers[w]

\* A step that neither forks nor reaps leaves the table right.
LEMMA TrackingFrame ==
    ASSUME Tracking, UNCHANGED <<children, wkids>>,
           \A p \in Pid : proc'[p].phase = "free" <=> proc[p].phase = "free"
    PROVE  Tracking'
  BY DEF Tracking, Tracked, Processes

\* The processes of a service are finitely many: their number is a natural.
LEMMA CountType == ASSUME TypeOK PROVE \A w \in Wrap : IsFiniteSet(wkids[w]) /\ Count(w) \in Nat
<1> SUFFICES ASSUME NEW w \in Wrap PROVE IsFiniteSet(wkids[w]) /\ Count(w) \in Nat
  OBVIOUS
<1>1. wkids[w] \subseteq Pid
  BY DEF TypeOK
<1> QED
  BY <1>1, PidAssumption, FS_Subset, FS_CardinalityType DEF Count

\* A fork enters one new process in both structures (495-496).
LEMMA StartChildEffect ==
    ASSUME TypeOK, Tracking, NEW w \in Wrap, StartChild(w)
    PROVE  /\ Tracking'
           /\ Count(w)' = Count(w) + 1
           /\ \A v \in Wrap \ {w} : Count(v)' = Count(v)
<1>1. PICK p \in Pid :
        /\ proc[p].phase = "free"
        /\ proc' = [proc EXCEPT ![p] = Fresh(IF installed THEN "forked" ELSE "bare")]
        /\ wkids' = [wkids EXCEPT ![w] = @ \cup {p}]
        /\ children' = [children EXCEPT ![p] = w]
  BY DEF StartChild
<1>2. children[p] = None
  BY <1>1 DEF Tracking, Tracked, Processes
<1>3. p \notin wkids[w]
  BY <1>2, NoneAssumption DEF Tracking
<1>4. Fresh(IF installed THEN "forked" ELSE "bare").phase # "free"
  BY DEF Fresh
<1>5. Tracked' = Processes'
  BY <1>1, <1>4, NoneAssumption DEF Tracking, Tracked, Processes, TypeOK
<1>6. \A v \in Wrap : wkids'[v] = {q \in Pid : children'[q] = v}
  BY <1>1, <1>2, NoneAssumption DEF Tracking, TypeOK
<1>7. wkids'[w] = wkids[w] \cup {p} /\ \A v \in Wrap \ {w} : wkids'[v] = wkids[v]
  BY <1>1 DEF TypeOK
<1>8. Count(w)' = Count(w) + 1
  <2>1. IsFiniteSet(wkids[w])
    BY CountType
  <2>2. Cardinality(wkids[w] \cup {p}) = Cardinality(wkids[w]) + 1
    BY <1>3, <2>1, FS_AddElement
  <2> QED
    BY <1>7, <2>2 DEF Count
<1> QED
  BY <1>5, <1>6, <1>7, <1>8 DEF Tracking, Count

\* Reaping takes one process out of both structures (550-551).
LEMMA WaitChildEffect ==
    ASSUME TypeOK, Tracking, NEW p \in Pid, WaitChild(p)
    PROVE  /\ Tracking'
           /\ children[p] \in Wrap
           /\ \A w \in Wrap :
                Count(w)' = IF w = children[p] THEN Count(w) - 1 ELSE Count(w)
<1>1. /\ proc[p].phase = "zombie"
      /\ proc' = [proc EXCEPT ![p] = Fresh("free")]
      /\ wkids' = [w \in Wrap |-> IF w = children[p] THEN wkids[w] \ {p} ELSE wkids[w]]
      /\ children' = [children EXCEPT ![p] = None]
  BY DEF WaitChild
<1>2. children[p] \in Wrap
  BY <1>1 DEF Tracking, Tracked, Processes, TypeOK
<1>3. p \in wkids[children[p]]
  BY <1>2 DEF Tracking
<1>4. Fresh("free").phase = "free"
  BY DEF Fresh
<1>5. Tracked' = Processes'
  BY <1>1, <1>4, NoneAssumption DEF Tracking, Tracked, Processes, TypeOK
<1>6. \A v \in Wrap : wkids'[v] = {q \in Pid : children'[q] = v}
  BY <1>1, <1>2, NoneAssumption DEF Tracking, TypeOK
<1>7. /\ wkids'[children[p]] = wkids[children[p]] \ {p}
      /\ \A v \in Wrap \ {children[p]} : wkids'[v] = wkids[v]
  BY <1>1, <1>2
<1>8. ASSUME NEW w \in Wrap
      PROVE  Count(w)' = IF w = children[p] THEN Count(w) - 1 ELSE Count(w)
  <2>1. CASE w = children[p]
    <3>1. wkids'[w] = wkids[w] \ {p} /\ p \in wkids[w] /\ IsFiniteSet(wkids[w])
      BY <1>3, <1>7, <2>1, CountType
    <3>2. Cardinality(wkids[w] \ {p}) = Cardinality(wkids[w]) - 1
      BY <3>1, FS_RemoveElement
    <3> QED
      BY <2>1, <3>1, <3>2 DEF Count
  <2>2. CASE w # children[p]
    BY <1>7, <2>2 DEF Count
  <2> QED
    BY <2>1, <2>2
<1> QED
  BY <1>2, <1>5, <1>6, <1>8 DEF Tracking

\* Every step forks, reaps, or leaves the set of unreaped processes as it is.
Forks == LaunchFork \/ RefillFork \/ ThrottleWake
Reaps == RespawnReap \/ \E g \in Greenlet : StopReap(g)
Quiet == /\ UNCHANGED <<children, wkids>>
         /\ \A p \in Pid : proc'[p].phase = "free" <=> proc[p].phase = "free"

\* The end of the parent forks and reaps nothing.
LEMMA GoneQuiet == ParentGone => Quiet
  BY DEF ParentGone, Quiet

\* Every step forks one child, reaps one, or does neither.
LEMMA StepKinds == TypeOK /\ [Next]_vars => Forks \/ Reaps \/ Quiet
<1> SUFFICES ASSUME TypeOK, [Next]_vars PROVE Forks \/ Reaps \/ Quiet
  OBVIOUS
<1>1. ASSUME NEW w \in Wrap, LaunchService(w) PROVE Quiet
  BY <1>1 DEF LaunchService, Quiet
<1>2. CASE LaunchDone \/ Wait \/ RespawnSleep \/ RespawnWake \/ RefillThrottle \/ RefillDone
  BY <1>2 DEF LaunchDone, Wait, RespawnSleep, RespawnWake, RefillThrottle, RefillDone, Quiet
<1>3. CASE WaitStopCalled \/ GracefulShutdown \/ KilledWait \/ OtherStop
  BY <1>3 DEF WaitStopCalled, GracefulShutdown, KilledWait, OtherStop, Quiet
<1>4. CASE BeginHup
  BY <1>4, BeginHupType DEF BeginHup, Quiet
<1>5. CASE SignalKids
  BY <1>5, KillType DEF SignalKids, Quiet
<1>6. ASSUME NEW g \in Greenlet, StopKill(g) PROVE Quiet
  BY <1>6, KillType DEF StopKill, Quiet
<1>7. ASSUME NEW g \in Greenlet, StopReturn(g) PROVE Quiet
  BY <1>7 DEF StopReturn, Quiet
<1>8. ASSUME NEW sig \in Signal, Arrive(sig) PROVE Quiet
  BY <1>8, GoneQuiet DEF Arrive, Quiet
<1>9. ASSUME NEW sig \in {"TERM", "HUP", "INT"}, SignalParent(sig) PROVE Quiet
  BY <1>8, <1>9 DEF SignalParent, Signal
<1>10. CASE AlarmFires
  BY <1>8, <1>10 DEF AlarmFires, Signal
<1>11. CASE ParentExit \/ ExitNow
  BY <1>11, GoneQuiet DEF ParentExit, ExitNow
<1>12. CASE HandleTerm \/ HandleHup \/ NoHandler
  BY <1>12 DEF HandleTerm, HandleHup, NoHandler, Callback, Quiet
<1>13. ASSUME NEW p \in Pid, ChildStep(p) \/ ChildDies(p) PROVE Quiet
  BY <1>13, ChildType, ChildFrame DEF parentVars, Quiet
<1>14. CASE UNCHANGED vars
  BY <1>14 DEF vars, parentVars, Quiet
<1> QED
  BY <1>1, <1>2, <1>3, <1>4, <1>5, <1>6, <1>7, <1>9, <1>10, <1>11, <1>12, <1>13, <1>14
     DEF Next, MainStep, OtherStep, CallbackStep, Environment, Terminated,
         Forks, Reaps, Greenlet

\* A fork is always for the service being launched or refilled.
LEMMA ForkFacts ==
    ASSUME TypeOK, Forks
    PROVE  cur \in Wrap /\ StartChild(cur)
  BY DEF Forks, LaunchFork, RefillFork, ThrottleWake, At, TypeOK

\* Whoever reaps does it by _wait_child.
LEMMA ReapFacts ==
    ASSUME Reaps
    PROVE  \E p \in Pid : WaitChild(p)
  BY DEF Reaps, RespawnReap, StopReap

\* Every step keeps the table of children right.
LEMMA TrackingStep == TypeOK /\ Tracking /\ [Next]_vars => Tracking'
<1> SUFFICES ASSUME TypeOK, Tracking, [Next]_vars PROVE Tracking'
  OBVIOUS
<1>1. CASE Forks
  BY <1>1, ForkFacts, StartChildEffect
<1>2. CASE Reaps
  BY <1>2, ReapFacts, WaitChildEffect
<1>3. CASE Quiet
  BY <1>3, TrackingFrame DEF Quiet
<1> QED
  BY <1>1, <1>2, <1>3, StepKinds

\* At the start there are no processes and both tables are empty.
LEMMA TrackingInit == Init => Tracking
<1> SUFFICES ASSUME Init PROVE Tracking
  OBVIOUS
<1>1. \A p \in Pid : proc[p].phase = "free" /\ children[p] = None
  BY DEF Init, Fresh
<1>2. \A w \in Wrap : wkids[w] = {}
  BY DEF Init
<1> QED
  BY <1>1, <1>2, NoneAssumption DEF Tracking, Tracked, Processes

\* In every reachable state the state is well-formed (TypeOK), and self.children
\* and the wrap.children sets hold exactly the unreaped processes (Tracking), so
\* that os.kill never reaches a recycled pid and no child is forgotten: for any
\* number of services and workers, whatever hooks and other greenthreads do.
THEOREM TableCorrect == Spec => [](TypeOK /\ Tracking)
<1>1. Init => TypeOK /\ Tracking
  BY TypeInit, TrackingInit
<1>2. TypeOK /\ Tracking /\ [Next]_vars => (TypeOK /\ Tracking)'
  BY TypeStep, TrackingStep
<1> QED
  BY <1>1, <1>2, PTL DEF Spec

\* The part of it that is about types, for the steps of wait(), of the handlers and
\* of the children alike.
THEOREM TypesKept == Spec => []TypeOK
  BY TableCorrect, PTL

-----------------------------------------------------------------------------
(***************************************************************************)
(* The number of processes of a service.  A fork after the throttle's sleep *)
(* does not look at self.running or at wrap.children again, so the bound    *)
(* rests on what the sleep started from: the service was one short, and in  *)
(* the meantime others can only have reaped.                                *)
(***************************************************************************)
ThrottleShort == pc["main"] = "throttle" => Short(cur)

CountInv == AtMostWorkers /\ ThrottleShort

\* wait() is in the throttle's sleep only if it went there, or stayed there.
LEMMA ThrottleEntry ==
    ASSUME TypeOK, [Next]_vars, pc'["main"] = "throttle"
    PROVE  \/ RefillThrottle
           \/ pc["main"] = "throttle" /\ cur' = cur
<1> USE DEF At, Goto, Greenlet, TypeOK
<1>1. ASSUME NEW w \in Wrap, LaunchService(w) PROVE FALSE
  BY <1>1 DEF LaunchService
<1>2. CASE LaunchDone \/ Wait \/ RespawnSleep \/ RespawnWake \/ RefillDone
  BY <1>2 DEF LaunchDone, Wait, RespawnSleep, RespawnWake, RefillDone
<1>3. CASE WaitStopCalled \/ GracefulShutdown \/ KilledWait \/ OtherStop
  BY <1>3 DEF WaitStopCalled, GracefulShutdown, KilledWait, OtherStop
<1>4. CASE BeginHup \/ SignalKids
  BY <1>4 DEF BeginHup, SignalKids
<1>5. CASE LaunchFork \/ RefillFork \/ ThrottleWake \/ RespawnReap
  BY <1>5 DEF LaunchFork, RefillFork, ThrottleWake, RespawnReap
<1>6. ASSUME NEW g \in Greenlet, StopKill(g) \/ StopReap(g) \/ StopReturn(g)
      PROVE  pc["main"] = "throttle" /\ cur' = cur
  BY <1>6 DEF StopKill, StopReap, StopReturn
<1>7. ParentGone => FALSE
  BY DEF ParentGone
<1>8. ASSUME NEW sig \in Signal, Arrive(sig) PROVE pc["main"] = "throttle" /\ cur' = cur
  BY <1>7, <1>8 DEF Arrive
<1>9. ASSUME NEW sig \in {"TERM", "HUP", "INT"}, SignalParent(sig)
      PROVE  pc["main"] = "throttle" /\ cur' = cur
  BY <1>8, <1>9 DEF SignalParent, Signal
<1>10. CASE AlarmFires
  BY <1>8, <1>10 DEF AlarmFires, Signal
<1>11. CASE ParentExit \/ ExitNow
  BY <1>7, <1>11 DEF ParentExit, ExitNow
<1>12. CASE HandleTerm \/ HandleHup \/ NoHandler
  BY <1>12 DEF HandleTerm, HandleHup, NoHandler, Callback
<1>13. ASSUME NEW p \in Pid, ChildStep(p) \/ ChildDies(p)
       PROVE  pc["main"] = "throttle" /\ cur' = cur
  BY <1>13, ChildFrame DEF parentVars
<1>14. CASE UNCHANGED vars
  BY <1>14 DEF vars, parentVars
<1> QED
  BY <1>1, <1>2, <1>3, <1>4, <1>5, <1>6, <1>9, <1>10, <1>11, <1>12, <1>13, <1>14
     DEF Next, MainStep, OtherStep, CallbackStep, Environment, Terminated

\* Only a fork adds a process, and only to the service being refilled.
LEMMA CountGrows ==
    ASSUME TypeOK, Tracking, [Next]_vars
    PROVE  \A w \in Wrap : Count(w)' > Count(w) => Forks /\ w = cur /\ Count(w)' = Count(w) + 1
<1> SUFFICES ASSUME NEW w \in Wrap, Count(w)' > Count(w)
             PROVE  Forks /\ w = cur /\ Count(w)' = Count(w) + 1
  OBVIOUS
<1>0. Count(w) \in Nat
  BY CountType
<1>1. CASE Forks
  BY <1>0, <1>1, ForkFacts, StartChildEffect
<1>2. CASE Reaps
  <2>1. PICK p \in Pid : WaitChild(p)
    BY <1>2, ReapFacts
  <2>2. Count(w)' = IF w = children[p] THEN Count(w) - 1 ELSE Count(w)
    BY <2>1, WaitChildEffect
  <2> QED
    BY <1>0, <2>2
<1>3. CASE Quiet
  BY <1>0, <1>3 DEF Quiet, Count
<1> QED
  BY <1>1, <1>2, <1>3, StepKinds

\* At a fork the service is short of processes, the throttled one included.
LEMMA ForkShort ==
    ASSUME ThrottleShort, Forks
    PROVE  Short(cur)
  BY DEF Forks, LaunchFork, RefillFork, ThrottleWake, At, ThrottleShort

\* Every step keeps the counts bounded, and the throttled service short.
LEMMA CountStep == TypeOK /\ Tracking /\ CountInv /\ [Next]_vars => CountInv'
<1> SUFFICES ASSUME TypeOK, Tracking, CountInv, [Next]_vars PROVE CountInv'
  OBVIOUS
<1>1. \A w \in Wrap : Count(w) \in Nat /\ Count(w)' \in Nat /\ Workers[w] \in Nat
  <2> SUFFICES ASSUME NEW w \in Wrap PROVE Count(w) \in Nat /\ Count(w)' \in Nat
    BY WorkersAssumption
  <2>1. wkids'[w] \subseteq Pid
    BY TypeStep DEF TypeOK
  <2>2. Cardinality(wkids'[w]) \in Nat
    BY <2>1, PidAssumption, FS_Subset, FS_CardinalityType
  <2> QED
    BY <2>2, CountType DEF Count
<1>2. \A w \in Wrap : Count(w)' <= Workers[w]
  <2> SUFFICES ASSUME NEW w \in Wrap PROVE Count(w)' <= Workers[w]
    OBVIOUS
  <2>1. CASE Count(w)' > Count(w)
    <3>1. Forks /\ w = cur /\ Count(w)' = Count(w) + 1
      BY <2>1, CountGrows
    <3>2. Count(w) < Workers[w]
      BY <3>1, ForkShort DEF CountInv, Short, Count
    <3> QED
      BY <1>1, <3>1, <3>2
  <2>2. CASE ~(Count(w)' > Count(w))
    BY <1>1, <2>2 DEF CountInv, AtMostWorkers, Count
  <2> QED
    BY <2>1, <2>2
<1>3. ASSUME pc'["main"] = "throttle" PROVE Count(cur)' < Workers[cur']
  <2>1. CASE RefillThrottle
    BY <2>1 DEF RefillThrottle, Short, Count
  <2>2. CASE pc["main"] = "throttle" /\ cur' = cur
    <3>1. cur \in Wrap /\ Count(cur) < Workers[cur]
      BY <2>2 DEF TypeOK, CountInv, ThrottleShort, Short, Count
    <3>2. ~Forks
      BY <1>3, <2>2 DEF Forks, LaunchFork, RefillFork, ThrottleWake, At, Goto, TypeOK, Greenlet
    <3>3. ~(Count(cur) < Cardinality(wkids'[cur]))
      BY <3>1, <3>2, CountGrows DEF Count
    <3> QED
      BY <1>1, <2>2, <3>1, <3>3 DEF Count
  <2> QED
    BY <1>3, <2>1, <2>2, ThrottleEntry
<1> QED
  BY <1>2, <1>3 DEF CountInv, AtMostWorkers, ThrottleShort, Short, Count

\* At the start no service has a process.
LEMMA CountInit == Init => CountInv
<1> SUFFICES ASSUME Init PROVE CountInv
  OBVIOUS
<1>1. \A w \in Wrap : wkids[w] = {} /\ Workers[w] \in Nat
  BY WorkersAssumption DEF Init
<1>2. pc["main"] # "throttle"
  BY DEF Init, Greenlet
<1> QED
  BY <1>1, <1>2, FS_EmptySet DEF CountInv, AtMostWorkers, ThrottleShort

\* No service ever has more processes than its number of workers.
THEOREM NeverTooMany == Spec => []AtMostWorkers
<1>1. Init => CountInv
  BY CountInit
<1>2. TypeOK /\ Tracking /\ CountInv /\ [Next]_vars => CountInv'
  BY CountStep
<1>3. CountInv => AtMostWorkers
  BY DEF CountInv
<1> QED
  BY <1>1, <1>2, <1>3, TableCorrect, PTL DEF Spec

-----------------------------------------------------------------------------
(***************************************************************************)
(* Full strength.  As long as nobody has called stop(), the only service   *)
(* that may be short is the one being started or refilled, by one process  *)
(* in the latter case; and then either self.running still holds, so that   *)
(* the loop of 563 will fork it, or the throttle will fork it anyway.      *)
(***************************************************************************)
OthersFull == \A w \in Wrap : w = cur \/ Full(w)
OneShort(w) == Count(w) + 1 = Workers[w]

StrengthInv ==
    pc["other"] = "none" =>
      /\ pc["main"] \in {"respawn", "idle", "hup_hooks"} => \A w \in Wrap : Full(w)
      /\ pc["main"] \in {"app", "launching"} =>
           /\ running
           /\ \A w \in Wrap : w = cur \/ forktimes[w] = 0 \/ Full(w)
      /\ pc["main"] = "refill" => OthersFull /\ (Full(cur) \/ (running /\ OneShort(cur)))
      /\ pc["main"] = "throttle" => OthersFull /\ OneShort(cur)

\* The counts are read off wrap.children.
LEMMA QuietCount == ASSUME UNCHANGED wkids PROVE \A w : Count(w)' = Count(w)
  BY DEF Count

\* wait() is in none of the four phases, or another greenthread calls stop().
LEMMA StrengthOff ==
    ASSUME \/ pc["main"] \in {"stop_hooks", "reaping", "returned", "gone"}
           \/ pc["other"] # "none"
    PROVE  StrengthInv
  BY DEF StrengthInv

\* Nothing that StrengthInv looks at changes.
LEMMA StrengthFrame ==
    ASSUME StrengthInv, UNCHANGED <<pc, running, cur, forktimes, wkids>>
    PROVE  StrengthInv'
  BY DEF StrengthInv, OthersFull, OneShort, Full, Count

\* Only running may change, and wait() is asleep or in a hook.
LEMMA StrengthYields ==
    ASSUME StrengthInv, UNCHANGED <<pc, cur, forktimes, wkids>>, Yields("main")
    PROVE  StrengthInv'
<1>1. pc["main"] \notin {"app", "launching", "refill"}
  BY DEF Yields, YieldPoints
<1> QED
  BY <1>1 DEF StrengthInv, OthersFull, OneShort, Full, Count

\* Every step keeps full strength, but for the service being refilled.
LEMMA StrengthStep ==
    TypeOK /\ Tracking /\ CountInv /\ StrengthInv /\ [Next]_vars => StrengthInv'
<1> SUFFICES ASSUME TypeOK, Tracking, CountInv, StrengthInv, [Next]_vars
             PROVE  StrengthInv'
  OBVIOUS
<1> DEFINE Moved(l) == pc'["main"] = l /\ pc'["other"] = pc["other"]
<1>a. \A w \in Wrap : Count(w) \in Nat /\ Workers[w] \in Nat \ {0} /\ Count(w) <= Workers[w]
  BY CountType, WorkersAssumption DEF CountInv, AtMostWorkers, Count
<1>b. ASSUME NEW l, Goto("main", l) PROVE Moved(l)
  BY <1>b DEF Goto, TypeOK, Greenlet
<1>c. ASSUME ParentGone PROVE StrengthInv'
  BY <1>c DEF ParentGone, StrengthInv, Greenlet
<1>1. ASSUME NEW w \in Wrap, LaunchService(w) PROVE StrengthInv'
  <2>1. Moved("launching") /\ pc["main"] = "app" /\ cur' = w
    BY <1>1, <1>b DEF LaunchService, At
  <2>2. cur \notin Wrap
    BY <2>1 DEF TypeOK
  <2>3. UNCHANGED <<running, wkids, forktimes>>
    BY <1>1 DEF LaunchService
  <2> QED
    BY <2>1, <2>2, <2>3, QuietCount DEF StrengthInv, Full
<1>2. CASE LaunchFork
  <2>1. pc["main"] = "launching" /\ cur \in Wrap /\ UNCHANGED <<pc, cur, running>>
    BY <1>2 DEF LaunchFork, At, TypeOK
  <2>2. StartChild(cur)
    BY <1>2 DEF LaunchFork
  <2>3. \A v \in Wrap \ {cur} : Count(v)' = Count(v) /\ forktimes'[v] = forktimes[v]
    BY <2>1, <2>2, StartChildEffect DEF StartChild, TypeOK
  <2> QED
    BY <2>1, <2>3 DEF StrengthInv, Full
<1>3. CASE LaunchDone
  <2>1. Moved("app") /\ pc["main"] = "launching" /\ cur \in Wrap
    BY <1>3, <1>b DEF LaunchDone, At, TypeOK
  <2>2. UNCHANGED <<running, wkids, forktimes>>
    BY <1>3 DEF LaunchDone
  <2>3. ASSUME pc["other"] = "none" PROVE Full(cur) /\ running
    BY <1>3, <1>a, <2>1, <2>3 DEF LaunchDone, StrengthInv, Short, Full, Count
  <2> QED
    BY <2>1, <2>2, <2>3, QuietCount DEF StrengthInv, Full
<1>4. CASE Wait
  <2>1. Moved("respawn") /\ pc["main"] = "app"
    BY <1>4, <1>b DEF Wait, At
  <2>2. cur \notin Wrap /\ (\A w \in Wrap : forktimes[w] > 0) /\ forktimes \in [Wrap -> Nat]
    BY <1>4, <2>1 DEF Wait, TypeOK
  <2>3. UNCHANGED wkids
    BY <1>4 DEF Wait
  <2> QED
    BY <2>1, <2>2, <2>3, QuietCount DEF StrengthInv, Full
<1>5. CASE RespawnReap
  <2>1. PICK p \in Pid : WaitChild(p) /\ cur' = children[p]
    BY <1>5 DEF RespawnReap
  <2>2. /\ Moved("refill") /\ pc["main"] = "respawn"
        /\ running /\ UNCHANGED running
    BY <1>5, <1>b DEF RespawnReap, At
  <2>3. /\ cur' \in Wrap
        /\ \A w \in Wrap : Count(w)' = IF w = cur' THEN Count(w) - 1 ELSE Count(w)
    BY <2>1, WaitChildEffect
  <2>4. ASSUME pc["other"] = "none", NEW w \in Wrap
        PROVE  IF w = cur' THEN Count(w)' + 1 = Workers[w] ELSE Count(w)' = Workers[w]
    BY <1>a, <2>2, <2>3, <2>4 DEF StrengthInv, Full
  <2>5. ASSUME pc'["other"] = "none" PROVE OthersFull' /\ OneShort(cur)'
    BY <2>2, <2>3, <2>4, <2>5 DEF OthersFull, OneShort, Full, Count
  <2> QED
    BY <2>2, <2>5 DEF StrengthInv
<1>6. CASE RespawnSleep \/ RespawnWake
  <2>1. /\ \E l \in {"idle", "respawn"} : Moved(l)
        /\ pc["main"] \in {"respawn", "idle"} /\ UNCHANGED wkids
    BY <1>6, <1>b DEF RespawnSleep, RespawnWake, At
  <2> QED
    BY <2>1, QuietCount DEF StrengthInv, Full
<1>7. CASE RefillFork
  <2>1. pc["main"] = "refill" /\ cur \in Wrap /\ UNCHANGED <<pc, cur, running>>
    BY <1>7 DEF RefillFork, At, TypeOK
  <2>2. StartChild(cur) /\ Count(cur) < Workers[cur]
    BY <1>7 DEF RefillFork, Short, Count
  <2>3. /\ Cardinality(wkids'[cur]) = Count(cur) + 1
        /\ \A v \in Wrap \ {cur} : Count(v)' = Count(v)
    BY <2>1, <2>2, StartChildEffect DEF Count
  <2>4. ASSUME pc["other"] = "none" PROVE Full(cur)' /\ OthersFull'
    BY <1>a, <2>1, <2>2, <2>3, <2>4 DEF StrengthInv, OthersFull, OneShort, Full, Count
  <2> QED
    BY <2>1, <2>4 DEF StrengthInv
<1>8. CASE RefillThrottle
  <2>1. Moved("throttle") /\ pc["main"] = "refill" /\ cur \in Wrap
    BY <1>8, <1>b DEF RefillThrottle, At, TypeOK
  <2>2. Count(cur) < Workers[cur] /\ UNCHANGED <<cur, wkids>>
    BY <1>8 DEF RefillThrottle, Short, Count
  <2>3. ASSUME pc["other"] = "none" PROVE OneShort(cur) /\ OthersFull
    BY <1>a, <2>1, <2>2, <2>3 DEF StrengthInv, Full
  <2> QED
    BY <2>1, <2>2, <2>3 DEF StrengthInv, OthersFull, OneShort, Full, Count
<1>9. CASE ThrottleWake
  <2>1. Moved("refill") /\ pc["main"] = "throttle" /\ cur \in Wrap /\ UNCHANGED cur
    BY <1>9, <1>b DEF ThrottleWake, At, TypeOK
  <2>2. StartChild(cur)
    BY <1>9 DEF ThrottleWake
  <2>3. /\ Cardinality(wkids'[cur]) = Count(cur) + 1
        /\ \A v \in Wrap \ {cur} : Count(v)' = Count(v)
    BY <2>1, <2>2, StartChildEffect DEF Count
  <2>4. ASSUME pc["other"] = "none" PROVE Full(cur)' /\ OthersFull'
    BY <1>a, <2>1, <2>3, <2>4 DEF StrengthInv, OthersFull, OneShort, Full, Count
  <2> QED
    BY <2>1, <2>4 DEF StrengthInv
<1>10. CASE RefillDone
  <2>1. Moved("respawn") /\ pc["main"] = "refill" /\ cur \in Wrap /\ UNCHANGED wkids
    BY <1>10, <1>b DEF RefillDone, At, TypeOK
  <2>2. ASSUME pc["other"] = "none" PROVE Full(cur)
    BY <1>10, <1>a, <2>1, <2>2 DEF RefillDone, StrengthInv, OneShort, Full, Short, Count
  <2>3. ASSUME pc["other"] = "none" PROVE \A w \in Wrap : Full(w)
    BY <2>1, <2>2, <2>3 DEF StrengthInv, OthersFull
  <2> QED
    BY <2>1, <2>3, QuietCount DEF StrengthInv, Full
<1>11. CASE BeginHup
  <2>1. Moved("hup_hooks") /\ pc["main"] = "respawn" /\ UNCHANGED wkids
    BY <1>11, <1>b DEF BeginHup, RespawnOver, At
  <2> QED
    BY <2>1, QuietCount DEF StrengthInv, Full
<1>12. CASE SignalKids
  <2>1. Moved("respawn") /\ pc["main"] = "hup_hooks" /\ UNCHANGED wkids
    BY <1>12, <1>b DEF SignalKids, At
  <2> QED
    BY <2>1, QuietCount DEF StrengthInv, Full
<1>13. CASE WaitStopCalled \/ GracefulShutdown \/ KilledWait
  <2>1. Moved("returned") \/ Moved("stop_hooks")
    BY <1>13, <1>b DEF WaitStopCalled, GracefulShutdown, KilledWait
  <2> QED
    BY <2>1 DEF StrengthInv
<1>14. CASE OtherStop
  <2>1. pc'["other"] = "stop_hooks"
    BY <1>14 DEF OtherStop, Goto, TypeOK, Greenlet
  <2> QED
    BY <2>1 DEF StrengthInv
<1>15. ASSUME NEW g \in Greenlet, StopKill(g) \/ StopReap(g) \/ StopReturn(g)
       PROVE  StrengthInv'
  <2>1. /\ pc[g] \in {"stop_hooks", "reaping"}
        /\ \/ UNCHANGED pc
           \/ Goto(g, "reaping")
           \/ Goto(g, IF g = "main" THEN "returned" ELSE "done")
    BY <1>15 DEF StopKill, StopReap, StopReturn, At
  <2>2. \/ pc'["main"] \in {"stop_hooks", "reaping", "returned"}
        \/ pc'["other"] # "none"
    BY <2>1 DEF Goto, TypeOK, Greenlet
  <2> QED
    BY <2>2 DEF StrengthInv
<1>16. ASSUME NEW sig \in Signal, Arrive(sig) PROVE StrengthInv'
  BY <1>16, <1>c, StrengthFrame DEF Arrive
<1>17. ASSUME NEW sig \in {"TERM", "HUP", "INT"}, SignalParent(sig) PROVE StrengthInv'
  BY <1>16, <1>17 DEF SignalParent, Signal
<1>18. CASE AlarmFires
  BY <1>16, <1>18 DEF AlarmFires, Signal
<1>19. CASE ParentExit \/ ExitNow
  BY <1>19, <1>c DEF ParentExit, ExitNow
<1>20. CASE HandleTerm \/ HandleHup \/ NoHandler
  BY <1>20, StrengthYields DEF HandleTerm, HandleHup, NoHandler, Callback, Due, Greenlet
<1>21. ASSUME NEW p \in Pid, ChildStep(p) \/ ChildDies(p) PROVE StrengthInv'
  BY <1>21, ChildFrame, StrengthFrame DEF parentVars
<1>22. CASE UNCHANGED vars
  BY <1>22, StrengthFrame DEF vars, parentVars
<1> QED
  BY <1>1, <1>2, <1>3, <1>4, <1>5, <1>6, <1>7, <1>8, <1>9, <1>10, <1>11, <1>12, <1>13,
     <1>14, <1>15, <1>17, <1>18, <1>19, <1>20, <1>21, <1>22
     DEF Next, MainStep, OtherStep, CallbackStep, Environment, Terminated, Greenlet

\* At the start no service was launched.
LEMMA StrengthInit == Init => StrengthInv
  BY DEF Init, StrengthInv, Greenlet

\* Whenever wait() sleeps and nobody has called stop(), every service has all its
\* processes, whatever signals arrived while a service was being refilled.
THEOREM AlwaysFullStrength == Spec => []FullStrength
<1>1. Init => CountInv
  BY CountInit
<1>2. Init => StrengthInv
  BY StrengthInit
<1>3. TypeOK /\ Tracking /\ CountInv /\ [Next]_vars => CountInv'
  BY CountStep
<1>4. TypeOK /\ Tracking /\ CountInv /\ StrengthInv /\ [Next]_vars => StrengthInv'
  BY StrengthStep
<1>5. StrengthInv => FullStrength
  BY DEF StrengthInv, FullStrength, Full, Count
<1> QED
  BY <1>1, <1>2, <1>3, <1>4, <1>5, TableCorrect, PTL DEF Spec
-----------------------------------------------------------------------------
(***************************************************************************)
(* What the processes are told: that a reload leaves nobody behind, and    *)
(* that a stop leaves nobody untold.  Both are about every process at      *)
(* once, so they ask first what a step does to the records of processes:   *)
(* it forks, reaps, signals or outdates them, or one of them moves itself. *)
(***************************************************************************)
\* Every step leaves the processes alone or is one of these.
LEMMA ProcKinds ==
    ASSUME TypeOK, [Next]_vars
    PROVE  \/ UNCHANGED proc
           \/ Forks \/ Reaps \/ BeginHup \/ SignalKids
           \/ \E g \in Greenlet : StopKill(g)
           \/ \E p \in Pid : ChildStep(p) \/ ChildDies(p)
<1>1. ASSUME NEW w \in Wrap, LaunchService(w) PROVE UNCHANGED proc
  BY <1>1 DEF LaunchService
<1>2. CASE LaunchDone \/ Wait \/ RespawnSleep \/ RespawnWake \/ RefillThrottle \/ RefillDone
  BY <1>2 DEF LaunchDone, Wait, RespawnSleep, RespawnWake, RefillThrottle, RefillDone
<1>3. CASE WaitStopCalled \/ GracefulShutdown \/ KilledWait \/ OtherStop
  BY <1>3 DEF WaitStopCalled, GracefulShutdown, KilledWait, OtherStop
<1>4. ASSUME NEW g \in Greenlet, StopReturn(g) PROVE UNCHANGED proc
  BY <1>4 DEF StopReturn
<1>5. ParentGone => UNCHANGED proc
  BY DEF ParentGone
<1>6. ASSUME NEW sig \in Signal, Arrive(sig) PROVE UNCHANGED proc
  BY <1>5, <1>6 DEF Arrive
<1>7. ASSUME NEW sig \in {"TERM", "HUP", "INT"}, SignalParent(sig) PROVE UNCHANGED proc
  BY <1>6, <1>7 DEF SignalParent, Signal
<1>8. CASE AlarmFires
  BY <1>6, <1>8 DEF AlarmFires, Signal
<1>9. CASE ParentExit \/ ExitNow
  BY <1>5, <1>9 DEF ParentExit, ExitNow
<1>10. CASE HandleTerm \/ HandleHup \/ NoHandler
  BY <1>10 DEF HandleTerm, HandleHup, NoHandler, Callback
<1>11. CASE UNCHANGED vars
  BY <1>11 DEF vars
<1> QED
  BY <1>1, <1>2, <1>3, <1>4, <1>7, <1>8, <1>9, <1>10, <1>11
     DEF Next, MainStep, OtherStep, CallbackStep, Environment, Terminated,
         Forks, Reaps, Greenlet

\* A fork makes one new process, which has missed nothing yet.
LEMMA ForkProc ==
    ASSUME TypeOK, Forks
    PROVE  \E p \in Pid :
             /\ proc[p].phase = "free"
             /\ proc'[p] = Fresh("forked") \/ proc'[p] = Fresh("bare")
             /\ \A q \in Pid \ {p} : proc'[q] = proc[q]
<1>1. StartChild(cur)
  BY ForkFacts
<1> QED
  BY <1>1 DEF StartChild, TypeOK

\* A reaped process is as if it had never been.
LEMMA ReapProc ==
    ASSUME TypeOK, Reaps
    PROVE  \E p \in Pid :
             /\ proc[p].phase = "zombie"
             /\ proc'[p] = Fresh("free")
             /\ \A q \in Pid \ {p} : proc'[q] = proc[q]
<1>1. PICK p \in Pid : WaitChild(p)
  BY ReapFacts
<1> QED
  BY <1>1 DEF WaitChild, TypeOK

\* A step of a process changes its own record only.
LEMMA ChildOnly ==
    ASSUME TypeOK, NEW p \in Pid, ChildStep(p) \/ ChildDies(p)
    PROVE  \A q \in Pid \ {p} : proc'[q] = proc[q]
<1>1. proc \in [Pid -> Process]
  BY DEF TypeOK
<1> QED
  BY <1>1 DEF ChildStep, ChildDies, ChildClear, ChildSetup, ChildUseHub, ChildGoes,
         ChildTerm, ChildHup, ChildReread, ChildReinstall, ChildNoHandler,
         ChildStopped, PipeWatcher

\* The three fields that a step of a process rewrites, by the phase it was in.
LEMMA ChildMoves ==
    ASSUME TypeOK, NEW p \in Pid, ChildStep(p) \/ ChildDies(p)
    PROVE  \/ proc[p].phase \in Live /\ proc'[p] = Fresh("zombie")
           \/ /\ <<proc[p].phase, proc'[p].phase>>
                    \in {<<"forked", "cleared">>, <<"bare", "cleared">>, <<"cleared", "setup">>,
                         <<"setup", "up">>, <<"rereading", "up">>}
              /\ proc'[p].inbox = proc[p].inbox
              /\ proc'[p].stale = proc[p].stale /\ proc'[p].lost = proc[p].lost
           \/ /\ proc[p].phase = "up" /\ proc'[p].phase = "stopping"
              /\ "TERM" \in proc[p].inbox
              /\ proc'[p].stale = proc[p].stale /\ proc'[p].lost = proc[p].lost
           \/ /\ proc[p].phase = "up" /\ proc'[p].phase = "caught"
              /\ "HUP" \in proc[p].inbox /\ proc'[p].inbox = proc[p].inbox \ {"HUP"}
              /\ proc'[p].stale = proc[p].stale /\ proc'[p].lost = proc[p].lost
           \/ /\ proc[p].phase = "caught" /\ proc'[p].phase = "rereading"
              /\ proc'[p].inbox = proc[p].inbox
              /\ ~proc'[p].stale /\ proc'[p].lost = proc[p].lost
           \/ /\ proc[p].phase \in {"caught", "rereading", "stopping"}
              /\ proc'[p].phase = proc[p].phase
              /\ proc'[p].stale = proc[p].stale /\ proc'[p].lost
<1>0. proc \in [Pid -> Process] /\ proc[p] \in Process
  BY DEF TypeOK
<1>1. CASE ChildClear(p) \/ ChildSetup(p) \/ ChildUseHub(p) \/ ChildReinstall(p)
  BY <1>0, <1>1 DEF ChildClear, ChildSetup, ChildUseHub, ChildReinstall, ChildGoes, Process
<1>2. CASE ChildTerm(p)
  BY <1>0, <1>2 DEF ChildTerm, Process
<1>3. CASE ChildHup(p)
  BY <1>0, <1>3 DEF ChildHup, Process
<1>4. CASE ChildReread(p)
  BY <1>0, <1>4 DEF ChildReread, Process
<1>5. CASE ChildNoHandler(p)
  <2>1. PICK sig \in proc[p].inbox :
          proc' = [proc EXCEPT ![p].inbox = @ \ {sig}, ![p].lost = TRUE]
    BY <1>5 DEF ChildNoHandler
  <2>2. proc'[p] = [proc[p] EXCEPT !.inbox = @ \ {sig}, !.lost = TRUE]
    BY <1>0, <2>1
  <2> QED
    BY <1>0, <1>5, <2>2 DEF ChildNoHandler, Process
<1>6. CASE ChildStopped(p) \/ PipeWatcher(p) \/ ChildDies(p)
  BY <1>0, <1>6 DEF ChildStopped, PipeWatcher, ChildDies, IsLive, Live
<1> QED
  BY <1>1, <1>2, <1>3, <1>4, <1>5, <1>6 DEF ChildStep
\* Outside the SIGHUP section and before the end, a process that a reload has
\* outdated is leaving its old configuration.
Untold == {"hup_hooks", "stop_hooks", "reaping", "returned", "gone"}

OldInv ==
    /\ \A p \in Pid : proc[p].stale => IsLive(p)
    /\ pc["main"] \notin Untold => \A p \in Pid : proc[p].stale => Leaving(proc[p])

\* The SIGHUP section is left by the signals to the children, or for good.
LEMMA SectionLeft ==
    ASSUME TypeOK, [Next]_vars, pc'["main"] \notin Untold
    PROVE  SignalKids \/ (pc["main"] \notin Untold /\ ~BeginHup)
<1> USE DEF At, Goto, Greenlet, TypeOK, Untold
<1>1. ASSUME NEW w \in Wrap, LaunchService(w) PROVE pc["main"] = "app" /\ ~BeginHup
  BY <1>1 DEF LaunchService, BeginHup
<1>2. CASE LaunchFork \/ LaunchDone \/ Wait \/ RespawnReap \/ RespawnSleep \/ RespawnWake
  BY <1>2 DEF LaunchFork, LaunchDone, Wait, RespawnReap, RespawnSleep, RespawnWake, BeginHup
<1>3. CASE RefillFork \/ RefillThrottle \/ ThrottleWake \/ RefillDone
  BY <1>3 DEF RefillFork, RefillThrottle, ThrottleWake, RefillDone, BeginHup
<1>4. CASE WaitStopCalled \/ BeginHup \/ GracefulShutdown \/ KilledWait
  BY <1>4 DEF WaitStopCalled, BeginHup, GracefulShutdown, KilledWait
<1>5. ASSUME UNCHANGED pc PROVE pc["main"] \notin Untold /\ ~BeginHup
  BY <1>5 DEF BeginHup
<1>6. ASSUME NEW g \in Greenlet, StopKill(g) \/ StopReap(g) \/ StopReturn(g)
      PROVE  pc["main"] \notin Untold /\ ~BeginHup
  BY <1>6 DEF StopKill, StopReap, StopReturn, BeginHup
<1>7. CASE OtherStop
  BY <1>7 DEF OtherStop, BeginHup
<1>8. ParentGone => FALSE
  BY DEF ParentGone
<1>9. ASSUME NEW sig \in Signal, Arrive(sig) PROVE UNCHANGED pc
  BY <1>8, <1>9 DEF Arrive
<1>10. ASSUME NEW sig \in {"TERM", "HUP", "INT"}, SignalParent(sig) PROVE UNCHANGED pc
  BY <1>9, <1>10 DEF SignalParent, Signal
<1>11. CASE AlarmFires
  BY <1>5, <1>9, <1>11 DEF AlarmFires, Signal
<1>12. CASE ParentExit \/ ExitNow
  BY <1>8, <1>12 DEF ParentExit, ExitNow
<1>13. CASE HandleTerm \/ HandleHup \/ NoHandler
  BY <1>5, <1>13 DEF HandleTerm, HandleHup, NoHandler, Callback
<1>14. ASSUME NEW p \in Pid, ChildStep(p) \/ ChildDies(p) PROVE UNCHANGED pc
  BY <1>14, ChildFrame DEF parentVars
<1>15. CASE UNCHANGED vars
  BY <1>5, <1>15 DEF vars, parentVars
<1> QED
  BY <1>1, <1>2, <1>3, <1>4, <1>5, <1>6, <1>7, <1>10, <1>11, <1>12, <1>13, <1>14, <1>15
     DEF Next, MainStep, OtherStep, CallbackStep, Environment, Terminated

\* After any signal, whatever the process was doing, it is leaving if it lives.
LEMMA ReceiveLeaves ==
    ASSUME NEW r \in Process, NEW sig \in {"TERM", "HUP"}, r.stale => r.phase \in Live,
           Receive(r, sig).stale
    PROVE  Receive(r, sig).phase \in Live /\ Leaving(Receive(r, sig))
<1>1. CASE r.phase \in DefaultAction
  BY <1>1 DEF Receive, Process, Fresh, DefaultAction, Deaf
<1>2. CASE r.phase \in Deaf
  BY <1>2 DEF Receive, Process, Deaf, DefaultAction, Leaving
<1>3. CASE r.phase = "up"
  BY <1>3 DEF Receive, Process, Deaf, DefaultAction, Leaving
<1>4. CASE r.phase \notin DefaultAction \cup Deaf \cup {"up"}
  BY <1>4 DEF Receive, Live, Early, Deaf, DefaultAction
<1> QED
  BY <1>1, <1>2, <1>3, <1>4

\* A process that moves stays alive while it is outdated, and keeps leaving.
LEMMA ChildLeaves ==
    ASSUME TypeOK, NEW p \in Pid, ChildStep(p) \/ ChildDies(p), proc'[p].stale
    PROVE  /\ proc'[p].phase \in Live
           /\ proc[p].stale
           /\ Leaving(proc[p]) => Leaving(proc'[p])
  BY ChildMoves DEF Fresh, Leaving, Live, Early


\* A signal to all the tracked processes sends every outdated one away.
LEMMA KillLeaves ==
    ASSUME TypeOK, Tracking, OldInv, NEW sig \in {"TERM", "HUP"}, Kill(Tracked, sig)
    PROVE  \A p \in Pid : proc'[p].stale => proc'[p].phase \in Live /\ Leaving(proc'[p])
<1> SUFFICES ASSUME NEW p \in Pid, proc'[p].stale
             PROVE  proc'[p].phase \in Live /\ Leaving(proc'[p])
  OBVIOUS
<1>1. proc[p] \in Process /\ (proc[p].stale => proc[p].phase \in Live)
  BY DEF TypeOK, OldInv, IsLive
<1>2. CASE p \in Tracked
  <2>1. proc'[p] = Receive(proc[p], sig)
    BY <1>2 DEF Kill
  <2> QED
    BY <1>1, <2>1, ReceiveLeaves
<1>3. CASE p \notin Tracked
  BY <1>1, <1>3 DEF Kill, Tracking, Processes, Live, Early
<1> QED
  BY <1>2, <1>3

\* Every step keeps the outdated processes on their way.
LEMMA OldStep == TypeOK /\ Tracking /\ OldInv /\ [Next]_vars => OldInv'
<1> SUFFICES ASSUME TypeOK, Tracking, OldInv, [Next]_vars PROVE OldInv'
  OBVIOUS
<1>a. ASSUME \A p \in Pid : proc'[p].stale => proc'[p].phase \in Live /\ Leaving(proc'[p])
      PROVE  OldInv'
  BY <1>a DEF OldInv, IsLive
<1>1. CASE SignalKids
  BY <1>1, <1>a, KillLeaves DEF SignalKids
<1>2. ASSUME NEW g \in Greenlet, StopKill(g) PROVE OldInv'
  BY <1>2, <1>a, KillLeaves DEF StopKill
<1>3. CASE BeginHup
  <2>1. pc'["main"] \in Untold
    BY <1>3 DEF BeginHup, Goto, TypeOK, Greenlet, Untold
  <2>2. ASSUME NEW p \in Pid PROVE proc'[p].stale = IsLive(p) /\ proc'[p].phase = proc[p].phase
    BY <1>3 DEF BeginHup, TypeOK, Process
  <2> QED
    BY <2>1, <2>2 DEF OldInv, IsLive
<1>b. ~SignalKids /\ pc'["main"] \notin Untold => pc["main"] \notin Untold
  BY SectionLeft
<1>4. CASE UNCHANGED proc /\ ~SignalKids
  BY <1>4, <1>b DEF OldInv, IsLive
<1>5. CASE (Forks \/ Reaps) /\ ~SignalKids
  <2>1. PICK p \in Pid : /\ ~proc'[p].stale
                         /\ \A q \in Pid \ {p} : proc'[q] = proc[q]
    BY <1>5, ForkProc, ReapProc DEF Fresh
  <2> QED
    BY <1>5, <1>b, <2>1 DEF OldInv, IsLive
<1>6. ASSUME NEW p \in Pid, ChildStep(p) \/ ChildDies(p), ~SignalKids PROVE OldInv'
  <2>1. \A q \in Pid \ {p} : proc'[q] = proc[q]
    BY <1>6, ChildOnly
  <2>2. proc'[p].stale => /\ proc'[p].phase \in Live
                          /\ proc[p].stale
                          /\ Leaving(proc[p]) => Leaving(proc'[p])
    BY <1>6, ChildLeaves
  <2> QED
    BY <1>6, <1>b, <2>1, <2>2 DEF OldInv, IsLive
<1> QED
  BY <1>1, <1>2, <1>3, <1>4, <1>5, <1>6, ProcKinds

\* At the start there is no process.
LEMMA OldInit == Init => OldInv
  BY DEF Init, OldInv, Fresh

\* Whenever wait() sleeps after a reload, each process that still has the old
\* configuration was told to drop it or has lost that signal: the loop of 598-599
\* overlooks none, and no step of the parent or of the process undoes it.
THEOREM OldConfigurationsLeave == Spec => []OldConfigLeaves
<1>1. Init => OldInv
  BY OldInit
<1>2. TypeOK /\ Tracking /\ OldInv /\ [Next]_vars => OldInv'
  BY OldStep
<1>3. OldInv => OldConfigLeaves
  BY DEF OldInv, OldConfigLeaves, Untold
<1> QED
  BY <1>1, <1>2, <1>3, TableCorrect, PTL DEF Spec
-----------------------------------------------------------------------------
(***************************************************************************)
(* An accepted SIGTERM.  _handle_term clears the handlers, so no later     *)
(* SIGHUP is accepted; the one assignment left that forgets it is that of  *)
(* the SIGHUP section, which a SIGTERM can only meet when a hook yields.   *)
(***************************************************************************)
TermInv ==
    sigcaught = "TERM" =>
      /\ ~installed
      /\ pc["main"] \notin {"app", "launching"}
      /\ pc["main"] = "hup_hooks" => HookYields

\* Every step keeps a recorded SIGTERM with the handlers cleared, and only the
\* end of a SIGHUP section whose hooks yield forgets it.
LEMMA TermStep ==
    ASSUME TypeOK, TermInv, [Next]_vars
    PROVE  /\ TermInv'
           /\ sigcaught = "TERM" /\ alive'
                => sigcaught' = "TERM" \/ (HookYields /\ SignalKids)
<1> DEFINE Kept == /\ TermInv'
                   /\ sigcaught = "TERM" /\ alive'
                        => sigcaught' = "TERM" \/ (HookYields /\ SignalKids)
<1> SUFFICES Kept
  OBVIOUS
<1> USE DEF At, Goto, Greenlet, TypeOK, TermInv
<1>1. ASSUME UNCHANGED <<sigcaught, installed, pc>> PROVE Kept
  BY <1>1
<1>2. ASSUME NEW w \in Wrap, LaunchService(w) PROVE Kept
  BY <1>2 DEF LaunchService
<1>3. CASE LaunchFork \/ RefillFork
  BY <1>1, <1>3 DEF LaunchFork, RefillFork
<1>4. CASE LaunchDone \/ Wait
  BY <1>4 DEF LaunchDone, Wait
<1>5. CASE RespawnReap \/ RespawnSleep \/ RespawnWake
  BY <1>5 DEF RespawnReap, RespawnSleep, RespawnWake
<1>6. CASE RefillThrottle \/ ThrottleWake \/ RefillDone
  BY <1>6 DEF RefillThrottle, ThrottleWake, RefillDone
<1>7. CASE WaitStopCalled \/ GracefulShutdown \/ KilledWait
  BY <1>7 DEF WaitStopCalled, GracefulShutdown, KilledWait
<1>8. CASE BeginHup
  BY <1>8 DEF BeginHup
<1>9. CASE SignalKids
  BY <1>9 DEF SignalKids
<1>10. ASSUME NEW g \in Greenlet, StopKill(g) \/ StopReap(g) \/ StopReturn(g) PROVE Kept
  BY <1>10 DEF StopKill, StopReap, StopReturn
<1>11. CASE OtherStop
  BY <1>11 DEF OtherStop
<1>12. ParentGone => Kept
  BY DEF ParentGone
<1>13. ASSUME NEW sig \in Signal, Arrive(sig) PROVE Kept
  BY <1>1, <1>12, <1>13 DEF Arrive
<1>14. ASSUME NEW sig \in {"TERM", "HUP", "INT"}, SignalParent(sig) PROVE Kept
  BY <1>13, <1>14 DEF SignalParent, Signal
<1>15. CASE AlarmFires
  BY <1>13, <1>15 DEF AlarmFires, Signal
<1>16. CASE ParentExit \/ ExitNow
  BY <1>12, <1>16 DEF ParentExit, ExitNow
<1>17. CASE HandleTerm
  <2>1. Yields("main") /\ UNCHANGED pc /\ ~installed'
    BY <1>17 DEF HandleTerm, Callback, Due
  <2>2. pc["main"] \notin {"app", "launching"}
    BY <2>1 DEF Yields, YieldPoints
  <2>3. pc["main"] = "hup_hooks" => HookYields
    BY <2>1 DEF Yields, YieldPoints
  <2> QED
    BY <1>17, <2>1, <2>2, <2>3 DEF HandleTerm
<1>18. CASE HandleHup \/ NoHandler
  BY <1>1, <1>18 DEF HandleHup, NoHandler, Callback
<1>19. ASSUME NEW p \in Pid, ChildStep(p) \/ ChildDies(p) PROVE Kept
  BY <1>1, <1>19, ChildFrame DEF parentVars
<1>20. CASE UNCHANGED vars
  BY <1>1, <1>20 DEF vars, parentVars
<1> HIDE DEF Kept
<1> QED
  BY <1>2, <1>3, <1>4, <1>5, <1>6, <1>7, <1>8, <1>9, <1>10, <1>11, <1>14, <1>15, <1>16,
     <1>17, <1>18, <1>19, <1>20
     DEF Next, MainStep, OtherStep, CallbackStep, Environment, Terminated

\* At the start no signal was caught.
LEMMA TermInit == Init => TermInv
  BY DEF Init, TermInv

\* Whatever the hooks do, a recorded SIGTERM lasts until the parent ends, unless
\* the SIGHUP section that was yielding to it overwrites it (587-602).
THEOREM OnlyHooksForgetTerm ==
    Spec => [][sigcaught = "TERM" /\ alive'
                 => sigcaught' = "TERM" \/ (HookYields /\ SignalKids)]_vars
<1>1. Init => TermInv
  BY TermInit
<1>2. TypeOK /\ TermInv /\ [Next]_vars => TermInv'
  BY TermStep
<1>3. TypeOK /\ TermInv /\ [Next]_vars
        => [sigcaught = "TERM" /\ alive'
              => sigcaught' = "TERM" \/ (HookYields /\ SignalKids)]_vars
  BY TermStep
<1> QED
  BY <1>1, <1>2, <1>3, TypesKept, PTL DEF Spec

\* With hooks that do not yield, an accepted SIGTERM is never forgotten (376-378).
THEOREM TermNeverForgotten ==
    ASSUME ~HookYields
    PROVE  Spec => TermSticks
<1>1. [sigcaught = "TERM" /\ alive'
         => sigcaught' = "TERM" \/ (HookYields /\ SignalKids)]_vars
        => [sigcaught = "TERM" /\ alive' => sigcaught' = "TERM"]_vars
  OBVIOUS
<1> QED
  BY <1>1, OnlyHooksForgetTerm, PTL DEF TermSticks

\* A shutdown for a SIGTERM has its alarm, and no handler to take the signal of it.
ShutdownUnderAlarm ==
    sigcaught = "TERM" /\ conf.timeout /\ pc["main"] \in {"stop_hooks", "reaping", "returned"}
        => alarm /\ ~installed

\* Where main shuts down nothing yields, so no signal is handled meanwhile.
LEMMA AlarmStep ==
    ASSUME ~HookYields, TypeOK, TermInv, ShutdownUnderAlarm, [Next]_vars
    PROVE  ShutdownUnderAlarm'
<1> USE DEF At, Goto, Greenlet, TypeOK, TermInv, ShutdownUnderAlarm
<1>1. ASSUME UNCHANGED <<sigcaught, conf, pc, alarm, installed>> PROVE ShutdownUnderAlarm'
  BY <1>1
<1>2. ASSUME NEW w \in Wrap, LaunchService(w) PROVE ShutdownUnderAlarm'
  BY <1>2 DEF LaunchService
<1>3. CASE LaunchFork \/ RefillFork
  BY <1>1, <1>3 DEF LaunchFork, RefillFork
<1>4. CASE LaunchDone \/ Wait
  BY <1>4 DEF LaunchDone, Wait
<1>5. CASE RespawnReap \/ RespawnSleep \/ RespawnWake
  BY <1>5 DEF RespawnReap, RespawnSleep, RespawnWake
<1>6. CASE RefillThrottle \/ ThrottleWake \/ RefillDone
  BY <1>6 DEF RefillThrottle, ThrottleWake, RefillDone
<1>7. CASE WaitStopCalled \/ GracefulShutdown \/ KilledWait
  BY <1>7 DEF WaitStopCalled, GracefulShutdown, KilledWait
<1>8. CASE BeginHup
  BY <1>8 DEF BeginHup
<1>9. CASE SignalKids
  BY <1>9 DEF SignalKids
<1>10. ASSUME NEW g \in Greenlet, StopKill(g) \/ StopReap(g) \/ StopReturn(g)
       PROVE ShutdownUnderAlarm'
  BY <1>10 DEF StopKill, StopReap, StopReturn
<1>11. CASE OtherStop
  BY <1>11 DEF OtherStop
<1>12. ParentGone => ShutdownUnderAlarm'
  BY DEF ParentGone
<1>13. ASSUME NEW sig \in {"TERM", "HUP", "INT"}, SignalParent(sig) PROVE ShutdownUnderAlarm'
  BY <1>12, <1>13 DEF SignalParent, Arrive
<1>14. CASE AlarmFires
  BY <1>12, <1>14 DEF AlarmFires, Arrive
<1>15. CASE ParentExit \/ ExitNow
  BY <1>12, <1>15 DEF ParentExit, ExitNow
<1>16. CASE HandleTerm \/ HandleHup \/ NoHandler
  <2>1. Yields("main") /\ UNCHANGED <<pc, conf, alarm>>
    BY <1>16 DEF HandleTerm, HandleHup, NoHandler, Callback, Due
  <2>2. pc["main"] \notin {"stop_hooks", "reaping", "returned"}
    BY <2>1 DEF Yields, YieldPoints
  <2> QED
    BY <2>1, <2>2
<1>17. ASSUME NEW p \in Pid, ChildStep(p) \/ ChildDies(p) PROVE ShutdownUnderAlarm'
  BY <1>1, <1>17, ChildFrame DEF parentVars
<1>18. CASE UNCHANGED vars
  BY <1>1, <1>18 DEF vars, parentVars
<1> HIDE DEF ShutdownUnderAlarm
<1> QED
  BY <1>2, <1>3, <1>4, <1>5, <1>6, <1>7, <1>8, <1>9, <1>10, <1>11, <1>13, <1>14, <1>15,
     <1>16, <1>17, <1>18
     DEF Next, MainStep, OtherStep, CallbackStep, Environment, Terminated

\* Once wait() shuts down for a SIGTERM, graceful_shutdown_timeout bounds it: the alarm
\* is armed, and since the handlers are cleared its signal ends the process at once,
\* also in the loop of stop() that never yields (604-636).  With hooks that yield, the
\* SIGTERM may be handled between the alarm and its callback, which then finds no
\* handler.  This is the safety half of TermStops.
THEOREM TermIsBounded ==
    ASSUME ~HookYields
    PROVE  Spec => []ShutdownUnderAlarm
<1>1. Init => ShutdownUnderAlarm
  BY DEF Init, ShutdownUnderAlarm
<1>2. TypeOK /\ TermInv /\ [Next]_vars => TermInv'
  BY TermStep
<1>3. TypeOK /\ TermInv /\ ShutdownUnderAlarm /\ [Next]_vars => ShutdownUnderAlarm'
  BY AlarmStep
<1> QED
  BY <1>1, <1>2, <1>3, TermInit, TypesKept, PTL DEF Spec
-----------------------------------------------------------------------------
(***************************************************************************)
(* The end of stop().  Its loop never yields, so while it waits for the    *)
(* children the other greenthread neither forks nor begins or ends a       *)
(* SIGHUP section; and a process that was told may serve the two signals   *)
(* in either order, but it does not forget the SIGTERM.                    *)
(***************************************************************************)
\* A greenthread waits for the children only after it has signalled them.
LEMMA ReapingEntered ==
    ASSUME TypeOK, [Next]_vars, NEW g \in Greenlet, pc'[g] = "reaping"
    PROVE  StopKill(g) \/ pc[g] = "reaping"
<1> DEFINE Entered == StopKill(g) \/ pc[g] = "reaping"
<1> SUFFICES Entered
  OBVIOUS
<1> USE DEF At, Goto, Greenlet, TypeOK
<1>1. ASSUME UNCHANGED pc PROVE Entered
  BY <1>1
<1>2. ASSUME NEW w \in Wrap, LaunchService(w) PROVE Entered
  BY <1>2 DEF LaunchService
<1>3. CASE LaunchFork \/ LaunchDone \/ Wait \/ RespawnReap \/ RespawnSleep \/ RespawnWake
  BY <1>3 DEF LaunchFork, LaunchDone, Wait, RespawnReap, RespawnSleep, RespawnWake
<1>4. CASE RefillFork \/ RefillThrottle \/ ThrottleWake \/ RefillDone
  BY <1>4 DEF RefillFork, RefillThrottle, ThrottleWake, RefillDone
<1>5. CASE WaitStopCalled \/ BeginHup \/ SignalKids \/ GracefulShutdown \/ KilledWait
  BY <1>5 DEF WaitStopCalled, BeginHup, SignalKids, GracefulShutdown, KilledWait
<1>6. ASSUME NEW h \in Greenlet, StopKill(h) \/ StopReap(h) \/ StopReturn(h) PROVE Entered
  <2>1. CASE h = g
    BY <1>6, <2>1 DEF StopReap, StopReturn
  <2>2. CASE h # g
    BY <1>6, <2>2 DEF StopKill, StopReap, StopReturn
  <2> QED
    BY <2>1, <2>2
<1>7. CASE OtherStop
  BY <1>7 DEF OtherStop
<1>8. ParentGone => FALSE
  BY DEF ParentGone
<1>9. ASSUME NEW sig \in Signal, Arrive(sig) PROVE UNCHANGED pc
  BY <1>8, <1>9 DEF Arrive
<1>10. ASSUME NEW sig \in {"TERM", "HUP", "INT"}, SignalParent(sig) PROVE UNCHANGED pc
  BY <1>9, <1>10 DEF SignalParent, Signal
<1>11. CASE AlarmFires
  BY <1>1, <1>9, <1>11 DEF AlarmFires, Signal
<1>12. CASE ParentExit \/ ExitNow
  BY <1>8, <1>12 DEF ParentExit, ExitNow
<1>13. CASE HandleTerm \/ HandleHup \/ NoHandler
  BY <1>1, <1>13 DEF HandleTerm, HandleHup, NoHandler, Callback
<1>14. ASSUME NEW p \in Pid, ChildStep(p) \/ ChildDies(p) PROVE UNCHANGED pc
  BY <1>14, ChildFrame DEF parentVars
<1>15. CASE UNCHANGED vars
  BY <1>1, <1>15 DEF vars, parentVars
<1> HIDE DEF Entered
<1> QED
  BY <1>1, <1>2, <1>3, <1>4, <1>5, <1>6, <1>7, <1>10, <1>11, <1>12, <1>13, <1>14, <1>15
     DEF Next, MainStep, OtherStep, CallbackStep, Environment, Terminated

\* While one greenthread waits for the children, wait() neither forks nor reloads.
LEMMA ReapingAlone ==
    ASSUME TypeOK, NEW g \in Greenlet, pc[g] = "reaping"
    PROVE  ~Forks /\ ~BeginHup /\ ~SignalKids
<1>1. ~Yields(g)
  BY DEF Yields, YieldPoints
<1>2. ASSUME NEW l, At("main", l) PROVE l = "reaping"
  BY <1>1, <1>2 DEF At, MayRun, Greenlet
<1> QED
  BY <1>2 DEF Forks, LaunchFork, RefillFork, ThrottleWake, BeginHup, RespawnOver, SignalKids

\* A process that was told to end, or that missed it.
Answering(r) == r.lost \/ r.phase = "stopping" \/ "TERM" \in r.inbox

\* The kills of stop() reach every process: one that still lives will answer.
LEMMA KillAnswered ==
    ASSUME TypeOK, Tracking, Kill(Tracked, "TERM")
    PROVE  \A p \in Pid : proc'[p].phase \in Live => Answering(proc'[p])
<1> SUFFICES ASSUME NEW p \in Pid, proc'[p].phase \in Live PROVE Answering(proc'[p])
  OBVIOUS
<1>1. proc[p] \in Process
  BY DEF TypeOK
<1>2. p \in Tracked
  BY <1>1 DEF Kill, Tracking, Processes, Live, Early
<1>3. proc'[p] = Receive(proc[p], "TERM")
  BY <1>2 DEF Kill
<1>4. CASE proc[p].phase \in DefaultAction
  BY <1>1, <1>3, <1>4 DEF Receive, Process, Fresh, DefaultAction, Deaf, Live, Early
<1>5. CASE proc[p].phase \in Deaf
  BY <1>1, <1>3, <1>5 DEF Receive, Process, Deaf, DefaultAction, Answering
<1>6. CASE proc[p].phase = "up"
  BY <1>1, <1>3, <1>6 DEF Receive, Process, Deaf, DefaultAction, Answering
<1>7. CASE proc[p].phase \notin DefaultAction \cup Deaf \cup {"up"}
  BY <1>3, <1>7 DEF Receive, Live, Early, Deaf, DefaultAction
<1> QED
  BY <1>4, <1>5, <1>6, <1>7

\* A process that moves still answers.
LEMMA ChildAnswers ==
    ASSUME TypeOK, NEW p \in Pid, ChildStep(p) \/ ChildDies(p), proc'[p].phase \in Live
    PROVE  proc[p].phase \in Live /\ (Answering(proc[p]) => Answering(proc'[p]))
  BY ChildMoves DEF Fresh, Answering, Live, Early

\* Every step keeps the children of a stopping launcher told.
LEMMA StopStep == TypeOK /\ Tracking /\ StopTellsAll /\ [Next]_vars => StopTellsAll'
<1> SUFFICES ASSUME TypeOK, Tracking, StopTellsAll, [Next]_vars,
                    NEW g \in Greenlet, pc'[g] = "reaping",
                    NEW p \in Pid, proc'[p].phase \in Live
             PROVE  Answering(proc'[p])
  BY DEF StopTellsAll, IsLive, Answering
<1>1. ASSUME NEW h \in Greenlet, StopKill(h) PROVE Answering(proc'[p])
  BY <1>1, KillAnswered DEF StopKill
<1>2. CASE ~ \E h \in Greenlet : StopKill(h)
  <2>1. pc[g] = "reaping"
    BY <1>2, ReapingEntered
  <2>2. proc[p].phase \in Live => Answering(proc[p])
    BY <2>1 DEF StopTellsAll, IsLive, Answering
  <2>3. ~Forks /\ ~BeginHup /\ ~SignalKids
    BY <2>1, ReapingAlone
  <2>4. CASE UNCHANGED proc
    BY <2>2, <2>4
  <2>5. CASE Reaps
    BY <2>2, <2>5, ReapProc DEF Fresh, Live, Early
  <2>6. ASSUME NEW q \in Pid, ChildStep(q) \/ ChildDies(q) PROVE Answering(proc'[p])
    BY <2>2, <2>6, ChildOnly, ChildAnswers
  <2> QED
    BY <1>2, <2>3, <2>4, <2>5, <2>6, ProcKinds
<1> QED
  BY <1>1, <1>2

\* Nobody stops at the start.
LEMMA StopInit == Init => StopTellsAll
  BY DEF Init, StopTellsAll, Greenlet

\* While the loop at the end of stop() waits for the children (633-636), each that
\* lives was told to end or has lost the signal: whoever called stop(), and whatever
\* reload or refill it interrupted.
THEOREM StopReachesAll == Spec => []StopTellsAll
<1>1. Init => StopTellsAll
  BY StopInit
<1>2. TypeOK /\ Tracking /\ StopTellsAll /\ [Next]_vars => StopTellsAll'
  BY StopStep
<1> QED
  BY <1>1, <1>2, TableCorrect, PTL DEF Spec
-----------------------------------------------------------------------------
(***************************************************************************)
(* The launcher implements Supervisor.  A state of the supervisor is read  *)
(* off the tables, the records of the processes and where the greenthreads *)
(* are; each step is then one of the supervisor's, or none.                *)
(***************************************************************************)
\* The two modules count alike.
LEMMA SupCardinality == ASSUME NEW S PROVE Sup!Cardinality(S) = Cardinality(S)
  BY DEF Sup!Cardinality, Cardinality, Sup!IsFiniteSet, IsFiniteSet

\* The processes of a service are those in its wrap.children.
LEMMA SupOf == ASSUME Tracking, NEW w \in Wrap PROVE Sup!Of(w) = wkids[w]
  BY DEF Tracking, Sup!Of

\* What a record says to the supervisor, field by field.
LEMMA StatusOf ==
    ASSUME NEW r \in Process
    PROVE  /\ Status(r) = "free" <=> r.phase = "free"
           /\ Status(r) = "exited" <=> r.phase = "zombie"
           /\ Status(r) = "current" <=> r.phase \in Live /\ ~r.stale
           /\ Status(r) = "told" <=> r.phase \in Live /\ r.stale /\ Leaving(r)
           /\ Status(r) = "old" <=> r.phase \in Live /\ r.stale /\ ~Leaving(r)
           /\ Status(r) \in Sup!Running \cup {"free", "exited"}
           /\ Status(r) \in Sup!Running <=> r.phase \in Live
<1> DEFINE L == Leaving(r)
<1> HIDE DEF L
<1>1. Status(r) = CASE r.phase = "free" -> "free"
                    [] r.phase = "zombie" -> "exited"
                    [] r.phase \in Live /\ ~r.stale -> "current"
                    [] OTHER -> IF L THEN "told" ELSE "old"
  BY DEF Status, L
<1>2. r.stale \in BOOLEAN /\ r.phase \in Live \cup {"zombie", "free"}
  BY DEF Process
<1>3. CASE r.phase = "free"
  BY <1>1, <1>3 DEF Sup!Running, Live, Early
<1>4. CASE r.phase = "zombie"
  BY <1>1, <1>4 DEF Sup!Running, Live, Early
<1>5. CASE r.phase \in Live /\ ~r.stale
  BY <1>1, <1>5 DEF Sup!Running, Live, Early
<1>6. CASE r.phase \in Live /\ r.stale
  BY <1>1, <1>6 DEF Sup!Running, Live, Early, L
<1> QED
  BY <1>2, <1>3, <1>4, <1>5, <1>6

\* A new record, by its phase.
LEMMA StatusFresh ==
    /\ Status(Fresh("free")) = "free"
    /\ Status(Fresh("zombie")) = "exited"
    /\ Status(Fresh("forked")) = "current"
    /\ Status(Fresh("bare")) = "current"
<1>1. \A ph \in {"free", "zombie", "forked", "bare"} :
        /\ Fresh(ph) \in Process
        /\ Fresh(ph).phase = ph /\ ~Fresh(ph).stale
  BY DEF Fresh, Process, Live, Early
<1> QED
  BY <1>1, StatusOf DEF Live, Early

\* A signal tells a process, or ends it.
LEMMA ReceiveStatus ==
    ASSUME NEW r \in Process, NEW sig \in {"TERM", "HUP"}, r.stale => r.phase \in Live
    PROVE  Sup!Told(Status(r), Status(Receive(r, sig)))
<1>0. Receive(r, sig) \in Process
  BY ReceiveType
<1>1. CASE r.phase \in DefaultAction
  <2>1. Receive(r, sig) = Fresh("zombie")
    BY <1>1 DEF Receive, Deaf, DefaultAction
  <2> QED
    BY <1>1, <2>1, StatusOf, StatusFresh DEF Sup!Told, DefaultAction, Live, Early
<1>2. CASE r.phase \in Deaf
  <2>1. Receive(r, sig) = [r EXCEPT !.lost = TRUE]
    BY <1>2 DEF Receive, Deaf, DefaultAction
  <2>2. /\ Receive(r, sig).phase = r.phase /\ Receive(r, sig).stale = r.stale
        /\ Leaving(Receive(r, sig))
    BY <2>1 DEF Process, Leaving
  <2> QED
    BY <1>0, <1>2, <2>2, StatusOf DEF Sup!Told, Deaf, Live, Early
<1>3. CASE r.phase = "up"
  <2>1. Receive(r, sig) = [r EXCEPT !.inbox = @ \cup {sig}]
    BY <1>3 DEF Receive, Deaf, DefaultAction
  <2>2. /\ Receive(r, sig).phase = r.phase /\ Receive(r, sig).stale = r.stale
        /\ Leaving(Receive(r, sig))
    BY <1>3, <2>1 DEF Process, Leaving
  <2> QED
    BY <1>0, <1>3, <2>2, StatusOf DEF Sup!Told, Live, Early
<1>4. CASE r.phase \notin DefaultAction \cup Deaf \cup {"up"}
  <2>1. Receive(r, sig) = r
    BY <1>4 DEF Receive
  <2> QED
    BY <2>1 DEF Sup!Told
<1> QED
  BY <1>1, <1>2, <1>3, <1>4

\* A process that moves exits, finds what it was told, renews itself, or is as it was.
LEMMA ChildStatus ==
    ASSUME TypeOK, NEW p \in Pid, ChildStep(p) \/ ChildDies(p)
    PROVE  LET before == Status(proc[p])
               after == Status(proc'[p])
           IN  \/ after = before
               \/ before \in Sup!Running /\ after = "exited"
               \/ before = "old" /\ after = "told"
               \/ before = "told" /\ after = "current"
<1>0. proc[p] \in Process /\ proc'[p] \in Process
  BY ChildType DEF TypeOK
<1>1. CASE proc[p].phase \in Live /\ proc'[p] = Fresh("zombie")
  BY <1>0, <1>1, StatusOf, StatusFresh
<1>2. CASE /\ proc[p].phase \in Live /\ proc'[p].phase \in Live
           /\ proc'[p].stale = proc[p].stale
           /\ Leaving(proc[p]) => Leaving(proc'[p])
  BY <1>0, <1>2, StatusOf DEF Process
<1>3. CASE /\ proc[p].phase \in Live /\ proc'[p].phase \in Live
           /\ ~proc'[p].stale /\ Leaving(proc[p])
  BY <1>0, <1>3, StatusOf DEF Process
<1>4. \/ proc[p].phase \in Live /\ proc'[p] = Fresh("zombie")
      \/ /\ proc[p].phase \in Live /\ proc'[p].phase \in Live
         /\ proc'[p].stale = proc[p].stale
         /\ Leaving(proc[p]) => Leaving(proc'[p])
      \/ /\ proc[p].phase \in Live /\ proc'[p].phase \in Live
         /\ ~proc'[p].stale /\ Leaving(proc[p])
  BY ChildMoves DEF Leaving, Live, Early
<1> QED
  BY <1>1, <1>2, <1>3, <1>4

\* The launcher starts as the supervisor does.
LEMMA SupInit == Init => Sup!Init
<1> SUFFICES ASSUME Init PROVE Sup!Init
  OBVIOUS
<1>1. /\ alive /\ pc["main"] = "app" /\ pc["other"] = "none"
      /\ children = [p \in Pid |-> None]
  BY DEF Init, Greenlet
<1>2. \A p \in Pid : Status(proc[p]) = "free"
  BY StatusFresh DEF Init
<1>3. ~Closing /\ ~Resting
  BY <1>1 DEF Closing, Resting
<1>4. alive = TRUE /\ Closing = FALSE /\ Resting = FALSE
  BY <1>3 DEF Init
<1> QED
  BY <1>1, <1>2, <1>4 DEF Sup!Init
\* One record changes: so does one process of the supervisor.
LEMMA ImageAt ==
    ASSUME NEW p \in Pid, \A q \in Pid \ {p} : proc'[q] = proc[q]
    PROVE  [q \in Pid |-> Status(proc'[q])]
             = [[q \in Pid |-> Status(proc[q])] EXCEPT ![p] = Status(proc'[p])]
  OBVIOUS

\* The parent's own state says whether the supervisor rests or closes.
LEMMA SupFrame ==
    ASSUME UNCHANGED <<alive, pc>>
    PROVE  UNCHANGED <<alive, Closing, Resting>>
  BY DEF Closing, Resting

\* A step that leaves the processes and the supervisor's view of the parent alone.
LEMMA SupStutter ==
    ASSUME UNCHANGED <<alive, children, proc>>, Closing' = Closing, Resting' = Resting
    PROVE  UNCHANGED Sup!supVars
  BY DEF Sup!supVars

\* wait() moves between the points where it is neither closing nor resting.
LEMMA SupBusy ==
    ASSUME TypeOK, NEW l, Goto("main", l), UNCHANGED alive, alive,
           pc["main"] \notin {"idle", "stop_hooks", "reaping", "returned"},
           l \notin {"idle", "stop_hooks", "reaping", "returned"}
    PROVE  UNCHANGED <<alive, Closing, Resting>> /\ ~Resting
<1>1. pc'["main"] = l /\ pc'["other"] = pc["other"]
  BY GotoEffect DEF Greenlet
<1> QED
  BY <1>1 DEF Closing, Resting

\* A fork, of a service that is short of processes.
LEMMA SupFork ==
    ASSUME TypeOK, Tracking, CountInv, Forks
    PROVE  \E s \in Wrap, p \in Pid : Sup!Fork(s, p)
<1>1. cur \in Wrap /\ StartChild(cur) /\ Short(cur)
  BY ForkFacts, ForkShort DEF CountInv
<1>2. PICK p \in Pid :
        /\ proc[p].phase = "free"
        /\ proc' = [proc EXCEPT ![p] = Fresh(IF installed THEN "forked" ELSE "bare")]
        /\ children' = [children EXCEPT ![p] = cur]
  BY <1>1 DEF StartChild
<1>3. proc[p] \in Process /\ Status(proc[p]) = "free"
  BY <1>2, StatusOf DEF TypeOK
<1>4. Status(proc'[p]) = "current" /\ \A q \in Pid \ {p} : proc'[q] = proc[q]
  BY <1>2, StatusFresh DEF TypeOK
<1>5. [q \in Pid |-> Status(proc'[q])]
        = [[q \in Pid |-> Status(proc[q])] EXCEPT ![p] = "current"]
  BY <1>4, ImageAt
<1>6. Sup!Cardinality(Sup!Of(cur)) < Workers[cur]
  BY <1>1, SupOf, SupCardinality DEF Short
<1>7. alive /\ ~Resting /\ UNCHANGED <<alive, Closing, Resting>>
  <2>1. CASE LaunchFork \/ RefillFork
    BY <2>1, SupFrame DEF LaunchFork, RefillFork, At, MayRun, Resting
  <2>2. CASE ThrottleWake
    BY <2>2, SupBusy DEF ThrottleWake, At, MayRun
  <2> QED
    BY <2>1, <2>2 DEF Forks
<1>8. Sup!Fork(cur, p)
  BY <1>2, <1>3, <1>5, <1>6, <1>7 DEF Sup!Fork
<1> QED
  BY <1>1, <1>8

\* A reaping, of a process that has exited.
LEMMA SupReap ==
    ASSUME TypeOK, Reaps
    PROVE  \E p \in Pid : Sup!Reap(p)
<1>1. PICK p \in Pid : WaitChild(p)
  BY ReapFacts
<1>2. Status(proc[p]) = "exited"
  BY <1>1, StatusOf DEF WaitChild, TypeOK
<1>3. Status(proc'[p]) = "free" /\ \A q \in Pid \ {p} : proc'[q] = proc[q]
  BY <1>1, StatusFresh DEF WaitChild, TypeOK
<1>4. [q \in Pid |-> Status(proc'[q])]
        = [[q \in Pid |-> Status(proc[q])] EXCEPT ![p] = "free"]
  BY <1>3, ImageAt
<1>5. children' = [children EXCEPT ![p] = None]
  BY <1>1 DEF WaitChild
<1>6. alive /\ ~Resting /\ UNCHANGED <<alive, Closing, Resting>>
  <2>1. CASE RespawnReap
    BY <2>1, SupBusy DEF RespawnReap, At, MayRun
  <2>2. ASSUME NEW g \in Greenlet, StopReap(g) 
        PROVE  alive /\ ~Resting /\ UNCHANGED <<alive, Closing, Resting>>
    BY <2>2, SupFrame DEF StopReap, At, MayRun, Resting, Greenlet
  <2> QED
    BY <2>1, <2>2 DEF Reaps
<1>7. Sup!Reap(p)
  BY <1>2, <1>4, <1>5, <1>6 DEF Sup!Reap
<1> QED
  BY <1>7

\* The signals of a reload, and those of a stop.
LEMMA SupTell ==
    ASSUME TypeOK, OldInv, NEW sig \in {"TERM", "HUP"}, Kill(Tracked, sig),
           alive, ~Resting, UNCHANGED <<alive, Closing, Resting, children>>
    PROVE  Sup!Tell
<1>1. ASSUME NEW p \in Pid
      PROVE  /\ Sup!Told(Status(proc[p]), Status(proc'[p]))
             /\ Status(proc'[p]) \in Sup!Running \cup {"free", "exited"}
  <2>1. proc[p] \in Process /\ (proc[p].stale => proc[p].phase \in Live)
    BY DEF TypeOK, OldInv, IsLive
  <2>2. proc'[p] = Receive(proc[p], sig) \/ proc'[p] = proc[p]
    BY DEF Kill
  <2>3. proc'[p] \in Process
    BY <2>1, <2>2, ReceiveType
  <2>4. Sup!Told(Status(proc[p]), Status(proc'[p]))
    BY <2>1, <2>2, ReceiveStatus DEF Sup!Told
  <2> QED
    BY <2>3, <2>4, StatusOf
<1> QED
  BY <1>1 DEF Sup!Tell
\* A reload outdates every process that runs.
LEMMA SupReload ==
    ASSUME TypeOK, BeginHup
    PROVE  Sup!Reload
<1>1. alive /\ ~Resting /\ UNCHANGED <<alive, Closing, Resting>>
  BY SupBusy DEF BeginHup, RespawnOver, At, MayRun
<1>2. children' = children
  BY DEF BeginHup
<1>3. ASSUME NEW p \in Pid
      PROVE  /\ Sup!Outdated(Status(proc[p]), Status(proc'[p]))
             /\ Status(proc'[p]) \in Sup!Running \cup {"free", "exited"}
  <2>1. proc[p] \in Process /\ proc'[p] \in Process
    BY BeginHupType DEF TypeOK
  <2>2. /\ proc'[p].phase = proc[p].phase
        /\ proc'[p].stale = (proc[p].phase \in Live)
    BY <2>1 DEF BeginHup, Process, IsLive
  <2>3. CASE proc[p].phase \in Live
    BY <2>1, <2>2, <2>3, StatusOf DEF Sup!Outdated
  <2>4. CASE proc[p].phase \notin Live
    BY <2>1, <2>2, <2>4, StatusOf DEF Sup!Outdated, Process
  <2> QED
    BY <2>1, <2>3, <2>4, StatusOf
<1> QED
  BY <1>1, <1>2, <1>3 DEF Sup!Reload

\* wait() goes to sleep: the services are complete and everybody was told, unless
\* another greenthread is stopping the launcher.
LEMMA SupRest ==
    ASSUME TypeOK, Tracking, StrengthInv, OldInv, RespawnSleep
    PROVE  Sup!Rest \/ UNCHANGED Sup!supVars
<1>1. /\ alive /\ pc["main"] = "respawn"
      /\ pc'["main"] = "idle" /\ pc'["other"] = pc["other"]
      /\ UNCHANGED <<alive, children, proc>>
  BY GotoEffect DEF RespawnSleep, At, MayRun, Greenlet
<1>2. CASE pc["other"] = "none"
  <2>1. ~Closing /\ ~Resting /\ Resting' = TRUE /\ Closing' = Closing
    BY <1>1, <1>2 DEF Closing, Resting
  <2>2. \A w \in Wrap : Sup!Cardinality(Sup!Of(w)) = Workers[w]
    BY <1>1, <1>2, SupOf, SupCardinality DEF StrengthInv, Full, Count
  <2>3. \A p \in Pid : Status(proc[p]) # "old"
    BY <1>1, StatusOf DEF OldInv, Untold, TypeOK
  <2> QED
    BY <1>1, <2>1, <2>2, <2>3 DEF Sup!Rest, Sup!AllFull, Sup!NoneOld
<1>3. CASE pc["other"] # "none"
  BY <1>1, <1>3, SupStutter DEF Closing, Resting
<1> QED
  BY <1>2, <1>3

\* A process moves by itself.
LEMMA SupChild ==
    ASSUME TypeOK, NEW p \in Pid, ChildStep(p) \/ ChildDies(p)
    PROVE  Sup!ProcessStep(p) \/ UNCHANGED Sup!supVars
<1>1. UNCHANGED <<alive, pc, children>>
  BY ChildFrame DEF parentVars
<1>2. UNCHANGED <<alive, Closing, Resting, children>>
  BY <1>1, SupFrame
<1>3. [q \in Pid |-> Status(proc'[q])]
        = [[q \in Pid |-> Status(proc[q])] EXCEPT ![p] = Status(proc'[p])]
  BY ChildOnly, ImageAt
<1>4. CASE Status(proc'[p]) = Status(proc[p])
  BY <1>2, <1>3, <1>4 DEF Sup!supVars
<1>5. CASE Status(proc'[p]) # Status(proc[p])
  BY <1>2, <1>3, <1>5, ChildStatus DEF Sup!ProcessStep, Sup!Exit, Sup!Notice, Sup!Renew
<1> QED
  BY <1>4, <1>5

\* The parent ends.
LEMMA SupEnd == ASSUME alive, ParentGone PROVE Sup!End
<1>1. /\ pc'["main"] = "gone" /\ alive' = FALSE
      /\ UNCHANGED <<children, proc>>
  BY DEF ParentGone, Greenlet
<1>2. Closing' = TRUE /\ Resting' = FALSE
  BY <1>1 DEF Closing, Resting
<1> QED
  BY <1>1, <1>2 DEF Sup!End

\* A stop begins.
LEMMA SupClose ==
    ASSUME alive, UNCHANGED <<alive, children, proc>>,
           \/ pc'["main"] \in {"stop_hooks", "returned"}
           \/ pc'["other"] = "stop_hooks"
    PROVE  Sup!Close
<1>1. Closing' = TRUE /\ Resting' = FALSE
  BY DEF Closing, Resting
<1> QED
  BY <1>1 DEF Sup!Close

\* Every step of the launcher is one of the supervisor's, or leaves it alone.
LEMMA SupStep ==
    TypeOK /\ Tracking /\ CountInv /\ StrengthInv /\ OldInv /\ [Next]_vars
      => [Sup!Next]_Sup!supVars
<1> SUFFICES ASSUME TypeOK, Tracking, CountInv, StrengthInv, OldInv, [Next]_vars
             PROVE  Sup!Next \/ UNCHANGED Sup!supVars
  OBVIOUS
<1> DEFINE Done == Sup!Next \/ UNCHANGED Sup!supVars
<1> SUFFICES Done
  OBVIOUS
<1>a. ASSUME Sup!Tell \/ Sup!Reload \/ Sup!Rest \/ Sup!Wake \/ Sup!Close \/ Sup!End PROVE Done
  BY <1>a DEF Sup!Next
<1>b. ASSUME NEW p \in Pid, Sup!Reap(p) \/ Sup!ProcessStep(p) PROVE Done
  BY <1>b DEF Sup!Next
<1>c. ASSUME NEW p \in Pid, NEW s \in Wrap, Sup!Fork(s, p) PROVE Done
  BY <1>c DEF Sup!Next
<1>d. ASSUME UNCHANGED <<alive, children, proc, pc>> PROVE Done
  BY <1>d, SupFrame, SupStutter
<1>e. ASSUME NEW l, MayRun("main"), Goto("main", l), UNCHANGED <<alive, children, proc>>,
             pc["main"] \notin {"idle", "stop_hooks", "reaping", "returned"},
             l \notin {"idle", "stop_hooks", "reaping", "returned"}
      PROVE  Done
  BY <1>e, SupBusy, SupStutter DEF MayRun
<1> HIDE DEF Done
<1>1. CASE Forks
  BY <1>1, <1>c, SupFork
<1>2. CASE Reaps
  BY <1>2, <1>b, SupReap
<1>3. ASSUME NEW w \in Wrap, LaunchService(w) PROVE Done
  BY <1>3, <1>e DEF LaunchService, At
<1>4. CASE LaunchDone \/ Wait \/ RefillThrottle \/ RefillDone
  BY <1>4, <1>e DEF LaunchDone, Wait, RefillThrottle, RefillDone, At
<1>5. CASE RespawnSleep
  BY <1>5, <1>a, SupRest DEF Done
<1>6. CASE RespawnWake
  <2>1. /\ alive /\ pc["main"] = "idle"
        /\ pc'["main"] = "respawn" /\ pc'["other"] = pc["other"]
        /\ UNCHANGED <<alive, children, proc>>
    BY <1>6, GotoEffect DEF RespawnWake, At, MayRun, Greenlet
  <2>2. CASE pc["other"] = "none"
    <3>1. Resting = TRUE /\ Resting' = FALSE /\ Closing' = Closing
      BY <2>1, <2>2 DEF Closing, Resting
    <3> QED
      BY <1>a, <2>1, <3>1 DEF Sup!Wake
  <2>3. CASE pc["other"] # "none"
    <3>1. Closing' = Closing /\ Resting' = Resting
      BY <2>1, <2>3 DEF Closing, Resting
    <3> QED
      BY <2>1, <3>1, SupStutter DEF Done
  <2> QED
    BY <2>2, <2>3
<1>7. CASE WaitStopCalled \/ GracefulShutdown \/ KilledWait
  BY <1>7, <1>a, SupClose, GotoEffect
     DEF WaitStopCalled, GracefulShutdown, KilledWait, RespawnOver, At, MayRun, Greenlet
<1>8. CASE OtherStop
  BY <1>8, <1>a, SupClose, GotoEffect DEF OtherStop, At, MayRun, Greenlet
<1>9. CASE BeginHup
  BY <1>9, <1>a, SupReload
<1>10. CASE SignalKids
  <2>1. alive /\ ~Resting /\ UNCHANGED <<alive, Closing, Resting, children>>
    BY <1>10, SupBusy DEF SignalKids, At, MayRun
  <2> QED
    BY <1>10, <1>a, <2>1, SupTell DEF SignalKids
<1>11. ASSUME NEW g \in Greenlet, StopKill(g) \/ StopReturn(g) PROVE Done
  <2>1. alive /\ pc[g] \in {"stop_hooks", "reaping"} /\ UNCHANGED <<alive, children>>
    BY <1>11 DEF StopKill, StopReturn, At, MayRun
  <2>2. /\ pc'[g] \in {"reaping", IF g = "main" THEN "returned" ELSE "done"}
        /\ \A h \in Greenlet \ {g} : pc'[h] = pc[h]
    BY <1>11, GotoEffect DEF StopKill, StopReturn
  <2>3. ~Resting /\ UNCHANGED <<Closing, Resting>>
    BY <2>1, <2>2 DEF Closing, Resting, Greenlet
  <2>4. CASE StopKill(g)
    BY <1>a, <2>1, <2>3, <2>4, SupTell DEF StopKill
  <2>5. CASE StopReturn(g)
    BY <2>1, <2>3, <2>5, SupStutter DEF StopReturn, Done
  <2> QED
    BY <1>11, <2>4, <2>5
<1>12. ASSUME NEW sig \in Signal, alive, Arrive(sig) PROVE Done
  BY <1>12, <1>a, <1>d, SupEnd DEF Arrive
<1>13. ASSUME NEW sig \in {"TERM", "HUP", "INT"}, SignalParent(sig) PROVE Done
  BY <1>12, <1>13 DEF SignalParent, Signal
<1>14. CASE AlarmFires
  BY <1>12, <1>14 DEF AlarmFires, Signal
<1>15. CASE ParentExit \/ ExitNow
  BY <1>15, <1>a, SupEnd DEF ParentExit, ExitNow, At, MayRun, Due
<1>16. CASE HandleTerm \/ HandleHup \/ NoHandler
  BY <1>16, <1>d DEF HandleTerm, HandleHup, NoHandler, Callback
<1>17. ASSUME NEW p \in Pid, ChildStep(p) \/ ChildDies(p) PROVE Done
  BY <1>17, <1>b, SupChild DEF Done
<1>18. CASE UNCHANGED vars
  BY <1>18, <1>d DEF vars, parentVars
<1> QED
  BY <1>1, <1>2, <1>3, <1>4, <1>5, <1>6, <1>7, <1>8, <1>9, <1>10, <1>11, <1>13, <1>14, <1>15,
     <1>16, <1>17, <1>18
     DEF Next, MainStep, OtherStep, CallbackStep, Environment, Terminated,
         Forks, Reaps, Greenlet

\* The launcher implements Supervisor, for every number of services and workers,
\* whatever hooks, signals, crashes and other greenthreads do.
THEOREM LauncherSupervises == Spec => ImplementsSupervisor
<1>1. Init => Sup!Init /\ CountInv /\ StrengthInv /\ OldInv
  BY SupInit, CountInit, StrengthInit, OldInit
<1>2. TypeOK /\ Tracking /\ CountInv /\ StrengthInv /\ OldInv /\ [Next]_vars
        => (CountInv /\ StrengthInv /\ OldInv)'
  BY CountStep, StrengthStep, OldStep
<1>3. TypeOK /\ Tracking /\ CountInv /\ StrengthInv /\ OldInv /\ [Next]_vars
        => [Sup!Next]_Sup!supVars
  BY SupStep
<1> QED
  BY <1>1, <1>2, <1>3, TableCorrect, PTL DEF Spec, Sup!Spec, ImplementsSupervisor
=============================================================================
