---------------------------- MODULE ManagedLaunch ----------------------------
(***************************************************************************)
(* The launchers of the threading backend that fork                        *)
(* (backend/_threading/service.py, ServiceLauncher, and ProcessLauncher    *)
(* without no_fork): threads launch services, one stops and one waits.     *)
(* The processes are cotyledon's; a ServiceManager of it can be made only  *)
(* once in a process.                                                      *)
(***************************************************************************)
CONSTANTS
    MLThread,      \* threads that launch one service each, named by its thread
    MLPicklable,   \* those whose service spawn can serialize
    MLAvailable    \* multiprocessing.get_all_start_methods()

ASSUME MLPicklableAssumption == MLPicklable \subseteq MLThread /\ "free" \notin MLThread
ASSUME MLAvailableAssumption == MLAvailable \subseteq {"fork", "spawn"}

VARIABLES
    mlMethod,      \* the start_method argument of the launcher
    mlLock,        \* who holds self._lock
    mlMade,        \* a ServiceManager was made in this process
    mlManager,     \* the start method of self._manager, or "none"
    mlAdded,       \* the services of the manager
    mlPc,          \* where each launch_service() is
    mlMain,        \* where wait() is
    mlShutdown     \* the manager was told to shut down

mlVars == <<mlMethod, mlLock, mlMade, mlManager, mlAdded, mlPc, mlMain, mlShutdown>>

MLFree == "free"

MLInit ==
    /\ mlMethod = "new"
    /\ mlLock = MLFree
    /\ mlMade = FALSE
    /\ mlManager = "none"
    /\ mlAdded = {}
    /\ mlPc = [t \in MLThread |-> "new"]
    /\ mlMain = "new"
    /\ mlShutdown = FALSE

\* The launcher is made, which does not look at the method.
MLCreate ==
    /\ mlMethod = "new"
    /\ mlMethod' \in {"default", "fork", "spawn", "other"}
    /\ UNCHANGED <<mlLock, mlMade, mlManager, mlAdded, mlPc, mlMain, mlShutdown>>

MLMove(t, from, to) == mlPc[t] = from /\ mlPc' = [mlPc EXCEPT ![t] = to]

\* Mutant: nobody waits for the lock.
MLEnterAnyway(t) ==
    /\ mlMethod # "new"
    /\ MLMove(t, "new", IF mlManager = "none" THEN "select" ELSE "check")
    /\ mlLock' = t
    /\ UNCHANGED <<mlMethod, mlMade, mlManager, mlAdded, mlMain, mlShutdown>>

MLEnter(t) ==
    /\ mlMethod # "new"
    /\ mlLock = MLFree
    /\ MLMove(t, "new", IF mlManager = "none" THEN "select" ELSE "check")
    /\ mlLock' = t
    /\ UNCHANGED <<mlMethod, mlMade, mlManager, mlAdded, mlMain, mlShutdown>>

MLSelected ==
    CASE mlMethod # "default" -> mlMethod
      [] OTHER -> IF "fork" \in MLAvailable THEN "fork" ELSE "spawn"

MLUsable(t) ==
    MLSelected \in MLAvailable /\ (MLSelected = "spawn" => t \in MLPicklable)

\* ValueError, or the exception of the pickler: launch_service() raises.
MLRefuse(t) ==
    /\ \/ MLMove(t, "select", "refused") /\ ~MLUsable(t)
       \/ MLMove(t, "check", "refused") /\ mlManager = "spawn" /\ t \notin MLPicklable
    /\ mlLock' = MLFree
    /\ UNCHANGED <<mlMethod, mlMade, mlManager, mlAdded, mlMain, mlShutdown>>

\* cotyledon.ServiceManager(), which raises the second time.
MLMake(t) ==
    /\ MLUsable(t)
    /\ IF mlMade THEN MLMove(t, "select", "broken") /\ mlLock' = MLFree
                 ELSE MLMove(t, "select", "made") /\ mlLock' = mlLock
    /\ mlMade' = TRUE
    /\ UNCHANGED <<mlMethod, mlManager, mlAdded, mlMain, mlShutdown>>

MLAssign(t) ==
    /\ MLMove(t, "made", "add")
    /\ mlManager' = MLSelected
    /\ mlLock' = MLFree
    /\ UNCHANGED <<mlMethod, mlMade, mlAdded, mlMain, mlShutdown>>

MLReuse(t) ==
    /\ MLMove(t, "check", "add")
    /\ mlManager = "spawn" => t \in MLPicklable
    /\ mlLock' = MLFree
    /\ UNCHANGED <<mlMethod, mlMade, mlManager, mlAdded, mlMain, mlShutdown>>

MLAdd(t) ==
    /\ MLMove(t, "add", "launched")
    /\ mlAdded' = mlAdded \cup {t}
    /\ UNCHANGED <<mlMethod, mlLock, mlMade, mlManager, mlMain, mlShutdown>>

\* stop(): without a manager it does nothing, and nobody remembers it.
MLStop ==
    /\ mlLock = MLFree
    /\ mlManager # "none"
    /\ mlShutdown' = TRUE
    /\ UNCHANGED <<mlMethod, mlLock, mlMade, mlManager, mlAdded, mlPc, mlMain>>

\* wait(): without a manager it returns.
MLWait ==
    /\ mlMain \in {"new", "returned"} /\ mlMethod # "new"
    /\ mlLock = MLFree
    /\ mlMain' = IF mlManager = "none" THEN "returned" ELSE "running"
    /\ UNCHANGED <<mlMethod, mlLock, mlMade, mlManager, mlAdded, mlPc, mlShutdown>>

\* run() returns when it was told to, or raises, and ServiceLauncher calls stop().
MLRunEnds ==
    /\ mlMain = "running"
    /\ mlMain' = "over"
    /\ mlShutdown' = TRUE
    /\ UNCHANGED <<mlMethod, mlLock, mlMade, mlManager, mlAdded, mlPc>>

MLNext ==
    \/ MLCreate \/ MLStop \/ MLWait \/ MLRunEnds
    \/ \E t \in MLThread :
         \/ MLEnter(t) \/ MLRefuse(t) \/ MLMake(t) \/ MLAssign(t)
         \/ MLReuse(t) \/ MLAdd(t)

MLSpec == MLInit /\ [][MLNext]_mlVars
-----------------------------------------------------------------------------
\* However many threads launch at once, no launch fails because another one has
\* made the only ServiceManager ("To avoid any race condition", 423-427; 233-264):
\* it is refused only for its start method or a service that spawn cannot
\* serialize, the others are all in the one manager, and a manager that spawns
\* never gets a service it cannot serialize.
AllAccepted ==
    /\ \A t \in MLThread :
         /\ mlPc[t] # "broken"
         /\ mlPc[t] = "launched" <=> t \in mlAdded
         /\ mlPc[t] = "refused" => ~MLUsable(t)
    /\ mlManager = "spawn" => mlAdded \subseteq MLPicklable
=============================================================================
