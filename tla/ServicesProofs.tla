---------------------------- MODULE ServicesProofs ----------------------------
(***************************************************************************)
(* Proofs about Services, for both backends and any number of services,    *)
(* events and slots: its types, that with eventlet no service has two      *)
(* wrappers, that each has one while the launcher waits in its loop, and   *)
(* that no wrapper is left with an event that nobody will send.            *)
(***************************************************************************)
EXTENDS Services, FiniteSetTheorems, TLAPS

\* The types, in two parts: the services and wrappers, and the actors.
Data ==
    /\ backend \in Backends
    /\ conf \in [daemon : BOOLEAN, method : {"reload", "mutate"}, timeout : BOOLEAN]
    /\ added \subseteq Service
    /\ svc \subseteq Service
    /\ wrap \in [Wrapper -> {"none", "starting", "waiting", "over"}]
    /\ group \subseteq {w \in Wrapper : Live(w)}
    /\ gen \in Gen
    /\ sent \subseteq 0 .. gen
    /\ installed \in BOOLEAN
    /\ pending \subseteq {"SIGTERM", "SIGHUP"}
    /\ ending \in BOOLEAN
    /\ late \subseteq svc
    /\ cut \in BOOLEAN

Places ==
    /\ pc["main"] \in {"launch", "idle", "wait", "join", "stop", "kill", "event",
        "reset"} \cup Over
    /\ pc["other"] \in {"idle", "stop", "kill", "finished"}
    /\ ret["main"] \in {"loop", "final", "event", "idle"}
    /\ ret["other"] \in {"idle", "finished"}

Work == \A a \in Actor : todo[a] \subseteq IF pc[a] \in {"kill",
    "join"} THEN Wrapper ELSE Service

\* Every actor has its part of the functions.
Shape ==
    /\ pc = [a \in Actor |-> pc[a]]
    /\ todo = [a \in Actor |-> todo[a]]
    /\ ret = [a \in Actor |-> ret[a]]

\* What stop() and wait() return to.
Returns ==
    /\ pc["main"] \in {"stop", "kill"} => ret["main"] \in {"final", "event", "idle"}
    /\ pc["main"] \in {"wait", "join"} => ret["main"] \in {"loop", "final", "idle"}
    /\ pc["other"] \in {"stop", "kill"} => ret["other"] = "finished"
    /\ pc["main"] = "launch" => ret["main"] = "loop"
    /\ pc["main"] \notin Over \cup {"launch"} => added = Service
    /\ Eventlet => pc["main"] # "idle" /\ ret["main"] # "idle"

\* While restart() stops the services no second one is under way or to come.
Restarting ==
    pc["main"] = "event" \/ (pc["main"] \in {"stop", "kill"} /\ ret["main"] = "event")

Reloads ==
    /\ ~Eventlet => pending = {} /\ ~installed
    /\ "SIGHUP" \in pending => gen < MaxGen
    /\ Restarting => gen < MaxGen /\ ~installed /\ "SIGHUP" \notin pending

\* With eventlet the list holds the wrappers that live, and restart() kills them
\* all before it makes the new event.
Wrappers ==
    Eventlet =>
        /\ \A w \in Wrapper : Live(w) => w \in group /\ w[2] = gen
        /\ pc["main"] = "kill" => group \subseteq todo["main"]
        /\ pc["main"] = "event" => group = {}

\* With eventlet and until something has ended the launcher, main has added a
\* wrapper for each service it came to, and only main sends the event.
Serving ==
    Eventlet /\ ~ending =>
        /\ pc["other"] = "idle"
        /\ pc["main"] = "launch" \/ InLoop =>
             gen \notin sent /\ \A s \in added : Live(<<s, gen>>)
        /\ pc["main"] = "reset" =>
             gen \notin sent /\ \A s \in Service \ todo["main"] : Live(<<s, gen>>)

\* restart() replaces the event only after its stop() has sent it.
Events ==
    /\ \A g \in Gen : g < gen => g \in sent
    /\ pc["main"] = "event" \/ (pc["main"] = "kill" /\ ret["main"] = "event") => gen \in sent
    /\ \A w \in Wrapper : Live(w) => w[2] <= gen

\* What an eventlet launcher that is ending comes to: the event was sent, no wrapper
\* lives, and what runs was started by a start() that its stop() has overtaken;
\* unless a service raised in the stop() of SIGTERM's handler, the only one since.
AllStopped == gen \in sent /\ svc \subseteq late /\ \A w \in Wrapper : ~Live(w)

EndsCompletely ==
    Eventlet /\ ending /\ pc["main"] \notin Over =>
        /\ pc["main"] \in {"wait", "join", "stop", "kill"}
        /\ ret["main"] \in {"loop", "final"}
        /\ (\E a \in Actor : pc[a] \in {"stop", "kill"}) \/ AllStopped \/ cut

\* A stop() leaves behind it only services that were late, and kills what is listed.
Stopping(a) ==
    /\ pc[a] = "stop" => svc \ late \subseteq todo[a]
    /\ pc[a] = "kill" => gen \in sent /\ svc \subseteq late /\ group \subseteq todo[a]

\* The launcher ends by a SIGTERM, which takes the handlers away, or by a wrapper that
\* failed, after which it does not go back to its loop; neither is possible while it
\* launches or restarts.
Ending ==
    Eventlet /\ pc["main"] \notin Over =>
        /\ EndsCompletely
        /\ pc["main"] \in {"launch", "reset"} \/ Restarting => ~installed
        /\ ending /\ ret["main"] = "loop" => ~installed
        /\ pc["main"] \in {"stop", "kill"} /\ ret["main"] = "final" => ending
        /\ pc["other"] # "idle" => ending
        /\ \A a \in Actor : Stopping(a)

Inv ==
    /\ Data /\ Places /\ Work
    /\ Shape /\ Returns /\ Reloads /\ Wrappers /\ Serving /\ Events /\ Ending
-----------------------------------------------------------------------------
\* The first state is as described.
LEMMA Initially == Init => Inv
<1> USE BackendsAssumption, NServicesAssumption, MaxGenAssumption
<1> SUFFICES ASSUME Init PROVE Inv
  OBVIOUS
<1>1. Shape
  BY DEF Init, Shape, Actor
<1>2. Data /\ Places /\ Work
  <2>1. wrap \in [Wrapper -> {"none", "starting", "waiting", "over"}]
    BY DEF Init
  <2>2. gen \in Gen /\ sent \subseteq 0 .. gen
    BY DEF Init, Gen
  <2>3. /\ pc["main"] = "launch" /\ pc["other"] = "idle"
        /\ ret["main"] = "loop" /\ ret["other"] = "idle"
    BY DEF Init
  <2>4. \A a \in Actor : todo[a] = {}
    BY DEF Init
  <2> QED
    BY <2>1, <2>2, <2>3, <2>4 DEF Init, Data, Places, Work, Over
<1>3. Ending
  BY DEF Init, Ending, EndsCompletely, Stopping, Restarting, Actor, Over
<1>4. Returns /\ Reloads /\ Wrappers /\ Serving /\ Events
  BY DEF Init, Eventlet, Returns, Reloads, Restarting, Wrappers, Serving, Events, Live,
      InLoop, Over, Service, Gen, Wrapper
<1> QED
  BY <1>1, <1>2, <1>3, <1>4 DEF Inv

\* Every step keeps the actors' shape.
LEMMA ShapeStep ==
    ASSUME Inv, [Next]_vars
    PROVE  Shape'
<1> USE DEF Inv, Shape, Eventlet, At, Goto, Keep, launchVars, signalVars
<1>1. ASSUME NEW s \in Service, Add(s) PROVE Shape'
  BY <1>1 DEF Add, AddThread
<1>2. CASE WaitBegin
  BY <1>2 DEF WaitBegin
<1>3. ASSUME NEW s \in Service, WaitService(s) PROVE Shape'
  BY <1>3 DEF WaitService
<1>4. CASE WaitGroup
  BY <1>4 DEF WaitGroup
<1>5. CASE WaitReturns
  BY <1>5 DEF WaitReturns, Returns
<1>6. ASSUME NEW a \in Actor, NEW s \in Service, StopService(a, s) PROVE Shape'
  BY <1>6 DEF StopService
<1>7. ASSUME NEW a \in Actor, SendDone(a) PROVE Shape'
  BY <1>7 DEF SendDone
<1>8. ASSUME NEW a \in Actor, Kill(a) PROVE Shape'
  BY <1>8 DEF Kill
<1>9. ASSUME NEW a \in Actor, StopReturns(a) PROVE Shape'
  BY <1>9 DEF StopReturns
<1>10. CASE NewEvent
  BY <1>10 DEF NewEvent
<1>11. ASSUME NEW s \in Service, ResetService(s) PROVE Shape'
  BY <1>11 DEF ResetService, AddThread
<1>12. CASE RestartReturns
  BY <1>12 DEF RestartReturns
<1>13. CASE Call
  BY <1>13 DEF Call, BeginStop, BeginRestart
<1>14. CASE OtherStops
  BY <1>14 DEF OtherStops, BeginStop
<1>15. ASSUME NEW w \in Wrapper, StartReturns(w) PROVE Shape'
  BY <1>15 DEF StartReturns, WrapperAt
<1>16. ASSUME NEW w \in Wrapper, StartFails(w) PROVE Shape'
  BY <1>16 DEF StartFails, WrapperAt, RaiseSystemExit, BeginStop, Escape, InLoop
<1>17. ASSUME NEW w \in Wrapper, WrapperEnds(w) PROVE Shape'
  BY <1>17 DEF WrapperEnds, WrapperAt
<1>18. ASSUME NEW s \in Service, ServiceEnds(s) PROVE Shape'
  BY <1>18 DEF ServiceEnds
<1>19. ASSUME NEW sig \in {"SIGTERM", "SIGHUP"}, Signal(sig) PROVE Shape'
  BY <1>19 DEF Signal
<1>20. ASSUME NEW sig \in {"SIGTERM", "SIGHUP"}, NoHandler(sig) PROVE Shape'
  BY <1>20 DEF NoHandler, Callback
<1>21. CASE GracefulShutdown
  BY <1>21 DEF GracefulShutdown, Callback, BeginStop
<1>22. CASE ReloadService
  BY <1>22 DEF ReloadService, Callback, RaiseSignalExit, BeginRestart, BeginStop,
      Escape, InLoop
<1>23. CASE Alarm
  BY <1>23 DEF Alarm
<1>24. CASE UNCHANGED vars
  BY <1>24 DEF vars
<1>25. ASSUME NEW a \in Actor, StopRaises(a) PROVE Shape'
  BY <1>25 DEF StopRaises
<1>26. CASE HookRaises
  BY <1>26 DEF HookRaises, RaiseSystemExit, BeginStop, Escape, InLoop
<1> QED
  BY <1>1, <1>2, <1>3, <1>4, <1>5, <1>6, <1>7, <1>8, <1>9, <1>10, <1>11,
     <1>12, <1>13, <1>14, <1>15, <1>16, <1>17, <1>18, <1>19, <1>20, <1>21,
     <1>22, <1>23, <1>24, <1>25, <1>26
  DEF Next, MainStep, StopStep, WrapperStep

\* Every step keeps the types of the data.
LEMMA DataStep ==
    ASSUME Inv, [Next]_vars
    PROVE  Data'
<1> USE MaxGenAssumption DEF Inv, Data, Live, Eventlet, launchVars, signalVars
<1>1. ASSUME NEW s \in Service, Add(s) PROVE Data'
  BY <1>1 DEF Add, AddThread, Wrapper, Gen, First
<1>2. CASE WaitBegin
  BY <1>2 DEF WaitBegin
<1>3. ASSUME NEW s \in Service, WaitService(s) PROVE Data'
  BY <1>3 DEF WaitService
<1>4. CASE WaitGroup
  BY <1>4 DEF WaitGroup
<1>5. CASE WaitReturns
  BY <1>5 DEF WaitReturns
<1>6. ASSUME NEW a \in Actor, NEW s \in Service, StopService(a, s) PROVE Data'
  BY <1>6 DEF StopService
<1>7. ASSUME NEW a \in Actor, SendDone(a) PROVE Data'
  <2>1. gen' = gen /\ sent' = sent \cup {gen} /\ gen \in Nat
    BY <1>7 DEF SendDone, Gen
  <2>2. sent' \subseteq 0 .. gen'
    BY <2>1
  <2> QED
    BY <1>7, <2>2 DEF SendDone
<1>8. ASSUME NEW a \in Actor, Kill(a) PROVE Data'
  BY <1>8 DEF Kill
<1>9. ASSUME NEW a \in Actor, StopReturns(a) PROVE Data'
  BY <1>9 DEF StopReturns
<1>10. CASE NewEvent
  <2>1. gen < MaxGen
    BY <1>10 DEF NewEvent, At, Reloads, Restarting
  <2>2. gen' \in Gen /\ sent' \subseteq 0 .. gen'
    BY <1>10, <2>1 DEF NewEvent, Gen
  <2> QED
    BY <1>10, <2>2 DEF NewEvent
<1>11. ASSUME NEW s \in Service, ResetService(s) PROVE Data'
  BY <1>11 DEF ResetService, AddThread, Wrapper, Gen, First
<1>12. CASE RestartReturns
  BY <1>12 DEF RestartReturns
<1>13. CASE Call
  BY <1>13 DEF Call, BeginStop, BeginRestart
<1>14. CASE OtherStops
  BY <1>14 DEF OtherStops, BeginStop
<1>15. ASSUME NEW w \in Wrapper, StartReturns(w) PROVE Data'
  BY <1>15 DEF StartReturns, WrapperAt, Wrapper, Gen
<1>16. ASSUME NEW w \in Wrapper, StartFails(w) PROVE Data'
  BY <1>16 DEF StartFails, WrapperAt, RaiseSystemExit, BeginStop, Escape, InLoop
<1>17. ASSUME NEW w \in Wrapper, WrapperEnds(w) PROVE Data'
  BY <1>17 DEF WrapperEnds, WrapperAt
<1>18. ASSUME NEW s \in Service, ServiceEnds(s) PROVE Data'
  BY <1>18 DEF ServiceEnds
<1>19. ASSUME NEW sig \in {"SIGTERM", "SIGHUP"}, Signal(sig) PROVE Data'
  <2>1. pending' = pending \cup {sig} \/ pending' = pending
    BY <1>19 DEF Signal
  <2>2. pending' \subseteq {"SIGTERM", "SIGHUP"}
    BY <2>1
  <2> QED
    BY <1>19, <2>2 DEF Signal
<1>20. ASSUME NEW sig \in {"SIGTERM", "SIGHUP"}, NoHandler(sig) PROVE Data'
  BY <1>20 DEF NoHandler, Callback
<1>21. CASE GracefulShutdown
  BY <1>21 DEF GracefulShutdown, Callback, BeginStop
<1>22. CASE ReloadService
  BY <1>22 DEF ReloadService, Callback, RaiseSignalExit, BeginRestart, BeginStop,
      Escape, InLoop
<1>23. CASE Alarm
  BY <1>23 DEF Alarm
<1>24. CASE UNCHANGED vars
  BY <1>24 DEF vars
<1>25. ASSUME NEW a \in Actor, StopRaises(a) PROVE Data'
  BY <1>25 DEF StopRaises
<1>26. CASE HookRaises
  BY <1>26 DEF HookRaises, RaiseSystemExit, BeginStop, Escape, InLoop
<1> QED
  BY <1>1, <1>2, <1>3, <1>4, <1>5, <1>6, <1>7, <1>8, <1>9, <1>10, <1>11,
     <1>12, <1>13, <1>14, <1>15, <1>16, <1>17, <1>18, <1>19, <1>20, <1>21,
     <1>22, <1>23, <1>24, <1>25, <1>26
  DEF Next, MainStep, StopStep, WrapperStep

\* Every step keeps the actors where they can be.
LEMMA PlacesStep ==
    ASSUME Inv, [Next]_vars
    PROVE  Places'
<1> USE DEF Inv, Places, Shape, Returns, Actor, Over, Eventlet, At, Goto, Keep,
    launchVars, signalVars
<1>1. ASSUME NEW s \in Service, Add(s) PROVE Places'
  BY <1>1 DEF Add, AddThread
<1>2. CASE WaitBegin
  BY <1>2 DEF WaitBegin
<1>3. ASSUME NEW s \in Service, WaitService(s) PROVE Places'
  BY <1>3 DEF WaitService
<1>4. CASE WaitGroup
  BY <1>4 DEF WaitGroup
<1>5. CASE WaitReturns
  BY <1>5 DEF WaitReturns
<1>6. ASSUME NEW a \in Actor, NEW s \in Service, StopService(a, s) PROVE Places'
  BY <1>6 DEF StopService
<1>7. ASSUME NEW a \in Actor, SendDone(a) PROVE Places'
  BY <1>7 DEF SendDone
<1>8. ASSUME NEW a \in Actor, Kill(a) PROVE Places'
  BY <1>8 DEF Kill
<1>9. ASSUME NEW a \in Actor, StopReturns(a) PROVE Places'
  BY <1>9 DEF StopReturns
<1>10. CASE NewEvent
  BY <1>10 DEF NewEvent
<1>11. ASSUME NEW s \in Service, ResetService(s) PROVE Places'
  BY <1>11 DEF ResetService, AddThread
<1>12. CASE RestartReturns
  BY <1>12 DEF RestartReturns
<1>13. CASE Call
  BY <1>13 DEF Call, BeginStop, BeginRestart
<1>14. CASE OtherStops
  BY <1>14 DEF OtherStops, BeginStop
<1>15. ASSUME NEW w \in Wrapper, StartReturns(w) PROVE Places'
  BY <1>15 DEF StartReturns, WrapperAt
<1>16. ASSUME NEW w \in Wrapper, StartFails(w) PROVE Places'
  BY <1>16 DEF StartFails, WrapperAt, RaiseSystemExit, BeginStop, Escape, InLoop
<1>17. ASSUME NEW w \in Wrapper, WrapperEnds(w) PROVE Places'
  BY <1>17 DEF WrapperEnds, WrapperAt
<1>18. ASSUME NEW s \in Service, ServiceEnds(s) PROVE Places'
  BY <1>18 DEF ServiceEnds
<1>19. ASSUME NEW sig \in {"SIGTERM", "SIGHUP"}, Signal(sig) PROVE Places'
  BY <1>19 DEF Signal
<1>20. ASSUME NEW sig \in {"SIGTERM", "SIGHUP"}, NoHandler(sig) PROVE Places'
  BY <1>20 DEF NoHandler, Callback
<1>21. CASE GracefulShutdown
  BY <1>21 DEF GracefulShutdown, Callback, BeginStop
<1>22. CASE ReloadService
  BY <1>22 DEF ReloadService, Callback, RaiseSignalExit, BeginRestart, BeginStop,
      Escape, InLoop
<1>23. CASE Alarm
  BY <1>23 DEF Alarm
<1>24. CASE UNCHANGED vars
  BY <1>24 DEF vars
<1>25. ASSUME NEW a \in Actor, StopRaises(a) PROVE Places'
  BY <1>25 DEF StopRaises
<1>26. CASE HookRaises
  BY <1>26 DEF HookRaises, RaiseSystemExit, BeginStop, Escape, InLoop
<1> QED
  BY <1>1, <1>2, <1>3, <1>4, <1>5, <1>6, <1>7, <1>8, <1>9, <1>10, <1>11,
     <1>12, <1>13, <1>14, <1>15, <1>16, <1>17, <1>18, <1>19, <1>20, <1>21,
     <1>22, <1>23, <1>24, <1>25, <1>26
  DEF Next, MainStep, StopStep, WrapperStep

\* What an actor has to do fits where it is.
LEMMA WorkStep ==
    ASSUME Inv, [Next]_vars
    PROVE  Work'
<1> USE DEF Inv, Work, Places, Shape, Actor, Over, Eventlet, At, Goto, Keep,
    launchVars, signalVars
<1>1. ASSUME NEW s \in Service, Add(s) PROVE Work'
  BY <1>1 DEF Add, AddThread
<1>2. CASE WaitBegin
  BY <1>2 DEF WaitBegin, Data
<1>3. ASSUME NEW s \in Service, WaitService(s) PROVE Work'
  BY <1>3 DEF WaitService
<1>4. CASE WaitGroup
  BY <1>4 DEF WaitGroup, Data
<1>5. CASE WaitReturns
  BY <1>5, ZenonT(60) DEF WaitReturns, Data, Returns
<1>6. ASSUME NEW a \in Actor, NEW s \in Service, StopService(a, s) PROVE Work'
  BY <1>6 DEF StopService
<1>7. ASSUME NEW a \in Actor, SendDone(a) PROVE Work'
  BY <1>7 DEF SendDone, Data
<1>8. ASSUME NEW a \in Actor, Kill(a) PROVE Work'
  BY <1>8 DEF Kill
<1>9. ASSUME NEW a \in Actor, StopReturns(a) PROVE Work'
  BY <1>9 DEF StopReturns, Data, Returns
<1>10. CASE NewEvent
  BY <1>10 DEF NewEvent, Data
<1>11. ASSUME NEW s \in Service, ResetService(s) PROVE Work'
  BY <1>11 DEF ResetService, AddThread
<1>12. CASE RestartReturns
  BY <1>12 DEF RestartReturns, Data
<1>13. CASE Call
  BY <1>13 DEF Call, BeginStop, BeginRestart, Data
<1>14. CASE OtherStops
  BY <1>14 DEF OtherStops, BeginStop, Data
<1>15. ASSUME NEW w \in Wrapper, StartReturns(w) PROVE Work'
  BY <1>15 DEF StartReturns, WrapperAt
<1>16. ASSUME NEW w \in Wrapper, StartFails(w) PROVE Work'
  BY <1>16 DEF StartFails, RaiseSystemExit, BeginStop, Escape, InLoop, Data
<1>17. ASSUME NEW w \in Wrapper, WrapperEnds(w) PROVE Work'
  BY <1>17 DEF WrapperEnds, WrapperAt
<1>18. ASSUME NEW s \in Service, ServiceEnds(s) PROVE Work'
  BY <1>18 DEF ServiceEnds
<1>19. ASSUME NEW sig \in {"SIGTERM", "SIGHUP"}, Signal(sig) PROVE Work'
  BY <1>19 DEF Signal
<1>20. ASSUME NEW sig \in {"SIGTERM", "SIGHUP"}, NoHandler(sig) PROVE Work'
  BY <1>20 DEF NoHandler, Callback
<1>21. CASE GracefulShutdown
  BY <1>21 DEF GracefulShutdown, Callback, BeginStop, Data
<1>22. CASE ReloadService
  BY <1>22 DEF ReloadService, Callback, RaiseSignalExit, BeginRestart,
         BeginStop, Escape, InLoop, Data
<1>23. CASE Alarm
  BY <1>23 DEF Alarm
<1>24. CASE UNCHANGED vars
  BY <1>24 DEF vars
<1>25. ASSUME NEW a \in Actor, StopRaises(a) PROVE Work'
  BY <1>25 DEF StopRaises
<1>26. CASE HookRaises
  BY <1>26 DEF HookRaises, RaiseSystemExit, BeginStop, Escape, InLoop, Data
<1> QED
  BY <1>1, <1>2, <1>3, <1>4, <1>5, <1>6, <1>7, <1>8, <1>9, <1>10, <1>11,
     <1>12, <1>13, <1>14, <1>15, <1>16, <1>17, <1>18, <1>19, <1>20, <1>21,
     <1>22, <1>23, <1>24, <1>25, <1>26
  DEF Next, MainStep, StopStep, WrapperStep

\* An actor returns to where it was called.
LEMMA ReturnsStep ==
    ASSUME Inv, [Next]_vars
    PROVE  Returns'
<1> USE DEF Inv, Data, Places, Shape, Returns, Actor, Over, Eventlet, At, Goto,
    Keep, launchVars, signalVars
<1>1. ASSUME NEW s \in Service, Add(s) PROVE Returns'
  BY <1>1 DEF Add, AddThread
<1>2. CASE WaitBegin
  BY <1>2 DEF WaitBegin
<1>3. ASSUME NEW s \in Service, WaitService(s) PROVE Returns'
  BY <1>3 DEF WaitService
<1>4. CASE WaitGroup
  BY <1>4 DEF WaitGroup
<1>5. CASE WaitReturns
  BY <1>5 DEF WaitReturns
<1>6. ASSUME NEW a \in Actor, NEW s \in Service, StopService(a, s) PROVE Returns'
  BY <1>6 DEF StopService
<1>7. ASSUME NEW a \in Actor, SendDone(a) PROVE Returns'
  BY <1>7 DEF SendDone
<1>8. ASSUME NEW a \in Actor, Kill(a) PROVE Returns'
  BY <1>8 DEF Kill
<1>9. ASSUME NEW a \in Actor, StopReturns(a) PROVE Returns'
  BY <1>9 DEF StopReturns
<1>10. CASE NewEvent
  BY <1>10 DEF NewEvent
<1>11. ASSUME NEW s \in Service, ResetService(s) PROVE Returns'
  BY <1>11 DEF ResetService, AddThread
<1>12. CASE RestartReturns
  BY <1>12 DEF RestartReturns
<1>13. CASE Call
  BY <1>13 DEF Call, BeginStop, BeginRestart
<1>14. CASE OtherStops
  BY <1>14 DEF OtherStops, BeginStop
<1>15. ASSUME NEW w \in Wrapper, StartReturns(w) PROVE Returns'
  BY <1>15 DEF StartReturns, WrapperAt
<1>16. ASSUME NEW w \in Wrapper, StartFails(w) PROVE Returns'
  BY <1>16 DEF StartFails, WrapperAt, RaiseSystemExit, BeginStop, Escape, InLoop
<1>17. ASSUME NEW w \in Wrapper, WrapperEnds(w) PROVE Returns'
  BY <1>17 DEF WrapperEnds, WrapperAt
<1>18. ASSUME NEW s \in Service, ServiceEnds(s) PROVE Returns'
  BY <1>18 DEF ServiceEnds
<1>19. ASSUME NEW sig \in {"SIGTERM", "SIGHUP"}, Signal(sig) PROVE Returns'
  BY <1>19 DEF Signal
<1>20. ASSUME NEW sig \in {"SIGTERM", "SIGHUP"}, NoHandler(sig) PROVE Returns'
  BY <1>20 DEF NoHandler, Callback
<1>21. CASE GracefulShutdown
  BY <1>21 DEF GracefulShutdown, Callback, BeginStop
<1>22. CASE ReloadService
  BY <1>22 DEF ReloadService, Callback, RaiseSignalExit, BeginRestart, BeginStop,
      Escape, InLoop
<1>23. CASE Alarm
  BY <1>23 DEF Alarm
<1>24. CASE UNCHANGED vars
  BY <1>24 DEF vars
<1>25. ASSUME NEW a \in Actor, StopRaises(a) PROVE Returns'
  BY <1>25 DEF StopRaises
<1>26. CASE HookRaises
  BY <1>26 DEF HookRaises, RaiseSystemExit, BeginStop, Escape, InLoop
<1> QED
  BY <1>1, <1>2, <1>3, <1>4, <1>5, <1>6, <1>7, <1>8, <1>9, <1>10, <1>11,
     <1>12, <1>13, <1>14, <1>15, <1>16, <1>17, <1>18, <1>19, <1>20, <1>21,
     <1>22, <1>23, <1>24, <1>25, <1>26
  DEF Next, MainStep, StopStep, WrapperStep

\* There is one reload at a time.
LEMMA ReloadsStep ==
    ASSUME Inv, [Next]_vars
    PROVE  Reloads'
<1> USE DEF Inv, Data, Places, Shape, Returns, Reloads, Restarting, Actor, Over,
    Eventlet, At, Goto, Keep, launchVars, signalVars
<1>1. ASSUME NEW s \in Service, Add(s) PROVE Reloads'
  BY <1>1 DEF Add, AddThread
<1>2. CASE WaitBegin
  BY <1>2 DEF WaitBegin
<1>3. ASSUME NEW s \in Service, WaitService(s) PROVE Reloads'
  BY <1>3 DEF WaitService
<1>4. CASE WaitGroup
  BY <1>4 DEF WaitGroup
<1>5. CASE WaitReturns
  BY <1>5 DEF WaitReturns
<1>6. ASSUME NEW a \in Actor, NEW s \in Service, StopService(a, s) PROVE Reloads'
  BY <1>6 DEF StopService
<1>7. ASSUME NEW a \in Actor, SendDone(a) PROVE Reloads'
  BY <1>7 DEF SendDone
<1>8. ASSUME NEW a \in Actor, Kill(a) PROVE Reloads'
  BY <1>8 DEF Kill
<1>9. ASSUME NEW a \in Actor, StopReturns(a) PROVE Reloads'
  BY <1>9 DEF StopReturns
<1>10. CASE NewEvent
  BY <1>10 DEF NewEvent
<1>11. ASSUME NEW s \in Service, ResetService(s) PROVE Reloads'
  BY <1>11 DEF ResetService, AddThread
<1>12. CASE RestartReturns
  BY <1>12 DEF RestartReturns
<1>13. CASE Call
  BY <1>13 DEF Call, BeginStop, BeginRestart
<1>14. CASE OtherStops
  BY <1>14 DEF OtherStops, BeginStop
<1>15. ASSUME NEW w \in Wrapper, StartReturns(w) PROVE Reloads'
  BY <1>15 DEF StartReturns, WrapperAt
<1>16. ASSUME NEW w \in Wrapper, StartFails(w) PROVE Reloads'
  BY <1>16 DEF StartFails, WrapperAt, RaiseSystemExit, BeginStop, Escape, InLoop
<1>17. ASSUME NEW w \in Wrapper, WrapperEnds(w) PROVE Reloads'
  BY <1>17 DEF WrapperEnds, WrapperAt
<1>18. ASSUME NEW s \in Service, ServiceEnds(s) PROVE Reloads'
  BY <1>18 DEF ServiceEnds
<1>19. ASSUME NEW sig \in {"SIGTERM", "SIGHUP"}, Signal(sig) PROVE Reloads'
  BY <1>19 DEF Signal
<1>20. ASSUME NEW sig \in {"SIGTERM", "SIGHUP"}, NoHandler(sig) PROVE Reloads'
  BY <1>20 DEF NoHandler, Callback
<1>21. CASE GracefulShutdown
  BY <1>21 DEF GracefulShutdown, Callback, BeginStop
<1>22. CASE ReloadService
  BY <1>22 DEF ReloadService, Callback, RaiseSignalExit, BeginRestart, BeginStop,
      Escape, InLoop
<1>23. CASE Alarm
  BY <1>23 DEF Alarm
<1>24. CASE UNCHANGED vars
  BY <1>24 DEF vars
<1>25. ASSUME NEW a \in Actor, StopRaises(a) PROVE Reloads'
  BY <1>25 DEF StopRaises
<1>26. CASE HookRaises
  BY <1>26 DEF HookRaises, RaiseSystemExit, BeginStop, Escape, InLoop
<1> QED
  BY <1>1, <1>2, <1>3, <1>4, <1>5, <1>6, <1>7, <1>8, <1>9, <1>10, <1>11,
     <1>12, <1>13, <1>14, <1>15, <1>16, <1>17, <1>18, <1>19, <1>20, <1>21,
     <1>22, <1>23, <1>24, <1>25, <1>26
  DEF Next, MainStep, StopStep, WrapperStep

\* The wrappers that live are listed and wait for the present event.
LEMMA WrappersStep ==
    ASSUME Inv, [Next]_vars
    PROVE  Wrappers'
<1> USE MaxGenAssumption DEF Inv, Data, Places, Shape, Returns, Wrappers, Actor,
    Live, Over, Eventlet, At, Goto, Keep, launchVars, signalVars
<1>1. ASSUME NEW s \in Service, Add(s) PROVE Wrappers'
  BY <1>1 DEF Add, AddThread, Wrapper
<1>2. CASE WaitBegin
  BY <1>2 DEF WaitBegin
<1>3. ASSUME NEW s \in Service, WaitService(s) PROVE Wrappers'
  BY <1>3 DEF WaitService
<1>4. CASE WaitGroup
  BY <1>4 DEF WaitGroup
<1>5. CASE WaitReturns
  BY <1>5 DEF WaitReturns
<1>6. ASSUME NEW a \in Actor, NEW s \in Service, StopService(a, s) PROVE Wrappers'
  BY <1>6 DEF StopService
<1>7. ASSUME NEW a \in Actor, SendDone(a) PROVE Wrappers'
  BY <1>7 DEF SendDone
<1>8. ASSUME NEW a \in Actor, Kill(a) PROVE Wrappers'
  BY <1>8 DEF Kill
<1>9. ASSUME NEW a \in Actor, StopReturns(a) PROVE Wrappers'
  BY <1>9 DEF StopReturns
<1>10. CASE NewEvent
  BY <1>10 DEF NewEvent
<1>11. ASSUME NEW s \in Service, ResetService(s) PROVE Wrappers'
  BY <1>11 DEF ResetService, AddThread, Wrapper
<1>12. CASE RestartReturns
  BY <1>12 DEF RestartReturns
<1>13. CASE Call
  BY <1>13 DEF Call, BeginStop, BeginRestart
<1>14. CASE OtherStops
  BY <1>14 DEF OtherStops, BeginStop
<1>15. ASSUME NEW w \in Wrapper, StartReturns(w) PROVE Wrappers'
  BY <1>15 DEF StartReturns, WrapperAt
<1>16. ASSUME NEW w \in Wrapper, StartFails(w) PROVE Wrappers'
  BY <1>16 DEF StartFails, WrapperAt, RaiseSystemExit, BeginStop, Escape, InLoop
<1>17. ASSUME NEW w \in Wrapper, WrapperEnds(w) PROVE Wrappers'
  BY <1>17 DEF WrapperEnds, WrapperAt
<1>18. ASSUME NEW s \in Service, ServiceEnds(s) PROVE Wrappers'
  BY <1>18 DEF ServiceEnds
<1>19. ASSUME NEW sig \in {"SIGTERM", "SIGHUP"}, Signal(sig) PROVE Wrappers'
  BY <1>19 DEF Signal
<1>20. ASSUME NEW sig \in {"SIGTERM", "SIGHUP"}, NoHandler(sig) PROVE Wrappers'
  BY <1>20 DEF NoHandler, Callback
<1>21. CASE GracefulShutdown
  BY <1>21 DEF GracefulShutdown, Callback, BeginStop
<1>22. CASE ReloadService
  BY <1>22 DEF ReloadService, Callback, RaiseSignalExit, BeginRestart, BeginStop,
      Escape, InLoop
<1>23. CASE Alarm
  BY <1>23 DEF Alarm
<1>24. CASE UNCHANGED vars
  BY <1>24 DEF vars
<1>25. ASSUME NEW a \in Actor, StopRaises(a) PROVE Wrappers'
  BY <1>25 DEF StopRaises
<1>26. CASE HookRaises
  BY <1>26 DEF HookRaises, RaiseSystemExit, BeginStop, Escape, InLoop
<1> QED
  BY <1>1, <1>2, <1>3, <1>4, <1>5, <1>6, <1>7, <1>8, <1>9, <1>10, <1>11,
     <1>12, <1>13, <1>14, <1>15, <1>16, <1>17, <1>18, <1>19, <1>20, <1>21,
     <1>22, <1>23, <1>24, <1>25, <1>26
  DEF Next, MainStep, StopStep, WrapperStep

\* Main's loops leave a wrapper for each service.
LEMMA ServingStep ==
    ASSUME Inv, [Next]_vars
    PROVE  Serving'
<1> USE MaxGenAssumption DEF Inv, Data, Places, Shape, Returns, Wrappers, Serving,
    InLoop, Actor, Live, Over, Eventlet, At, Goto, Keep, launchVars, signalVars
<1>1. ASSUME NEW s \in Service, Add(s) PROVE Serving'
  BY <1>1 DEF Add, AddThread, Wrapper
<1>2. CASE WaitBegin
  BY <1>2 DEF WaitBegin
<1>3. ASSUME NEW s \in Service, WaitService(s) PROVE Serving'
  BY <1>3 DEF WaitService
<1>4. CASE WaitGroup
  BY <1>4 DEF WaitGroup
<1>5. CASE WaitReturns
  BY <1>5 DEF WaitReturns
<1>6. ASSUME NEW a \in Actor, NEW s \in Service, StopService(a, s) PROVE Serving'
  BY <1>6 DEF StopService
<1>7. ASSUME NEW a \in Actor, SendDone(a) PROVE Serving'
  BY <1>7 DEF SendDone
<1>8. ASSUME NEW a \in Actor, Kill(a) PROVE Serving'
  BY <1>8 DEF Kill
<1>9. ASSUME NEW a \in Actor, StopReturns(a) PROVE Serving'
  BY <1>9 DEF StopReturns
<1>10. CASE NewEvent
  <2>1. gen \in Nat /\ sent \subseteq 0 .. gen
    BY DEF Gen
  <2>2. gen' \notin sent'
    BY <1>10, <2>1 DEF NewEvent
  <2>3. added = Service /\ todo'["main"] = added /\ pc'["main"] = "reset"
    BY <1>10 DEF NewEvent
  <2>4. pc'["other"] = pc["other"] /\ ending' = ending /\ backend' = backend
    BY <1>10 DEF NewEvent
  <2> QED
    BY <2>2, <2>3, <2>4
<1>11. ASSUME NEW s \in Service, ResetService(s) PROVE Serving'
  BY <1>11 DEF ResetService, AddThread, Wrapper
<1>12. CASE RestartReturns
  BY <1>12 DEF RestartReturns
<1>13. CASE Call
  BY <1>13 DEF Call, BeginStop, BeginRestart
<1>14. CASE OtherStops
  BY <1>14 DEF OtherStops, BeginStop
<1>15. ASSUME NEW w \in Wrapper, StartReturns(w) PROVE Serving'
  BY <1>15 DEF StartReturns, WrapperAt
<1>16. ASSUME NEW w \in Wrapper, StartFails(w) PROVE Serving'
  BY <1>16 DEF StartFails, WrapperAt, RaiseSystemExit, BeginStop, Escape, InLoop
<1>17. ASSUME NEW w \in Wrapper, WrapperEnds(w) PROVE Serving'
  BY <1>17 DEF WrapperEnds, WrapperAt
<1>18. ASSUME NEW s \in Service, ServiceEnds(s) PROVE Serving'
  BY <1>18 DEF ServiceEnds
<1>19. ASSUME NEW sig \in {"SIGTERM", "SIGHUP"}, Signal(sig) PROVE Serving'
  BY <1>19 DEF Signal
<1>20. ASSUME NEW sig \in {"SIGTERM", "SIGHUP"}, NoHandler(sig) PROVE Serving'
  BY <1>20 DEF NoHandler, Callback
<1>21. CASE GracefulShutdown
  BY <1>21 DEF GracefulShutdown, Callback, BeginStop
<1>22. CASE ReloadService
  BY <1>22 DEF ReloadService, Callback, RaiseSignalExit, BeginRestart, BeginStop,
      Escape, InLoop
<1>23. CASE Alarm
  BY <1>23 DEF Alarm
<1>24. CASE UNCHANGED vars
  BY <1>24 DEF vars
<1>25. ASSUME NEW a \in Actor, StopRaises(a) PROVE Serving'
  BY <1>25 DEF StopRaises
<1>26. CASE HookRaises
  BY <1>26 DEF HookRaises, RaiseSystemExit, BeginStop, Escape, InLoop
<1> QED
  BY <1>1, <1>2, <1>3, <1>4, <1>5, <1>6, <1>7, <1>8, <1>9, <1>10, <1>11,
     <1>12, <1>13, <1>14, <1>15, <1>16, <1>17, <1>18, <1>19, <1>20, <1>21,
     <1>22, <1>23, <1>24, <1>25, <1>26
  DEF Next, MainStep, StopStep, WrapperStep

\* The events are replaced after they were sent.
LEMMA EventsStep ==
    ASSUME Inv, [Next]_vars
    PROVE  Events'
<1> USE MaxGenAssumption DEF Inv, Data, Places, Shape, Returns, Events, Gen, Actor, Over,
    Live, Eventlet, At, Goto, Keep, launchVars, signalVars
<1>1. ASSUME NEW s \in Service, Add(s) PROVE Events'
  BY <1>1 DEF Add, AddThread
<1>2. CASE WaitBegin
  BY <1>2 DEF WaitBegin
<1>3. ASSUME NEW s \in Service, WaitService(s) PROVE Events'
  BY <1>3 DEF WaitService
<1>4. CASE WaitGroup
  BY <1>4 DEF WaitGroup
<1>5. CASE WaitReturns
  BY <1>5 DEF WaitReturns
<1>6. ASSUME NEW a \in Actor, NEW s \in Service, StopService(a, s) PROVE Events'
  BY <1>6 DEF StopService
<1>7. ASSUME NEW a \in Actor, SendDone(a) PROVE Events'
  BY <1>7 DEF SendDone
<1>8. ASSUME NEW a \in Actor, Kill(a) PROVE Events'
  BY <1>8 DEF Kill
<1>9. ASSUME NEW a \in Actor, StopReturns(a) PROVE Events'
  BY <1>9 DEF StopReturns
<1>10. CASE NewEvent
  <2>1. gen \in Nat /\ gen \in sent
    BY <1>10 DEF NewEvent
  <2>2. gen' = gen + 1 /\ sent' = sent /\ wrap' = wrap
    BY <1>10 DEF NewEvent
  <2>3. ASSUME NEW g \in Gen, g < gen' PROVE g \in sent'
    <3>1. g \in Nat /\ (g < gen \/ g = gen)
      BY <2>1, <2>2, <2>3
    <3> QED
      BY <2>1, <2>2, <3>1
  <2>4. pc'["main"] = "reset"
    BY <1>10 DEF NewEvent
  <2>5. ASSUME NEW w \in Wrapper, Live(w)' PROVE w[2] <= gen'
    <3>1. w[2] \in Nat /\ w[2] <= gen
      BY <2>2, <2>5 DEF Wrapper
    <3> QED
      BY <2>1, <2>2, <3>1
  <2> QED
    BY <2>3, <2>4, <2>5
<1>11. ASSUME NEW s \in Service, ResetService(s) PROVE Events'
  BY <1>11 DEF ResetService, AddThread
<1>12. CASE RestartReturns
  BY <1>12 DEF RestartReturns
<1>13. CASE Call
  BY <1>13 DEF Call, BeginStop, BeginRestart
<1>14. CASE OtherStops
  BY <1>14 DEF OtherStops, BeginStop
<1>15. ASSUME NEW w \in Wrapper, StartReturns(w) PROVE Events'
  BY <1>15 DEF StartReturns, WrapperAt
<1>16. ASSUME NEW w \in Wrapper, StartFails(w) PROVE Events'
  BY <1>16 DEF StartFails, WrapperAt, RaiseSystemExit, BeginStop, Escape, InLoop
<1>17. ASSUME NEW w \in Wrapper, WrapperEnds(w) PROVE Events'
  BY <1>17 DEF WrapperEnds, WrapperAt
<1>18. ASSUME NEW s \in Service, ServiceEnds(s) PROVE Events'
  BY <1>18 DEF ServiceEnds
<1>19. ASSUME NEW sig \in {"SIGTERM", "SIGHUP"}, Signal(sig) PROVE Events'
  BY <1>19 DEF Signal
<1>20. ASSUME NEW sig \in {"SIGTERM", "SIGHUP"}, NoHandler(sig) PROVE Events'
  BY <1>20 DEF NoHandler, Callback
<1>21. CASE GracefulShutdown
  BY <1>21 DEF GracefulShutdown, Callback, BeginStop
<1>22. CASE ReloadService
  BY <1>22 DEF ReloadService, Callback, RaiseSignalExit, BeginRestart, BeginStop,
      Escape, InLoop
<1>23. CASE Alarm
  BY <1>23 DEF Alarm
<1>24. CASE UNCHANGED vars
  BY <1>24 DEF vars
<1>25. ASSUME NEW a \in Actor, StopRaises(a) PROVE Events'
  BY <1>25 DEF StopRaises
<1>26. CASE HookRaises
  BY <1>26 DEF HookRaises, RaiseSystemExit, BeginStop, Escape, InLoop
<1> QED
  BY <1>1, <1>2, <1>3, <1>4, <1>5, <1>6, <1>7, <1>8, <1>9, <1>10, <1>11,
     <1>12, <1>13, <1>14, <1>15, <1>16, <1>17, <1>18, <1>19, <1>20, <1>21,
     <1>22, <1>23, <1>24, <1>25, <1>26
  DEF Next, MainStep, StopStep, WrapperStep

\* Whatever begins to end the launcher is carried through.
LEMMA EndingStep ==
    ASSUME Inv, [Next]_vars
    PROVE  Ending'
<1> USE DEF Inv, Data, Places, Work, Shape, Returns, Reloads, Restarting, Wrappers, Serving,
    Ending, EndsCompletely, AllStopped, Stopping, InLoop, Actor, Over,
    Live, Eventlet, At, Goto, Keep, launchVars, signalVars
<1>1. ASSUME NEW s \in Service, Add(s) PROVE Ending'
  BY <1>1 DEF Add, AddThread
<1>2. CASE WaitBegin
  BY <1>2 DEF WaitBegin
<1>3. ASSUME NEW s \in Service, WaitService(s) PROVE Ending'
  BY <1>3 DEF WaitService
<1>4. CASE WaitGroup
  BY <1>4 DEF WaitGroup
<1>5. CASE WaitReturns
  <2>1. /\ pc["main"] = "join" /\ pc'["other"] = pc["other"]
        /\ Eventlet => pc'["main"] \in {"wait", "done"} /\ ret'["main"] = "final"
    BY <1>5, ZenonT(60) DEF WaitReturns
  <2>2. todo' = [todo EXCEPT !["main"] = todo'["main"]]
    BY <1>5 DEF WaitReturns
  <2>3. UNCHANGED <<backend, svc, wrap, group, gen, sent, installed, ending, late, cut>>
    BY <1>5 DEF WaitReturns
  <2>4. Eventlet /\ pc'["main"] \notin Over => Stopping("main")' /\ Stopping("other")'
    BY <2>1, <2>2, <2>3
  <2> QED
    BY <2>1, <2>3, <2>4
<1>6. ASSUME NEW a \in Actor, NEW s \in Service, StopService(a, s) PROVE Ending'
  BY <1>6 DEF StopService
<1>7. ASSUME NEW a \in Actor, SendDone(a) PROVE Ending'
  BY <1>7, ZenonT(60) DEF SendDone
<1>8. ASSUME NEW a \in Actor, Kill(a) PROVE Ending'
  BY <1>8 DEF Kill
<1>9. ASSUME NEW a \in Actor, StopReturns(a) PROVE Ending'
  BY <1>9 DEF StopReturns
<1>10. CASE NewEvent
  BY <1>10 DEF NewEvent
<1>11. ASSUME NEW s \in Service, ResetService(s) PROVE Ending'
  BY <1>11 DEF ResetService, AddThread
<1>12. CASE RestartReturns
  BY <1>12 DEF RestartReturns
<1>13. CASE Call
  BY <1>13 DEF Call, BeginStop, BeginRestart
<1>14. CASE OtherStops
  BY <1>14 DEF OtherStops, BeginStop
<1>15. ASSUME NEW w \in Wrapper, StartReturns(w) PROVE Ending'
  BY <1>15 DEF StartReturns, WrapperAt, Stopped, Wrapper
<1>16. ASSUME NEW w \in Wrapper, StartFails(w) PROVE Ending'
  BY <1>16 DEF StartFails, WrapperAt, RaiseSystemExit, BeginStop, Escape, InLoop
<1>17. ASSUME NEW w \in Wrapper, WrapperEnds(w) PROVE Ending'
  BY <1>17 DEF WrapperEnds, WrapperAt
<1>18. ASSUME NEW s \in Service, ServiceEnds(s) PROVE Ending'
  BY <1>18 DEF ServiceEnds
<1>19. ASSUME NEW sig \in {"SIGTERM", "SIGHUP"}, Signal(sig) PROVE Ending'
  BY <1>19 DEF Signal
<1>20. ASSUME NEW sig \in {"SIGTERM", "SIGHUP"}, NoHandler(sig) PROVE Ending'
  BY <1>20 DEF NoHandler, Callback
<1>21. CASE GracefulShutdown
  BY <1>21 DEF GracefulShutdown, Callback, BeginStop
<1>22. CASE ReloadService
  BY <1>22 DEF ReloadService, Callback, RaiseSignalExit, BeginRestart, BeginStop,
      Escape, InLoop
<1>23. CASE Alarm
  BY <1>23 DEF Alarm
<1>24. CASE UNCHANGED vars
  BY <1>24 DEF vars
<1>25. ASSUME NEW a \in Actor, StopRaises(a) PROVE Ending'
  BY <1>25 DEF StopRaises
<1>26. CASE HookRaises
  BY <1>26 DEF HookRaises, RaiseSystemExit, BeginStop, Escape, InLoop
<1> QED
  BY <1>1, <1>2, <1>3, <1>4, <1>5, <1>6, <1>7, <1>8, <1>9, <1>10, <1>11,
     <1>12, <1>13, <1>14, <1>15, <1>16, <1>17, <1>18, <1>19, <1>20, <1>21,
     <1>22, <1>23, <1>24, <1>25, <1>26
  DEF Next, MainStep, StopStep, WrapperStep

\* The invariant holds in every reachable state.
THEOREM Invariant == Spec => []Inv
<1>1. Inv /\ [Next]_vars => Inv'
  BY ShapeStep, DataStep, PlacesStep, WorkStep, ReturnsStep, ReloadsStep,
      WrappersStep, ServingStep, EventsStep, EndingStep DEF Inv
<1> QED
  BY <1>1, Initially, PTL DEF Spec

\* The launchers of one process keep their types, and what is in the group's list
\* lives.
THEOREM TypesKept == Spec => []TypeOK
<1>1. Inv => TypeOK
  BY DEF Inv, Data, Places, Work, TypeOK
<1> QED
  BY <1>1, Invariant, PTL

\* With eventlet restart() never leaves a service with two wrappers, for any number
\* of services, restarts and slots of the pool.
THEOREM OneWrapperEach == Spec => []OneWrapper
<1>1. ASSUME Inv, Eventlet, NEW s \in Service
      PROVE  Cardinality({g \in Gen : Live(<<s, g>>)}) <= 1
  <2> DEFINE G == {g \in Gen : Live(<<s, g>>)}
  <2>1. G \subseteq {gen}
    BY <1>1 DEF Inv, Wrappers, Wrapper
  <2>2. G = {} \/ G = {gen}
    BY <2>1
  <2>3. Cardinality({}) = 0 /\ Cardinality({gen}) = 1
    BY FS_EmptySet, FS_Singleton
  <2> HIDE DEF G
  <2>4. Cardinality(G) <= 1
    BY <2>2, <2>3
  <2> QED
    BY <2>4 DEF G
<1>2. Inv => OneWrapper
  BY <1>1 DEF OneWrapper
<1> QED
  BY <1>2, Invariant, PTL

\* While ServiceLauncher waits in its loop and nothing has ended it, every service
\* has a wrapper for the present event, however often it was restarted.
THEOREM AllAreServed == Spec => []AllServed
<1>1. Inv => AllServed
  BY DEF Inv, Serving, Returns, AllServed, InLoop, Over
<1> QED
  BY <1>1, Invariant, PTL

\* The event of a wrapper that lives is the present one or was sent.
OldAreTold == \A w \in Wrapper : Live(w) /\ w[2] # gen => w[2] \in sent

\* A wrapper that still runs with an event that restart() has replaced finds it
\* sent, so that nothing but its own start() keeps it: native threads, which nobody
\* kills, are not left behind (684-711), the safety half of OldWrappersEnd.
THEOREM OldWrappersTold == Spec => []OldAreTold
<1>1. Inv => OldAreTold
  BY MaxGenAssumption DEF Inv, Events, Data, OldAreTold, Live, Wrapper, Gen
<1> QED
  BY <1>1, Invariant, PTL

\* An eventlet launcher that is ending never restarts, and once its stop() is over
\* nothing is left that its wait() waits for, except a service that was started after
\* it was stopped and, when a service raised in the stop() of SIGTERM's handler, what
\* that stop() did not come to (275-309, 684-717): the safety half of Ends.
THEOREM EndingIsCarriedOut == Spec => []EndsCompletely
<1>1. Inv => EndsCompletely
  BY DEF Inv, Ending, EndsCompletely
<1> QED
  BY <1>1, Invariant, PTL
=============================================================================
