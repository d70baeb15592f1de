----------------------------- MODULE MCComponents -----------------------------
(***************************************************************************)
(* Model checking of the small components: eight specifications that share *)
(* no state, one of which is chosen by the first state of a behaviour.     *)
(***************************************************************************)
EXTENDS PeriodicTasks, RetryDecorator, Intervals, BackendSelection,
        ManagedLaunch, WSGIServer, Backdoor, GreenThreadGroup

VARIABLE part

Parts == {"periodic", "retry", "intervals", "backend", "managed", "wsgi", "backdoor",
          "group"}

vars == <<part, ptVars, rdVars, ivVars, bsVars, mlVars, wsVars, bdVars, gtVars>>

Init ==
    /\ part \in Parts
    /\ PTInit /\ RDInit /\ IVInit /\ BSInit /\ MLInit /\ WSInit /\ BDInit
    /\ GTInit

In(p, A, state) == part = p /\ A /\ UNCHANGED <<part, state>>

Next ==
    \/ In("periodic", PTNext, <<rdVars, ivVars, bsVars, mlVars, wsVars, bdVars, gtVars>>)
    \/ In("retry", RDNext, <<ptVars, ivVars, bsVars, mlVars, wsVars, bdVars, gtVars>>)
    \/ In("intervals", IVNext, <<ptVars, rdVars, bsVars, mlVars, wsVars, bdVars, gtVars>>)
    \/ In("backend", BSNext, <<ptVars, rdVars, ivVars, mlVars, wsVars, bdVars, gtVars>>)
    \/ In("managed", MLNext, <<ptVars, rdVars, ivVars, bsVars, wsVars, bdVars, gtVars>>)
    \/ In("wsgi", WSNext, <<ptVars, rdVars, ivVars, bsVars, mlVars, bdVars, gtVars>>)
    \/ In("backdoor", BDNext, <<ptVars, rdVars, ivVars, bsVars, mlVars, wsVars, gtVars>>)
    \/ In("group", GTNext, <<ptVars, rdVars, ivVars, bsVars, mlVars, wsVars, bdVars>>)

\* The threads of the callers run, and so does the hub of the server; a request
\* is answered some day.
Spec ==
    /\ Init /\ [][Next]_vars
    /\ \A c \in RDCaller : WF_rdVars(part = "retry" /\ RDStep(c))
    /\ WF_wsVars(part = "wsgi" /\ WSRequestEnds)
    /\ WF_wsVars(part = "wsgi" /\ WSWakeUp)

\* An immediate task with a jitter, one without, an external one that is not run.
Decl ==
    << [spacing |-> 21, immediate |-> TRUE, enabled |-> TRUE, external |-> FALSE],
       [spacing |-> 10, immediate |-> FALSE, enabled |-> TRUE, external |-> FALSE],
       [spacing |-> 0, immediate |-> FALSE, enabled |-> TRUE, external |-> TRUE] >>
Early == <<1, 3>>
Steps == {13, 21}

Params ==
    [kind : {"fixed", "timeout"}, interval : {3}, timeout : {0, 7}, max : {0},
     min : {1}, jitter : {3}]
    \cup [kind : {"dynamic"}, interval : {-1, 2}, timeout : {0}, max : {0},
          min : {1, 3}, jitter : {3}]
    \cup [kind : {"backoff"}, interval : {4}, timeout : {0, 24}, max : {8},
          min : {1}, jitter : {3}]

Elapsed == {0, 2, 4}
Late == {0, 1}

\* Ports of which one is taken, one port, a range whose end comes first, a port that
\* the kernel chooses, and a range that begins with one.
Ranges == {<<1, 3>>, <<5, 5>>, <<3, 1>>, <<0, 0>>, <<0, 1>>}
=============================================================================
