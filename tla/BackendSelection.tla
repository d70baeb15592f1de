--------------------------- MODULE BackendSelection ---------------------------
(***************************************************************************)
(* The choice of the backend (backend/__init__.py) by several threads: it  *)
(* is cached in three globals, which init_backend() tests before it loads  *)
(* the backend and assigns one after the other, without a lock.            *)
(***************************************************************************)

CONSTANTS BSThread, BSType, BSDefault

ASSUME BSDefaultAssumption == BSDefault \in BSType /\ "none" \notin BSType

VARIABLES
    bsBackend,      \* the type of _cached_backend
    bsType,         \* _cached_backend_type
    bsComponents,   \* the type whose components are in _cached_components
    bsHook,         \* what the registered hook answers
    bsPc,           \* where each thread is
    bsCall,         \* the function it called
    bsArg,          \* the type it loads
    bsRaced         \* two types were being loaded at once (history)

bsVars == <<bsBackend, bsType, bsComponents, bsHook, bsPc, bsCall, bsArg, bsRaced>>
bsCached == <<bsBackend, bsType, bsComponents>>

BSNone == "none"
BSLoading == {"load", "backend", "type", "components"}

BSInit ==
    /\ bsBackend = BSNone /\ bsType = BSNone /\ bsComponents = BSNone
    /\ bsHook = BSNone
    /\ bsPc = [t \in BSThread |-> "idle"]
    /\ bsCall = [t \in BSThread |-> "init"]
    /\ bsArg = [t \in BSThread |-> BSDefault]
    /\ bsRaced = FALSE

BSMove(t, from, to) == bsPc[t] = from /\ bsPc' = [bsPc EXCEPT ![t] = to]

\* A hook that raises counts as none.
BSRegisterHook ==
    /\ bsHook = BSNone
    /\ bsHook' \in BSType
    /\ UNCHANGED <<bsCached, bsPc, bsCall, bsArg, bsRaced>>

BSInitBackend(t) ==
    /\ BSMove(t, "idle", "check")
    /\ bsCall' = [bsCall EXCEPT ![t] = "init"]
    /\ \E type \in BSType : bsArg' = [bsArg EXCEPT ![t] = type]
    /\ UNCHANGED <<bsCached, bsHook, bsRaced>>

BSGetBackend(t) ==
    /\ BSMove(t, "idle", "lookup")
    /\ bsCall' = [bsCall EXCEPT ![t] = "backend"]
    /\ UNCHANGED <<bsCached, bsHook, bsArg, bsRaced>>

BSGetComponent(t) ==
    /\ BSMove(t, "idle", IF bsComponents = BSNone THEN "lookup" ELSE "use")
    /\ bsCall' = [bsCall EXCEPT ![t] = "component"]
    /\ UNCHANGED <<bsCached, bsHook, bsArg, bsRaced>>

\* init_backend() or get_backend() returns to get_component(), if that called it.
BSBack(t, from) == BSMove(t, from, IF bsCall[t] = "component" THEN "use" ELSE "idle")

BSFound(t) ==
    /\ bsBackend # BSNone
    /\ BSBack(t, "lookup")
    /\ UNCHANGED <<bsCached, bsHook, bsCall, bsArg, bsRaced>>

BSAskHook(t) ==
    /\ bsBackend = BSNone
    /\ BSMove(t, "lookup", "check")
    /\ bsArg' = [bsArg EXCEPT ![t] = IF bsHook = BSNone THEN BSDefault ELSE bsHook]
    /\ UNCHANGED <<bsCached, bsHook, bsCall, bsRaced>>

\* Mutant: the type is not looked at again.
BSLoadAlways(t) ==
    /\ BSMove(t, "check", "load")
    /\ bsRaced' = (bsRaced \/ \E u \in BSThread : bsPc[u] \in BSLoading /\ bsArg[u] # bsArg[t])
    /\ UNCHANGED <<bsCached, bsHook, bsCall, bsArg>>

BSCheck(t) ==
    /\ bsType = BSNone
    /\ BSMove(t, "check", "load")
    /\ bsRaced' = (bsRaced \/ \E u \in BSThread : bsPc[u] \in BSLoading /\ bsArg[u] # bsArg[t])
    /\ UNCHANGED <<bsCached, bsHook, bsCall, bsArg>>

\* BackendAlreadySelected, which leaves every caller, or a return.
BSSelected(t) ==
    /\ bsType # BSNone
    /\ IF bsType # bsArg[t] THEN BSMove(t, "check", "idle") ELSE BSBack(t, "check")
    /\ UNCHANGED <<bsCached, bsHook, bsCall, bsArg, bsRaced>>

\* The module or its class may be missing.
BSLoad(t) ==
    /\ BSMove(t, "load", "backend") \/ BSMove(t, "load", "idle")
    /\ UNCHANGED <<bsCached, bsHook, bsCall, bsArg, bsRaced>>

BSCacheBackend(t) ==
    /\ BSMove(t, "backend", "type")
    /\ bsBackend' = bsArg[t]
    /\ UNCHANGED <<bsType, bsComponents, bsHook, bsCall, bsArg, bsRaced>>

BSCacheType(t) ==
    /\ BSMove(t, "type", "components")
    /\ bsType' = bsArg[t]
    /\ UNCHANGED <<bsBackend, bsComponents, bsHook, bsCall, bsArg, bsRaced>>

BSCacheComponents(t) ==
    /\ BSBack(t, "components")
    /\ bsComponents' = bsArg[t]
    /\ UNCHANGED <<bsBackend, bsType, bsHook, bsCall, bsArg, bsRaced>>

\* get_component() returns, or its assertion fails: another thread has cached
\* the backend and not yet the components.
BSUse(t) ==
    /\ BSMove(t, "use", "idle")
    /\ UNCHANGED <<bsCached, bsHook, bsCall, bsArg, bsRaced>>

BSNext ==
    \/ BSRegisterHook
    \/ \E t \in BSThread :
         \/ BSInitBackend(t) \/ BSGetBackend(t) \/ BSGetComponent(t)
         \/ BSFound(t) \/ BSAskHook(t) \/ BSCheck(t) \/ BSSelected(t) \/ BSLoad(t)
         \/ BSCacheBackend(t) \/ BSCacheType(t) \/ BSCacheComponents(t) \/ BSUse(t)

BSSpec == BSInit /\ [][BSNext]_bsVars
-----------------------------------------------------------------------------
\* A backend stays selected: whoever calls init_backend() with another type,
\* fails to load one, or asks a hook that was registered too late changes none of
\* the cached objects (92-99, 139), although they are cached one after the other
\* and nothing is locked.  The exception is two first calls that want different
\* types and overlap: both load, and the last to cache wins.
ChosenForGood ==
    [][bsType # BSNone /\ ~bsRaced' =>
         /\ bsBackend' = bsBackend /\ bsType' = bsType
         /\ bsComponents # BSNone => bsComponents' = bsComponents]_bsVars

\* Without that exception, the backend is of the cached type, and so are the
\* components as soon as they are cached.
OneBackend ==
    bsType # BSNone /\ ~bsRaced =>
        bsBackend = bsType /\ bsComponents \in {BSNone, bsType}
=============================================================================
