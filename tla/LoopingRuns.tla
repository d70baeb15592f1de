----------------------------- MODULE LoopingRuns -----------------------------
(***************************************************************************)
(* What a looping call promises its user, whatever the backend: runs that  *)
(* follow one another and never overlap.  A run calls the function, is     *)
(* told of its outcome at most once, and never calls the function again    *)
(* after that; it is told "true" only if somebody called stop() while it   *)
(* was active, and from then on calls the function at most once more.      *)
(***************************************************************************)
EXTENDS Naturals

CONSTANT Run

VARIABLES
    phase,     \* "new", "active", "calling" or "ended"
    outcome,   \* what was told, or "unset"
    asked,     \* stop() was called during the run
    late       \* how often the function was called since then

runVars == <<phase, outcome, asked, late>>

Active == {r \in Run : phase[r] \in {"active", "calling"}}

Init ==
    /\ phase = [r \in Run |-> "new"]
    /\ outcome = [r \in Run |-> "unset"]
    /\ asked = [r \in Run |-> FALSE]
    /\ late = [r \in Run |-> 0]

Begin(r) ==
    /\ phase[r] = "new"
    /\ Active = {}
    /\ phase' = [phase EXCEPT ![r] = "active"]
    /\ UNCHANGED <<outcome, asked, late>>

Call(r) ==
    /\ phase[r] = "active"
    /\ phase' = [phase EXCEPT ![r] = "calling"]
    /\ asked[r] => late[r] = 0
    /\ late' = [late EXCEPT ![r] = IF asked[r] THEN 1 ELSE 0]
    /\ UNCHANGED <<outcome, asked>>

Return(r) ==
    /\ phase[r] = "calling"
    /\ phase' = [phase EXCEPT ![r] = "active"]
    /\ UNCHANGED <<outcome, asked, late>>

\* Whether an ended run was asked to stop as well makes no difference.
Ask ==
    /\ \E S \in SUBSET {r \in Run : phase[r] = "ended"} :
         asked' = [r \in Run |-> asked[r] \/ r \in Active \/ r \in S]
    /\ UNCHANGED <<phase, outcome, late>>

\* The result of the function comes from a call, "true" from stop(), and an
\* exception from the function or from the computation of the next sleep.
Tell(r) ==
    /\ r \in Active
    /\ phase' = [phase EXCEPT ![r] = "ended"]
    /\ \/ asked[r] /\ phase[r] = "active" /\ outcome' = [outcome EXCEPT ![r] = "true"]
       \/ phase[r] = "calling" /\ outcome' = [outcome EXCEPT ![r] = "retvalue"]
       \/ outcome' = [outcome EXCEPT ![r] = "exception"]
    /\ UNCHANGED <<asked, late>>

\* A BaseException other than Exception: nobody is told.
Vanish(r) ==
    /\ phase[r] = "calling"
    /\ phase' = [phase EXCEPT ![r] = "ended"]
    /\ UNCHANGED <<outcome, asked, late>>

Next ==
    \/ Ask
    \/ \E r \in Run : Begin(r) \/ Call(r) \/ Return(r) \/ Tell(r) \/ Vanish(r)

Spec == Init /\ [][Next]_runVars
=============================================================================
