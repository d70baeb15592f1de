----------------------------- MODULE Supervisor -----------------------------
(***************************************************************************)
(* What a supervisor of processes promises, whatever its signals, sleeps   *)
(* and loops are: every service has at most Size[s] processes; it rests    *)
(* only when every service has all of them and every process that a reload *)
(* has left out of date was told; it forgets a process only after its      *)
(* exit; a process has one service from its fork to its reaping.  Once it  *)
(* was told to close it never rests again, and once it has ended it does   *)
(* nothing more.                                                           *)
(***************************************************************************)
EXTENDS Naturals, FiniteSets

CONSTANTS Service, Size, Proc, nobody

VARIABLES
    up,        \* the supervisor exists
    closing,   \* it was told to stop, or has ended
    resting,   \* it has nothing to do, and sleeps
    owner,     \* the service of each process
    state      \* "free", "current", "old", "told" (or missed), "exited"

supVars == <<up, closing, resting, owner, state>>

Running == {"current", "old", "told"}
Of(s) == {p \in Proc : owner[p] = s}
AllFull == \A s \in Service : Cardinality(Of(s)) = Size[s]
NoneOld == \A p \in Proc : state[p] # "old"

Init ==
    /\ up = TRUE /\ closing = FALSE /\ resting = FALSE
    /\ owner = [p \in Proc |-> nobody]
    /\ state = [p \in Proc |-> "free"]

Fork(s, p) ==
    /\ up /\ ~resting
    /\ state[p] = "free"
    /\ Cardinality(Of(s)) < Size[s]
    /\ owner' = [owner EXCEPT ![p] = s]
    /\ state' = [state EXCEPT ![p] = "current"]
    /\ UNCHANGED <<up, closing, resting>>

Reap(p) ==
    /\ up /\ ~resting
    /\ state[p] = "exited"
    /\ owner' = [owner EXCEPT ![p] = nobody]
    /\ state' = [state EXCEPT ![p] = "free"]
    /\ UNCHANGED <<up, closing, resting>>

\* A process ends, finds that it was told, or becomes current once it was.
Exit(p) == state[p] \in Running /\ state' = [state EXCEPT ![p] = "exited"]
Notice(p) == state[p] = "old" /\ state' = [state EXCEPT ![p] = "told"]
Renew(p) == state[p] = "told" /\ state' = [state EXCEPT ![p] = "current"]

ProcessStep(p) ==
    UNCHANGED <<up, closing, resting, owner>> /\ (Exit(p) \/ Notice(p) \/ Renew(p))

\* The supervisor signals processes; those that cannot take the signal exit.
Told(before, after) ==
    \/ after = before
    \/ before \in Running /\ after = "exited"
    \/ before = "old" /\ after = "told"

Tell ==
    /\ up /\ ~resting
    /\ UNCHANGED <<up, closing, resting, owner>>
    /\ state' \in [Proc -> Running \cup {"free", "exited"}]
    /\ \A p \in Proc : Told(state[p], state'[p])

Outdated(before, after) ==
    IF before \in Running THEN after \in {"old", "told"} ELSE after = before

Reload ==
    /\ up /\ ~resting
    /\ UNCHANGED <<up, closing, resting, owner>>
    /\ state' \in [Proc -> Running \cup {"free", "exited"}]
    /\ \A p \in Proc : Outdated(state[p], state'[p])

Rest ==
    /\ up /\ ~closing /\ ~resting
    /\ AllFull /\ NoneOld
    /\ resting' = TRUE
    /\ UNCHANGED <<up, closing, owner, state>>

Wake ==
    /\ resting
    /\ resting' = FALSE
    /\ UNCHANGED <<up, closing, owner, state>>

Close ==
    /\ up
    /\ closing' = TRUE /\ resting' = FALSE
    /\ UNCHANGED <<up, owner, state>>

End ==
    /\ up
    /\ up' = FALSE /\ closing' = TRUE /\ resting' = FALSE
    /\ UNCHANGED <<owner, state>>

Next ==
    \/ Tell \/ Reload \/ Rest \/ Wake \/ Close \/ End
    \/ \E p \in Proc : Reap(p) \/ ProcessStep(p) \/ \E s \in Service : Fork(s, p)

Spec == Init /\ [][Next]_supVars
=============================================================================
