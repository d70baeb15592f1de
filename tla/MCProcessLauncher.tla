------------------------- MODULE MCProcessLauncher -------------------------
(***************************************************************************)
(* Instances of ProcessLauncher for TLC.                                   *)
(***************************************************************************)
EXTENDS ProcessLauncher, TLC

CONSTANTS a, b, p1, p2

\* One service of two processes, or two services of one process each.
OneOfTwo == [w \in Wrap |-> 2]
TwoOfOne == [w \in Wrap |-> 1]

Background(r, t) == [reload |-> r, daemon |-> TRUE, timeout |-> t]
Foreground == [reload |-> TRUE, daemon |-> FALSE, timeout |-> TRUE]

Daemons == {Background(TRUE, TRUE), Background(FALSE, FALSE)}
Typical == Daemons \cup {Foreground}
InForeground == {Foreground}

PidSymmetry == Permutations(Pid)
=============================================================================
