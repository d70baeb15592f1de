---------------------------- MODULE MCThreadGroup ----------------------------
(***************************************************************************)
(* Instances of ThreadGroup for TLC.                                       *)
(***************************************************************************)
EXTENDS ThreadGroup, TLC

CONSTANTS c1, c2, t1, t2, t3, m1

Interchangeable == Permutations({c1, c2}) \cup Permutations({t1, t2, t3})

AllOps == Ops
AddsThreads == {"add_thread"}
Graceful == {"add_timer", "stop_graceful"}
StopAndWait == {"add_thread", "stop_now", "waitall"}
=============================================================================
