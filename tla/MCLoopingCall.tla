---------------------------- MODULE MCLoopingCall ----------------------------
(***************************************************************************)
(* Instances of LoopingCall for TLC: one thread that starts the call, and  *)
(* one more that stops it and waits for it.                                *)
(***************************************************************************)
EXTENDS LoopingCall

CONSTANTS owner, user

BothBackends == {"threading", "eventlet"}
ThreadingOnly == {"threading"}
=============================================================================
