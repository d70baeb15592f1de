------------------------------ MODULE MCServices ------------------------------
(* Both backends: two services, a pool that just holds them, one restart. *)
EXTENDS Services

BothBackends == {"threading", "eventlet"}
=============================================================================
