--------------------------- MODULE MCNoForkLauncher ---------------------------
(* Every configuration of the launcher without forks. *)
EXTENDS NoForkLauncher

EveryConf == AllConfs
=============================================================================
