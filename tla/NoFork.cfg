SPECIFICATION FairSpec
CONSTANT Confs <- EveryConf
INVARIANTS
    NeverWaitsStopped
PROPERTIES
    TermEnds
    HupTakesEffect
