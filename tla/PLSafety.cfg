SPECIFICATION Spec
CONSTANTS
    a = a  b = b  p1 = p1  p2 = p2 
    Wrap = {a, b}
    Pid = {p1, p2}
    Workers <- TwoOfOne
    None = None
    Confs <- Typical
    HookYields = TRUE
    Extern = {"stop", "kill"}
SYMMETRY PidSymmetry
INVARIANTS TypeOK Tracking AtMostWorkers OldConfigLeaves FullStrength StopTellsAll
PROPERTY ImplementsSupervisor
