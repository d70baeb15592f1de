SPECIFICATION FairSpec
CONSTANTS
    a = a  b = b  p1 = p1  p2 = p2
    Wrap = {a}
    Pid = {p1}
    Workers <- TwoOfOne
    None = None
    Confs <- InForeground
    HookYields = FALSE
    Extern = {}
PROPERTIES TimeoutEnforced
