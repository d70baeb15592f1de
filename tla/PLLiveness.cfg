SPECIFICATION FairSpec
CONSTANTS
    a = a  b = b  p1 = p1  p2 = p2
    Wrap = {a}
    Pid = {p1, p2}
    Workers <- OneOfTwo
    None = None
    Confs <- Daemons
    HookYields = FALSE
    Extern = {}
PROPERTIES TermSticks TermStops OrphansExit HupRefreshes
