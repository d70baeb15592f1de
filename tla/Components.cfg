SPECIFICATION Spec
CONSTANTS
    PTDecl <- Decl
    PTEarly <- Early
    PTExternal = FALSE
    PTDefault = 60
    PTSteps <- Steps
    PTMaxTime = 47
    PTMaxList = 3
    c1 = c1
    c2 = c2
    c3 = c3
    RDCaller = {c1, c2, c3}
    RDMax = 2
    IVParams <- Params
    IVElapsed <- Elapsed
    IVLate <- Late
    IVGrain = 2
    IVMaxTime = 20
    BSThread = {c1, c2}
    BSType = {"eventlet", "threading"}
    BSDefault = "eventlet"
    MLThread = {c1, c2, c3}
    MLPicklable = {c1, c2}
    MLAvailable = {"fork", "spawn"}
    WSPool = 2
    WSStarts = 3
    BDProcess = {c1, c2, c3}
    BDRange <- Ranges
    BDReserved = {2}
    BDEphemeral = {6, 7}
    t1 = t1
    t2 = t2
    t3 = t3
    GTCaller = {c1}
    GTThread = {t1, t2, t3}
    GTPool = 2
INVARIANTS OncePerPeriod IntervalsKept AllAccepted BackdoorOpen GroupSettled
PROPERTIES GivesUp ChosenForGood AcceptedIsServed
CHECK_DEADLOCK FALSE
