SPECIFICATION FairSpec
CONSTANTS
    owner = owner  user = user
    Client = {owner, user}
    Starters = {owner}
    Backends <- BothBackends
    MaxRuns = 2
CHECK_DEADLOCK FALSE
INVARIANTS TypeOK OneLoop DoneMeansQuiet StopIsPrompt StopIsNotInherited
PROPERTIES StoppedWaitReturns EventletRestartable ImplementsRuns
