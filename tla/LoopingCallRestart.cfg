SPECIFICATION FairSpec
CONSTANTS
    owner = owner  user = user
    Client = {owner, user}
    Starters = {owner}
    Backends <- ThreadingOnly
    MaxRuns = 1
CHECK_DEADLOCK FALSE
PROPERTIES Restartable
