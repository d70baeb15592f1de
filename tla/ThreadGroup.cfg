SPECIFICATION FairSpec
CONSTANTS
    c1 = c1  c2 = c2  t1 = t1  t2 = t2  t3 = t3  m1 = m1
    nobody = nobody
    Caller = {c1, c2}
    Thread = {t1, t2}
    Timer = {m1}
    PoolSize = 1
    CallerOps <- AllOps
    ThreadOps <- AddsThreads
    TimerOps = {}
    MaxCalls = 4
CHECK_DEADLOCK FALSE
INVARIANTS ListedExactly PoolBounded WaitedFor TimersStopped DeadlockNeedsInsider
PROPERTY GracefulReturns
