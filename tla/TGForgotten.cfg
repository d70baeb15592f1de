SPECIFICATION Spec
CONSTANTS
    c1 = c1  c2 = c2  t1 = t1  t2 = t2  t3 = t3  m1 = m1
    nobody = nobody
    Caller = {c1}
    Thread = {t1, t2}
    Timer = {m1}
    PoolSize = 2
    CallerOps <- StopAndWait
    ThreadOps = {}
    TimerOps = {}
    MaxCalls = 3
CHECK_DEADLOCK FALSE
INVARIANT WaitallWaits
