\* Two turns of one thread, a Slack worker and a Web worker,
\* three faults.
SPECIFICATION FairSpec
CONSTANTS
    t1 = t1
    m1 = m1
    m2 = m2
    Threads = {t1}
    Msgs = {m1, m2}
    ThreadOf <- OneThread
    PyProcs = {p1}
    TsProcs = {w1}
    None = None
    MaxFaults = 3
CHECK_DEADLOCK FALSE
INVARIANTS
    SplitOnlyAfterExpiry
    AckedIsComplete
PROPERTIES
    BindingSpec
    EveryTurnAcked
