\* Two events of any kind in one Slack thread, one of them perhaps delivered twice.
SPECIFICATION FairSpec
CONSTANTS
    s1 = s1
    u1 = u1
    u2 = u2
    q1 = q1
    Surfaces = {s1}
    Users = {u1, u2}
    Threads = {1, 2}
    Events = {1, 2}
    Requests = {q1}
    Inputs <- AllInputs
    Workers = {w1, w2}
    None = None
    MaxFaults = 1
CHECK_DEADLOCK FALSE
INVARIANTS
    
    SentIsDone
    NoOrphanThread

    
