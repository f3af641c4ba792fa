\* Two messages, one worker at a time that may crash or raise once, a cancel, an
\* operator who retries and fails.
SPECIFICATION FairSpec
CONSTANTS
    Tasks = {t1, t2}
    Workers = {w1}
    None = None
    MaxAttempts = 2
    MaxCancels = 1
    MaxReviews = 0
    Failures = {}
    MaxFaults = 1
    LateEffects = FALSE
CHECK_DEADLOCK FALSE
INVARIANTS
    TypeOK
    AcceptedOnce
    InputIsOwn
PROPERTIES
    QueueSpec
    SettledStays
    
    
