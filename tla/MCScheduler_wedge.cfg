\* A crash between the two transactions of _finish().
SPECIFICATION FairSpec
CONSTANTS
    Tasks = {t1, t2}
    Workers = {w1}
    None = None
    MaxAttempts = 1
    MaxCancels = 0
    MaxReviews = 0
    Failures = {}
    MaxFaults = 1
    LateEffects = FALSE
CHECK_DEADLOCK FALSE
PROPERTY QueueDrains
