\* One message, two workers of which one outlives its lease, late listing, a
\* review, a cancel and a session that ends.
SPECIFICATION Spec
CONSTANTS
    Tasks = {t1}
    Workers = {w1, w2}
    None = None
    MaxAttempts = 1
    MaxCancels = 1
    MaxReviews = 1
    Failures = {"terminated"}
    MaxFaults = 1
    LateEffects = TRUE
SYMMETRY Symmetry
CHECK_DEADLOCK FALSE
INVARIANTS
    RunningIsActive
    CallsMarked
    OneSession
    ConfirmedAsDecided
