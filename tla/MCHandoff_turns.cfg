\* A message that is sent twice, one scheduler, redelivery, a webhook or a sweep, two faults.
SPECIFICATION FairSpec
CONSTANTS
    None = None
    Messages = {m1}
    MaxSends = 2
    Workers = {w1}
    MaxReceives = 2
    MaxOutside = 1
    MaxFaults = 2
CHECK_DEADLOCK FALSE
INVARIANTS
    InputKept
    WakeupKept
PROPERTY TurnHandled
