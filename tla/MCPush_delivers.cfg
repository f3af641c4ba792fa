\* Two workers on one row, a change of its view, and a fault or an operator's reset.
SPECIFICATION FairSpec
CONSTANTS
    Rows = {r1}
    Workers = {w1, w2}
    None = None
    MaxVersion = 2
    Backoffs = 1
    MaxFaults = 1
CHECK_DEADLOCK FALSE
INVARIANTS
    DeliveredWasReceived
    AttemptsBounded
PROPERTIES
    DeliveredGrows
    Delivers
