\* A page with previews: a message of two characters, a request, a fault.
SPECIFICATION FairSpec
CONSTANTS
    MaxMsgs = 1
    TextLen = 2
    MaxReqs = 1
    Previewing = TRUE
    MaxQueue = 1
    MaxFeed = 1
    Batch = 1
    MaxFails = 2
    MaxFaults = 1
CHECK_DEADLOCK FALSE
INVARIANTS
    DraftIsPrefix
    SettledIsCanonical
PROPERTIES
    NotAskedAgain
    AnswerSeen
