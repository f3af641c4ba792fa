\* Two turns, one of which may ask and one of which the operator may fail.
SPECIFICATION ViewFairSpec
CONSTANTS
    MaxTasks = 2
    MaxTexts = 2
    MaxAsks = 1
    MaxFails = 1
    Watchers = {c1}
    Unread = Unread
CHECK_DEADLOCK FALSE

    
PROPERTY WatchTells
