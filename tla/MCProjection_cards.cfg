\* Two projectors and a preview worker, an answer and a review.
SPECIFICATION Spec
CONSTANTS
    MaxMsgs = 1
    MaxReqs = 1
    Workers = {w1, w2}
    Previews = {v1}
    None = None
    Gone = Gone
    MaxUpdates = 1
    MaxFaults = 1
SYMMETRY Symmetry
CHECK_DEADLOCK FALSE
INVARIANTS
    PostedOnce
    
 
