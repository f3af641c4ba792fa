\* Two workers of which one outlives its lease, two review policies, a client, a stop.
SPECIFICATION Spec
CONSTANTS
    None = None
    strict = strict
    loose = loose
    lax = lax
    shut = shut
    odd = odd
    Verdict <- Verdicts
    FirstPolicy = strict
    Workers = {w1, w2}
    Clients = {c1}
    Policies = {strict, loose}
    Asks = {"tool", "ask"}
    MaxIds = 4
    MaxDeploys = 1
    MaxFaults = 1
SYMMETRY WorkerSymmetry
CHECK_DEADLOCK FALSE
INVARIANTS
    ConsentGiven
    StopBeatsAllow
    
