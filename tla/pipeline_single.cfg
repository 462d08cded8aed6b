CONSTANTS
    s1 = s1
    s2 = s2
    Sessions = {s1}
    MaxRev = 3
    NoToken = NoToken
    Faults <- SingleFaults
    PruneOnRebuild = TRUE
SPECIFICATION Spec
INVARIANTS
    DeliveredStaysUp
    EvictionInvisible
    ApprovedIsRetryable
