CONSTANTS
    s1 = s1
    s2 = s2
    Sessions = {s1, s2}
    MaxRev = 1
    NoToken = NoToken
    Faults <- NoFaults
    PruneOnRebuild = FALSE
SPECIFICATION RecoverySpec
PROPERTIES
    AttemptSettles
