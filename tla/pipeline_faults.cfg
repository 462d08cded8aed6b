CONSTANTS
    s1 = s1
    s2 = s2
    Sessions = {s1}
    MaxRev = 2
    NoToken = NoToken
    Faults <- AllFaults
    PruneOnRebuild = TRUE
SPECIFICATION FairSpec
INVARIANTS
    TypeOK
    OrphanFree
    NoDuplicateArtifact
    NoStuckSession
PROPERTIES
    ImplementsOwnership
    BuildEnds
    StartupCompletes
