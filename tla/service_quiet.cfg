CONSTANTS
    s1 = s1
    s2 = s2
    t1 = t1
    t2 = t2
    t3 = t3
    Sessions = {s1}
    Threads = {t1, t2, t3}
    Objects = {1, 2, 3, 4}
    Null = Null
    BuildSlots = 1
    MaxSessions = 2
    Requests <- NoDelete
    Results <- AnyOutcome
SPECIFICATION Spec
INVARIANTS
    StreamHasWriter
    OneTurnPerSession
    MemoryAgreesWithStore
SYMMETRY Workers
