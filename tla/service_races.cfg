CONSTANTS
    s1 = s1
    s2 = s2
    t1 = t1
    t2 = t2
    t3 = t3
    Sessions = {s1, s2}
    Threads = {t1, t2}
    Objects = {1, 2, 3, 4}
    Null = Null
    BuildSlots = 2
    MaxSessions = 1
    Requests <- Racing
    Results <- Failing
SPECIFICATION Spec
INVARIANTS
    CapacityBounded
PROPERTIES
    DeletedStaysGone
SYMMETRY Names
