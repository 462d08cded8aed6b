CONSTANTS
    s1 = s1
    s2 = s2
    t1 = t1
    t2 = t2
    t3 = t3
    Sessions = {s1}
    Threads = {t1}
    Objects = {1, 2}
    Null = Null
    BuildSlots = 1
    MaxSessions = 2
    Requests <- OnlyApprove
    Results <- Plain
SPECIFICATION Spec
INVARIANTS
    CapacityNeverLost
