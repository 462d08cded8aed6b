CONSTANTS
    s1 = s1
    s2 = s2
    o1 = o1
    Sessions = {s1, s2}
    Owners = {o1}
    OwnerOf <- Owner
    SessionMax = 2
    DayMax = 2
    Costs = {1, 2}
    MaxCost = 2
    MaxRepairs = 1
    MaxRounds = 1
    MaxRetries = 1
    b1 = b1
    b2 = b2
    i1 = i1
    Broken = {b1, b2}
    Invalid = {i1}
    Good = Good
    None = None
SPECIFICATION FairSpec
INVARIANTS
    SessionBudget
    DayOvershoot
    RequestsBounded
PROPERTIES
    TurnEnds
