CONSTANTS
    k1 = k1
    k2 = k2
    Keys = {k1, k2}
    Policies <- InUse
    PurgeInterval = 2
    FloatExp = 3
    s1 = s1
    s2 = s2
    Sessions = {s1, s2}
    c1 = c1
    c2 = c2
    Consumers = {c1, c2}
    Nobody = Nobody
    MaxTotal = 3
    MaxPerSession = 2
SPECIFICATION Spec
INVARIANTS
    GrantsBounded
    StreamsCapped
PROPERTIES
    PurgeDropsNothingLive
SYMMETRY Interchangeable
