CONSTANTS
    a = a
    b = b
    x = x
    k1 = k1
    k2 = k2
    Contents = {a, b, x}
    Keys = {k1, k2}
    Requests <- Findings
    Faulty = {x}
    Target = "superset"
    NoSpec = NoSpec
    MaxEdits = 2
    MaxSaid = 3
    MaxLost = 1
SPECIFICATION FairSpec
INVARIANTS
    QuestionsBounded
    
    BuiltIsStored
    

    
CHECK_DEADLOCK FALSE
