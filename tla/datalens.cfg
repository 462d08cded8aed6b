CONSTANTS
    NCharts = 2
    Title <- Distinct
    NoId = NoId
    MaxBuilds = 2
SPECIFICATION Spec
INVARIANTS
    DeliveredWhole
    NoWipLeft
    SelfHeals
