CONSTANTS
    Tables <- MCTables
    Edges <- MCEdges
    Proposals <- MCProposals
    DefaultTopN = 4
    PieTopN = 3
    TrialLimit = 2
SPECIFICATION Spec
INVARIANTS
    EveryStatementPlans
    BuiltWasGated
    ChartsBindDataset
    LimitMatchesWiring
    ControlReaches
    MagnitudeIsMeasured
    GridHolds
    OverviewHolds
PROPERTIES
    RankedByPrimary
