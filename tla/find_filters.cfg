CONSTANTS
    Tables <- MCTables
    Edges <- MCEdges
    Proposals <- MCProposals
    DefaultTopN = 4
    PieTopN = 3
    TrialLimit = 2
SPECIFICATION Spec
INVARIANTS
    BakedFiltersConstrain
