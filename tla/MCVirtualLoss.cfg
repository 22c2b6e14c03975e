SPECIFICATION Spec
CONSTANTS
    Workers = {w1, w2}
    Nodes = {"root", "a", "b", "x"}
    Root = "root"
    Edges <- DiamondEdges
    Terminals = {}
    BeamActive = TRUE
    CollisionsLeft = 2
    MAX_TASKS = 1
    MaxPicks = 2
SYMMETRY WorkerSymmetry
CHECK_DEADLOCK FALSE
INVARIANTS
    TypeOK
    VirtualLossAccounted
    ExtendedOnce
    PickWithinLimit
