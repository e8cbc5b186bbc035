CONSTANTS
    NumBlocks = 5
    BodyBlocks <- AllBlocks
    LabelListThreshold = 2
    CondReach = 1
    JumpReach = 2
    JumpVeneerLines = 3
    MaxRounds = 8
SPECIFICATION Spec
INVARIANTS TypeOK ControlFlowKept NoAliasCycle
PROPERTY RewritingEnds
