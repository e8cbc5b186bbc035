CONSTANTS
    NumBlocks = 5
    BodyBlocks <- AllBlocks
    LabelListThreshold = 100
    CondReach = 3
    JumpReach = 100
    JumpVeneerLines = 3
    MaxRounds = 8
SPECIFICATION Spec
INVARIANT RenderedInRange
