CONSTANTS
    v1 = v1
    v2 = v2
    t1 = t1
    g1 = g1
    entry = entry
    b1 = b1
    NoBlock = NoBlock
    Values <- TwoValues
    Terminators <- OneTerminator
    Globals <- OneGlobal
    Blocks <- TwoBlocks
    Entry = entry
    MaxOperands = 1
    FoldsArguments = TRUE
SYMMETRY Handles
SPECIFICATION Spec
INVARIANT NoDanglingOperand
CHECK_DEADLOCK FALSE
