CONSTANTS
    MaxLoc = 5
    Loc <- Locations
SPECIFICATION Spec
INVARIANTS TypeOK ResolvedInParallel ScratchOnlyForCycles
PROPERTY ResolveReturns
