SPECIFICATION Spec
CONSTANTS
    Preferred <- MCPreferred
    NonPreferred <- MCNonPreferred
    Programs <- MCPrograms
    MaxSplits = 2
INVARIANTS
    TypeOK
    RegistersExclusive
    BundlesAccounted
    RangesCovered
    ReadsRightValue
    RejectsOnlyImpossible
PROPERTY
    Terminates
