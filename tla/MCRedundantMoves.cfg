CONSTANTS
    r1 = r1
    scratch = scratch
    s1 = s1
    s2 = s2
    Alloc <- MCAlloc
    Reg <- MCReg
    Scratch <- MCScratch
    Value = {v1, v2}
    None = None
    Orig = Orig
SYMMETRY MCSymmetry
SPECIFICATION Spec
INVARIANTS TypeOK CopiesAgree CopiesIndexed
PROPERTY ElisionUnobservable
