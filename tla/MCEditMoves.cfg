CONSTANTS
    Regs <- TwoRegs
    Dedicated <- Scratch
    Slots <- TwoSlots
    ExtraSlots <- TwoExtra
    Victim = 2
    Far <- AllSlots
    AddressTemp <- NoRegs
    GroupSizes <- AnyThenOne
SPECIFICATION Spec
INVARIANTS TypeOK GroupApplied EditsUseRegister CopiesAgree
