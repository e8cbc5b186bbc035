CONSTANTS
    Regs <- TwoRegs
    Dedicated <- Scratch
    Slots <- TwoSlots
    ExtraSlots <- TwoExtra
    Victim = 2
    Far <- AllSlots
    AddressTemp <- Scratch
    GroupSizes <- OneGroup
SPECIFICATION Spec
INVARIANT GroupApplied
