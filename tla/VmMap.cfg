\* A 16-byte address space; the kernel takes [0, 4), allocation starts behind it
\* with two bytes per slot.  Sizes are empty, one slot, more than one slot, and
\* one that wraps from every address but the first.
CONSTANTS
    NumEntries = 3
    WordSize   = 16
    KernelSize = 4
    AllocBase  = 4
    AllocAlign = 2
    Addresses  = {0, 4, 7}
    Sizes      = {0, 2, 3, 15}
    Flags      = {{"READ", "WRITE", "EXEC"}, {"FREE"}}
SPECIFICATION Spec
INVARIANTS
    TypeOK
    NoOverlap
    EnforcedHolds
    LostOnlyToOverlap
