\* Three listed tasks and one too many.  The core may stop: kernel_main halts, a
\* handler spins on a lock that nobody can release, or context_switch jumps away.
CONSTANTS
    MaxTasks = 3
    Creates = 4
    MaxHandlers = 2
    SwitchOutcomes = {"resume", "wild"}
SPECIFICATION FairSpec
CHECK_DEADLOCK FALSE
INVARIANTS
    TypeOK
    LockHeldByOne
    MaskedByOneHandler
    CurrentIsConsistent
    LeaksOnlyWhenFull
    SavesOwnContext
PROPERTIES
    EveryTaskRuns
