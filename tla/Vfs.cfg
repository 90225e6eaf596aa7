\* Two callers that the timer switches between, the root and three more nodes, two names.
CONSTANTS
    Nodes = {1, 2, 3, 4}
    Null = 0
    Names = {a, b}
    Callers = {p, q}
    FsRoot = FsRoot
    MountPoints = {4}
    LookedUp = {a}
    Readers = {q}
SPECIFICATION FairSpec
INVARIANTS TypeOK LinksFormTree LookupFindsOldest ReturnedAreListed
PROPERTIES UndoesOnlyRecent ImplementsTree CallsReturn
CONSTRAINT OwnNodes
