\* The root and two more inodes, three data blocks, of which the last has bit
\* TotalBlocks - 1, and up to two blocks of two cells in a file or directory.
\* Files and directories; a write crosses from one block to the next.
CONSTANTS
    TotalInodes = 3
    TotalBlocks = 9
    DataStart = 5
    Direct = 2
    Cells = 2
    Word = 8
    Names = {a, b}
    Types = {"FILE", "DIR"}
    Payloads = {x}
    Offsets = {1}
    Counts = {2}
    MaxCrashes = 1
    Zero = zero
SYMMETRY NameSymmetry
SPECIFICATION Spec
INVARIANTS TypeOK NothingDangles NoCrossLinks NamesUnique CleanUnlessDisturbed
\* On a disk without the magic number every call returns an error and changes
\* nothing, so the model stops once the crashes are used up.
CHECK_DEADLOCK FALSE
