\* As FsTree, with files alone, and with a second write that leaves a hole in
\* front, ends in a partly written block and runs past the last direct block.
CONSTANTS
    TotalInodes = 3
    TotalBlocks = 9
    DataStart = 5
    Direct = 2
    Cells = 2
    Word = 8
    Names = {a, b}
    Types = {"FILE"}
    Payloads = {x}
    Offsets = {1, 3}
    Counts = {2}
    MaxCrashes = 1
    Zero = zero
SYMMETRY NameSymmetry
SPECIFICATION Spec
INVARIANT ReadsBack
\* On a disk without the magic number every call returns an error and changes
\* nothing, so the model stops once the crashes are used up.
CHECK_DEADLOCK FALSE
