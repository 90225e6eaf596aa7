\* Three blocks of two words, calls for none, one or two, and a descriptor with
\* room for exactly these.
CONSTANTS
    Blocks = 3
    MaxCount = 2
    Words = 2
    Vals = {0, 1, 2, 3, 4}
    Erased = 0
    Contents <- MCContents
    Counts = {0, 1, 2}
    NoCall = NoCall
    LbaMod = 3
    CountMod = 3
    BytesMod = 4
    Types = {"UFS", "EMMC", "NONE"}
SPECIFICATION Spec
INVARIANTS TypeOK
PROPERTIES ImplementsStore DescriptorStable CallsReturn
\* A call to a UFS controller that was never started does not come back.
CHECK_DEADLOCK FALSE
