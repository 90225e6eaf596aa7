\* Room for seven 8-byte blocks with their headers, or for fewer larger ones;
\* the odd 4 bytes at the end make the last block's size unaligned, as in a heap
\* of arbitrary size.  1016 is the largest request that Align8 does not wrap.
CONSTANTS
    HeapStart = 64
    HeapSize  = 228
    WordSize  = 1024
    Requests  = {0, 1, 33, 1016}
SPECIFICATION FairSpec
INVARIANTS
    TypeOK
    HeapTiled
    LiveBlocksAreUsed
    FailsOnlyWhenFull
    AtMostOneFreePair
PROPERTIES
    CallsReturn
    ImplementsContract
