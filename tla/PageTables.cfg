\* Tables of four entries, a framebuffer of two blocks.
CONSTANTS
    Entries = 4
    FbBlocks = 2
    Pages = {page1, page2}
    Null = Null
SPECIFICATION Spec
INVARIANT FramebufferIsDevice
CHECK_DEADLOCK FALSE
