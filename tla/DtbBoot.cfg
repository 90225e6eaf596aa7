CONSTANTS
    Nodes = {"chosen", "memory"}
    Props = {"framebuffer", "reg"}
    Lengths = {8, 16}
    MaxNodes = 2
SPECIFICATION Spec
INVARIANT PanicsOnlyWithoutFramebuffer
CHECK_DEADLOCK FALSE
