\* The timer fires; nothing is assumed of context_switch.
CONSTANTS
    MaxTasks = 2
    Creates = 2
    MaxHandlers = 2
    SwitchOutcomes = {"wild"}
SPECIFICATION FairSpec
CHECK_DEADLOCK FALSE
PROPERTIES
    TimerGetsThrough
