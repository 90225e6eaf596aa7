\* The contexts are further apart than the 34 words that context_switch saves,
\* as kmalloc places them: a stack and a page table lie between the two.
CONSTANTS
    old_context = 1
    new_context = 60
    Function = 90
    Stack = 50
SPECIFICATION Spec
INVARIANT ReturnsToNewContext
CHECK_DEADLOCK FALSE
