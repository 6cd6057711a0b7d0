SPECIFICATION Spec
CONSTANTS
    MaxDisplays = 1
    Csds = 1
    Slow = FALSE
    MaxResizes = 0
INVARIANTS ReadyAttached
CHECK_DEADLOCK FALSE
