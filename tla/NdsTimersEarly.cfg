SPECIFICATION Spec
CONSTANTS
    Last = 1
    Wrap = 3
    Dividers <- MCDividers
    MaxBlock = 2
    MaxInstr = 2
    Used <- MCUsed
    Reloads <- MCReloads
    Horizon = 4
PROPERTIES OverflowAtItsCycle
CHECK_DEADLOCK FALSE
