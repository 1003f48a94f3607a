SPECIFICATION Spec
CONSTANTS
    Last = 1
    Wrap = 3
    Dividers <- MCDividers
    MaxBlock = 2
    MaxInstr = 2
    Used <- MCUsed
    Reloads <- MCReloads
    Horizon = 4
INVARIANTS
    TypeOK
    RunningTimersAreArmed
    CpusStayTogether
    OnlyShortTimersHang
PROPERTIES OverflowsAreClose
CHECK_DEADLOCK FALSE
