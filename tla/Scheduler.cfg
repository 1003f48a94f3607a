SPECIFICATION Spec
CONSTANTS
    Timers = {t1, t2}
    IrqChecks = {c1}
    Frame = frame
    FramePeriod = 3
    FrameTag = 1
    MaxBlock = 2
    MaxInstr = 2
    Delays <- MCDelays
    Adjusts <- MCAdjusts
    Budgets <- MCBudgets
    Horizon = 4
    MaxId = 104
INVARIANTS
    TypeOK
    InTimeOrder
    FlagsMatchEvents
    TimersHoldTheirIds
    FrameEventPending
PROPERTIES
    NoEventInsideSlice
    CyclesAccounted
    ImplementsAlarms
    RunsReturn
CHECK_DEADLOCK FALSE
