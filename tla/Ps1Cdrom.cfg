SPECIFICATION Spec
CONSTANTS
    Commands <- MCCommands
    Masks <- MCMasks
    MaxReads = 2
INVARIANTS
    TypeOK
    OneAnswerAtATime
    OneCommandAtATime
PROPERTIES
    EveryAnswerInterrupts
    InOrder
    BusyEnds
    AnswersComeOut
