SPECIFICATION Spec
CONSTANTS
    Controls <- MCControls
    Bytes <- MCBytes
    FifoSize = 2
    MaxPending = 3
INVARIANTS
    TypeOK
    OneAnswers
    SignalsAreCurrent
    FifoAgrees
    EndsAreScheduled
PROPERTIES
    PollsEnd
