SPECIFICATION Spec
CONSTANTS
    Controls <- MCControls
    Bytes <- MCBytes
    FifoSize = 2
    MaxPending = 2
INVARIANTS
    DsrShowsAck
