SPECIFICATION Spec
CONSTANTS
    Channels <- MCChannels
    MaxCount = 2
    Burst = 2
    MaxDue = 2
    Wanted <- MCWanted
    Stores <- MCStores
    Words <- MCWords
INVARIANTS
    TypeOK
    LineIsCurrent
PROPERTIES
    DmaHasTheBus
    SleepEndsForAReason
    SleeperWakes
    TransfersEnd
