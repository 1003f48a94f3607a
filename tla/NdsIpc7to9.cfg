SPECIFICATION Spec
CONSTANTS
    Size = 2
    Senders <- Arm7
    Syncers <- None
    DeviceUsers <- None
INVARIANTS TypeOK LineMatches
PROPERTIES FifoEdgesInterrupt
