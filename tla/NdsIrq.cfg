SPECIFICATION Spec
CONSTANTS
    Size = 1
    Senders <- None
    Syncers <- Both
    DeviceUsers <- Arm9
INVARIANTS NoMissedInterrupt
PROPERTIES SleepersWake
