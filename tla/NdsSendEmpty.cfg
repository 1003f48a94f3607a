SPECIFICATION Spec
CONSTANTS
    Size = 1
    Senders <- Arm7
    Syncers <- None
    DeviceUsers <- None
PROPERTIES SendEmptyOnlyWhenEmpty
