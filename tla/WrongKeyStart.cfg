CONSTANTS
    Extensions = {"e1", "e2"}
    Keys = {"A", "B"}
    MaxWrites = 1
    MaxInterruptions = 1
SPECIFICATION RotationSpec
PROPERTY StartupFailsClosed
CHECK_DEADLOCK FALSE
