\* No command is needed.
CONSTANTS
    MAX_CLIENTS = 3
    Capacity = 3
    MaxCommands = 1
    MaxSignals = 0
    MaxMessages = 1
SPECIFICATION FairSpec
PROPERTY ShutdownEnds
CHECK_DEADLOCK FALSE
