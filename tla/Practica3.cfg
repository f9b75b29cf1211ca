\* No signal: main creates up to two clients, as many as the table admits, and
\* the third command fails.  The program really stops.
CONSTANTS
    MAX_CLIENTS = 3
    Capacity = 3
    MaxCommands = 4
    MaxSignals = 0
    MaxMessages = 2
SPECIFICATION FairSpec
INVARIANTS Bounded CleanShutdown TableIsExact
PROPERTY ClientIsAnswered
CHECK_DEADLOCK FALSE
