\* Two commands and one USR1 at any time, also while main takes everything
\* down: the table is raced for and the program may crash.
CONSTANTS
    MAX_CLIENTS = 3
    Capacity = 4
    MaxCommands = 2
    MaxSignals = 1
    MaxMessages = 1
SPECIFICATION Spec
INVARIANTS MessagesSafe
CHECK_DEADLOCK FALSE
