CONSTANTS
    Name = {a, b, c, l}
    LongName = {l}
    Bytes <- MCBytes
    Offset = {0, 1, 3}
    NumEntries = 3
    NumNodes = 2
    NumBlocks = 4
    NumBits = 5
    Reserved = 1
    MaxFileBlocks = 2
    BlockSize = 2
    Null = Null
    Junk = Junk
SPECIFICATION Spec
INVARIANTS Structures FreeCountIsSafe LostOnlyAfterFault
PROPERTY Refines
VIEW Seen
SYMMETRY Names
CHECK_DEADLOCK FALSE
