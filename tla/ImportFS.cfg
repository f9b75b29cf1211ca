CONSTANTS
    Name = {a, b, c, l}
    LongName = {l}
    File <- MCFile
    NumEntries = 3
    NumNodes = 2
    NumBlocks = 4
    NumBits = 6
    Reserved = 1
    MaxFileBlocks = 2
    BlockSize = 2
    Null = Null
    Junk = Junk
SPECIFICATION Spec
INVARIANTS Accounts EntryOwnsItsNode CrashOnlyOnGhost
PROPERTY Refines
SYMMETRY Names
CHECK_DEADLOCK FALSE
