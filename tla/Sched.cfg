CONSTANTS
    NrCpus = 3
    MaxSteps = 4
    Period = 1
    MaxTrials = 5
    Idle = Idle
    Free = Free
    B = B
    Blank = B
    File <- MCFile
SPECIFICATION Spec
INVARIANTS
    Consistent NothingOverdue TimesAddUp AllStopTogether EndsDone
PROPERTIES
    MigrationHelps Terminates
CHECK_DEADLOCK FALSE
