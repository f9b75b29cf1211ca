CONSTANTS
    Hilo = {t1, t2}
    Typed = {0, 1, 2, 3, 4, 5, 8}
    Easy = 1
    Hard = 2
    MaxLeds = 2
    MaxSessions = 2
SPECIFICATION Spec
INVARIANTS SimonIsFair NobodyLeftBehind
PROPERTIES EndsOnlyIfAsked BlinkingEnds
CHECK_DEADLOCK FALSE
