CONSTANTS
    Elem = {e1, e2, e3, e4}
    SizedList = {s}
    RawList = {a, b}
    Null = Null
    e1 = e1
    e2 = e2
    e3 = e3
    e4 = e4
    Key <- MCKey
SPECIFICATION Spec
INVARIANT WellFormed
PROPERTIES Refines OrderIsKept
CHECK_DEADLOCK FALSE
