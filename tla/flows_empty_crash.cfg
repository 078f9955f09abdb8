CONSTANTS
    r1 = r1
    r2 = r2
    NoTable = NoTable
    NoPrio = NoPrio
    NoRule = NoRule
    Lines <- MCLines
    MaxLines = 4
SPECIFICATION Spec
INVARIANT NoCrash
CHECK_DEADLOCK FALSE
