CONSTANTS
    Sp = Sp
    Op = Op
    Cl = Cl
    Cm = Cm
    Ch = Ch
    MaxChars = 8
    MaxLogLines = 2
SPECIFICATION Spec
INVARIANT NoteNamesItsBracket
CHECK_DEADLOCK FALSE
