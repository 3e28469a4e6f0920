SPECIFICATION Spec
CONSTANTS
    a = a
    b = b
    c = c
    d = d
    Task = {a, b, c, d}
    Project = {p}
    Standalone = Standalone
    NoDate = NoDate
    Free = Free
    Call = {q1, q2}
    Today = 1
    ProjectStart = NoDate
    InitRows <- MCInitRows
    InitDeps <- MCInitDeps
    Spans <- MCSpans
    MaxPasses = 5
    MaxVisited = 3
    MaxOps = 2
SYMMETRY CallSym
INVARIANTS
    ShiftIsLeast
    CompactIsTight
    CyclesNeedAMove
CHECK_DEADLOCK FALSE
