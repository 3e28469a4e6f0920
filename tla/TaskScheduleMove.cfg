SPECIFICATION Spec
CONSTANTS
    a = a
    b = b
    c = c
    d = d
    Task = {a, b}
    Project = {p}
    Standalone = Standalone
    NoDate = NoDate
    Free = Free
    Call = {q1, q2}
    Today = 1
    ProjectStart = NoDate
    InitRows <- MCInitRows
    InitDeps <- MCOneDep
    Spans <- MCSpans
    MaxPasses = 3
    MaxVisited = 1
    MaxOps = 2
SYMMETRY CallSym
INVARIANT EdgesStayInTheProject
CHECK_DEADLOCK FALSE
