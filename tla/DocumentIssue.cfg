SPECIFICATION IssueSpec
CONSTANTS
    Quote = {q1, q2}
    Letter = {}
    Redraft = {d1, d2}
    Upload = {}
    Year = {y1, y2}
    Content = {}
    Free = Free
    PoolMax = 2
    RenderMax = 1
    MaxCrashes = 1
INVARIANTS
    NumbersAreGapless
    SlotsAreAccounted
PROPERTIES
    IssueEnds
CHECK_DEADLOCK FALSE
