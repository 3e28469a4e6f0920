SPECIFICATION Spec
CONSTANTS
    Quote = {}
    Letter = {l1}
    Redraft = {}
    Upload = {u1}
    Year = {y1}
    Content = {c1}
    Free = Free
    PoolMax = 2
    RenderMax = 1
    MaxCrashes = 1
    RouteBuild = {b1, b2}
    SafetyBuild = {s1}
    MaxRequests = 1
INVARIANTS
    RowsHaveBlobs
    BackupIsWhole
    WorkDirsFollowBuilds
SYMMETRY Symmetry
CHECK_DEADLOCK FALSE
