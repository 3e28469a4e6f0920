SPECIFICATION Spec
CONSTANTS
    Quote = {}
    Letter = {l1}
    Redraft = {}
    Upload = {u1}
    Year = {y1}
    Content = {c1}
    Free = Free
    PoolMax = 2
    RenderMax = 1
    MaxCrashes = 0
    RouteBuild = {b1}
    SafetyBuild = {}
    MaxRequests = 2
INVARIANTS
    BackupCanBeRestored
CHECK_DEADLOCK FALSE
