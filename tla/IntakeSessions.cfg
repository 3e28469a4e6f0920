SPECIFICATION FairSpec
CONSTANTS
    Request = {r1, r2, r3}
    User = {u1, u2}
    Plan = {p1, p2}
    None = None
    MaxCrashes = 1
    MaxStuck = 1
INVARIANTS
    StagingIsOwned
    StagingStays
    PlanIsAppliedOnce
    RestoreIsAlone
PROPERTY StagingIsRemoved
