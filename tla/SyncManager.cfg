SPECIFICATION FairSpec
CONSTANTS
    Account = {m1}
    Slot = {1, 2, 3}
    Change = {c1, c2}
    Stop = {s1, s2}
    None = None
    MaxChanges = 3
    MaxRestores = 2
INVARIANTS
    MapIsTheLoops
    SecondLoopIsOrphan
    StoppedButForOrphans
    LiveAccountHasLoop
PROPERTY AbandonedComesBack
CHECK_DEADLOCK FALSE
