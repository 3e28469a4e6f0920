SPECIFICATION Spec
CONSTANTS
    Sender = {s1}
    SignIn = {i1}
    Loop = Loop
    First = First
    Provider = {"keeps", "rotates", "retires"}
    MaxToken = 4
    MaxExpiries = 2
    MaxFaults = 2
INVARIANTS
    NewestSignInStays
    SendIsTruthful
PROPERTIES
    LapseHeals
CHECK_DEADLOCK FALSE
