SPECIFICATION Spec
CONSTANTS
    Message = {a, b}
    Inbox = inbox
    Other = {archive, trash}
    Walked = {archive}
    Req = {1, 2}
    None = None
    BatchSize = 1
    MaxRequests = 2
    MaxTrouble = 1
INVARIANTS
    NoMessageIsMissed
    MirrorsTheServer
PROPERTY AcceptedMoveIsAsAsked
CHECK_DEADLOCK FALSE
