SPECIFICATION FairSpec
CONSTANTS
    Message = {a, b}
    Inbox = inbox
    Other = {archive}
    Walked = {archive}
    Req = {1, 2}
    None = None
    BatchSize = 2
    MaxRequests = 2
    MaxTrouble = 1
PROPERTIES
    MoveIsAnswered
    Settles
CHECK_DEADLOCK FALSE
