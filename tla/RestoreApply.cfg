SPECIFICATION Spec
CONSTANTS
    MaxRestores = 2
    MaxCrashes = 2
INVARIANTS
    UndoIsThere
    KeyNeverAhead
    BlobsPrecedeRows
    KeyIsNotStale
    AnswerIsTrue
    CommandsGoBack
PROPERTY PromiseKept
CHECK_DEADLOCK FALSE
