SPECIFICATION FairSpec
CONSTANTS
    BUFFER_MAX_READ = 7
    DEFAULT_BUFFER_SIZE = 4
    PrintMin = 3
    Requests <- TheRequests
    Unhandled = {"/none"}
    MaxParts = 3
INVARIANTS
    HandledAsSent
    AnswersAsHandled
PROPERTIES
    AnsweredOrClosed
CHECK_DEADLOCK FALSE
