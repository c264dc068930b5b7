SPECIFICATION FairSpec
CONSTANTS
    r = r
    w = w
    v = v
    b = b
    Cmds = {r, w, v, b}
    oper <- TheOpers
    MaxConnects = 3
INVARIANTS
    ContextIsLive
    AnswersAreTrue
PROPERTIES
    CalledBackOnce
CHECK_DEADLOCK FALSE
