SPECIFICATION FairSpec
CONSTANTS
    r = r
    s = s
    b = b
    w = w
    k1 = k1
    Cmds = {r, s, b, w}
    oper <- TheOpers
    sessid <- TheKeys
    is_session <- TheSessions
    re_active <- TheActive
    Rows = {k1}
    node <- TheNodes
    identity <- TheIdentity
    max_conn_cnt <- TheMax
    MaxLosses = 1
INVARIANTS
    UsedInTurn
    TasksOfCommands
    AnswersTrue
PROPERTIES
    AllEnds
CHECK_DEADLOCK FALSE
