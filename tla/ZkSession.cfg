SPECIFICATION FairSpec
CONSTANTS
    g1 = g1
    g2 = g2
    l1 = l1
    h1 = h1
    h2 = h2
    Paths = {g1, g2, l1}
    Mine = {g1, g2}
    Hosts = {h1, h2}
    Keys = {1, 2}
    host <- TheHosts
    node_type <- TheTypes
    worker_cnt <- TheWorkers
    active_time <- TheTimes
    vnodes <- ThePoints
    MyType = "gate"
    Subscribed <- TheSubscriptions
    RegisterTicks = 1
    AckLimit = 2
    MaxLosses = 1
    MaxSlow = 1
    MaxPayloads = 1
INVARIANTS
    TableFollows
    RegisteredOnce
PROPERTIES
    ImplementsNodeSync
    RegistersUnlessOvertaken
CHECK_DEADLOCK FALSE
