\* One node, and one worker that is restarted once.
SPECIFICATION FairSpec
CONSTANTS
    p1 = p1
    p2 = p2
    p3 = p3
    h1 = h1
    h2 = h2
    Paths = {p3}
    Hosts = {h1, h2}
    host <- TheHosts
    worker_cnt <- TheWorkers
    active_time <- TheTimes
    node_type <- TheTypes
    vnodes <- ThePoints
    Keys = {1, 2, 3, 4, 5, 6}
    Workers = {w1}
    MaxVersion = 2
    MaxMsgs = 1
    MaxRestarts = 1
PROPERTY SyncReachesWorker
CHECK_DEADLOCK FALSE
