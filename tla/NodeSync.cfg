\* A cluster that no longer changes leaves nothing to do but syncs, which end
\* with the bound on the versions.
SPECIFICATION Spec
CONSTANTS
    p1 = p1
    p2 = p2
    p3 = p3
    h1 = h1
    h2 = h2
    Paths = {p1, p2, p3}
    Hosts = {h1, h2}
    host <- TheHosts
    worker_cnt <- TheWorkers
    active_time <- TheTimes
    node_type <- TheTypes
    vnodes <- ThePoints
    Keys = {1, 2, 3, 4, 5}
    Workers = {w1}
    MaxVersion = 4
    MaxMsgs = 2
    MaxRestarts = 1
INVARIANTS
    TablesConsistent
    BroadcastsSuffice
PROPERTIES
    OldNeverReplacesNew
    KeysStay
CHECK_DEADLOCK FALSE
