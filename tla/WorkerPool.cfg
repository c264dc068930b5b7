\* One index with three pids, so that an old and a new child of it can coexist
\* and die together; numbers for two of them and a node connection, so that a
\* number is used again at once, and enough of them that one failed restart,
\* which leaks two, does not make every other one fail.
SPECIFICATION FairSpec
CONSTANTS
    worker_cnt = 1
    Pids = {p1, p2, p3}
    NoPid = NoPid
    Fds = {f1, f2, f3, f4, f5}
    MaxClients = 1
    MaxFaults = 1
INVARIANTS
    RegistryConsistent
    RestartOnce
    OneWorkerPerIndex
    ChanelsRegistered
PROPERTIES
    IndexNeverForgotten
    DeadWorkerReplaced
