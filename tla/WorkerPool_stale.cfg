\* Two workers and their four numbers: a channel of the second may get the
\* number that a channel of the first had.
SPECIFICATION WatchedSpec
CONSTANTS
    worker_cnt = 2
    Pids = {p1, p2}
    NoPid = NoPid
    Fds = {f1, f2, f3, f4}
    MaxClients = 0
    MaxFaults = 0
PROPERTY CutOffWorkerEnds
