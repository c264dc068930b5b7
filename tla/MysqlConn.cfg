\* Four tasks, and everything that can go wrong with the server.
SPECIFICATION FairSpec
CONSTANTS
    MaxTasks = 4
    Errors = {"lost", "other"}
INVARIANTS
    InOrder
    ResultIsOwn
PROPERTY WatchedTasksAnswered
