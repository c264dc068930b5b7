\* A connection and its successor; sockets that take few messages, so that
\* writes are partial.  Nothing is left to do once the messages are sent.
SPECIFICATION FairSpec
CONSTANTS
    Workers = {w1, w2}
    Conns = {c1, c2}
    MaxMsgs = 3
    Room = 2
    None = None
INVARIANTS
    InOrder
    WaitingIsWatched
    NodeConnsRight
PROPERTY HandshakeEnds
CHECK_DEADLOCK FALSE
