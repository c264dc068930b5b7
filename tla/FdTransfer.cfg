\* Workers that crash at will; channels that take one descriptor, so that
\* EAGAIN is common, and may stay full for ever.
SPECIFICATION FairSpec
CONSTANTS
    Workers = {w1, w2, w3}
    Conns = {k1, k2, k3}
    ChanelCap = 1
INVARIANTS
    OneOwner
PROPERTIES
    RoundRobinFair
    ImplementsHandoff
    QueueDrains
