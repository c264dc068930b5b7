\* One number and four ids: a client, its command, the client that gets its
\* number, and that one's command.
\* A worker without connections and commands rests once the ids are used up.
SPECIFICATION FairSpec
CONSTANTS
    Fds = {f1}
    MaxSeq = 4
    MaxSteps = 2
INVARIANTS
    RepliesToAsker
    TimersMatch
    AnswersCurrentStep
PROPERTIES
    CmdsEnd
    SilentConnsClosed
CHECK_DEADLOCK FALSE
