SPECIFICATION Spec
CONSTANTS
    MaxFd = 3
    FdSetSize = 3
    PoolSize = 1
    MaxPool = 2
    MaxThreads = 2
    Timeouts = {0, 2}
INVARIANTS
    DescriptorsHaveOwners
    MetricsExact
    OneIdleClock
    NewClientsAreNotReady
    AnswersFindAsker
PROPERTIES
    SilentServerIsEmptied
