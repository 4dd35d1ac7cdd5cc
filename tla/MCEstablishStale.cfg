SPECIFICATION Spec
CONSTANTS
    Fd <- MCFd
    Requests <- MCTwoAddresses
    MayFailAtOnce = FALSE
    MayLackThreads = FALSE
    MayTimeout = FALSE
INVARIANTS
    SuccessMeansConnected
