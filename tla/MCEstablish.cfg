SPECIFICATION FairSpec
CONSTANTS
    Fd <- MCFd
    Requests <- MCAll
    MayFailAtOnce = TRUE
    MayLackThreads = TRUE
    MayTimeout = TRUE
INVARIANTS
    FailureMeansExhausted
    EventsHaveHandlers
    AddressesFreedOnce
    DescriptorsAccounted
    RelayStartsClean
PROPERTIES
    Answered
