SPECIFICATION FairSpec
CONSTANTS
    Byte <- MCByte
    Payload <- MCPayload
    BufferSizes = {0, 1, 2}
    Room = 2
    MayReset = TRUE
    MayTimeout = TRUE
INVARIANTS
    TypeOK
    StreamIntegrity
    HalfCloseAfterData
    EventsHaveHandlers
    ErrorOnlyOnReset
PROPERTIES
    ImplementsPipe
    EveryByteDelivered
    HalfCloseForwarded
