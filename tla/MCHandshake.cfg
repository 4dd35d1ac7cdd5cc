SPECIFICATION FairSpec
CONSTANTS
    Octet <- MCOctet
    V4Length = 1
    V6Length = 2
    BufferSize = 3
    Credentials <- MCCredentials
    Clients <- MCClients
INVARIANTS
    RepliesAsAgreed
    NoRequestWithoutUser
    RequestAsSent
PROPERTIES
    Completes
    LeavingNoticed
