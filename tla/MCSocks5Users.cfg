SPECIFICATION Spec
CONSTANTS
    alice = alice
    bob = bob
    carol = carol
    secret = secret
    word = word
    c1 = c1
    c2 = c2
    Null = Null
    Garbled = Garbled
    Name <- MCName
    Pass <- MCPass
    Conn <- MCConn
    Initial <- MCInitial
    Unterminated <- MCUnterminated
    MaxSlots = 3
INVARIANTS
    FlagMeansSession
    NamesUnique
