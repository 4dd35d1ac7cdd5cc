SPECIFICATION Spec
CONSTANTS
    Word <- MCWord
    Letter <- MCLetter
    DigitValue <- MCDigitValue
    MaxValue = 10
    MaxLong = 2
    Octet <- MCOctet
    V4Length = 1
    V6Length = 2
    Pop3Byte <- MCPop3Byte
    userCommand <- MCuser
    passCommand <- MCpass
    NameByte = {"x"}
    Pop3Lines <- MCPop3Lines
    MaxInput <- MCMaxInput
INVARIANTS
    PlainCommandsExact
    NamesAsSent
    AtMostOneByteOver
    MessagesExact
    CredentialsBelongTogether
CHECK_DEADLOCK FALSE
