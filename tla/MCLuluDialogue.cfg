SPECIFICATION Spec
CONSTANTS
    Word <- MCWord
    Letter <- MCLetter
    DigitValue <- MCDigitValue
    MaxValue = 10
    MaxLong = 2
    ReadSize = 11
    Accounts <- MCAccounts
    DefaultTimeout = 7
    DefaultBufferSize = 7
    Decimal <- MCDecimal
    MetricsText <- MCMetricsText
    UserTexts <- MCUserTexts
    ClientSize = 11
    Logins <- MCLogins
    TypedLines <- MCTypedLines
INVARIANTS
    TakenAsTyped
    InStep
    ShownIsTrue
    OnlyAdministrators
    SessionSurvives
PROPERTIES
    Returns
