SPECIFICATION Spec
CONSTANTS
    Lowered <- LowerCase
    StartsWith <- Prefixed
    FloatOf <- Floats
    ISINs <- ISINTexts
    RoundsUp <- RoundedUp
    Events <- Saved
    Files = 2
    Failing = {1}
    NoFile = NoFile
INVARIANTS
    TypeOK
    CsvIsOldOrExact
    LostDetailKeepsType
    CashBalances
