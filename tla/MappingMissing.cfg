SPECIFICATION Spec
CONSTANTS
    ExpiryOf <- MCExpiryOf
    NumberOf <- MCNumberOf
    Interval = "100ms"
    Bits = 8
    NanosPerMilli = 10
    Rows <- MCRows
    Texts <- MCTexts
    Payloads <- MCPayloads
    Environments <- MCEnvironments
INVARIANT
    MissingColumnsAreRefused
