CONSTANTS
    Key <- MCKey
    IsReadOnly <- MCIsReadOnly
    Token <- MCToken
    Numeral <- MCNumeral
    BelowHeader <- MCBelowHeader
    AboveHeader <- MCAboveHeader
    Stamp <- MCStamp
    Substitutes <- MCSubstitutes
    MaxLines = 4
    MaxCopies = 2
    MaxStores = 1
SPECIFICATION Spec
INVARIANTS
    TypeOK
    OwnedOnce
    ReadAsWritten
PROPERTY
    ImplementsTables
CHECK_DEADLOCK FALSE
