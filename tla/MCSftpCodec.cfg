CONSTANTS
    MaxJunk = 4
    LengthSkews = {0}
SPECIFICATION Spec
INVARIANTS
    TypeOK
    DecodeInvertsEncode
    NoPanic
    TruncationNeverMisread
