CONSTANTS
    MaxJunk = 0
    LengthSkews = {0, 1}
SPECIFICATION Spec
INVARIANT DeclaredLengthMatchesData
