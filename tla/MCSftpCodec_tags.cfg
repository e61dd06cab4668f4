CONSTANTS
    MaxJunk = 0
    LengthSkews = {0}
SPECIFICATION Spec
INVARIANT KindPreserved
