CONSTANTS
    NameAttrChoices <- AnyAttrs
    MaxEntries <- MaxAnyEntries
SPECIFICATION Spec
INVARIANT NameNeverMisread
