CONSTANTS
    r1 = r1
    r2 = r2
    r3 = r3
    NoHolder = NoHolder
    Responders <- MCResponders
    Payload <- MCPayload
SPECIFICATION Spec
INVARIANTS
    TypeOK
    ReaderFailsOnlyAfterBreak
PROPERTIES
    ChannelRefinement
    EveryResponderReturns
