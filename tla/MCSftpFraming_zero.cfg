CONSTANTS
    r1 = r1
    r2 = r2
    r3 = r3
    NoHolder = NoHolder
    Responders <- MCResponders
    Payload <- MCPayloadEmptyFrame
SPECIFICATION Spec
INVARIANT RecvNeverPanics
