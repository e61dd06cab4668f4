CONSTANTS
    NoHolder = NoHolder
    Streams <- MCStreams
SPECIFICATION Spec
PROPERTIES
    RpcRefinement
