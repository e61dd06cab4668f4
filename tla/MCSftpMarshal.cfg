SPECIFICATION Spec
INVARIANTS
    MarshalMatchesReference
    ForwardStable
