SPECIFICATION Spec
INVARIANTS
    NameReadBack
