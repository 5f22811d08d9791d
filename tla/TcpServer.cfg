SPECIFICATION Spec
CONSTANTS
    N = 1
    Conns = {c1, c2}
    None = none
    AcceptErrors = TRUE
INVARIANTS
    ServerInv
    AcceptFirst
PROPERTY
    DataRead
