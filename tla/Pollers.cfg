SPECIFICATION Spec
CONSTANTS
    Chans = {c1, c2, c3}
    Fds = {1, 2}
    None = none
    DefaultSize = 1
    MaxChanges = 4
    Junk = {{}, {"in", "out"}}
    Garbage = {{}, {"out"}}
SYMMETRY Symmetry
INVARIANTS
    PollersInv
    TableOK
PROPERTIES
    CalledOnLiveChannel
    ReportedAreServed
CHECK_DEADLOCK FALSE
