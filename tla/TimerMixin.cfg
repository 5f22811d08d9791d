SPECIFICATION MixinSpec
CONSTANTS
    MaxTimers = 3
    Delays = {1, 2}
    Pasts = {1}
    Periods = {1}
    MaxOverdue = 2
    None = none
    SameLoop = TRUE
INVARIANTS
    MixinInv
    NoTimerLost
PROPERTIES
    StartedRightly
    EntriesGoWithOwner
