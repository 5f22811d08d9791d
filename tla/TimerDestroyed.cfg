SPECIFICATION MixinSpec
CONSTANTS
    MaxTimers = 2
    Delays = {1, 2}
    Pasts = {1}
    Periods = {1, 2}
    MaxOverdue = 2
    None = none
    SameLoop = TRUE
PROPERTY
    DestroyCancels
