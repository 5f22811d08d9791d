SPECIFICATION Spec
CONSTANTS
    N = 2
    Jobs = {j1, j2}
    InitCount = 1
    MaxCount = 1
INVARIANTS
    NoUseAfterDestroy
    StopReachesSleepers
PROPERTIES
    StopEndsGroup
    JobsRunUnlessStopped
