SPECIFICATION PollerSpec
CONSTANTS
    Handlers = {a, b, c}
    MaxLoops = 2
    MaxEvents = 2
INVARIANTS
    PollerInv
    RunsWhenDue
