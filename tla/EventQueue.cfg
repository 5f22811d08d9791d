SPECIFICATION Spec
CONSTANTS
    Producers = {p1, p2}
    Loop = loop
    Handlers = {h1, h2, h3}
    None = none
    InitCount = 1
    MaxCount = 2
INVARIANTS
    NoLostWakeup
    PopNeverEmpty
PROPERTIES
    ImplementsHandlerQueue
    PostedHandlerRuns
