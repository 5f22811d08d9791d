SPECIFICATION AllSpec
CONSTANTS
    Loops = {l1, l2}
    Home = l1
    None = none
    MaxRequests = 2
    QuitEarly = FALSE
INVARIANTS
    ClientInv
    AnswersInOrder
PROPERTIES
    Answered
    ProcessExits
    ClientEnds
