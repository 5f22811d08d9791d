SPECIFICATION AppSpec
CONSTANTS
    Lens = {0, 2}
    MaxTasks = 3
    MaxInput = 1
    IovMax = 2
    FileHandlersMayDestroy = FALSE
    AnySplit = TRUE
    Apps = {"HttpServer"}
    Size <- FileSizes
    MaxRequests = 2
    Pipelined = FALSE
    Trailer <- Nothing
    MaxGets = 3
    DestroyEarly = FALSE
    Cuts = {"nowhere"}
INVARIANT AssertionsHold
CHECK_DEADLOCK FALSE
