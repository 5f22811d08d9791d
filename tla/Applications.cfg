SPECIFICATION AppSpec
CONSTANTS
    Lens = {0, 2}
    MaxTasks = 3
    MaxInput = 1
    IovMax = 2
    FileHandlersMayDestroy = FALSE
    AnySplit = FALSE
    Apps = {"any", "HttpServer", "HttpClient"}
    Size <- FileSizes
    MaxRequests = 2
    Pipelined = FALSE
    Trailer <- Nothing
    MaxGets = 3
    DestroyEarly = FALSE
    Cuts = {"nowhere", "status", "empty", "body"}
INVARIANTS
    ConnectionInv
    StreamIntact
    HandlersInOrder
    
    RepliesRight
PROPERTIES
    OutputDrains
    Answered
CHECK_DEADLOCK FALSE
