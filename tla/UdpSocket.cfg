SPECIFICATION Spec
CONSTANTS
    Peers = {p1, p2}
    MaxIn = 2
    MaxOut = 2
    Epoll = FALSE
    EmptyDatagrams = TRUE
    CallbacksMayDestroy = TRUE
    None = none
INVARIANTS
    UdpInv
    DatagramsInOrder
    InputPerPeer
PROPERTY
    AnnouncedOnce
CHECK_DEADLOCK FALSE
