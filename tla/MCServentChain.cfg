\* The host in the middle has dialled one peer and been dialled by the other,
\* so offers are also taken in reverse; one link lost or one dial failed.
CONSTANTS
    A = A
    B = B
    C = C
    NoHost = NoHost
    Hosts = {A, B, C}
    Dials <- Chain
    MaxConn = 5
    MaxSock = 3
    MaxLoss = 1
SPECIFICATION Spec
INVARIANTS
    TypeOK
    ListedUsable
    ListedOnce
    ControlHandshake
    RequestsReachDialler
    StaleOnlyReversed
    TracksFindCollection
CHECK_DEADLOCK FALSE
