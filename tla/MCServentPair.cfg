\* Two hosts and one control link; up to two links lost or dials failed.
CONSTANTS
    A = A
    B = B
    C = C
    NoHost = NoHost
    Hosts = {A, B}
    Dials <- Pair
    MaxConn = 2
    MaxSock = 2
    MaxLoss = 2
SPECIFICATION Spec
PROPERTIES
    SharesAppear
    LostLinkUnlisted
    BrokenLinkFreed
CHECK_DEADLOCK FALSE
