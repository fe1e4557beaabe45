\* Two hosts that come and go, each time visible or not and with a jid of its own.
CONSTANTS
    A = A
    B = B
    Hosts = {A, B}
    Ip <- Distinct
    FreshResource = TRUE
    MaxSession <- Thrice
SPECIFICATION Spec
INVARIANTS
    TypeOK
    OneInitiator
    OneOfferEach
PROPERTIES
    SomebodyDials
CHECK_DEADLOCK FALSE
