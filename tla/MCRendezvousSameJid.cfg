\* The server honours the resource "conjist", so a host that restarts has the jid it had.
CONSTANTS
    A = A
    B = B
    Hosts = {A, B}
    Ip <- Distinct
    FreshResource = FALSE
    MaxSession <- Twice
SPECIFICATION Spec
PROPERTIES
    SomebodyDials
CHECK_DEADLOCK FALSE
