\* Two payloads from the dialling end and one from the other, every way of cutting the byte stream.
CONSTANTS
    First <- MCFirst
    Ready <- MCReady
    Ready2 <- MCReady2
    Payloads <- MCPayloads
    MaxSend <- MCMaxSend
SPECIFICATION Spec
INVARIANTS
    PayloadsInOrder
    NothingStranded
PROPERTIES
    IsReadyLink
    BrokenLinkFreed
CHECK_DEADLOCK FALSE
