SPECIFICATION Spec
CONSTANTS
    None = None
    NULL = NULL
    d1 = d1
    d2 = d2
    Devices = {d1, d2}
    MaxReplies = 2
    MaxFaults = 1
    Contacts = {"c"}
    MaxPushes = 1
    MaxSplits = 1
    Switches <- MCSwitches
    Valued <- MCValued
    Short <- MCShort
    Arguments <- MCArguments
    Length <- MCLength
    Number <- MCNumber
    Port16 = 16
    Starts <- UsageStarts
INVARIANTS UsageAccepted
CHECK_DEADLOCK FALSE
