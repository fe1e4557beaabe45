SPECIFICATION Spec
CONSTANTS
    None = None
    o1 = o1
    o2 = o2
    s1 = s1
    s2 = s2
    Offers = {o1, o2}
    Services = {s1, s2}
    MaxChanges = 4
    MaxAnswers = 3
    MaxSent = 2
    Uses = {"browsing", "proxying"}
INVARIANTS KnownIsThere ResolvedRight
PROPERTIES TunnelIsPipe Teardown
CHECK_DEADLOCK FALSE
