SPECIFICATION Spec
CONSTANTS
    Tree <- MCTree
    Root = "top"
    Versions <- MCVersions
    Lower <- MCLower
    Searched = {"track"}
    MaxStops = 1
    MaxFailures = 2
INVARIANTS DatabaseSound ListedAsAdded AddRepairs 
CHECK_DEADLOCK FALSE
