\* Two shares whose servers start, fill and go away in any order, on equal or distinct ports.
CONSTANTS
    Collections = {c1, c2}
    Ports = {p, q}
    None = None
SPECIFICATION Spec
INVARIANTS
    ListeningLoaded
    StartedOnce
PROPERTIES
    LoadedInTimeListens
CHECK_DEADLOCK FALSE
