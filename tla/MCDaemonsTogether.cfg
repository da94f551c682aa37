\* Two daemons may start at once; nothing fails.
SPECIFICATION Spec
CONSTANTS
    Daemons = {d1, d2}
    Sessions = {s1, s2}
    NoOne = NoOne
    MaxFaults = 0
INVARIANTS
    OneDaemon
CHECK_DEADLOCK FALSE
