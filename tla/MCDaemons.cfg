\* Two daemons that may start at once, one session after another, two faults.
SPECIFICATION Spec
CONSTANTS
    Daemons = {d1, d2}
    Sessions = {s1, s2}
    NoOne = NoOne
    MaxFaults = 2
INVARIANTS
    TypeOK
PROPERTIES
    Undisturbed
    DaemonAnswers
    SourcesDiscovered
CHECK_DEADLOCK FALSE
