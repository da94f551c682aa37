\* One search of a session whose daemon has no model.
SPECIFICATION Spec
CONSTANTS
    Sessions = {"s"}
    Lines <- OneSearch
    MaxLines = 1
    HasModel = FALSE
    Supported = {1, 2, 3}
    MaxCrashes = 0
INVARIANTS
    DegradationIsSaid
CHECK_DEADLOCK FALSE
