\* One session of three lines; the daemon hangs as it likes and dies twice.
SPECIFICATION Spec
CONSTANTS
    Sessions = {"s"}
    Lines <- SomeLines
    MaxLines = 3
    HasModel = TRUE
    Supported = {1, 2, 3}
    MaxCrashes = 2
INVARIANTS
    AnswersMatchRequests
    ResyncRunsOnce
    DegradationIsSaid
PROPERTIES
    InputIsAnswered
CHECK_DEADLOCK FALSE
