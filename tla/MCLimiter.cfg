\* Two callers, two retries each, timers a tick late at most.
SPECIFICATION Spec
CONSTANTS
    Callers = {"loop", "ipc"}
    Interval = 3
    MaxRetries = 2
    Base = 1
    Cap = 3
    RetryAfters = {0, 4}
    MaxLate = 1
    MaxLead = 3
INVARIANTS
    LimiterInv
    RetryAfterHonoured
PROPERTIES
    SendsSpaced
    CallsEnd
CHECK_DEADLOCK FALSE
