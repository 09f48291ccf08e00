SPECIFICATION Spec
CONSTANTS
    None = None
    Last = 3
    Awaited = {0, 1, 2}
    Motion = {TRUE, FALSE}
    MaxEpoch = 4
CHECK_DEADLOCK FALSE
INVARIANTS
    OneDriver
PROPERTIES
    OnlyAsked
    RunsOn
