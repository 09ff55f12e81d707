\* One startup attempt, two events, three sockets and two failures.
SPECIFICATION Spec
CONSTANTS
    MaxAttempts = 1
    MaxItems = 2
    MaxSize = 2
    MaxScrollback = 0
    MaxSockets = 3
    MaxFaults = 2
INVARIANT ReconnectingIsTrying
CHECK_DEADLOCK FALSE
