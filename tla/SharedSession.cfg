\* Two startup attempts, two events, three sockets and two failures.
SPECIFICATION FairSpec
CONSTANTS
    MaxAttempts = 2
    MaxItems = 2
    MaxSize = 2
    MaxScrollback = 1
    MaxSockets = 3
    MaxFaults = 2
INVARIANTS
    TypeOK
    ServerHasAPrefix
    KeptUntilAcked
    SessionIsOfTheWinner
    LossIsNoticed
PROPERTIES
    FinishedIsFinal
    ShowsTheTerminal
    ViewerCatchesUp
CHECK_DEADLOCK FALSE
