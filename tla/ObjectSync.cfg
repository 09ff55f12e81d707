\* Two edits against one of another client, a restart and two failures.
SPECIFICATION Spec
CONSTANTS
    Kinds = {"mark", "overwrite", "ignore"}
    MaxEdits = 2
    MaxOthers = 1
    MaxCrashes = 1
    MaxLosses = 2
    MaxRetries = 1
    ChannelSize = 1
INVARIANTS TypeOK CountsOutstanding RestIsServers NothingIsForgotten
PROPERTIES NoBlindOverwrite
