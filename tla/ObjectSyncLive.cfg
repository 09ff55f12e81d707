\* Two edits against one of another client, a restart and a failure.
SPECIFICATION FairSpec
CONSTANTS
    Kinds = {"mark", "overwrite"}
    MaxEdits = 2
    MaxOthers = 1
    MaxCrashes = 1
    MaxLosses = 1
    MaxRetries = 1
    ChannelSize = 1
PROPERTIES Converges EditsAreAnswered
