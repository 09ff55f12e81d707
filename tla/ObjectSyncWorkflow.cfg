\* Three edits of a workflow against one of another client.
SPECIFICATION Spec
CONSTANTS
    Kinds = {"overwrite"}
    MaxEdits = 3
    MaxOthers = 1
    MaxCrashes = 0
    MaxLosses = 0
    MaxRetries = 0
    ChannelSize = 2
INVARIANTS NoLocalChangesMeansNone
