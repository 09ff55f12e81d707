\* An edit of a notebook against one of another client.
SPECIFICATION Spec
CONSTANTS
    Kinds = {"mark"}
    MaxEdits = 1
    MaxOthers = 1
    MaxCrashes = 0
    MaxLosses = 0
    MaxRetries = 0
    ChannelSize = 2
INVARIANTS ConflictStaysPending
