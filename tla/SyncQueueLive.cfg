\* Liveness: a workflow and an enum, a lost attempt, a queue that is stopped
\* and restarted.
SPECIFICATION FairSpec
CONSTANTS
    note = note
    flow = flow
    enum = enum
    folder = folder
    pref1 = pref1
    pref2 = pref2
    NoObject = NoObject
    Objects = {flow, enum}
    Existing = {}
    Folders = {}
    Workflows = {flow}
    Referable = {enum}
    Preferences = {}
    Reported = {}
    FolderOf <- NoFolders
    RefsOf <- FlowRefs
    MaxItems = 3
    MaxStart = 2
    MaxRev = 1
    MaxRetries = 0
    MaxClears = 0
    MaxLosses = 1
    Denials = {"denied"}
PROPERTY EverythingIsAnswered
CHECK_DEADLOCK FALSE
