\* A notebook in a folder whose own creation has not been answered.
SPECIFICATION Spec
CONSTANTS
    note = note
    flow = flow
    enum = enum
    folder = folder
    pref1 = pref1
    pref2 = pref2
    NoObject = NoObject
    Objects = {note, folder}
    Existing = {}
    Folders = {folder}
    Workflows = {}
    Referable = {}
    Preferences = {}
    Reported = {}
    FolderOf <- InNewFolder
    RefsOf <- NoRefs
    MaxItems = 4
    MaxStart = 2
    MaxRev = 1
    MaxRetries = 0
    MaxClears = 0
    MaxLosses = 0
    Denials = {}
INVARIANT DependenciesAreLive
CHECK_DEADLOCK FALSE
