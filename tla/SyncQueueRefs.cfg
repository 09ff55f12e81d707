\* A workflow and an enum it references, created, updated and refused; beside
\* them preferences that are created in bulk, and actions on the enum.
SPECIFICATION Spec
CONSTANTS
    note = note
    flow = flow
    enum = enum
    folder = folder
    pref1 = pref1
    pref2 = pref2
    NoObject = NoObject
    Objects = {flow, enum, pref1, pref2}
    Existing = {}
    Folders = {}
    Workflows = {flow}
    Referable = {enum}
    Preferences = {pref1, pref2}
    Reported = {enum}
    FolderOf <- NoFolders
    RefsOf <- FlowRefs
    MaxItems = 3
    MaxStart = 2
    MaxRev = 1
    MaxRetries = 1
    MaxClears = 0
    MaxLosses = 2
    Denials = {"denied", "unique"}
INVARIANTS
    DependenciesAreLive
    NothingIsStranded
    ClientIdsSentOnlyIfDenied
PROPERTY NothingVanishes
CHECK_DEADLOCK FALSE
SYMMETRY PreferenceSymmetry
