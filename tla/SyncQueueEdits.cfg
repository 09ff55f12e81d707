\* A workflow that the server knows and a new enum it references, in any order of
\* the rows found in SQLite: edits, conflicts with another client, lost attempts, a
\* retry, a final failure, and a logout while requests are in flight.
SPECIFICATION Spec
CONSTANTS
    note = note
    flow = flow
    enum = enum
    folder = folder
    pref1 = pref1
    pref2 = pref2
    NoObject = NoObject
    Objects = {enum, flow}
    Existing = {flow}
    Folders = {}
    Workflows = {flow}
    Referable = {enum}
    Preferences = {}
    Reported = {}
    FolderOf <- NoFolders
    RefsOf <- FlowRefs
    MaxItems = 3
    MaxStart = 2
    MaxRev = 2
    MaxRetries = 1
    MaxClears = 1
    MaxLosses = 2
    Denials = {"denied"}
INVARIANTS
    TypeOK
    UpdatesAreSerial
    ConflictsHaveACause
    CreationsAreUnique
    NoCyclicWait
    AnsweredOnce
CHECK_DEADLOCK FALSE
