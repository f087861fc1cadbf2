SPECIFICATION ProgramSpec

CONSTANTS
    MaxRevision = 4
    MaxFailures = 2
    MaxRetries = 2
    AllowRevoke = TRUE
    AllowDelete = TRUE

    UserCount = 2
    SmbUsers <- FirstUser
    Colliding <- NoUsers
    MaxUserRevision = 4
    MaxChanges = 3
    MaxUserRetries = 2

    p1 = p1  p2 = p2
    Events = {"e1", "e2"}
    PersonIds = {p1, p2, p3, p4, p5, p6}
    Emails = {"a", "b"}
    Names = {"n", "m", "k"}
    ExternalIds = {"x"}
    Files = {"f1", "f2", "f3", "f4"}
    FileEvent <- MCFileEvent
    FileRows <- MCFileRows
    Known <- MCKnown
    Calls = {c1, c2}
    MaxEdits = 2
    None = None

    MaxSessions = 3
    MaxPresentations = 5
    Codes = {"X", "Y", "Z"}
    NoCode = "-"
    Presenters = {"u", "v"}
    Nobody = "nobody"
    Sheets = {"t1", "t2", "t3"}
    SheetRows <- MCSheetRows
    MaxHandEdits = 1

CHECK_DEADLOCK FALSE
INVARIANTS DeploymentHonest UsersSafe ImportSafe CatalogSafe RepairsConverge
PROPERTIES  RetriesSuffice MovesExplained
