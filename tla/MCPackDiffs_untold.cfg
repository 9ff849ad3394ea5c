SPECIFICATION Spec
CONSTANTS
    None = None
    Blank = "  "
    OpaqueFields = {"auth"}
    Files = {"a.jar", "b.jar", "c.jar", "lib.jar"}
    Dests = {"t.zip", "u.zip"}
    Projects = {"P"}
    Slugs = {"core"}
    Notes = {"x"}
    Sources <- MCSources
    Keys <- MCKeys
    Starts <- MCStarts
    Rows <- MCRows
    Assets <- MCAssets
    Values <- MCValues
    Libraries <- MCLibraries
    MaxEdits = 2
INVARIANTS
    CleanIsHead
    FlipsTold
CHECK_DEADLOCK FALSE
