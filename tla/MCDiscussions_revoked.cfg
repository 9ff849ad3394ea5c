SPECIFICATION Spec
CONSTANTS
    Nobody = Nobody
    Uids = {2, 3}
    Packs = {"mine"}
    NamespaceUid <- MCNamespace
    AdminUids = {}
    DebugUids = {}
    Shelves <- MCShelves
    Owner <- MCOwner
    Builds <- MCBuilds
    Latest <- MCLatest
    Statics <- MCStatics
    SafePaths = {"banner"}
    Log <- MCLog
    Damaged = {"k2"}
    UsedBy = {"official", "mine"}
    Jars = {"j1", "j2"}
    Held = {"j1"}
    Menus <- RevokedMenus
    BearerRoles = {"admin"}
    MaxRows = 3
    ThreadsPerWindow = 2
    CommentsPerWindow = 2
INVARIANTS
    ListShowsReadable
CHECK_DEADLOCK FALSE
