SPECIFICATION Spec
CONSTANTS
    Nobody = Nobody
    Uids = {1, 2, 3}
    Packs = {"official", "mine"}
    NamespaceUid <- MCNamespace
    AdminUids = {1}
    DebugUids = {}
    Shelves <- CloneShelf
    Owner <- MCOwner
    Builds <- MCBuilds
    Latest <- MCLatest
    Statics <- MCStatics
    SafePaths = {"banner"}
    Log <- MCLog
    Damaged = {"k2"}
    UsedBy = {"official", "mine"}
    Jars = {"j1", "j2"}
    Held = {"j1"}
    Menus <- CloneMenus
    BearerRoles = {"admin"}
    MaxRows = 3
    ThreadsPerWindow = 2
    CommentsPerWindow = 2
INVARIANTS
    DiscussionStays
CHECK_DEADLOCK FALSE
