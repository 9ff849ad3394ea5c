SPECIFICATION Spec
CONSTANTS
    Nobody = Nobody
    Uids = {1, 2, 3}
    Packs = {"official", "mine"}
    NamespaceUid <- MCNamespace
    AdminUids = {1}
    DebugUids = {}
    Shelves <- MCShelves
    Owner <- MCOwner
    Builds <- MCBuilds
    Latest <- MCLatest
    Statics <- MCStatics
    SafePaths = {"banner"}
    Log <- MCLog
    Damaged = {"k2"}
    UsedBy = {"official", "mine"}
    Jars = {"j1", "j2"}
    Held = {"j1"}
    Menus <- MCMenus
    BearerRoles = {"admin"}
    MaxRows = 3
    ThreadsPerWindow = 1
    CommentsPerWindow = 1
INVARIANTS
    TypeOK
    VoicesHear
    DoorsAgree
    PagesCover
PROPERTIES
    DecidedOnce
CHECK_DEADLOCK FALSE
