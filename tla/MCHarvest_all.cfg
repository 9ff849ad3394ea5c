SPECIFICATION Spec
CONSTANTS
    Lower <- MCLower
    Parents <- MCParents
    Numbered <- MCNumbered
    Collate <- MCCollate
    Bridges <- MCBridges
    None = None
    JarBytes <- MCBytes
    ByHash <- MCByHash
    Projects <- MCProjects
    Manifests <- MCManifests
    Outcomes <- MCOutcomes
    Names = {"Mine"}
    Channels = {"beta"}
    Budgets <- MCBudgets
INVARIANTS TypeOK ReadsAgree
PROPERTIES Settles PreciousKept IdentityCollapsed
CHECK_DEADLOCK FALSE
