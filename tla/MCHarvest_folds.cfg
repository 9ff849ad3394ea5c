SPECIFICATION Spec
CONSTANTS
    Lower <- MCLower
    Parents <- MCParents
    Numbered <- MCNumbered
    Collate <- MCCollate
    Bridges <- MCBridges
    None = None
    JarBytes <- MCBytes
    ByHash <- MCByHash
    Projects <- MCProjects
    Manifests <- MCManifests
    Outcomes <- Healthy
    Names = {"Mine"}
    Channels = {"beta"}
    Budgets <- FoldBudgets
INVARIANTS
    HarvestCommits
    SliceIsLatest
CHECK_DEADLOCK FALSE
