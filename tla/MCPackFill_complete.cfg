SPECIFICATION Spec
CONSTANTS
    None = None
    Lower <- MCLower
    Parents <- MCParents
    Numbered <- MCNumbered
    Collate <- MCCollate
    Bridges <- MCBridges
    Parts <- MCParts
    LoaderProvides <- MCProvides
    FabricApi <- MCFabric
    ForgifiedApi <- MCForgified
    MrVersions <- MCMrVersions
    MrListing <- MCMrListing
    Selectors <- MCSelectors
    Learned <- LearnedGap
    Catalogue <- ToolOnly
    Loader <- MCLoader
    NamedAfter <- MCNamedAfter
    JarWindows <- MCJarWindows
    Jars <- MCJars
    Doomed = {}
    Extras <- MCExtras
    Apart = TRUE
    Statics <- MCStatics
    Weathers <- Fair
    MaxSaves = 1
    MaxBuilds = 0
PROPERTY FillComplete
CHECK_DEADLOCK FALSE
