SPECIFICATION Spec
CONSTANTS
    None = None
    Lower <- MCLower
    Parents <- MCParents
    Numbered <- MCNumbered
    Collate <- MCCollate
    Bridges <- MCBridges
    Parts <- MCParts
    LoaderProvides <- MCProvides
    FabricApi <- MCFabric
    ForgifiedApi <- MCForgified
    MrVersions <- MCMrVersions
    MrListing <- MCMrListing
    Selectors <- MCSelectors
    Learned <- MCLearned
    Catalogue <- MCCatalogue
    Loader <- MCLoader
    NamedAfter <- MCNamedAfter
    JarWindows <- MCJarWindows
    Jars <- MCJars
    Doomed = {"c2"}
    Extras <- MCExtras
    Apart = TRUE
    Statics <- MCStatics
    Weathers <- MCWeathers
    MaxSaves = 2
    MaxBuilds = 1
INVARIANTS TypeOK RequiredSound OutageBuilds
PROPERTIES FillStable
CHECK_DEADLOCK FALSE
