SPECIFICATION Spec
CONSTANTS
    None = None
    Backlog = 1
    Listeners = {"operator", "visitor"}
    ListenerRole <- MCRole
    Tabs = {"ann1", "ann2", "bob"}
    LoginOf <- MCLogin
    Shas = {1, 2, 3}
    Prefix <- MCPrefix
    IconIn <- MCIcons
    Upstream = {3}
    Carried = {2}
    Projects = {"p"}
    Servers = {"srv"}
    Shelf = {1, 3}
    Slots = {"s1", "s2"}
    Misreads = {}
    Menus <- LagMenus
INVARIANT LagLosesNothing
CHECK_DEADLOCK FALSE
