SPECIFICATION Spec
CONSTANTS
    t1 = t1
    t2 = t2
    None = None
    Root = Root
    Disk = Disk
    Users = {t2}
    Mounters = {t1}
    Slots = {1, 2, 3, 4}
    Supers = {1, 2}
    Homes = {"ipwd"}
    Paths <- MCPaths
    Specials <- MCSpecials
    AfterBusy = FALSE
    MaxHeld = 1
CHECK_DEADLOCK FALSE
INVARIANTS
    SuperBlocksInPhase
    CountIsReferences
    OneInodePerNumber
    IncompleteIsRead
