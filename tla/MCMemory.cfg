SPECIFICATION Spec
CONSTANTS
    None = None
    t1 = t1
    t2 = t2
    Tasks = {t1, t2}
    First = t1
    Heap = 1
    MaxProgram = 1
    Maps = 1
    Frames = {1, 2, 3, 4, 5, 6, 7}
    Kernel = 2
    Values = {0, 1}
    Program = 0
CHECK_DEADLOCK FALSE
INVARIANTS
    CountIsMappings
    PrivateIsPrivate
PROPERTY FreePagesFollow
VIEW Seen
