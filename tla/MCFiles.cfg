SPECIFICATION Spec
CONSTANTS
    None = None
    t1 = t1
    t2 = t2
    a = a
    b = b
    Tasks = {t1, t2}
    First = t1
    Names = {a, b}
    Numbers = 3
    Entries = 2
    FileNr = 1
    FdNr = 2
    Waits = FALSE
CHECK_DEADLOCK FALSE
INVARIANTS
    CountIsDescriptors
    DescriptorKeepsInode
    NlinksIsEntries
    EntriesAreFiles
SYMMETRY Same
VIEW Seen
