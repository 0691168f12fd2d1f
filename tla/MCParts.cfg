SPECIFICATION MCSpec
CONSTANTS
    idle = idle
    boot = boot
    none = none
    r1 = r1
    r2 = r2
    w1 = w1
    k1 = k1
    k2 = k2
    k3 = k3
    old = old
    new = new
    Tasks = {idle, r1, r2, w1}
    Readers = {r1, r2}
    Writers = {w1}
    Keyboards = {idle, w1}
    Serials = {idle, r1, r2}
    DriverCount = 2
    Letters = {"a"}
    Pad = {"pad8"}
    MaxKeys = 3
    MaxWire = 2
    WriteCount = 2
    MaxLine = 4
    WIDTH = 2
    HEIGHT = 2
    MemSize = 11
    Chars = {"a"}
    LastYear = 169
    Sizes = {4, 6}
    PageRoom = 15
    LastPage = 3
    MaxPages = 2
    NBuffers = 2
    MaxHeld = 2
    Users = {r1, r2}
    DiskBlocks = {k1, k2, k3}
    Data = {old, new}
    Blank = old
    Idle = idle
    Boot = boot
    None = none
    NoByte = none
    Length = 3
    MaxCount = 3
    MaxBytes = 6
SYMMETRY Alike
CHECK_DEADLOCK FALSE
INVARIANTS
    ReadersAreWoken
    BytesInOrder
    PipePairNeverFails
    KeyboardTypesAsMeant
    ConsoleShowsText
    CalendarAgrees
    ArenaAccounted
    BufferCountIsReferences
    BufferFreeIsUnused
    BufferOfItsBlock
PROPERTIES
    BufferInUseIsStable
