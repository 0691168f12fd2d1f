SPECIFICATION Spec
CONSTANTS
    t1 = t1
    t2 = t2
    Tasks = {t1, t2}
    Total = 9
    ICount = 4
    BlockBits = 8
    ByteBits = 4
    BlockInodes = 8
    Direct = 1
    Indexes = 2
    MaxBlock = 3
    MaxFiles = 3
    Device = 4
    Words = {0}
CHECK_DEADLOCK FALSE
INVARIANTS
    BlocksExclusive
    
    OnlyDataBlocks
CONSTRAINT Clean
SYMMETRY Same
VIEW Seen
