SPECIFICATION Spec
CONSTANTS
    idle = idle
    boot = boot
    none = none
    c1 = c1
    c2 = c2
    c3 = c3
    d1 = d1
    d2 = d2
    Tasks = {idle, c1, c2, c3}
    Idle = idle
    Boot = boot
    None = none
    Disks = {d1, d2}
    Positions = {1, 2, 3}
    Sectors = 2
    DirectUsers = {c1, c2, c3}
    Exiters = {c3}
SYMMETRY Symmetry
VIEW Seen
INVARIANTS
    OneServed
    WaiterIsWoken
PROPERTIES
    ElevatorOrder
