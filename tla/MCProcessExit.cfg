SPECIFICATION Spec
CONSTANTS
    Tasks = {0, 1, 2, 3}
    Idle = 0
    InitTask = 1
    Boot <- MCBoot
    Any <- MCAny
VIEW Seen
INVARIANT
    ExitedStaysDead
