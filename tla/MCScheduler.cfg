SPECIFICATION Spec
CONSTANTS
    NTasks = 4
    Priority <- MCPriority
    SleepTicks = {1, 2}
    MaxJiffies = 4
INVARIANTS
    NodeDiscipline
    NoOversleep
PROPERTIES
    NoEarlyWake
    ImplementsDispatcher
    SlicePreempts
