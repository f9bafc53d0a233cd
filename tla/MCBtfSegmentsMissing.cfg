\* The smallest file in which a task is selected again within one time unit.
SPECIFICATION Spec
CONSTANTS
    Tasks = {"A", "B"}
    Cores = {"Core_0"}
    NoTask = NoTask
    NoCore = NoCore
    Core_0 = "Core_0"
    Dialects = {"core"}
    MaxTime = 3
    MaxLines = 4
INVARIANT
    NoRunMissingAtAll
CHECK_DEADLOCK FALSE
