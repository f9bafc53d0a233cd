\* Files of both dialects: two cores, three tasks, three timestamps and up to
\* six lines in each, so a task can be created, run, move to the other core
\* and be preempted there within one time unit. The parser stops at the end of the file.
SPECIFICATION Spec
CONSTANTS
    Tasks = {"A", "B", "C"}
    Cores = {"Core_0", "Core_1"}
    NoTask = NoTask
    NoCore = NoCore
    Core_0 = "Core_0"
    Dialects = {"core", "task"}
    MaxTime = 3
    MaxLines = 6
INVARIANTS
    SegmentsReal
    OpenIsRunning
    NoRunMissing
CHECK_DEADLOCK FALSE
