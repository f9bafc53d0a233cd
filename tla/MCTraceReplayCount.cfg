\* One task more than the table can name.
SPECIFICATION Spec
CONSTANTS
    MaxEvents = 3
    MaxTasks = 2
    Wrap = 4
    Cores = {0}
    TaskHooks = {}
    QueueHooks = {"QUEUE_SEND"}
    Priorities = {1}
    Queues = {7}
    QueueTypes = {1}
    TagChannels = {9}
    TagValues = {5}
    IntervalIds = {}
    MaxCreated = 2
    MaxTime = 0
    MaxRecorded = 4
    MaxSessions = 2
    Scale = 1
    Clock_hz = 1
INVARIANT TaskCountIsCreations
