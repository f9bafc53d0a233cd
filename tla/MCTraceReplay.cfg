\* A ring of three slots that overflows, two captures, one task more than the
\* table can name, and a counter that wraps every two ticks with one cycle four
\* thirds of an output unit, so that every rounding happens.
SPECIFICATION Spec
CONSTANTS
    MaxEvents = 3
    MaxTasks = 2
    Wrap = 2
    Cores = {0}
    TaskHooks = {"TASK_SWITCHED_OUT"}
    QueueHooks = {"QUEUE_SEND"}
    Priorities = {1}
    Queues = {7}
    QueueTypes = {1}
    TagChannels = {9}
    TagValues = {5}
    IntervalIds = {3}
    MaxCreated = 2
    MaxTime = 4
    MaxRecorded = 4
    MaxSessions = 2
    Scale = 4
    Clock_hz = 3
CONSTRAINT ClockOrSession
INVARIANTS
    NoSilentLoss
    CreationNamed
    TableFlagKept
    DumpIsFinal
    TimesMonotone
    ElapsedFaithful
PROPERTY
    RingIsWindow
