\* Three harts, recursion three deep, five acquisitions per section. The ISR
\* lock is only taken under the task lock, as by every path of the demo.
SPECIFICATION FairSpec
CONSTANTS
    Harts <- MCHarts
    NoOwner = 99
    IsrAlone = FALSE
    MaxDepth = 3
    MaxCalls = 5
INVARIANTS
    TypeOK
    TaskMutex
    DepthExact
    NothingLeaked
PROPERTY
    TaskLockReleased
