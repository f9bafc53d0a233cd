\* Two harts, a ring of two slots and three events, so the ring overflows with
\* the harts interleaved at every memory access. Both ways to reach the ISR
\* lock are allowed. Deadlock is not checked: once the overwritten owner word
\* (ISROwnerIsHolder of PortLocks) leaves that lock taken the harts do stop.
SPECIFICATION SmpSpec
CONSTANTS
    Harts <- MCHarts
    NoOwner = 99
    IsrAlone = TRUE
    MaxDepth = 2
    MaxCalls = 2
    MaxEvents = 2
    MaxTime = 1
    MaxRecorded = 3
    MaxSessions = 2
INVARIANTS
    RetainedInTimeOrder
    FileIsOneState
    ISRMutex
PROPERTY
    HooksAreAtomic
CHECK_DEADLOCK FALSE
