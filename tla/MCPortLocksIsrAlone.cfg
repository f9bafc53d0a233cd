\* The same port with interrupts that take the ISR lock on their own.
SPECIFICATION Spec
CONSTANTS
    Harts <- MCHarts
    NoOwner = 99
    IsrAlone = TRUE
    MaxDepth = 2
    MaxCalls = 3
INVARIANT
    ISROwnerIsHolder
