\* A load that fails while another trace waits.
SPECIFICATION FairSpec
CONSTANTS
    a = a
    b = b
    w = w
    NoPath = NoPath
    Paths <- MCPaths
    Packages <- MCPackages
    Sessions <- MCSessions
    MaxOpens = 2
PROPERTY
    QueuedIsOpened
CHECK_DEADLOCK FALSE
