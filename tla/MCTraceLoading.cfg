\* Two traces and a workspace, a session of up to two tabs, and three commands of
\* the user at any moment of it. When everything asked for is loaded and no
\* command is left the window only waits for tab switches, so a state without
\* tabs may be the last.
SPECIFICATION FairSpec
CONSTANTS
    a = a
    b = b
    w = w
    NoPath = NoPath
    Paths <- MCPaths
    Packages <- MCPackages
    Sessions <- MCSessions
    MaxOpens = 3
INVARIANTS
    LoadGuardExact
    OneTabPerTrace
    PackageOnItsTrace
PROPERTY
    QueuesMove
CHECK_DEADLOCK FALSE
