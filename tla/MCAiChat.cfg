\* Two questions of up to two tool rounds, with a history of one question, so
\* questions overlap, are stopped, cleared and forgotten at every moment. The
\* user may leave the panel alone, so the system may stop.
SPECIFICATION FairSpec
CONSTANTS
    MaxRounds = 2
    KeepTurns = 1
    MaxQueries = 2
    MaxClears = 1
INVARIANTS
    BusyHasWorker
    SingleFlight
    RequestsBounded
PROPERTIES
    RequestsWellFormed
    ReadyAgain
    StopAborts
CHECK_DEADLOCK FALSE
