CONSTANTS
    Tasks = {t1, t2}
    Cores = {c1, c2}
    Objects = {a, b}
    Nobody = Nobody
    PostCreateMax = 1
    Capacity = 1
    MaxTime = 3
    MaxEvents = 5
    MaxSwitches = 2
    Backlog = 1
    Setups <- MCSetups
SYMMETRY Alike
SPECIFICATION Spec
INVARIANTS HoldsReal IssuesReal DeadlockRiskReal SemBalance IntervalsReal
\* The clock stops at MaxTime.
CHECK_DEADLOCK FALSE
