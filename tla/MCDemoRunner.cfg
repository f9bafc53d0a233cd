\* Three steps and three requests: enough for a restart withdrawn by a second
\* request, and for a request that reaches the step after the one it was for.
CONSTANTS
    Script <- MCScript
    MaxOps = 3
SPECIFICATION FairSpec
INVARIANTS StopWins PauseHolds
PROPERTIES ClipHeard StepsInOrder DemoEnds
\* The demo ends.
CHECK_DEADLOCK FALSE
