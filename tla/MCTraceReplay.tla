---------------------------- MODULE MCTraceReplay ----------------------------
EXTENDS TraceReplay

Untouched(kinds) == \A i \in Slots : event_lists[i].event \notin kinds

\* Bound: the clock runs only in a first capture of at most one task without
\* queues and tags, a second capture only at its start and without switches and
\* intervals.
ClockOrSession ==
    \/ mtime = 0 /\ Untouched(TaskHooks \cup IntervalKinds)
    \/ session <= 1 /\ created <= 1 /\ Untouched(QueueKinds \cup {TagKinds[i] : i \in 1..8})
==============================================================================
