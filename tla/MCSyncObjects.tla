--------------------------- MODULE MCSyncObjects ---------------------------
EXTENDS SyncObjects, TLC

\* Only mutexes are looked at together, for the risk of a deadlock.
MCSetups == {[o \in Objects |-> "mutex"]} \cup
    {[o \in Objects |-> IF o = p THEN k ELSE "unused"] :
        p \in Objects, k \in {"sem", "queue", "interval"}}

Alike == Permutations(Tasks) \cup Permutations(Cores) \cup Permutations(Objects)
==============================================================================
