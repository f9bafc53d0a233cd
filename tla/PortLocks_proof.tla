--------------------------- MODULE PortLocks_proof ---------------------------
(***************************************************************************)
(* Mutual exclusion of both spinlocks of port.c, for any number of harts,  *)
(* any nesting, and with or without interrupts that take the ISR lock on   *)
(* their own.  The inductive invariant says, hart by hart, what the owner  *)
(* word and the depth are at each access.                                  *)
(***************************************************************************)
EXTENDS PortLocks, TLAPS

\* h is past the swap that took the task lock and before the store that frees
\* it.
OwnsTask(h) ==
    \/ taskHeld[h] > 0
    \/ pc[h] \in {"ownTask", "depthTask", "releaseTask", "clearTask",
                  "unlockTask"}

TaskPart(h) ==
    /\ OwnsTask(h) => xTaskLockRaw = 1
    /\ pc[h] \in {"spinTask", "swapTask", "ownTask", "depthTask", "clearTask",
                  "unlockTask"} => taskHeld[h] = 0
    /\ pc[h] = "depthTask" => xTaskLockOwner = h
    /\ pc[h] = "releaseTask" =>
         xTaskLockOwner = h /\ xTaskLockDepth = taskHeld[h] + 1
    /\ taskHeld[h] > 0 =>
         /\ xTaskLockOwner = h
         /\ pc[h] # "releaseTask" => xTaskLockDepth = taskHeld[h]
    /\ xTaskLockOwner = h =>
         taskHeld[h] > 0 \/ pc[h] \in {"depthTask", "releaseTask"}

OneTaskOwner == \A g, h \in Harts : OwnsTask(g) /\ OwnsTask(h) => g = h

\* The same for the ISR lock.  The owner word may name a hart that does not
\* own the lock, but then that hart is spinning.
OwnsISR(h) ==
    \/ isrHeld[h] > 0
    \/ pc[h] \in {"countISR", "releaseISR", "freeISR"}

ISRPart(h) ==
    /\ OwnsISR(h) => xISRLock.owner # 0
    /\ pc[h] \in {"swapISR", "countISR", "freeISR"} => isrHeld[h] = 0
    /\ xISRLock.owner = Id(h) =>
         /\ OwnsISR(h) \/ pc[h] = "spinISR"
         /\ pc[h] = "releaseISR" => xISRLock.count = isrHeld[h] + 1
         /\ isrHeld[h] > 0 /\ pc[h] # "releaseISR" =>
              xISRLock.count = isrHeld[h]

OneISROwner == \A g, h \in Harts : OwnsISR(g) /\ OwnsISR(h) => g = h

IInv ==
    /\ TypeOK
    /\ \A h \in Harts : TaskPart(h)
    /\ OneTaskOwner
    /\ \A h \in Harts : ISRPart(h)
    /\ OneISROwner
------------------------------------------------------------------------------
\* The invariant holds before any hart has called a lock function.
LEMMA InitIInv == Init => IInv
BY HartAssumption
   DEF Init, IInv, TypeOK, TaskPart, ISRPart, OneTaskOwner, OneISROwner,
       OwnsTask, OwnsISR, Labels, Id

\* Every single memory access of any hart, and every call, preserves it.
LEMMA StepIInv == ASSUME IInv, NEW h \in Harts, HartStep(h) PROVE IInv'
<1> USE HartAssumption
         DEF IInv, TypeOK, TaskPart, ISRPart, OneTaskOwner, OneISROwner,
             OwnsTask, OwnsISR, Labels, Id, At, Goto, taskLock, held
<1>1. CASE CallGetTask(h)
  BY <1>1 DEF CallGetTask
<1>2. CASE CallGetISR(h)
  BY <1>2 DEF CallGetISR
<1>3. CASE CallReleaseTask(h)
  BY <1>3 DEF CallReleaseTask, CallsAfter
<1>4. CASE CallReleaseISR(h)
  BY <1>4 DEF CallReleaseISR, CallsAfter
<1>5. CASE ReenterTask(h)
  BY <1>5 DEF ReenterTask, GotTask
<1>6. CASE NotOwnerOfTask(h)
  BY <1>6 DEF NotOwnerOfTask, TaskStep
<1>7. CASE SeeTaskFree(h)
  BY <1>7 DEF SeeTaskFree, TaskStep
<1>8. CASE SwapTask(h)
  BY <1>8 DEF SwapTask, TaskStep
<1>9. CASE SetTaskOwner(h)
  BY <1>9 DEF SetTaskOwner, TaskStep
<1>10. CASE SetTaskDepth(h)
  BY <1>10 DEF SetTaskDepth, GotTask
<1>11. CASE LeaveTask(h)
  BY <1>11 DEF LeaveTask, TaskStep
<1>12. CASE ClearTaskOwner(h)
  BY <1>12 DEF ClearTaskOwner, TaskStep
<1>13. CASE ClearTaskDepth(h)
  BY <1>13 DEF ClearTaskDepth, TaskStep
<1>14. CASE UnlockTask(h)
  BY <1>14 DEF UnlockTask, TaskStep
<1>15. CASE ReenterISR(h)
  BY <1>15 DEF ReenterISR, GotISR
<1>16. CASE NotOwnerOfISR(h)
  BY <1>16 DEF NotOwnerOfISR, ISRStep
<1>17. CASE SeeISRFree(h)
  BY <1>17 DEF SeeISRFree, ISRStep
<1>18. CASE SwapISR(h)
  BY <1>18 DEF SwapISR, ISRStep
<1>19. CASE SetISRCount(h)
  BY <1>19 DEF SetISRCount, GotISR
<1>20. CASE LeaveISR(h)
  BY <1>20 DEF LeaveISR, ISRStep
<1>21. CASE ClearISRCount(h)
  BY <1>21 DEF ClearISRCount, ISRStep
<1>22. CASE FreeISR(h)
  BY <1>22 DEF FreeISR, ISRStep
<1> HIDE DEF IInv, At, Goto, taskLock, held, Id
<1> QED
  BY <1>1, <1>2, <1>3, <1>4, <1>5, <1>6, <1>7, <1>8, <1>9, <1>10,
     <1>11, <1>12, <1>13, <1>14, <1>15, <1>16, <1>17, <1>18, <1>19, <1>20,
     <1>21, <1>22
     DEF HartStep, Call, Release, LockStep, GetTaskStep, ReleaseTaskStep,
         GetISRStep, ReleaseISRStep

\* Initialisation, steps and stuttering together.
LEMMA AlwaysIInv == Spec => []IInv
<1>1. IInv /\ [Next]_lockVars => IInv'
  <2> SUFFICES ASSUME IInv, [Next]_lockVars PROVE IInv'
    OBVIOUS
  <2>1. CASE Next
    BY <2>1, StepIInv DEF Next
  <2>2. CASE UNCHANGED lockVars
    BY <2>2 DEF lockVars, taskLock, held, IInv, TypeOK, TaskPart, ISRPart,
                OneTaskOwner, OneISROwner, OwnsTask, OwnsISR
  <2> QED
    BY <2>1, <2>2
<1> QED
  BY <1>1, InitIInv, PTL DEF Spec
------------------------------------------------------------------------------
\* The words, the program counters and the hold counts keep their types: the
\* depth of a lock is never decremented below zero.
THEOREM TypeCorrect == Spec => []TypeOK
<1>1. IInv => TypeOK
  BY DEF IInv
<1> QED
  BY <1>1, AlwaysIInv, PTL

\* vPortGetTaskLock: two harts never both hold the task lock, for any number
\* of harts and any nesting.
THEOREM TaskMutexHolds == Spec => []TaskMutex
<1>1. IInv => TaskMutex
  BY DEF IInv, OneTaskOwner, OwnsTask, TaskMutex, Exclusive
<1> QED
  BY <1>1, AlwaysIInv, PTL

\* vPortGetISRLock: two harts never both hold the ISR lock, although a hart
\* that loses the race for it overwrites the owner word.
THEOREM ISRMutexHolds == Spec => []ISRMutex
<1>1. IInv => ISRMutex
  BY DEF IInv, OneISROwner, OwnsISR, ISRMutex, Exclusive
<1> QED
  BY <1>1, AlwaysIInv, PTL
------------------------------------------------------------------------------
\* With the ISR lock only ever taken under the task lock nobody races for it:
\* the owner word names the hart that owns it, and each word is free when
\* nobody owns it.
ISRLabels ==
    {"getISR", "spinISR", "swapISR", "countISR", "releaseISR", "freeISR"}

NestedPart(h) ==
    /\ isrHeld[h] > 0 \/ pc[h] \in ISRLabels => taskHeld[h] > 0
    /\ OwnsISR(h) => xISRLock.owner = Id(h)

NobodyLeft ==
    /\ xTaskLockRaw = 1 => \E h \in Harts : OwnsTask(h)
    /\ xISRLock.owner # 0 => \E h \in Harts : OwnsISR(h)

NInv == IInv /\ (\A h \in Harts : NestedPart(h)) /\ NobodyLeft

\* Initially nobody owns anything.
LEMMA InitNInv == Init => NInv
<1>1. Init => IInv
  BY InitIInv
<1> QED
  BY <1>1 DEF Init, NInv, NestedPart, NobodyLeft, ISRLabels, OwnsISR

\* Each access keeps the owner word and the owner together.
LEMMA StepNInv ==
  ASSUME IsrAlone = FALSE, NInv, NEW h \in Harts, HartStep(h) PROVE NInv'
<1>0. IInv /\ IInv'
  BY StepIInv DEF NInv
<1> USE <1>0, HartAssumption
         DEF NInv, IInv, TypeOK, TaskPart, OneTaskOwner, ISRPart, NestedPart,
             NobodyLeft, OwnsTask, OwnsISR, ISRLabels, Id, At, Goto, taskLock,
             held
<1>1. CASE CallGetTask(h)
  BY <1>1 DEF CallGetTask
<1>2. CASE CallGetISR(h)
  BY <1>2 DEF CallGetISR, MayGetISR
<1>3. CASE CallReleaseTask(h)
  BY <1>3 DEF CallReleaseTask, CallsAfter, MayReleaseTask
<1>4. CASE CallReleaseISR(h)
  BY <1>4 DEF CallReleaseISR, CallsAfter
<1>5. CASE GetTaskStep(h)
  BY <1>5 DEF GetTaskStep, ReenterTask, NotOwnerOfTask, SeeTaskFree, SwapTask,
              SetTaskOwner, SetTaskDepth, GotTask, TaskStep
<1>6. CASE ReleaseTaskStep(h)
  BY <1>6 DEF ReleaseTaskStep, LeaveTask, ClearTaskOwner, ClearTaskDepth,
              UnlockTask, TaskStep
<1>7. CASE GetISRStep(h)
  BY <1>7 DEF GetISRStep, ReenterISR, NotOwnerOfISR, SeeISRFree, SwapISR,
              SetISRCount, GotISR, ISRStep
<1>8. CASE ReleaseISRStep(h)
  BY <1>8 DEF ReleaseISRStep, LeaveISR, ClearISRCount, FreeISR, ISRStep
<1> HIDE DEF NInv
<1> QED
  BY <1>1, <1>2, <1>3, <1>4, <1>5, <1>6, <1>7, <1>8
     DEF HartStep, Call, Release, LockStep

\* The strengthened invariant of the nested use.
LEMMA AlwaysNInv == ASSUME IsrAlone = FALSE PROVE Spec => []NInv
<1>1. NInv /\ [Next]_lockVars => NInv'
  <2> SUFFICES ASSUME NInv, [Next]_lockVars PROVE NInv'
    OBVIOUS
  <2>1. CASE Next
    BY <2>1, StepNInv DEF Next
  <2>2. CASE UNCHANGED lockVars
    BY <2>2 DEF lockVars, taskLock, held, NInv, NestedPart, NobodyLeft, IInv,
                TypeOK, TaskPart, ISRPart, OneTaskOwner, OneISROwner, OwnsTask,
                OwnsISR
  <2> QED
    BY <2>1, <2>2
<1> QED
  BY <1>1, InitNInv, PTL DEF Spec

\* Nesting is counted exactly: a lock is freed by its outermost release and by
\* no other, when the ISR lock is only taken under the task lock.
THEOREM DepthExactHolds == ASSUME IsrAlone = FALSE PROVE Spec => []DepthExact
<1>1. NInv => DepthExact
  BY HartAssumption
     DEF NInv, IInv, TypeOK, TaskPart, OneTaskOwner, ISRPart, NestedPart,
         OwnsTask, OwnsISR, DepthExact, Id
<1> QED
  BY <1>1, AlwaysNInv, PTL

\* No release is lost: when every hart is between calls and holds nothing both
\* locks are free, when the ISR lock is only taken under the task lock.
THEOREM NothingLeakedHolds ==
  ASSUME IsrAlone = FALSE PROVE Spec => []NothingLeaked
<1>1. NInv => NothingLeaked
  BY DEF NInv, NobodyLeft, IInv, TypeOK, OwnsTask, OwnsISR, NothingLeaked
<1> QED
  BY <1>1, AlwaysNInv, PTL
==============================================================================
