------------------------------ MODULE PortLocks ------------------------------
(***************************************************************************)
(* The two recursive spinlocks of the SMP port (Demo/port/RISC-V/port.c),  *)
(* one step per access to shared memory.                                   *)
(*                                                                         *)
(* The task lock keeps a test-and-test-and-set word apart from its owner   *)
(* and depth; the ISR lock spins and swaps on its owner word.  A hart runs *)
(* the functions one at a time: pc[h] is the access it makes next, "run"   *)
(* between two calls.  What the kernel does between calls is external: it  *)
(* nests the locks in the order port.c documents (task lock first) and a   *)
(* section ends after finitely many calls.  IsrAlone says whether it also  *)
(* takes the ISR lock without the task lock, as a critical section entered *)
(* from an application interrupt does.                                     *)
(***************************************************************************)
EXTENDS Naturals, FiniteSets

CONSTANTS
    Harts,      \* mhartid values
    NoOwner,    \* portNO_OWNER
    IsrAlone,   \* may the ISR lock be taken without the task lock?
    MaxDepth,   \* bound: recursion depth of one lock
    MaxCalls    \* bound: lock acquisitions of one section

ASSUME HartAssumption ==
    /\ Harts \subseteq Nat
    /\ NoOwner \notin Harts
    /\ IsrAlone \in BOOLEAN
    /\ MaxDepth \in Nat
    /\ MaxCalls \in Nat

VARIABLES
    xTaskLockRaw, xTaskLockOwner, xTaskLockDepth,
    xISRLock,   \* [owner |-> hart id + 1 or 0, count |-> depth]
    pc,
    taskHeld, isrHeld,  \* per hart: gets that returned minus releases called
    calls       \* per hart: gets called since the hart last held nothing

taskLock == <<xTaskLockRaw, xTaskLockOwner, xTaskLockDepth>>
held == <<taskHeld, isrHeld>>
lockVars == <<taskLock, xISRLock, pc, held, calls>>

Id(h) == h + 1  \* 0 is reserved for "free"

Init ==
    /\ xTaskLockRaw = 0
    /\ xTaskLockOwner = NoOwner
    /\ xTaskLockDepth = 0
    /\ xISRLock = [owner |-> 0, count |-> 0]
    /\ pc = [h \in Harts |-> "run"]
    /\ taskHeld = [h \in Harts |-> 0]
    /\ isrHeld = [h \in Harts |-> 0]
    /\ calls = [h \in Harts |-> 0]

At(h, here) == pc[h] = here
Goto(h, there) == pc' = [pc EXCEPT ![h] = there]
------------------------------------------------------------------------------
(* The caller *)

\* Lock order: the task lock is never waited for while the ISR lock is held.
MayGetTask(h) == isrHeld[h] > 0 => taskHeld[h] > 0
MayGetISR(h) == taskHeld[h] > 0 \/ IsrAlone
\* The last hold on the task lock outlives the holds on the ISR lock.
MayReleaseTask(h) == taskHeld[h] > 1 \/ isrHeld[h] = 0

CallGetTask(h) ==
    /\ At(h, "run") /\ MayGetTask(h)
    /\ taskHeld[h] < MaxDepth /\ calls[h] < MaxCalls
    /\ Goto(h, "getTask")
    /\ calls' = [calls EXCEPT ![h] = @ + 1]
    /\ UNCHANGED <<taskLock, xISRLock, held>>

CallGetISR(h) ==
    /\ At(h, "run") /\ MayGetISR(h)
    /\ isrHeld[h] < MaxDepth /\ calls[h] < MaxCalls
    /\ Goto(h, "getISR")
    /\ calls' = [calls EXCEPT ![h] = @ + 1]
    /\ UNCHANGED <<taskLock, xISRLock, held>>

\* The call counter restarts when the hart has given up its last hold.
CallsAfter(h, left) == [calls EXCEPT ![h] = IF left = 0 THEN 0 ELSE @]

CallReleaseTask(h) ==
    /\ At(h, "run") /\ taskHeld[h] > 0 /\ MayReleaseTask(h)
    /\ Goto(h, "releaseTask")
    /\ taskHeld' = [taskHeld EXCEPT ![h] = @ - 1]
    /\ calls' = CallsAfter(h, taskHeld[h] + isrHeld[h] - 1)
    /\ UNCHANGED <<taskLock, xISRLock, isrHeld>>

CallReleaseISR(h) ==
    /\ At(h, "run") /\ isrHeld[h] > 0
    /\ Goto(h, "releaseISR")
    /\ isrHeld' = [isrHeld EXCEPT ![h] = @ - 1]
    /\ calls' = CallsAfter(h, taskHeld[h] + isrHeld[h] - 1)
    /\ UNCHANGED <<taskLock, xISRLock, taskHeld>>
------------------------------------------------------------------------------
(* vPortGetTaskLock and prvSpinLockRaw *)

GotTask(h) ==
    /\ Goto(h, "run")
    /\ taskHeld' = [taskHeld EXCEPT ![h] = @ + 1]
    /\ UNCHANGED <<xISRLock, isrHeld, calls>>

\* Internal step of a lock function on the task lock.
TaskStep == UNCHANGED <<xISRLock, held, calls>>

\* Mutant: a nested get does not count.
ReenterTaskUncounted(h) ==
    /\ At(h, "getTask") /\ xTaskLockOwner = h
    /\ GotTask(h)
    /\ UNCHANGED taskLock

ReenterTask(h) ==
    /\ At(h, "getTask") /\ xTaskLockOwner = h
    /\ xTaskLockDepth' = xTaskLockDepth + 1
    /\ GotTask(h)
    /\ UNCHANGED <<xTaskLockRaw, xTaskLockOwner>>

NotOwnerOfTask(h) ==
    /\ At(h, "getTask") /\ xTaskLockOwner # h
    /\ Goto(h, "spinTask")
    /\ TaskStep /\ UNCHANGED taskLock

\* while( *pLock != 0u ): spinning is stuttering.
SeeTaskFree(h) ==
    /\ At(h, "spinTask") /\ xTaskLockRaw = 0
    /\ Goto(h, "swapTask")
    /\ TaskStep /\ UNCHANGED taskLock

\* Mutant: the value the swap returned is not looked at.
SwapTaskBlind(h) ==
    /\ At(h, "swapTask")
    /\ xTaskLockRaw' = 1
    /\ Goto(h, "ownTask")
    /\ TaskStep /\ UNCHANGED <<xTaskLockOwner, xTaskLockDepth>>

SwapTask(h) ==
    /\ At(h, "swapTask")
    /\ xTaskLockRaw' = 1
    /\ Goto(h, IF xTaskLockRaw = 0 THEN "ownTask" ELSE "spinTask")
    /\ TaskStep /\ UNCHANGED <<xTaskLockOwner, xTaskLockDepth>>

SetTaskOwner(h) ==
    /\ At(h, "ownTask")
    /\ xTaskLockOwner' = h
    /\ Goto(h, "depthTask")
    /\ TaskStep /\ UNCHANGED <<xTaskLockRaw, xTaskLockDepth>>

SetTaskDepth(h) ==
    /\ At(h, "depthTask")
    /\ xTaskLockDepth' = 1
    /\ GotTask(h)
    /\ UNCHANGED <<xTaskLockRaw, xTaskLockOwner>>

GetTaskStep(h) ==
    \/ ReenterTask(h) \/ NotOwnerOfTask(h) \/ SeeTaskFree(h)
    \/ SwapTask(h) \/ SetTaskOwner(h) \/ SetTaskDepth(h)
------------------------------------------------------------------------------
(* vPortReleaseTaskLock and prvSpinUnlockRaw *)

LeaveTask(h) ==
    /\ At(h, "releaseTask") /\ xTaskLockDepth > 1
    /\ xTaskLockDepth' = xTaskLockDepth - 1
    /\ Goto(h, "run")
    /\ TaskStep /\ UNCHANGED <<xTaskLockRaw, xTaskLockOwner>>

ClearTaskOwner(h) ==
    /\ At(h, "releaseTask") /\ xTaskLockDepth <= 1
    /\ xTaskLockOwner' = NoOwner
    /\ Goto(h, "clearTask")
    /\ TaskStep /\ UNCHANGED <<xTaskLockRaw, xTaskLockDepth>>

ClearTaskDepth(h) ==
    /\ At(h, "clearTask")
    /\ xTaskLockDepth' = 0
    /\ Goto(h, "unlockTask")
    /\ TaskStep /\ UNCHANGED <<xTaskLockRaw, xTaskLockOwner>>

UnlockTask(h) ==
    /\ At(h, "unlockTask")
    /\ xTaskLockRaw' = 0
    /\ Goto(h, "run")
    /\ TaskStep /\ UNCHANGED <<xTaskLockOwner, xTaskLockDepth>>

ReleaseTaskStep(h) ==
    \/ LeaveTask(h) \/ ClearTaskOwner(h) \/ ClearTaskDepth(h) \/ UnlockTask(h)
------------------------------------------------------------------------------
(* vPortGetISRLock and vPortReleaseISRLock *)

GotISR(h) ==
    /\ Goto(h, "run")
    /\ isrHeld' = [isrHeld EXCEPT ![h] = @ + 1]
    /\ UNCHANGED <<taskLock, taskHeld, calls>>

ISRStep == UNCHANGED <<taskLock, held, calls>>

ReenterISR(h) ==
    /\ At(h, "getISR") /\ xISRLock.owner = Id(h)
    /\ xISRLock' = [xISRLock EXCEPT !.count = @ + 1]
    /\ GotISR(h)

NotOwnerOfISR(h) ==
    /\ At(h, "getISR") /\ xISRLock.owner # Id(h)
    /\ Goto(h, "spinISR")
    /\ ISRStep /\ UNCHANGED xISRLock

SeeISRFree(h) ==
    /\ At(h, "spinISR") /\ xISRLock.owner = 0
    /\ Goto(h, "swapISR")
    /\ ISRStep /\ UNCHANGED xISRLock

\* Mutant: the value the swap returned is not looked at.
SwapISRBlind(h) ==
    /\ At(h, "swapISR")
    /\ xISRLock' = [xISRLock EXCEPT !.owner = Id(h)]
    /\ Goto(h, "countISR")
    /\ ISRStep

\* amoswap stores this hart's id whether or not the lock was still free.
SwapISR(h) ==
    /\ At(h, "swapISR")
    /\ xISRLock' = [xISRLock EXCEPT !.owner = Id(h)]
    /\ Goto(h, IF xISRLock.owner = 0 THEN "countISR" ELSE "spinISR")
    /\ ISRStep

SetISRCount(h) ==
    /\ At(h, "countISR")
    /\ xISRLock' = [xISRLock EXCEPT !.count = 1]
    /\ GotISR(h)

GetISRStep(h) ==
    \/ ReenterISR(h) \/ NotOwnerOfISR(h) \/ SeeISRFree(h)
    \/ SwapISR(h) \/ SetISRCount(h)

\* Mutant: the outermost release is taken for a nested one.
LeaveISRTooOften(h) ==
    /\ At(h, "releaseISR") /\ xISRLock.owner = Id(h) /\ xISRLock.count >= 1
    /\ xISRLock' = [xISRLock EXCEPT !.count = @ - 1]
    /\ Goto(h, "run")
    /\ ISRStep

\* A nested release; one of a hart the owner word does not name does nothing.
LeaveISR(h) ==
    /\ At(h, "releaseISR") /\ (xISRLock.owner # Id(h) \/ xISRLock.count > 1)
    /\ xISRLock' =
         [xISRLock EXCEPT !.count = IF xISRLock.owner = Id(h) THEN @ - 1 ELSE @]
    /\ Goto(h, "run")
    /\ ISRStep

ClearISRCount(h) ==
    /\ At(h, "releaseISR") /\ xISRLock.owner = Id(h) /\ xISRLock.count <= 1
    /\ xISRLock' = [xISRLock EXCEPT !.count = 0]
    /\ Goto(h, "freeISR")
    /\ ISRStep

\* Mutant: the free value of the other lock is stored.
FreeISRWrongValue(h) ==
    /\ At(h, "freeISR")
    /\ xISRLock' = [xISRLock EXCEPT !.owner = NoOwner]
    /\ Goto(h, "run")
    /\ ISRStep

\* Mutant: the outermost release keeps the owner word.
FreeISRKeepsOwner(h) ==
    /\ At(h, "freeISR")
    /\ Goto(h, "run")
    /\ ISRStep /\ UNCHANGED xISRLock

FreeISR(h) ==
    /\ At(h, "freeISR")
    /\ xISRLock' = [xISRLock EXCEPT !.owner = 0]
    /\ Goto(h, "run")
    /\ ISRStep

ReleaseISRStep(h) ==
    \/ LeaveISR(h) \/ ClearISRCount(h) \/ FreeISR(h)
------------------------------------------------------------------------------
Call(h) == CallGetTask(h) \/ CallGetISR(h)
Release(h) == CallReleaseTask(h) \/ CallReleaseISR(h)
LockStep(h) ==
    GetTaskStep(h) \/ ReleaseTaskStep(h) \/ GetISRStep(h) \/ ReleaseISRStep(h)

HartStep(h) == Call(h) \/ Release(h) \/ LockStep(h)

Next == \E h \in Harts : HartStep(h)

Spec == Init /\ [][Next]_lockVars

\* Harts execute independently, and a section comes to its releases.
FairSpec ==
    /\ Spec
    /\ \A h \in Harts : WF_lockVars(LockStep(h)) /\ WF_lockVars(Release(h))
------------------------------------------------------------------------------
Labels ==
    {"run", "getTask", "spinTask", "swapTask", "ownTask", "depthTask",
     "releaseTask", "clearTask", "unlockTask", "getISR", "spinISR", "swapISR",
     "countISR", "releaseISR", "freeISR"}

TypeOK ==
    /\ xTaskLockRaw \in {0, 1}
    /\ xTaskLockOwner \in Harts \cup {NoOwner}
    /\ xTaskLockDepth \in Nat
    /\ xISRLock \in [owner : {0} \cup {Id(h) : h \in Harts}, count : Nat]
    /\ pc \in [Harts -> Labels]
    /\ taskHeld \in [Harts -> Nat]
    /\ isrHeld \in [Harts -> Nat]
    /\ calls \in [Harts -> Nat]

\* Mutual exclusion: two harts never hold the same lock, however deep one of
\* them nests and wherever the other stands between its test and its swap.
Exclusive(holds) ==
    \A g, h \in Harts : holds[g] > 0 /\ holds[h] > 0 => g = h

TaskMutex == Exclusive(taskHeld)
ISRMutex == Exclusive(isrHeld)

\* A lock is freed by its outermost release and by no other: between calls the
\* depth of a held lock is the number of holds, and nobody's hold leaves the
\* word free.
DepthExact ==
    \A h \in Harts : pc[h] = "run" =>
        /\ taskHeld[h] > 0 =>
             /\ xTaskLockRaw = 1
             /\ xTaskLockOwner = h
             /\ xTaskLockDepth = taskHeld[h]
        /\ isrHeld[h] > 0 =>
             xISRLock = [owner |-> Id(h), count |-> isrHeld[h]]

\* When every hart is between calls and holds nothing, both locks are free:
\* no release is lost.
NothingLeaked ==
    (\A h \in Harts : pc[h] = "run" /\ taskHeld[h] = 0 /\ isrHeld[h] = 0) =>
        /\ xTaskLockRaw = 0
        /\ xISRLock.owner = 0

\* A hart that holds the task lock gives it up, even if it still has to take
\* the ISR lock on the way: no hart waits for a lock whose holder waits.
TaskLockReleased ==
    \A h \in Harts : taskHeld[h] > 0 ~> taskHeld[h] = 0

\* port.c:229: the owner word is "hartid + 1, or 0 when free", so it names the
\* hart that holds the ISR lock.
ISROwnerIsHolder ==
    \A h \in Harts : isrHeld[h] > 0 => xISRLock.owner = Id(h)
==============================================================================
