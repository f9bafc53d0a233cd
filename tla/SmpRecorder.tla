----------------------------- MODULE SmpRecorder -----------------------------
(***************************************************************************)
(* The recorder running on several harts under the spinlocks of PortLocks: *)
(* btf_trace_add_event one memory access at a time, traceEND with its file *)
(* write apart from the flag it clears, and the locks at full detail.      *)
(*                                                                         *)
(* Every hook reaches btf_trace.c with the ISR lock held: the task-context *)
(* macros and vTaskSwitchContext hold both locks, the FromISR macros at    *)
(* least that one.  The abstract promise is EventWindow: seen through the  *)
(* locks, a hook is a single step.                                         *)
(***************************************************************************)
EXTENDS PortLocks, Sequences

CONSTANTS
    MaxEvents,      \* configMAX_TRACE_EVENTS
    MaxTime,        \* bound: last value of mtime
    MaxRecorded,    \* bound: events accepted in one session
    MaxSessions     \* bound: calls of traceSTART

ASSUME RingAssumption == MaxEvents \in Nat \ {0}

VARIABLES
    trace_en,
    current_index, event_count,
    slots,          \* event_lists: [timestamp, core] per slot
    image,          \* what trace.bin holds: <<event_count, current_index, slots>>
    body,           \* per hart: the next access inside btf_trace.c, or "out"
    mtime,
    recorded,       \* history: events accepted since traceSTART
    session,        \* history: calls of traceSTART
    before,         \* history: the retained events when the hook in progress began
    saved           \* history: trace.bin was written whole in this session

recVars == <<trace_en, current_index, event_count, slots, image, body, mtime,
             recorded, session, before, saved>>
smpVars == <<lockVars, recVars>>

Slots == 0..MaxEvents - 1

\* Mutant: the replay always begins at slot 0.
RetainedFromZero == [k \in 1..event_count |-> slots[k - 1]]

\* The ring in replay order (btf_dump).
Retained ==
    LET start == IF event_count # MaxEvents THEN 0 ELSE current_index
    IN  [k \in 1..event_count |-> slots[(start + k - 1) % MaxEvents]]

SmpInit ==
    /\ Init
    /\ trace_en = FALSE
    /\ current_index = 0
    /\ event_count = 0
    /\ slots = [i \in Slots |-> [timestamp |-> 0, core |-> NoOwner]]
    /\ image = << >>
    /\ body = [h \in Harts |-> "out"]
    /\ mtime = 0
    /\ recorded = 0
    /\ session = 0
    /\ before = << >>
    /\ saved = FALSE

\* Mutant: the task lock alone is taken for a critical section.
InEitherLock(h) == taskHeld[h] > 0 \/ isrHeld[h] > 0

\* A hook runs between two lock calls of its hart, inside its section.
InSection(h) == isrHeld[h] > 0

Enter(h) == body[h] = "out" /\ pc[h] = "run" /\ InSection(h)
Inside(h, here) == body[h] = here
Then(h, there) == body' = [body EXCEPT ![h] = there]
------------------------------------------------------------------------------
(* btf_trace_add_event *)

\* Mutant: trace_en is not tested again under the lock.
AddEventUntested(h) ==
    /\ Enter(h) /\ recorded < MaxRecorded
    /\ before' = Retained
    /\ Then(h, "stamp")
    /\ UNCHANGED <<lockVars, trace_en, current_index, event_count, slots, image,
                   mtime, recorded, session, saved>>

\* if (!trace_en) return, else the slot at current_index is filled.
AddEvent(h) ==
    /\ Enter(h) /\ trace_en /\ recorded < MaxRecorded
    /\ before' = Retained
    /\ Then(h, "stamp")
    /\ UNCHANGED <<lockVars, trace_en, current_index, event_count, slots, image,
                   mtime, recorded, session, saved>>

StampSlot(h) ==
    /\ Inside(h, "stamp")
    /\ slots' = [slots EXCEPT ![current_index] =
                    [timestamp |-> mtime, core |-> slots[current_index].core]]
    /\ Then(h, "fill")
    /\ UNCHANGED <<lockVars, trace_en, current_index, event_count, image, mtime,
                   recorded, session, before, saved>>

\* param1, param2 and the packed types word; the core stands for the three.
FillSlot(h) ==
    /\ Inside(h, "fill")
    /\ slots' = [slots EXCEPT ![current_index] =
                    [timestamp |-> slots[current_index].timestamp, core |-> h]]
    /\ Then(h, "advance")
    /\ UNCHANGED <<lockVars, trace_en, current_index, event_count, image, mtime,
                   recorded, session, before, saved>>

\* The index is past the ring between the increment and the wrap.
Advance(h) ==
    /\ Inside(h, "advance")
    /\ current_index' = current_index + 1
    /\ Then(h, "wrap")
    /\ UNCHANGED <<lockVars, trace_en, event_count, slots, image, mtime,
                   recorded, session, before, saved>>

WrapIndex(h) ==
    /\ Inside(h, "wrap")
    /\ current_index' = IF current_index = MaxEvents THEN 0 ELSE current_index
    /\ Then(h, "count")
    /\ UNCHANGED <<lockVars, trace_en, event_count, slots, image, mtime,
                   recorded, session, before, saved>>

CountEvent(h) ==
    /\ Inside(h, "count")
    /\ event_count' =
         IF event_count < MaxEvents THEN event_count + 1 ELSE event_count
    /\ recorded' = recorded + 1
    /\ Then(h, "out")
    /\ UNCHANGED <<lockVars, trace_en, current_index, slots, image, mtime,
                   session, before, saved>>
------------------------------------------------------------------------------
(* btf_traceSTART and btf_traceEND *)

\* Harts wait for the lock meanwhile: the order of these stores is not seen.
Start(h) ==
    /\ Enter(h) /\ session < MaxSessions
    /\ session' = session + 1
    /\ trace_en' = TRUE
    /\ current_index' = 0
    /\ event_count' = 0
    /\ recorded' = 0
    /\ saved' = FALSE
    /\ UNCHANGED <<lockVars, slots, image, body, mtime, before>>

EndCapture(h) ==
    /\ Enter(h)
    /\ trace_en' = FALSE
    /\ Then(h, "dump")
    /\ UNCHANGED <<lockVars, current_index, event_count, slots, image, mtime,
                   recorded, session, before, saved>>

\* fopen truncates the file; fwrite copies the header and the ring while the
\* locks are held.
WriteHeader(h) ==
    /\ Inside(h, "dump")
    /\ image' = <<event_count, current_index>>
    /\ saved' = FALSE
    /\ Then(h, "dumpRing")
    /\ UNCHANGED <<lockVars, trace_en, current_index, event_count, slots, mtime,
                   recorded, session, before>>

WriteRing(h) ==
    /\ Inside(h, "dumpRing")
    /\ image' = Append(image, slots)
    /\ saved' = TRUE
    /\ Then(h, "out")
    /\ UNCHANGED <<lockVars, trace_en, current_index, event_count, slots, mtime,
                   recorded, session, before>>

Tick ==
    /\ mtime < MaxTime
    /\ mtime' = mtime + 1
    /\ UNCHANGED <<lockVars, trace_en, current_index, event_count, slots, image,
                   body, recorded, session, before, saved>>

Hook(h) ==
    \/ AddEvent(h) \/ StampSlot(h) \/ FillSlot(h) \/ Advance(h) \/ WrapIndex(h)
    \/ CountEvent(h) \/ Start(h) \/ EndCapture(h) \/ WriteHeader(h)
    \/ WriteRing(h)

SmpNext ==
    \/ Tick
    \/ \E h \in Harts :
         \/ Hook(h)
         \/ body[h] = "out" /\ HartStep(h) /\ UNCHANGED recVars

SmpSpec == SmpInit /\ [][SmpNext]_smpVars
------------------------------------------------------------------------------
AddLabels == {"stamp", "fill", "advance", "wrap", "count"}
Adding == \E h \in Harts : body[h] \in AddLabels

\* What the capture looks like from outside the hook in progress.
SeenWindow == IF Adding THEN before ELSE Retained

Promise ==
    INSTANCE EventWindow WITH
        Capacity <- MaxEvents,
        Event    <- [timestamp : Nat, core : Harts],
        enabled  <- trace_en,
        window   <- SeenWindow,
        lost     <- recorded - Len(SeenWindow)

\* The hooks of all harts together behave as one recorder that takes whole
\* events one at a time: no slot is written by two harts, no event is torn,
\* skipped or counted twice, and none is added after the capture ended.
HooksAreAtomic == Promise!Spec

\* Stamps are taken inside the section that orders the slots, so the ring is
\* in time order: the exporters take any smaller stamp for a counter wrap.
RetainedInTimeOrder ==
    \A k \in 2..Len(SeenWindow) :
        SeenWindow[k - 1].timestamp <= SeenWindow[k].timestamp

\* The file is one state of the recorder, not a mix of two, and that state is
\* final.
FileIsOneState ==
    saved /\ ~trace_en => image = <<event_count, current_index, slots>>
==============================================================================
