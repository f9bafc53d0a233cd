----------------------------- MODULE TraceReplay -----------------------------
(***************************************************************************)
(* The two exporters of a capture: btf_dump() in btf_trace.c, which reads  *)
(* the live RAM, and tools/gentrace.c, which reads trace.bin.  Both replay *)
(* the ring from its oldest event, extend the 32-bit stamps to monotone    *)
(* time and derive the quality flags.  They are pure functions of an image *)
(* [h, names, events] of TRACE, stated here over the recorder's states.    *)
(***************************************************************************)
EXTENDS TraceRecorder, Integers

CONSTANTS
    Scale,      \* time units per second of the output, 10^6 or 10^9
    Clock_hz    \* TRACE_HEADER.core_clock, xGetCycles() ticks per second

ASSUME ScaleAssumption ==
    /\ Scale \in Nat \ {0}
    /\ Clock_hz \in Nat \ {0}
------------------------------------------------------------------------------
(* Replay order *)

\* Mutant: the replay always begins at slot 0.
ReplayStartZero(img) == 0

\* The oldest event: slot 0 until the ring has filled, then the write index.
ReplayStart(img) ==
    IF img.h.event_count # MaxEvents THEN 0 ELSE img.h.current_index

\* The slot of the k-th replayed event, counted from 0.
ReplaySlot(img, k) == (ReplayStart(img) + k) % MaxEvents

Replay(img) ==
    [k \in 1..img.h.event_count |-> img.events[ReplaySlot(img, k - 1)]]
------------------------------------------------------------------------------
(* Timestamps *)

ToUnits(cycles) == (cycles * Scale) \div Clock_hz

\* Mutant: last_timestamp is not stored, so no stamp is smaller than it.
WrapsMissed(evs, k) == Cardinality({j \in 2..k : evs[j].timestamp < 0})

\* Mutant: an equal stamp is taken for a wrap.
WrapsOnEqual(evs, k) ==
    Cardinality({j \in 2..k : evs[j].timestamp <= evs[j - 1].timestamp})

\* How often cyc_to_time has seen a stamp smaller than the one before it when
\* it reaches the k-th event (last_timestamp starts at 0).
Wraps(evs, k) ==
    Cardinality({j \in 2..k : evs[j].timestamp < evs[j - 1].timestamp})

\* cyc_to_time_acc grows by one scaled period per wrap seen.
cyc_to_time(evs, k) ==
    ToUnits(evs[k].timestamp) + Wraps(evs, k) * ToUnits(Wrap)
------------------------------------------------------------------------------
(* Quality flags *)

\* Mutant: a full ring is not yet an overflow.
ring_overflow_strict(h) == h.event_count > MaxEvents

\* gentrace: trace_event_ring_overflow.
trace_event_ring_overflow(h) == h.event_count >= MaxEvents

\* btf_dump: the warning flag or a full ring.
LiveRingOverflow == trace_wrap_warned \/ header.event_count >= MaxEvents

\* Mutant: creations are not looked at.
KindsWithoutCreate ==
    (PlainTaskKinds \cup ValuedTaskKinds) \ {"TASK_RESUME_FROM_ISR"}

\* The event kinds whose param1 gentrace takes for a task id.
NamedTaskKinds ==
    ({"TASK_CREATE"} \cup PlainTaskKinds \cup ValuedTaskKinds)
       \ {"TASK_RESUME_FROM_ISR"}

\* gentrace: vcd_task_has_name.
vcd_task_has_name(img, id) == ~OutOfTable(id) /\ img.names[id] # 0

\* gentrace infers the task-table flag from the retained events.
trace_event_task_table_overflow(img) ==
    \E k \in DOMAIN Replay(img) :
        LET e == Replay(img)[k] IN
        /\ e.event \in NamedTaskKinds
        /\ \/ e.param1 >= MaxTasks
           \/ e.param1 > 0 /\ ~vcd_task_has_name(img, e.param1)
------------------------------------------------------------------------------
(* What a capture promises *)

Retained == Replay(Image)

\* The ring, read in replay order, is the window of the newest MaxEvents
\* events of the session: nothing is reordered, duplicated, torn from an
\* earlier session, or dropped while there is room.
Window ==
    INSTANCE EventWindow WITH
        Capacity <- MaxEvents,
        enabled  <- trace_en,
        window   <- Retained,
        lost     <- recorded - header.event_count

RingIsWindow == Window!Spec

\* No event is lost without the ring-overflow flag of both exporters.
NoSilentLoss ==
    recorded > header.event_count =>
        LiveRingOverflow /\ trace_event_ring_overflow(header)

\* A task whose creation is retained is named in its slot, or its id is out
\* of the table and the live overflow flag says so (traceSTART clears that
\* flag and the ring together, and keeps the names).
CreationNamed ==
    \A k \in DOMAIN Retained :
        LET id == Retained[k].param1 IN
        Retained[k].event = "TASK_CREATE" =>
            IF OutOfTable(id) THEN trace_task_table_overflow
                              ELSE task_lists[id] = id

\* TRACE_FORMAT.md, section 2: task_count is the number of recorded TASK_CREATE
\* events, which are the retained ones while nothing is lost.
TaskCountIsCreations ==
    recorded = header.event_count =>
        header.task_count =
            Cardinality({k \in DOMAIN Retained : Retained[k].event = "TASK_CREATE"})

\* While nothing is lost, gentrace finds in the file the table overflow that the
\* running recorder flagged, although it has to infer it from the events.
TableFlagKept ==
    recorded = header.event_count /\ trace_task_table_overflow =>
        trace_event_task_table_overflow(Image)

\* trace.bin, once written whole by traceEND, stays equal to the RAM image
\* until the next traceSTART: no hook that was already on its way when the
\* capture ended adds an event behind the file's back.
DumpIsFinal ==
    session > 0 /\ saved = session /\ ~trace_en =>
        file.complete /\ file.image = Image

\* The exported time never runs backwards (TRACE_FORMAT.md section 6).
TimesMonotone ==
    \A k \in 2..header.event_count :
        cyc_to_time(Retained, k) >= cyc_to_time(Retained, k - 1)

\* Between events less than one counter period apart the exported distance
\* is the real one up to rounding: one unit, and one more per wrap, because
\* the period is rounded once for every wrap.
ShortGaps(evs, i, j) == \A k \in i + 1..j : evs[k].at - evs[k - 1].at < Wrap

ElapsedFaithful ==
    \A i, j \in DOMAIN Retained :
        i < j /\ ShortGaps(Retained, i, j) =>
            LET exported == cyc_to_time(Retained, j) - cyc_to_time(Retained, i)
                real     == ToUnits(Retained[j].at - Retained[i].at)
                slack    == 1 + Wraps(Retained, j) - Wraps(Retained, i)
            IN  exported \in real - slack .. real + slack
==============================================================================
