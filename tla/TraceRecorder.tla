---------------------------- MODULE TraceRecorder ----------------------------
(***************************************************************************)
(* The RAM event recorder of FreeRTOS-Trace: btf_trace.c and the kernel    *)
(* hook macros of FreeRTOS-Trace.h.                                        *)
(*                                                                         *)
(* A step is one hook with its critical section: the macros bracket every  *)
(* call of btf_trace.c with taskENTER_CRITICAL (task context) or           *)
(* taskENTER_CRITICAL_FROM_ISR.  That the locks of the SMP port make this  *)
(* grain sound is the subject of PortLocks and SmpRecorder.  The one step  *)
(* taken outside a critical section, the first test of trace_en in         *)
(* btf_trace_increment_tick, is an action of its own.                      *)
(*                                                                         *)
(* The kernel and the clock are the environment: tasks are numbered from 1 *)
(* in creation order (uxTCBNumber), mtime only grows, and the hooks stamp  *)
(* an event with its low bits (% Wrap, 2^32 in the code).                  *)
(***************************************************************************)
EXTENDS Naturals, Sequences, FiniteSets

CONSTANTS
    MaxEvents,      \* configMAX_TRACE_EVENTS
    MaxTasks,       \* configMAX_TRACE_TASKS, the number of task-name slots
    Wrap,           \* the period of xGetCycles(), 2^32 in the code
    Cores,          \* portGET_CORE_ID() values
    TaskHooks,      \* the addEVENT hooks that are compiled in
    QueueHooks,     \* the addQUEUE_EVENT hooks that are compiled in
    Priorities, Queues, QueueTypes, TagChannels, TagValues,
    IntervalIds,    \* the arguments of the hooks
    MaxCreated,     \* bound: tasks the kernel ever creates
    MaxTime,        \* bound: last value of mtime
    MaxRecorded,    \* bound: events accepted in one session
    MaxSessions     \* bound: calls of traceSTART

ASSUME SizeAssumption ==
    /\ MaxEvents \in Nat \ {0}
    /\ MaxTasks \in Nat \ {0}
    /\ Wrap \in Nat \ {0}
    /\ MaxCreated \in Nat
ASSUME ArgumentAssumption ==
    /\ Priorities \subseteq Nat
    /\ Queues \subseteq Nat
    /\ QueueTypes \subseteq 0..4
    /\ TagChannels \subseteq Nat
    /\ TagValues \subseteq Nat
    /\ IntervalIds \subseteq Nat

PlainTaskKinds ==
    {"TASK_SWITCHED_IN", "TASK_SWITCHED_OUT", "TASK_DELETE", "TASK_SUSPEND",
     "TASK_RESUME", "TASK_RESUME_FROM_ISR"}
ValuedTaskKinds ==
    {"TASK_PRIORITY_SET", "TASK_PRIORITY_INHERIT", "TASK_PRIORITY_DISINHERIT",
     "TASK_SET_AFFINITY"}
QueueKinds ==
    {"QUEUE_CREATE", "QUEUE_SEND", "QUEUE_RECEIVE", "QUEUE_DELETE"}
TagKinds ==
    <<"TAG", "TAG1", "TAG2", "TAG3", "TAG4", "TAG5", "TAG6", "TAG7">>
IntervalKinds == {"INTERVAL_START", "INTERVAL_STOP"}

EventKinds ==
    {"TASK_CREATE", "TASK_INCREMENT_TICK"} \cup PlainTaskKinds
      \cup ValuedTaskKinds \cup QueueKinds \cup IntervalKinds
      \cup {TagKinds[i] : i \in 1..8}

ASSUME HookAssumption ==
    /\ TaskHooks \subseteq PlainTaskKinds \cup ValuedTaskKinds
    /\ QueueHooks \subseteq QueueKinds

\* EVENT.  "at" is a history field, the untruncated clock: no code reads it.
Event ==
    [timestamp : 0..Wrap - 1, param1 : Nat, param2 : Nat, event : EventKinds,
     core : Cores, at : Nat]
NoEvent == [event |-> "NONE"]
NoFile == [complete |-> FALSE]

VARIABLES
    trace_en,
    header,                 \* TRACE_HEADER: BTF2 magic and the three counters
    event_lists,            \* ring slots, indexed from 0
    task_lists,             \* name slots: the task a slot names, 0 if empty
    trace_wrap_warned,
    trace_task_table_overflow,
    trace_stopped_cleanly,
    file                    \* trace.bin

VARIABLES                   \* environment and history
    mtime,                  \* CLINT mtime
    created,                \* uxTaskNumber: tasks created so far
    taskNumber,             \* uxTaskNumber of a TCB, set by vTaskSetTaskNumber
    tickArmed,              \* cores inside btf_trace_increment_tick
    recorded,               \* events accepted since the last traceSTART
    session,                \* number of traceSTART calls
    saved                   \* the session whose image trace.bin holds, or 0

ram == <<header, event_lists, task_lists>>
flags == <<trace_wrap_warned, trace_task_table_overflow, trace_stopped_cleanly>>
kernel == <<mtime, created, taskNumber>>
vars == <<trace_en, ram, flags, file, kernel, tickArmed, recorded, session,
          saved>>

Slots == 0..MaxEvents - 1

Init ==
    /\ trace_en = FALSE
    /\ header = [magic |-> FALSE, task_count |-> 0, event_count |-> 0,
                 current_index |-> 0]
    /\ event_lists = [i \in Slots |-> NoEvent]
    /\ task_lists = [i \in 0..MaxTasks - 1 |-> 0]
    /\ trace_wrap_warned = FALSE
    /\ trace_task_table_overflow = FALSE
    /\ trace_stopped_cleanly = FALSE
    /\ file = NoFile
    /\ mtime = 0
    /\ created = 0
    /\ taskNumber = [t \in 1..MaxCreated |-> 0]
    /\ tickArmed = {}
    /\ recorded = 0
    /\ session = 0
    /\ saved = 0
------------------------------------------------------------------------------
(* btf_trace.c *)

Stamped(p1, p2, kind, c) ==
    [timestamp |-> mtime % Wrap, param1 |-> p1, param2 |-> p2,
     event |-> kind, core |-> c, at |-> mtime]

\* current_index++, reset to 0 when it reaches configMAX_TRACE_EVENTS.
NextIndex(i) == IF i + 1 = MaxEvents THEN 0 ELSE i + 1

\* The common tail of btf_trace_add_event and btf_trace_add_task: fill the
\* slot at current_index, advance, and count up to the capacity.
PutEvent(e, taskCount) ==
    LET i == header.current_index IN
    /\ recorded < MaxRecorded
    /\ event_lists' = [event_lists EXCEPT ![i] = e]
    /\ header' = [header EXCEPT
            !.task_count = taskCount,
            !.current_index = NextIndex(i),
            !.event_count = IF @ < MaxEvents THEN @ + 1 ELSE @]
    /\ trace_wrap_warned' = (trace_wrap_warned \/ NextIndex(i) = 0)
    /\ recorded' = recorded + 1

NoRecord ==
    UNCHANGED <<ram, trace_wrap_warned, trace_task_table_overflow, recorded>>

\* Mutant: trace_en is not tested again under the lock.
add_event_untested(p1, p2, kind, c) ==
    /\ PutEvent(Stamped(p1, p2, kind, c), header.task_count)
    /\ UNCHANGED <<task_lists, trace_task_table_overflow>>

btf_trace_add_event(p1, p2, kind, c) ==
    IF trace_en
    THEN /\ PutEvent(Stamped(p1, p2, kind, c), header.task_count)
         /\ UNCHANGED <<task_lists, trace_task_table_overflow>>
    ELSE NoRecord

\* The slot of an in-range id takes the name; the event is kept either way.
OutOfTable(id) == id = 0 \/ id >= MaxTasks

\* Mutant: an id out of the table is not flagged.
add_task_unflagged(id, priority, c) ==
    IF ~trace_en THEN NoRecord
    ELSE /\ PutEvent(Stamped(id, priority, "TASK_CREATE", c),
                     header.task_count + IF OutOfTable(id) THEN 0 ELSE 1)
         /\ task_lists' = IF OutOfTable(id) THEN task_lists
                          ELSE [task_lists EXCEPT ![id] = id]
         /\ UNCHANGED trace_task_table_overflow

btf_trace_add_task(id, priority, c) ==
    IF ~trace_en THEN NoRecord
    ELSE IF OutOfTable(id)
    THEN /\ PutEvent(Stamped(id, priority, "TASK_CREATE", c), header.task_count)
         /\ trace_task_table_overflow' = TRUE
         /\ UNCHANGED task_lists
    ELSE /\ PutEvent(Stamped(id, priority, "TASK_CREATE", c),
                     header.task_count + 1)
         /\ task_lists' = [task_lists EXCEPT ![id] = id]
         /\ UNCHANGED trace_task_table_overflow

btf_traceSTART ==
    /\ trace_en' = TRUE
    /\ header' = [magic |-> TRUE, task_count |-> 0, event_count |-> 0,
                  current_index |-> 0]
    /\ trace_wrap_warned' = FALSE
    /\ trace_task_table_overflow' = FALSE
    /\ trace_stopped_cleanly' = FALSE
    /\ recorded' = 0
    /\ UNCHANGED <<event_lists, task_lists>>

Image == [h |-> header, names |-> task_lists, events |-> event_lists]

\* fopen, fwrite and fclose of trace.bin: the file keeps its old content when
\* it cannot be opened, and is cut short when the write fails.
DumpFile ==
    \/ UNCHANGED <<file, saved>>
    \/ /\ file' = [complete |-> FALSE]
       /\ saved' = 0
    \/ /\ file' = [complete |-> TRUE, image |-> Image]
       /\ saved' = session

btf_traceEND ==
    /\ trace_en' = FALSE
    /\ trace_stopped_cleanly' = TRUE
    /\ DumpFile
    /\ UNCHANGED <<ram, trace_wrap_warned, trace_task_table_overflow, recorded>>
------------------------------------------------------------------------------
(* The hook macros of FreeRTOS-Trace.h *)

\* What a recording hook leaves alone.
HookFrame ==
    UNCHANGED <<trace_en, trace_stopped_cleanly, file, session, saved, mtime>>

traceSTART ==
    /\ session < MaxSessions
    /\ session' = session + 1
    /\ btf_traceSTART
    /\ UNCHANGED <<file, saved, kernel, tickArmed>>

traceEND ==
    /\ btf_traceEND
    /\ UNCHANGED <<kernel, tickArmed, session>>

traceTASK_CREATE(c) ==
    /\ created < MaxCreated
    /\ created' = created + 1
    /\ \E p \in Priorities : btf_trace_add_task(created + 1, p, c)
    /\ taskNumber' = [taskNumber EXCEPT ![created + 1] = created + 1]
    /\ HookFrame
    /\ UNCHANGED tickArmed

\* addEVENT and addEVENT_ISR hooks, the priority hooks and the affinity hook.
TaskHook(c) ==
    /\ \E t \in 1..created, kind \in TaskHooks :
         \E p \in IF kind \in ValuedTaskKinds THEN Priorities ELSE {0} :
            btf_trace_add_event(t, p, kind, c)
    /\ HookFrame
    /\ UNCHANGED <<created, taskNumber, tickArmed>>

QueueHook(c) ==
    /\ \E q \in Queues, type \in QueueTypes, kind \in QueueHooks :
            btf_trace_add_event(type, q, kind, c)
    /\ HookFrame
    /\ UNCHANGED <<created, taskNumber, tickArmed>>

traceTAG(c) ==
    /\ \E t \in TagChannels, v \in TagValues :
            btf_trace_add_event(v, 0, TagKinds[(t % 8) + 1], c)
    /\ HookFrame
    /\ UNCHANGED <<created, taskNumber, tickArmed>>

\* The number of the running task, or 0 before the scheduler has one.
btf_trace_current_task_id(h) == IF h = 0 THEN 0 ELSE taskNumber[h]

traceINTERVAL(c) ==
    /\ \E id \in IntervalIds, kind \in IntervalKinds, h \in 0..created :
            btf_trace_add_event(id, btf_trace_current_task_id(h), kind, c)
    /\ HookFrame
    /\ UNCHANGED <<created, taskNumber, tickArmed>>

\* btf_trace_increment_tick, first half: trace_en is read with no lock held.
TickTest(c) ==
    /\ trace_en
    /\ c \notin tickArmed
    /\ tickArmed' = tickArmed \cup {c}
    /\ UNCHANGED <<trace_en, ram, flags, file, kernel, recorded, session, saved>>

\* Second half, in the critical section.
TickRecord(c) ==
    /\ c \in tickArmed
    /\ tickArmed' = tickArmed \ {c}
    /\ btf_trace_add_event(0, 0, "TASK_INCREMENT_TICK", c)
    /\ HookFrame
    /\ UNCHANGED <<created, taskNumber>>

\* The clock runs.
Clock ==
    /\ mtime < MaxTime
    /\ mtime' = mtime + 1
    /\ UNCHANGED <<trace_en, ram, flags, file, created, taskNumber, tickArmed,
                   recorded, session, saved>>

Next ==
    \/ traceSTART
    \/ traceEND
    \/ Clock
    \/ \E c \in Cores :
         \/ traceTASK_CREATE(c)
         \/ TaskHook(c)
         \/ QueueHook(c)
         \/ traceTAG(c)
         \/ traceINTERVAL(c)
         \/ TickTest(c)
         \/ TickRecord(c)

Spec == Init /\ [][Next]_vars
------------------------------------------------------------------------------
\* The counters stay in range, a slot names its own task or none, and the
\* kernel's numbering is the creation order: what every operation of
\* btf_trace.c relies on when it indexes the two tables.
TypeOK ==
    /\ trace_en \in BOOLEAN
    /\ header \in [magic : BOOLEAN, task_count : Nat,
                    event_count : 0..MaxEvents, current_index : Slots]
    /\ event_lists \in [Slots -> Event \cup {NoEvent}]
    /\ task_lists \in [0..MaxTasks - 1 -> Nat]
    /\ trace_wrap_warned \in BOOLEAN
    /\ trace_task_table_overflow \in BOOLEAN
    /\ trace_stopped_cleanly \in BOOLEAN
    /\ mtime \in Nat
    /\ created \in 0..MaxCreated
    /\ taskNumber \in [1..MaxCreated -> Nat]
    /\ tickArmed \subseteq Cores
    /\ recorded \in Nat
    /\ session \in Nat
    /\ saved \in Nat
==============================================================================
