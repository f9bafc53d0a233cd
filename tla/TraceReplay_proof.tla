-------------------------- MODULE TraceReplay_proof --------------------------
(***************************************************************************)
(* What the recorder keeps, for every size of its tables, every set of     *)
(* hooks and every bound: its types, that the ring read in replay order is *)
(* the bounded window of EventWindow, that no loss goes unflagged, that    *)
(* the exported times are the recorded ones up to rounding, that the       *)
(* tables and flags beside the ring say what it holds, and that trace.bin  *)
(* is the last word on a capture.                                          *)
(***************************************************************************)
EXTENDS TraceReplay, FiniteSetTheorems, SequenceTheorems, WellFoundedInduction,
        TLAPS

\* A step that changes the ring records exactly one event, stamped with the
\* clock, while capturing.
StampedNow(e) == e.at = mtime /\ e.timestamp = mtime % Wrap

Recording ==
    /\ trace_en /\ trace_en' = trace_en
    /\ \E e \in Event, n \in Nat : StampedNow(e) /\ PutEvent(e, n)

\* A step that leaves the ring alone.
Quiet ==
    UNCHANGED <<trace_en, header, event_lists, trace_wrap_warned, recorded>>

\* What a stamped event is made of.
LEMMA StampedIsEvent ==
  ASSUME mtime \in Nat, NEW p1 \in Nat, NEW p2 \in Nat, NEW kind \in EventKinds,
         NEW c \in Cores
  PROVE  Stamped(p1, p2, kind, c) \in Event /\ StampedNow(Stamped(p1, p2, kind, c))
<1>1. mtime % Wrap \in 0..Wrap - 1
  BY SizeAssumption
<1> QED
  BY <1>1 DEF Stamped, StampedNow, Event

\* One call of btf_trace_add_event either records or leaves the ring alone, and
\* it keeps the types.
LEMMA AddEventEffect ==
  ASSUME TypeOK, NEW p1 \in Nat, NEW p2 \in Nat, NEW kind \in EventKinds,
         NEW c \in Cores, btf_trace_add_event(p1, p2, kind, c),
         trace_en' = trace_en
  PROVE  /\ Recording \/ Quiet
         /\ UNCHANGED <<task_lists, trace_task_table_overflow>>
<1> DEFINE e == Stamped(p1, p2, kind, c)
<1>1. e \in Event /\ StampedNow(e)
  BY StampedIsEvent DEF TypeOK
<1>2. header.task_count \in Nat
  BY DEF TypeOK
<1>3. CASE trace_en
  <2>1. PutEvent(e, header.task_count)
    BY <1>3 DEF btf_trace_add_event
  <2> QED
    BY <1>1, <1>2, <1>3, <2>1 DEF Recording, btf_trace_add_event
<1>4. CASE ~trace_en
  BY <1>4 DEF btf_trace_add_event, NoRecord, Quiet, ram
<1> QED
  BY <1>3, <1>4 DEF TypeOK

\* The same for btf_trace_add_task, which may also name a slot.
LEMMA AddTaskEffect ==
  ASSUME TypeOK, NEW id \in Nat, NEW p \in Nat, NEW c \in Cores,
         btf_trace_add_task(id, p, c), trace_en' = trace_en
  PROVE  /\ Recording \/ Quiet
         /\ task_lists' \in [0..MaxTasks - 1 -> Nat]
         /\ trace_task_table_overflow' \in BOOLEAN
<1> DEFINE e == Stamped(id, p, "TASK_CREATE", c)
<1>1. e \in Event /\ StampedNow(e)
  BY StampedIsEvent DEF TypeOK, EventKinds
<1>2. header.task_count \in Nat /\ header.task_count + 1 \in Nat
  BY DEF TypeOK
<1>3. CASE ~trace_en
  BY <1>3 DEF btf_trace_add_task, NoRecord, Quiet, ram, TypeOK
<1>4. CASE trace_en /\ OutOfTable(id)
  <2>1. PutEvent(e, header.task_count)
    BY <1>4 DEF btf_trace_add_task
  <2> QED
    BY <1>1, <1>2, <1>4, <2>1 DEF Recording, btf_trace_add_task, TypeOK
<1>5. CASE trace_en /\ ~OutOfTable(id)
  <2>1. PutEvent(e, header.task_count + 1)
    BY <1>5 DEF btf_trace_add_task
  <2>2. task_lists' = [task_lists EXCEPT ![id] = id]
    BY <1>5 DEF btf_trace_add_task
  <2> QED
    BY <1>1, <1>2, <1>5, <2>1, <2>2 DEF Recording, btf_trace_add_task, TypeOK
<1> QED
  BY <1>3, <1>4, <1>5 DEF TypeOK
------------------------------------------------------------------------------
\* Every kind a hook passes is an event kind, and so are the TAG channels.
LEMMA KindsAreEvents ==
  /\ TaskHooks \subseteq EventKinds
  /\ QueueHooks \subseteq EventKinds
  /\ IntervalKinds \subseteq EventKinds
  /\ \A t \in Nat : TagKinds[(t % 8) + 1] \in EventKinds
<1>1. \A t \in Nat : (t % 8) + 1 \in 1..8
  OBVIOUS
<1> QED
  BY <1>1, HookAssumption DEF EventKinds

\* A step of the recorder begins a capture, ends one, records one event, or
\* leaves the ring alone.
LEMMA EveryStep ==
  ASSUME TypeOK, [Next]_vars
  PROVE  traceSTART \/ traceEND \/ Recording \/ Quiet
<1> USE KindsAreEvents, ArgumentAssumption
<1>1. CASE Clock
  BY <1>1 DEF Clock, Quiet, ram, flags
<1>2. CASE UNCHANGED vars
  BY <1>2 DEF vars, Quiet, ram, flags
<1>3. ASSUME NEW c \in Cores, traceTASK_CREATE(c) PROVE Recording \/ Quiet
  BY <1>3, AddTaskEffect DEF traceTASK_CREATE, HookFrame, TypeOK
<1>4. ASSUME NEW c \in Cores, TaskHook(c) PROVE Recording \/ Quiet
  <2>1. PICK t \in 1..created, kind \in TaskHooks :
          \E p \in IF kind \in ValuedTaskKinds THEN Priorities ELSE {0} :
            btf_trace_add_event(t, p, kind, c)
    BY <1>4 DEF TaskHook
  <2>2. PICK p \in Nat : btf_trace_add_event(t, p, kind, c)
    BY <2>1
  <2>3. t \in Nat /\ kind \in EventKinds
    BY DEF TypeOK
  <2> QED
    BY <1>4, <2>2, <2>3, AddEventEffect DEF TaskHook, HookFrame
<1>5. ASSUME NEW c \in Cores, QueueHook(c) PROVE Recording \/ Quiet
  <2>1. PICK q \in Queues, type \in QueueTypes, kind \in QueueHooks :
          btf_trace_add_event(type, q, kind, c)
    BY <1>5 DEF QueueHook
  <2> QED
    BY <1>5, <2>1, AddEventEffect DEF QueueHook, HookFrame
<1>6. ASSUME NEW c \in Cores, traceTAG(c) PROVE Recording \/ Quiet
  <2>1. PICK t \in TagChannels, v \in TagValues :
          btf_trace_add_event(v, 0, TagKinds[(t % 8) + 1], c)
    BY <1>6 DEF traceTAG
  <2> QED
    BY <1>6, <2>1, AddEventEffect DEF traceTAG, HookFrame
<1>7. ASSUME NEW c \in Cores, traceINTERVAL(c) PROVE Recording \/ Quiet
  <2>1. PICK id \in IntervalIds, kind \in IntervalKinds, h \in 0..created :
          btf_trace_add_event(id, btf_trace_current_task_id(h), kind, c)
    BY <1>7 DEF traceINTERVAL
  <2>2. btf_trace_current_task_id(h) \in Nat
    BY SizeAssumption DEF btf_trace_current_task_id, TypeOK
  <2> QED
    BY <1>7, <2>1, <2>2, AddEventEffect DEF traceINTERVAL, HookFrame
<1>8. ASSUME NEW c \in Cores, TickTest(c) PROVE Quiet
  BY <1>8 DEF TickTest, Quiet, ram, flags
<1>9. ASSUME NEW c \in Cores, TickRecord(c) PROVE Recording \/ Quiet
  BY <1>9, AddEventEffect DEF TickRecord, HookFrame, EventKinds
<1> QED
  BY <1>1, <1>2, <1>3, <1>4, <1>5, <1>6, <1>7, <1>8, <1>9 DEF Next

\* The types in two parts: the ring with its counters, and the rest.
RingTypes ==
    /\ header \in [magic : BOOLEAN, task_count : Nat,
                    event_count : 0..MaxEvents, current_index : Slots]
    /\ event_lists \in [Slots -> Event \cup {NoEvent}]
    /\ trace_wrap_warned \in BOOLEAN
    /\ recorded \in Nat

RestTypes ==
    /\ trace_en \in BOOLEAN
    /\ task_lists \in [0..MaxTasks - 1 -> Nat]
    /\ trace_task_table_overflow \in BOOLEAN
    /\ trace_stopped_cleanly \in BOOLEAN
    /\ mtime \in Nat
    /\ created \in 0..MaxCreated
    /\ taskNumber \in [1..MaxCreated -> Nat]
    /\ tickArmed \subseteq Cores
    /\ session \in Nat
    /\ saved \in Nat

\* TypeOK is the two parts together.
LEMMA TypeParts == TypeOK <=> RingTypes /\ RestTypes
  BY DEF TypeOK, RingTypes, RestTypes

\* What recording an event does to the ring and its counters.
LEMMA RecordingTypes ==
  ASSUME RingTypes, NEW e \in Event, NEW n \in Nat, PutEvent(e, n)
  PROVE  RingTypes'
<1>1. header.current_index \in Slots /\ header.event_count \in 0..MaxEvents
  BY DEF RingTypes
<1>2. NextIndex(header.current_index) \in Slots
  BY <1>1, SizeAssumption DEF NextIndex, Slots
<1>3. (IF header.event_count < MaxEvents THEN header.event_count + 1
                                          ELSE header.event_count)
        \in 0..MaxEvents
  BY <1>1, SizeAssumption
<1>4. header' \in [magic : BOOLEAN, task_count : Nat,
                   event_count : 0..MaxEvents, current_index : Slots]
  BY <1>2, <1>3 DEF PutEvent, RingTypes
<1>5. event_lists' \in [Slots -> Event \cup {NoEvent}]
  BY DEF PutEvent, RingTypes
<1> QED
  BY <1>4, <1>5 DEF PutEvent, RingTypes

\* The ring keeps its types.
LEMMA StepRingTypes == ASSUME TypeOK, [Next]_vars PROVE RingTypes'
<1>1. RingTypes
  BY TypeParts
<1>2. CASE Recording
  BY <1>1, <1>2, RecordingTypes DEF Recording
<1>3. CASE Quiet
  BY <1>1, <1>3 DEF Quiet, RingTypes
<1>4. CASE traceSTART
  <2>1. header' \in [magic : BOOLEAN, task_count : Nat,
                     event_count : 0..MaxEvents, current_index : Slots]
    BY <1>4, SizeAssumption DEF traceSTART, btf_traceSTART, Slots
  <2> QED
    BY <1>1, <1>4, <2>1 DEF traceSTART, btf_traceSTART, RingTypes
<1>5. CASE traceEND
  BY <1>1, <1>5 DEF traceEND, btf_traceEND, ram, RingTypes
<1> QED
  BY <1>2, <1>3, <1>4, <1>5, EveryStep

\* The rest of the state keeps its types.
LEMMA StepRestTypes == ASSUME TypeOK, [Next]_vars PROVE RestTypes'
<1> USE DEF RestTypes
<1>0. RestTypes
  BY TypeParts
<1>1. CASE Clock
  BY <1>0, <1>1 DEF Clock, ram, flags
<1>2. CASE UNCHANGED vars
  BY <1>0, <1>2 DEF vars, ram, flags, kernel
<1>3. CASE traceSTART
  <2>1. /\ trace_en' \in BOOLEAN
        /\ trace_task_table_overflow' \in BOOLEAN
        /\ trace_stopped_cleanly' \in BOOLEAN
    BY <1>3 DEF traceSTART, btf_traceSTART
  <2>2. session' \in Nat
    BY <1>0, <1>3 DEF traceSTART
  <2> QED
    BY <1>0, <1>3, <2>1, <2>2 DEF traceSTART, btf_traceSTART, kernel
<1>4. CASE traceEND
  <2>1. saved' \in Nat
    BY <1>0, <1>4 DEF traceEND, btf_traceEND, DumpFile
  <2> QED
    BY <1>0, <1>4, <2>1 DEF traceEND, btf_traceEND, kernel, ram
<1>5. ASSUME NEW c \in Cores, traceTASK_CREATE(c) PROVE RestTypes'
  <2>1. PICK p \in Priorities : btf_trace_add_task(created + 1, p, c)
    BY <1>5 DEF traceTASK_CREATE
  <2>2. HookFrame /\ tickArmed' = tickArmed
    BY <1>5 DEF traceTASK_CREATE
  <2>3. /\ task_lists' \in [0..MaxTasks - 1 -> Nat]
        /\ trace_task_table_overflow' \in BOOLEAN
    BY <1>0, <2>1, <2>2, AddTaskEffect, ArgumentAssumption DEF HookFrame
  <2>4. created' \in 0..MaxCreated /\ taskNumber' \in [1..MaxCreated -> Nat]
    BY <1>0, <1>5, SizeAssumption DEF traceTASK_CREATE
  <2> QED
    BY <1>0, <2>2, <2>3, <2>4 DEF HookFrame
<1>6. ASSUME NEW c \in Cores, TickRecord(c) PROVE RestTypes'
  BY <1>0, <1>6, AddEventEffect DEF TickRecord, HookFrame, EventKinds
<1>7. ASSUME NEW c \in Cores, TickTest(c) PROVE RestTypes'
  BY <1>0, <1>7 DEF TickTest, ram, flags, kernel
<1>8. ASSUME NEW c \in Cores,
             TaskHook(c) \/ QueueHook(c) \/ traceTAG(c) \/ traceINTERVAL(c)
      PROVE  RestTypes'
  BY <1>0, <1>8 DEF TaskHook, QueueHook, traceTAG, traceINTERVAL,
                    btf_trace_add_event, NoRecord, ram, HookFrame
<1> QED
  BY <1>1, <1>2, <1>3, <1>4, <1>5, <1>6, <1>7, <1>8 DEF Next

\* Type correctness of every step.
LEMMA StepTypeOK == TypeOK /\ [Next]_vars => TypeOK'
<1> SUFFICES ASSUME TypeOK, [Next]_vars PROVE TypeOK'
  OBVIOUS
<1>1. RingTypes' /\ RestTypes'
  BY StepRingTypes, StepRestTypes
<1> QED
  BY <1>1 DEF TypeOK, RingTypes, RestTypes

\* The initial types.
LEMMA InitTypeOK == Init => TypeOK
<1> SUFFICES ASSUME Init PROVE TypeOK
  OBVIOUS
<1>1. header \in [magic : BOOLEAN, task_count : Nat,
                  event_count : 0..MaxEvents, current_index : Slots]
  BY SizeAssumption DEF Init, Slots
<1>2. event_lists \in [Slots -> Event \cup {NoEvent}]
  BY DEF Init
<1>3. RestTypes
  <2>1. /\ trace_en \in BOOLEAN
        /\ trace_task_table_overflow \in BOOLEAN
        /\ trace_stopped_cleanly \in BOOLEAN
    BY DEF Init
  <2>2. created \in 0..MaxCreated /\ mtime \in Nat /\ session \in Nat
        /\ saved \in Nat
    BY SizeAssumption DEF Init
  <2> QED
    BY <2>1, <2>2 DEF Init, RestTypes
<1> QED
  BY <1>1, <1>2, <1>3, TypeParts DEF Init, RingTypes

\* btf_trace.c keeps both table indices and all counters in range, whatever the
\* hooks are called with.
THEOREM TypeCorrect == Spec => []TypeOK
<1> QED
  BY InitTypeOK, StepTypeOK, PTL DEF Spec
------------------------------------------------------------------------------
\* Until the ring has filled, the write index is the number of events and none
\* is lost; the slots below the count hold events.
RingInv ==
    /\ TypeOK
    /\ header.event_count < MaxEvents =>
         /\ header.current_index = header.event_count
         /\ recorded = header.event_count
    /\ recorded >= header.event_count
    /\ \A i \in Slots : i < header.event_count => event_lists[i] \in Event

\* The fields PutEvent writes, one by one.
LEMMA PutEventFields ==
  ASSUME TypeOK, NEW e \in Event, NEW n \in Nat, PutEvent(e, n)
  PROVE  /\ header.current_index \in Slots
         /\ header.event_count \in 0..MaxEvents
         /\ header'.current_index = NextIndex(header.current_index)
         /\ header'.event_count = IF header.event_count < MaxEvents
                                  THEN header.event_count + 1 ELSE MaxEvents
         /\ event_lists' = [event_lists EXCEPT ![header.current_index] = e]
         /\ event_lists \in [Slots -> Event \cup {NoEvent}]
         /\ recorded' = recorded + 1
         /\ recorded \in Nat
<1>1. /\ header.current_index \in Slots
      /\ header.event_count \in 0..MaxEvents
      /\ event_lists \in [Slots -> Event \cup {NoEvent}]
      /\ recorded \in Nat
      /\ DOMAIN header = {"magic", "task_count", "event_count", "current_index"}
  BY DEF TypeOK
<1>2. /\ header'.current_index = NextIndex(header.current_index)
      /\ header'.event_count = IF header.event_count < MaxEvents
                               THEN header.event_count + 1
                               ELSE header.event_count
  BY <1>1 DEF PutEvent
<1> QED
  BY <1>1, <1>2, SizeAssumption DEF PutEvent

\* The ring invariant survives every step.
LEMMA StepRingInv == RingInv /\ [Next]_vars => RingInv'
<1> SUFFICES ASSUME RingInv, [Next]_vars PROVE RingInv'
  OBVIOUS
<1>0. TypeOK /\ TypeOK'
  BY StepTypeOK DEF RingInv
<1>1. CASE Recording
  <2>1. PICK e \in Event, n \in Nat : PutEvent(e, n)
    BY <1>1 DEF Recording
  <2>2. /\ header'.event_count < MaxEvents =>
             /\ header'.current_index = header'.event_count
             /\ recorded' = header'.event_count
        /\ recorded' >= header'.event_count
    BY <1>0, <2>1, PutEventFields, SizeAssumption DEF RingInv, NextIndex, Slots
  <2>3. \A i \in Slots : i < header'.event_count => event_lists'[i] \in Event
    BY <1>0, <2>1, PutEventFields, SizeAssumption DEF RingInv, Slots
  <2> QED
    BY <1>0, <2>2, <2>3 DEF RingInv
<1>2. CASE Quiet
  BY <1>0, <1>2 DEF Quiet, RingInv
<1>3. CASE traceSTART
  <2>1. /\ header'.event_count = 0 /\ header'.current_index = 0
        /\ recorded' = 0
    BY <1>3 DEF traceSTART, btf_traceSTART
  <2> QED
    BY <1>0, <2>1 DEF RingInv, Slots
<1>4. CASE traceEND
  BY <1>0, <1>4 DEF traceEND, btf_traceEND, ram, RingInv
<1> QED
  BY <1>0, <1>1, <1>2, <1>3, <1>4, EveryStep

\* It holds when the recorder starts empty.
LEMMA InitRingInv == Init => RingInv
<1> SUFFICES ASSUME Init PROVE RingInv
  OBVIOUS
<1>1. header.event_count = 0 /\ header.current_index = 0 /\ recorded = 0
  BY DEF Init
<1> QED
  BY <1>1, InitTypeOK DEF RingInv, Slots

\* It is an invariant.
LEMMA AlwaysRingInv == Spec => []RingInv
BY InitRingInv, StepRingInv, PTL DEF Spec

\* No event is lost without the overflow flag of both exporters.
THEOREM NoSilentLossHolds == Spec => []NoSilentLoss
<1>1. RingInv => NoSilentLoss
  <2> SUFFICES ASSUME RingInv, recorded > header.event_count
               PROVE  LiveRingOverflow /\ trace_event_ring_overflow(header)
    BY DEF NoSilentLoss
  <2>1. header.event_count \in 0..MaxEvents /\ recorded \in Nat
    BY DEF RingInv, TypeOK
  <2>2. header.event_count >= MaxEvents
    BY <2>1, SizeAssumption DEF RingInv
  <2> QED
    BY <2>2 DEF LiveRingOverflow, trace_event_ring_overflow
<1> QED
  BY <1>1, AlwaysRingInv, PTL
------------------------------------------------------------------------------
\* The slot of the k-th retained event, with the modulus carried out.
Slot(n, start, k) ==
    IF n < MaxEvents THEN k - 1
    ELSE IF start + k - 1 < MaxEvents THEN start + k - 1
                                      ELSE start + k - 1 - MaxEvents

\* A replay never goes round the ring more than once.
LEMMA WrapOnce ==
  ASSUME NEW x \in Nat, x < 2 * MaxEvents
  PROVE  x % MaxEvents = IF x < MaxEvents THEN x ELSE x - MaxEvents
BY SizeAssumption

\* A replay is a sequence of events, as long as the count says.
LEMMA ReplayShape ==
  ASSUME NEW img,
         img.h.event_count \in 0..MaxEvents, img.h.current_index \in Slots,
         \A i \in Slots : i < img.h.event_count => img.events[i] \in Event
  PROVE  /\ Replay(img) \in Seq(Event)
         /\ Len(Replay(img)) = img.h.event_count
         /\ \A k \in 1..img.h.event_count :
              Replay(img)[k] =
                img.events[Slot(img.h.event_count, img.h.current_index, k)]
<1> DEFINE n == img.h.event_count
           start == img.h.current_index
<1>1. ASSUME NEW k \in 1..n
      PROVE  /\ ReplaySlot(img, k - 1) = Slot(n, start, k)
             /\ Slot(n, start, k) \in Slots /\ Slot(n, start, k) < n
  <2>1. CASE n < MaxEvents
    <3>1. 0 + (k - 1) \in Nat /\ 0 + (k - 1) < MaxEvents
      BY <2>1, SizeAssumption
    <3>2. (0 + (k - 1)) % MaxEvents = k - 1
      BY <3>1, WrapOnce, SizeAssumption
    <3>3. ReplaySlot(img, k - 1) = (0 + (k - 1)) % MaxEvents
      BY <2>1, SizeAssumption DEF ReplaySlot, ReplayStart
    <3> QED
      BY <2>1, <3>2, <3>3, SizeAssumption DEF Slot, Slots
  <2>2. CASE n = MaxEvents
    <3>1. start + (k - 1) \in Nat /\ start + (k - 1) < 2 * MaxEvents
      BY <2>2, SizeAssumption DEF Slots
    <3>2. ReplaySlot(img, k - 1) = (start + (k - 1)) % MaxEvents
      BY <2>2 DEF ReplaySlot, ReplayStart
    <3>3. (start + (k - 1)) % MaxEvents = Slot(n, start, k)
      BY <2>2, <3>1, WrapOnce, SizeAssumption DEF Slot, Slots
    <3> QED
      BY <2>2, <3>2, <3>3, SizeAssumption DEF Slot, Slots
  <2> QED
    BY <2>1, <2>2, SizeAssumption
<1>2. Replay(img) = [k \in 1..n |-> img.events[Slot(n, start, k)]]
  BY <1>1 DEF Replay
<1>3. \A k \in 1..n : img.events[Slot(n, start, k)] \in Event
  BY <1>1
<1>4. Replay(img) \in [1..n -> Event]
  BY <1>2, <1>3
<1>5. n \in Nat
  OBVIOUS
<1>6. Replay(img) \in Seq(Event)
  BY <1>4, <1>5
<1> QED
  BY <1>2, <1>4, <1>5, <1>6

\* What the invariant says of the retained events, now and after a step.
LEMMA RetainedShape ==
  ASSUME RingInv
  PROVE  /\ Retained \in Seq(Event)
         /\ Len(Retained) = header.event_count
         /\ \A k \in 1..header.event_count :
              Retained[k] =
                event_lists[Slot(header.event_count, header.current_index, k)]
<1>1. /\ header.event_count \in 0..MaxEvents
      /\ header.current_index \in Slots
  BY DEF RingInv, TypeOK
<1>2. /\ Image.h = header
      /\ Image.events = event_lists
  BY DEF Image
<1>3. \A i \in Slots : i < header.event_count => event_lists[i] \in Event
  BY DEF RingInv
<1> HIDE DEF Image
<1> QED
  BY <1>1, <1>2, <1>3, ReplayShape DEF Retained

\* The same of the state after a step.
LEMMA RetainedShapeNext ==
  ASSUME RingInv'
  PROVE  /\ Retained' \in Seq(Event)
         /\ Len(Retained') = header'.event_count
         /\ \A k \in 1..header'.event_count :
              Retained'[k] =
                event_lists'[Slot(header'.event_count, header'.current_index, k)]
<1>1. /\ header'.event_count \in 0..MaxEvents
      /\ header'.current_index \in Slots
  BY DEF RingInv, TypeOK
<1>2. /\ Image'.h = header'
      /\ Image'.events = event_lists'
  BY DEF Image
<1>3. \A i \in Slots : i < header'.event_count => event_lists'[i] \in Event
  BY DEF RingInv
<1>4. Retained' = Replay(Image')
  BY DEF Retained, Replay, ReplaySlot, ReplayStart
<1> HIDE DEF Image
<1> QED
  BY <1>1, <1>2, <1>3, <1>4, ReplayShape

\* Recording into a ring with room appends; into a full ring it replaces the
\* oldest event.
LEMMA RecordingRetains ==
  ASSUME RingInv, RingInv', NEW e \in Event, NEW n \in Nat, PutEvent(e, n)
  PROVE  Retained' = IF header.event_count < MaxEvents
                     THEN Append(Retained, e)
                     ELSE Append(Tail(Retained), e)
<1> DEFINE i == header.current_index
           len == header.event_count
<1>0. TypeOK
  BY DEF RingInv
<1>1. CASE len < MaxEvents
  <2>1. i = len /\ header'.event_count = len + 1
        /\ event_lists' = [event_lists EXCEPT ![len] = e]
    BY <1>0, <1>1, PutEventFields DEF RingInv
  <2>2. len \in Slots /\ event_lists \in [Slots -> Event \cup {NoEvent}]
    BY <1>0, <2>1, PutEventFields
  <2>3. header'.current_index = IF len + 1 = MaxEvents THEN 0 ELSE len + 1
    BY <1>0, <2>1, PutEventFields DEF NextIndex
  <2>4. ASSUME NEW k \in 1..len + 1 PROVE Retained'[k] = event_lists'[k - 1]
    <3>1. Retained'[k] =
            event_lists'[Slot(len + 1, header'.current_index, k)]
      BY <2>1, RetainedShapeNext
    <3>2. Slot(len + 1, header'.current_index, k) = k - 1
      BY <1>1, <2>2, <2>3, SizeAssumption DEF Slot, Slots
    <3> QED
      BY <3>1, <3>2
  <2>5. \A k \in 1..len : Retained[k] = event_lists[k - 1]
    BY <1>1, <2>2, RetainedShape DEF Slot, Slots
  <2>6. \A k \in 1..len : Retained'[k] = Retained[k]
    BY <2>1, <2>2, <2>4, <2>5 DEF Slots
  <2>7. Retained'[len + 1] = e
    BY <2>1, <2>2, <2>4 DEF Slots
  <2>8. Retained \in Seq(Event) /\ Len(Retained) = len
    BY RetainedShape
  <2>9. Retained' \in Seq(Event) /\ Len(Retained') = len + 1
    BY <2>1, RetainedShapeNext
  <2>10. /\ Append(Retained, e) \in Seq(Event)
         /\ Len(Append(Retained, e)) = len + 1
         /\ \A k \in 1..len : Append(Retained, e)[k] = Retained[k]
         /\ Append(Retained, e)[len + 1] = e
    BY <2>8, AppendProperties
  <2>11. \A k \in 1..len + 1 : Retained'[k] = Append(Retained, e)[k]
    BY <2>2, <2>6, <2>7, <2>10 DEF Slots
  <2>12. Retained' = Append(Retained, e)
    BY <2>9, <2>10, <2>11, SeqEqual
  <2> QED
    BY <1>1, <2>12
<1>2. CASE len = MaxEvents
  <2>1. /\ header'.event_count = len
        /\ header'.current_index = IF i + 1 = MaxEvents THEN 0 ELSE i + 1
        /\ event_lists' = [event_lists EXCEPT ![i] = e]
        /\ i \in Slots /\ event_lists \in [Slots -> Event \cup {NoEvent}]
    BY <1>0, <1>2, PutEventFields, SizeAssumption DEF NextIndex
  <2>2. ASSUME NEW k \in 1..len - 1 PROVE Retained'[k] = Retained[k + 1]
    <3>1. Retained'[k] =
            event_lists'[Slot(len, header'.current_index, k)]
      BY <2>1, RetainedShapeNext
    <3>2. Retained[k + 1] = event_lists[Slot(len, i, k + 1)]
      BY <1>2, RetainedShape, SizeAssumption
    <3>3. Slot(len, header'.current_index, k) = Slot(len, i, k + 1)
      <4>0. i \in 0..MaxEvents - 1 /\ len = MaxEvents
        BY <1>2, <2>1 DEF Slots
      <4>1. CASE i + 1 = MaxEvents
        <5>1. header'.current_index = 0
          BY <2>1, <4>1
        <5> HIDE DEF i, len
        <5> QED
          BY <4>0, <4>1, <5>1, SizeAssumption DEF Slot
      <4>2. CASE i + 1 # MaxEvents
        <5>1. header'.current_index = i + 1
          BY <2>1, <4>2
        <5> HIDE DEF i, len
        <5> QED
          BY <4>0, <4>2, <5>1, SizeAssumption DEF Slot
      <4> QED
        BY <4>1, <4>2
    <3>4. Slot(len, i, k + 1) \in Slots /\ Slot(len, i, k + 1) # i
      BY <1>2, <2>1, SizeAssumption DEF Slot, Slots
    <3> HIDE DEF i, len
    <3>5. event_lists'[Slot(len, i, k + 1)] = event_lists[Slot(len, i, k + 1)]
      BY <2>1, <3>4
    <3> QED
      BY <3>1, <3>2, <3>3, <3>5
  <2>3. Retained'[len] = e
    <3>1. Retained'[len] =
            event_lists'[Slot(len, header'.current_index, len)]
      BY <1>2, <2>1, RetainedShapeNext, SizeAssumption
    <3>2. Slot(len, header'.current_index, len) = i
      BY <1>2, <2>1, SizeAssumption DEF Slot, Slots
    <3> QED
      BY <2>1, <3>1, <3>2
  <2>4. /\ Retained \in Seq(Event) /\ Len(Retained) = len
        /\ Retained' \in Seq(Event) /\ Len(Retained') = len
    BY <2>1, RetainedShape, RetainedShapeNext
  <2>5. /\ Tail(Retained) \in Seq(Event)
        /\ Len(Tail(Retained)) = len - 1
        /\ \A k \in 1..len - 1 : Tail(Retained)[k] = Retained[k + 1]
    <3>1. Retained # << >>
      BY <1>2, <2>4, SizeAssumption, EmptySeq
    <3> QED
      BY <2>4, <3>1, HeadTailProperties
  <2>6. /\ Append(Tail(Retained), e) \in Seq(Event)
        /\ Len(Append(Tail(Retained), e)) = len
        /\ \A k \in 1..len - 1 :
              Append(Tail(Retained), e)[k] = Retained[k + 1]
        /\ Append(Tail(Retained), e)[len] = e
    <3>1. Len(Tail(Retained)) + 1 = len
      BY <1>2, <2>5, SizeAssumption
    <3> QED
      BY <2>5, <3>1, AppendProperties
  <2>7. \A k \in 1..len : Retained'[k] = Append(Tail(Retained), e)[k]
    BY <1>2, <2>2, <2>3, <2>6, SizeAssumption
  <2>8. Retained' = Append(Tail(Retained), e)
    BY <2>4, <2>6, <2>7, SeqEqual
  <2>9. ~(len < MaxEvents)
    BY <1>2, SizeAssumption
  <2> QED
    BY <2>8, <2>9
<1>3. len \in 0..MaxEvents
  BY <1>0, PutEventFields
<1>4. len < MaxEvents \/ len = MaxEvents
  BY <1>3, SizeAssumption
<1> QED
  BY <1>1, <1>2, <1>4

\* Every step of the recorder is a step of the abstract window, or none.
LEMMA StepWindow ==
  RingInv /\ [Next]_vars => [Window!Next]_<<trace_en, Retained,
                                            recorded - header.event_count>>
<1> SUFFICES ASSUME RingInv, [Next]_vars
             PROVE  [Window!Next]_<<trace_en, Retained,
                                    recorded - header.event_count>>
  OBVIOUS
<1>0. TypeOK /\ RingInv'
  BY StepRingInv DEF RingInv
<1> DEFINE lost == recorded - header.event_count
<1>1. CASE traceSTART
  <2>1. trace_en' = TRUE /\ recorded' = 0 /\ header'.event_count = 0
    BY <1>1 DEF traceSTART, btf_traceSTART
  <2>2. Retained' = << >>
    BY <1>0, <2>1, RetainedShapeNext, EmptySeq
  <2>3. lost' = 0
    BY <2>1
  <2> QED
    BY <2>1, <2>2, <2>3 DEF Window!Next, Window!Begin
<1>2. CASE traceEND
  <2>1. trace_en' = FALSE /\ UNCHANGED <<header, event_lists, task_lists, recorded>>
    BY <1>2 DEF traceEND, btf_traceEND, ram
  <2>2. Retained' = Retained
    BY <2>1 DEF Retained, Image, Replay, ReplaySlot, ReplayStart
  <2>3. lost' = lost
    BY <2>1
  <2> QED
    BY <2>1, <2>2, <2>3 DEF Window!Next, Window!Stop
<1>3. CASE Recording
  <2>1. PICK e \in Event, n \in Nat : PutEvent(e, n)
    BY <1>3 DEF Recording
  <2>2. Retained' = IF header.event_count < MaxEvents
                    THEN Append(Retained, e) ELSE Append(Tail(Retained), e)
    BY <1>0, <2>1, RecordingRetains
  <2>3. /\ Retained \in Seq(Event) /\ Len(Retained) = header.event_count
        /\ header.event_count \in 0..MaxEvents /\ recorded \in Nat
        /\ recorded' = recorded + 1
        /\ header'.event_count = IF header.event_count < MaxEvents
                                 THEN header.event_count + 1 ELSE MaxEvents
    BY <1>0, <2>1, PutEventFields, RetainedShape
  <2>4. Retained' # << >> /\ Retained'[Len(Retained')] = e
    <3>1. CASE header.event_count < MaxEvents
      <4>1. Retained' = Append(Retained, e)
        BY <2>2, <3>1
      <4> QED
        BY <2>3, <4>1, AppendProperties
    <3>2. CASE ~(header.event_count < MaxEvents)
      <4>1. Retained' = Append(Tail(Retained), e)
        BY <2>2, <3>2
      <4>2. Tail(Retained) \in Seq(Event)
        BY <2>3, <3>2, SizeAssumption, HeadTailProperties, EmptySeq
      <4> QED
        BY <4>1, <4>2, AppendProperties, LenProperties
    <3> QED
      BY <3>1, <3>2
  <2>5. CASE header.event_count < MaxEvents
    <3>1. Retained' = Append(Retained, e) /\ lost' = lost
      BY <2>2, <2>3, <2>5
    <3>2. Window!Keep(e)
      BY <2>3, <2>5, <3>1 DEF Window!Keep
    <3> QED
      BY <1>3, <2>4, <3>2 DEF Window!Next, Window!Record, Recording
  <2>6. CASE header.event_count = MaxEvents
    <3>1. Retained' = Append(Tail(Retained), e) /\ lost' = lost + 1
      BY <2>2, <2>3, <2>6, SizeAssumption
    <3>2. Window!PushOut(e)
      BY <2>3, <2>6, <3>1 DEF Window!PushOut
    <3> QED
      BY <1>3, <2>4, <3>2 DEF Window!Next, Window!Record, Recording
  <2> QED
    BY <2>3, <2>5, <2>6, SizeAssumption
<1>4. CASE Quiet
  <2>1. UNCHANGED <<trace_en, header, event_lists, recorded>>
    BY <1>4 DEF Quiet
  <2>2. Retained' = Retained
    <3>1. Len(Retained') = Len(Retained)
      BY <1>0, <2>1, RetainedShape, RetainedShapeNext
    <3>2. \A k \in 1..Len(Retained) : Retained'[k] = Retained[k]
      BY <1>0, <2>1, RetainedShape, RetainedShapeNext
    <3> QED
      BY <1>0, <3>1, <3>2, RetainedShape, RetainedShapeNext, SeqEqual
  <2> QED
    BY <2>1, <2>2
<1> QED
  BY <1>0, <1>1, <1>2, <1>3, <1>4, EveryStep

\* The empty recorder is the empty window.
LEMMA InitWindow == Init => Window!Init
<1> SUFFICES ASSUME Init PROVE Window!Init
  OBVIOUS
<1>1. RingInv
  BY InitRingInv
<1>2. trace_en = FALSE /\ header.event_count = 0 /\ recorded = 0
  BY DEF Init
<1>3. Retained = << >>
  BY <1>1, <1>2, RetainedShape, EmptySeq
<1> QED
  BY <1>2, <1>3 DEF Window!Init

\* The recorder implements the bounded window: read in replay order, the ring
\* holds exactly the newest events of the session in the order they were
\* recorded, for every capacity.
THEOREM RingImplementsWindow == Spec => RingIsWindow
<1>1. RingInv /\ [Next]_vars => [Window!Next]_Window!wvars
  BY StepWindow DEF Window!wvars
<1> QED
  BY <1>1, InitWindow, AlwaysRingInv, PTL DEF Spec, RingIsWindow, Window!Spec
------------------------------------------------------------------------------
\* Scaling is monotone: rounding never turns a later stamp into an earlier time.
LEMMA ToUnitsMonotone ==
  ASSUME NEW a \in Nat, NEW b \in Nat, a <= b
  PROVE  ToUnits(a) \in Nat /\ ToUnits(b) \in Nat /\ ToUnits(a) <= ToUnits(b)
<1>1. a * Scale \in Nat /\ b * Scale \in Nat
  BY ScaleAssumption
<1>2. a * Scale <= b * Scale
  BY ScaleAssumption
<1>3. \A x, y \in Nat : x <= y => x \div Clock_hz <= y \div Clock_hz
  BY ScaleAssumption
<1>4. \A x \in Nat : x \div Clock_hz \in Nat
  BY ScaleAssumption
<1> QED
  BY <1>1, <1>2, <1>3, <1>4 DEF ToUnits

\* Reaching the next event adds one wrap when its stamp is smaller.
LEMMA WrapsStep ==
  ASSUME NEW evs, NEW k \in Nat, k >= 2
  PROVE  /\ Wraps(evs, k - 1) \in Nat
         /\ Wraps(evs, k) = IF evs[k].timestamp < evs[k - 1].timestamp
                            THEN Wraps(evs, k - 1) + 1 ELSE Wraps(evs, k - 1)
<1> DEFINE W(n) == {j \in 2..n : evs[j].timestamp < evs[j - 1].timestamp}
<1>1. IsFiniteSet(W(k - 1)) /\ Cardinality(W(k - 1)) \in Nat
  <2>1. IsFiniteSet(2..k - 1)
    BY FS_Interval
  <2>2. IsFiniteSet(W(k - 1))
    BY <2>1, FS_Subset
  <2> QED
    BY <2>2, FS_CardinalityType
<1>2. W(k) = IF evs[k].timestamp < evs[k - 1].timestamp
             THEN W(k - 1) \cup {k} ELSE W(k - 1)
  OBVIOUS
<1>3. k \notin W(k - 1)
  OBVIOUS
<1> HIDE DEF W
<1>4. Cardinality(W(k - 1) \cup {k}) = Cardinality(W(k - 1)) + 1
  BY <1>1, <1>3, FS_AddElement
<1>5. Cardinality(W(k)) = IF evs[k].timestamp < evs[k - 1].timestamp
                          THEN Cardinality(W(k - 1)) + 1
                          ELSE Cardinality(W(k - 1))
  BY <1>2, <1>4
<1> USE DEF W
<1> QED
  BY <1>1, <1>5 DEF Wraps

\* The exported time never runs backwards, for every counter period, every
\* clock and every output unit, and however often the counter wraps.
THEOREM TimesMonotoneHolds == Spec => []TimesMonotone
<1>1. RingInv => TimesMonotone
  <2> SUFFICES ASSUME RingInv, NEW k \in 2..header.event_count
               PROVE  cyc_to_time(Retained, k) >= cyc_to_time(Retained, k - 1)
    BY DEF TimesMonotone
  <2> DEFINE now  == Retained[k].timestamp
             last == Retained[k - 1].timestamp
             w    == Wraps(Retained, k - 1)
  <2>1. header.event_count \in Nat
    BY DEF RingInv, TypeOK
  <2>2. Retained[k] \in Event /\ Retained[k - 1] \in Event
    BY <2>1, RetainedShape, ElementOfSeq
  <2>3. now \in 0..Wrap - 1 /\ last \in 0..Wrap - 1
    BY <2>2 DEF Event
  <2>4. /\ w \in Nat
        /\ Wraps(Retained, k) = IF now < last THEN w + 1 ELSE w
    BY <2>1, WrapsStep
  <2> HIDE DEF now, last, w
  <2>5. ToUnits(Wrap) \in Nat /\ ToUnits(now) \in Nat /\ ToUnits(last) \in Nat
        /\ ToUnits(last) <= ToUnits(Wrap)
    BY <2>3, ToUnitsMonotone, SizeAssumption
  <2>6. CASE now < last
    <3>1. (w + 1) * ToUnits(Wrap) = w * ToUnits(Wrap) + ToUnits(Wrap)
      BY <2>4, <2>5
    <3>2. w * ToUnits(Wrap) \in Nat
      BY <2>4, <2>5
    <3>3. /\ cyc_to_time(Retained, k) = ToUnits(now) + (w + 1) * ToUnits(Wrap)
          /\ cyc_to_time(Retained, k - 1) = ToUnits(last) + w * ToUnits(Wrap)
      BY <2>4, <2>6 DEF cyc_to_time, now, last, w
    <3> QED
      BY <2>5, <3>1, <3>2, <3>3
  <2>7. CASE ~(now < last)
    <3>1. ToUnits(last) <= ToUnits(now)
      BY <2>3, <2>7, ToUnitsMonotone
    <3>2. w * ToUnits(Wrap) \in Nat
      BY <2>4, <2>5
    <3>3. /\ cyc_to_time(Retained, k) = ToUnits(now) + w * ToUnits(Wrap)
          /\ cyc_to_time(Retained, k - 1) = ToUnits(last) + w * ToUnits(Wrap)
      BY <2>4, <2>7 DEF cyc_to_time, now, last, w
    <3> QED
      BY <2>5, <3>1, <3>2, <3>3
  <2> QED
    BY <2>6, <2>7
<1> QED
  BY <1>1, AlwaysRingInv, PTL
------------------------------------------------------------------------------
(* The exported distances *)

\* The retained stamps are the low bits of a clock that does not run backwards.
Ordered(evs, clock) ==
    /\ \A k \in 1..Len(evs) :
         evs[k].timestamp = evs[k].at % Wrap /\ evs[k].at <= clock
    /\ \A k \in 2..Len(evs) : evs[k - 1].at <= evs[k].at

StampInv == RingInv /\ Ordered(Retained, mtime)

\* The clock is the environment's: no step sets it back.
LEMMA ClockForward == TypeOK /\ [Next]_vars => mtime' \in Nat /\ mtime <= mtime'
<1> SUFFICES ASSUME TypeOK, [Next]_vars PROVE mtime' \in Nat /\ mtime <= mtime'
  OBVIOUS
<1>1. mtime \in Nat
  BY DEF TypeOK
<1>2. mtime' = mtime \/ mtime' = mtime + 1
  BY DEF Next, vars, traceSTART, traceEND, Clock, traceTASK_CREATE, TaskHook, QueueHook,
      traceTAG, traceINTERVAL, TickTest, TickRecord, HookFrame, kernel
<1> QED
  BY <1>1, <1>2

\* A new event comes last and carries the clock.
LEMMA AppendOrdered ==
  ASSUME NEW evs \in Seq(Event), NEW clock \in Nat, Ordered(evs, clock),
         NEW e \in Event, e.at = clock, e.timestamp = clock % Wrap
  PROVE  Ordered(Append(evs, e), clock)
<1> DEFINE more == Append(evs, e)
           n == Len(evs)
<1>1. /\ n \in Nat /\ Len(more) = n + 1 /\ more[n + 1] = e
      /\ \A k \in 1..n : more[k] = evs[k]
  OBVIOUS
<1> HIDE DEF more, n
<1>2. ASSUME NEW k \in 1..Len(more)
      PROVE  more[k].timestamp = more[k].at % Wrap /\ more[k].at <= clock
  <2>1. CASE k = n + 1
    BY <1>1, <2>1
  <2>2. CASE k \in 1..n
    BY <1>1, <2>2 DEF Ordered, n
  <2> QED
    BY <1>1, <2>1, <2>2
<1>3. ASSUME NEW k \in 2..Len(more)
      PROVE  more[k - 1].at <= more[k].at
  <2>1. CASE k = n + 1
    <3>1. k - 1 \in 1..n /\ more[k - 1] = evs[k - 1]
      BY <1>1, <2>1
    <3>2. evs[k - 1].at <= clock
      BY <3>1 DEF Ordered, n
    <3> QED
      BY <1>1, <2>1, <3>1, <3>2
  <2>2. CASE k \in 2..n
    <3>1. more[k - 1] = evs[k - 1] /\ more[k] = evs[k]
      BY <1>1, <2>2
    <3> QED
      BY <2>2, <3>1 DEF Ordered, n
  <2> QED
    BY <1>1, <2>1, <2>2
<1>4. Ordered(more, clock)
  BY <1>2, <1>3 DEF Ordered
<1> QED
  BY <1>4 DEF more

\* Without its oldest event the window is still in order.
LEMMA TailOrdered ==
  ASSUME NEW evs \in Seq(Event), evs # << >>, NEW clock \in Nat, Ordered(evs, clock)
  PROVE  Tail(evs) \in Seq(Event) /\ Ordered(Tail(evs), clock)
<1> DEFINE rest == Tail(evs)
           n == Len(evs)
<1>1. /\ n \in Nat /\ n >= 1 /\ rest \in Seq(Event) /\ Len(rest) = n - 1
      /\ \A k \in 1..n - 1 : rest[k] = evs[k + 1]
  OBVIOUS
<1> HIDE DEF rest, n
<1>2. ASSUME NEW k \in 1..Len(rest)
      PROVE  rest[k].timestamp = rest[k].at % Wrap /\ rest[k].at <= clock
  BY <1>1 DEF Ordered, n
<1>3. ASSUME NEW k \in 2..Len(rest)
      PROVE  rest[k - 1].at <= rest[k].at
  <2>1. rest[k - 1] = evs[k] /\ rest[k] = evs[k + 1] /\ k + 1 \in 2..n
    BY <1>1
  <2>2. evs[k + 1 - 1].at <= evs[k + 1].at
    BY <2>1 DEF Ordered, n
  <2>3. k + 1 - 1 = k
    OBVIOUS
  <2> QED
    BY <2>1, <2>2, <2>3
<1> QED
  BY <1>1, <1>2, <1>3 DEF Ordered, rest

\* A later clock leaves it so.
LEMMA LaterOrdered ==
  ASSUME NEW evs \in Seq(Event), NEW clock \in Nat, NEW later \in Nat, clock <= later,
         Ordered(evs, clock)
  PROVE  Ordered(evs, later)
<1>1. \A k \in 1..Len(evs) : evs[k].at \in Nat
  <2>1. \A k \in 1..Len(evs) : evs[k] \in Event
    OBVIOUS
  <2> QED
    BY <2>1 DEF Event
<1> QED
  BY <1>1 DEF Ordered

\* The window is in order after every step.
LEMMA StepStamps == StampInv /\ [Next]_vars => StampInv'
<1> SUFFICES ASSUME StampInv, [Next]_vars PROVE StampInv'
  OBVIOUS
<1>0. RingInv /\ TypeOK /\ RingInv' /\ Ordered(Retained, mtime)
  BY StepRingInv DEF StampInv, RingInv
<1>1. /\ Retained \in Seq(Event) /\ Len(Retained) = header.event_count
      /\ Retained' \in Seq(Event)
  BY <1>0, RetainedShape, RetainedShapeNext
<1>2. mtime \in Nat /\ mtime' \in Nat /\ mtime <= mtime'
  BY <1>0, ClockForward DEF TypeOK
<1> SUFFICES Ordered(Retained', mtime')
  BY <1>0 DEF StampInv, Ordered
<1>3. CASE Retained' = Retained
  BY <1>0, <1>1, <1>2, <1>3, LaterOrdered
<1>4. CASE traceSTART
  <2>1. header'.event_count = 0
    BY <1>4 DEF traceSTART, btf_traceSTART
  <2>2. Len(Retained') = 0
    BY <1>0, <2>1, RetainedShapeNext
  <2> HIDE DEF Retained
  <2> QED
    BY <2>2 DEF Ordered
<1>5. CASE traceEND
  BY <1>3, <1>5 DEF traceEND, btf_traceEND, ram, Retained, Image, Replay, ReplaySlot, ReplayStart
<1>6. CASE Recording
  <2>1. PICK e \in Event, n \in Nat : StampedNow(e) /\ PutEvent(e, n)
    BY <1>6 DEF Recording
  <2>2. Retained' = IF header.event_count < MaxEvents
                    THEN Append(Retained, e) ELSE Append(Tail(Retained), e)
    BY <1>0, <2>1, RecordingRetains
  <2> DEFINE kept == IF header.event_count < MaxEvents THEN Retained ELSE Tail(Retained)
  <2>3. kept \in Seq(Event) /\ Ordered(kept, mtime)
    <3>1. CASE header.event_count < MaxEvents
      BY <1>0, <1>1, <3>1
    <3>2. CASE ~(header.event_count < MaxEvents)
      <4>1. Len(Retained) # 0
        BY <1>0, <1>1, <3>2, SizeAssumption DEF TypeOK
      <4>2. Retained # << >>
        BY <4>1
      <4> HIDE DEF Retained
      <4> QED
        BY <1>0, <1>1, <1>2, <3>2, <4>2, TailOrdered
    <3> QED
      BY <3>1, <3>2
  <2>4. Retained' = Append(kept, e)
    BY <2>2
  <2> HIDE DEF kept
  <2>5. Ordered(Append(kept, e), mtime)
    BY <1>2, <2>1, <2>3, AppendOrdered DEF StampedNow
  <2> QED
    BY <1>1, <1>2, <2>4, <2>5, LaterOrdered
<1>7. CASE Quiet
  <2>1. UNCHANGED <<header, event_lists>>
    BY <1>7 DEF Quiet
  <2>2. Retained' = Retained
    <3>1. Len(Retained') = Len(Retained)
      BY <1>0, <2>1, RetainedShape, RetainedShapeNext
    <3>2. \A k \in 1..Len(Retained) : Retained'[k] = Retained[k]
      BY <1>0, <2>1, RetainedShape, RetainedShapeNext
    <3> QED
      BY <1>0, <3>1, <3>2, RetainedShape, RetainedShapeNext, SeqEqual
  <2> QED
    BY <1>3, <2>2
<1> QED
  BY <1>0, <1>4, <1>5, <1>6, <1>7, EveryStep

\* An empty window is in order.
LEMMA InitStamps == Init => StampInv
<1> SUFFICES ASSUME Init PROVE StampInv
  OBVIOUS
<1>1. RingInv
  BY InitRingInv
<1>2. Len(Retained) = 0
  BY <1>1, RetainedShape DEF Init
<1> HIDE DEF Retained
<1> QED
  BY <1>1, <1>2 DEF StampInv, Ordered
------------------------------------------------------------------------------
(* Arithmetic *)

\* Division leaves a remainder smaller than the divisor.
LEMMA Division ==
  ASSUME NEW x \in Nat, NEW d \in Nat \ {0}
  PROVE  /\ x \div d \in Nat /\ x % d \in 0..d - 1
         /\ x = d * (x \div d) + (x % d)
OBVIOUS

\* A multiple of a number that is smaller than the number is zero, or one of them.
LEMMA SmallMultiple ==
  ASSUME NEW d \in Nat \ {0}, NEW q \in Int, -d < d * q, d * q < 2 * d
  PROVE  q = 0 \/ q = 1
<1>1. q >= 0
  <2> SUFFICES ASSUME q <= -1 PROVE FALSE
    OBVIOUS
  <2>1. d * q <= d * (-1)
    OBVIOUS
  <2> QED
    BY <2>1
<1>2. q <= 1
  <2> SUFFICES ASSUME q >= 2 PROVE FALSE
    OBVIOUS
  <2>1. d * q >= d * 2
    OBVIOUS
  <2> QED
    BY <2>1
<1> QED
  BY <1>1, <1>2

\* The low bits of two clock values less than a period apart differ by the
\* distance, or by the distance less a period: then the later is the smaller.
LEMMA GapModulo ==
  ASSUME NEW a \in Nat, NEW b \in Nat, a <= b, b - a < Wrap
  PROVE  ((b % Wrap) - (a % Wrap)) + (IF b % Wrap < a % Wrap THEN Wrap ELSE 0) = b - a
<1> DEFINE ra == a % Wrap
           rb == b % Wrap
           qa == a \div Wrap
           qb == b \div Wrap
<1>1. /\ qa \in Nat /\ ra \in 0..Wrap - 1 /\ a = Wrap * qa + ra
      /\ qb \in Nat /\ rb \in 0..Wrap - 1 /\ b = Wrap * qb + rb
  BY Division, SizeAssumption
<1> HIDE DEF ra, rb, qa, qb
<1>2. Wrap * (qb - qa) = (b - a) - (rb - ra)
  <2>1. Wrap * (qb - qa) = Wrap * qb - Wrap * qa
    BY <1>1, SizeAssumption
  <2>2. Wrap * qb \in Nat /\ Wrap * qa \in Nat
    BY <1>1, SizeAssumption
  <2> QED
    BY <1>1, <2>1, <2>2
<1>3. qb - qa = 0 \/ qb - qa = 1
  <2>1. -Wrap < Wrap * (qb - qa) /\ Wrap * (qb - qa) < 2 * Wrap
    BY <1>1, <1>2, SizeAssumption
  <2> QED
    BY <1>1, <2>1, SmallMultiple, SizeAssumption
<1>4. CASE qb - qa = 0
  <2>1. rb - ra = b - a
    BY <1>1, <1>2, <1>4, SizeAssumption
  <2> QED
    BY <1>1, <2>1 DEF ra, rb
<1>5. CASE qb - qa = 1
  <2>1. rb - ra + Wrap = b - a
    BY <1>1, <1>2, <1>5, SizeAssumption
  <2>2. rb < ra
    BY <1>1, <2>1, SizeAssumption
  <2> QED
    BY <2>1, <2>2 DEF ra, rb
<1> QED
  BY <1>3, <1>4, <1>5

\* Scaling rounds down by less than one unit.
LEMMA ToUnitsRounds ==
  ASSUME NEW x \in Nat
  PROVE  /\ ToUnits(x) \in Nat
         /\ \E r \in 0..Clock_hz - 1 : x * Scale = Clock_hz * ToUnits(x) + r
<1>1. x * Scale \in Nat
  BY ScaleAssumption
<1> QED
  BY <1>1, Division, ScaleAssumption DEF ToUnits

\* A number of units whose multiple is in between is itself in between.
LEMMA Between ==
  ASSUME NEW d \in Nat \ {0}, NEW n \in Nat, NEW q \in Int,
         -(d * (n + 1)) < d * q, d * q < 2 * d
  PROVE  q \in -(n + 1)..n + 1
<1>1. q <= 1
  <2> SUFFICES ASSUME q >= 2 PROVE FALSE
    OBVIOUS
  <2>1. d * q >= d * 2
    OBVIOUS
  <2> QED
    BY <2>1
<1>2. q >= -(n + 1)
  <2> SUFFICES ASSUME -q > n + 1 PROVE FALSE
    OBVIOUS
  <2>1. d * (-q) >= d * (n + 1)
    OBVIOUS
  <2>2. d * (-q) = -(d * q)
    OBVIOUS
  <2>3. d * q \in Int /\ d * (n + 1) \in Int
    OBVIOUS
  <2> QED
    BY <2>1, <2>2, <2>3
<1> QED
  BY <1>1, <1>2

\* Two stamps and n periods: their scaled distance is the distance of the scaled
\* values up to one unit, and one for every period.
LEMMA DistanceRounds ==
  ASSUME NEW a \in Nat, NEW b \in Nat, NEW n \in Nat, NEW dist \in Nat,
         b - a + n * Wrap = dist
  PROVE  (ToUnits(b) - ToUnits(a) + n * ToUnits(Wrap)) - ToUnits(dist) \in -(n + 1)..n + 1
<1> DEFINE ua == ToUnits(a)
           ub == ToUnits(b)
           uw == ToUnits(Wrap)
           ud == ToUnits(dist)
           e  == ub - ua + n * uw
<1>1. ua \in Nat /\ ub \in Nat /\ uw \in Nat /\ ud \in Nat
  BY ToUnitsRounds, SizeAssumption
<1>2. PICK ra \in 0..Clock_hz - 1 : a * Scale = Clock_hz * ua + ra
  BY ToUnitsRounds
<1>3. PICK rb \in 0..Clock_hz - 1 : b * Scale = Clock_hz * ub + rb
  BY ToUnitsRounds
<1>4. PICK rw \in 0..Clock_hz - 1 : Wrap * Scale = Clock_hz * uw + rw
  BY ToUnitsRounds, SizeAssumption
<1>5. PICK rd \in 0..Clock_hz - 1 : dist * Scale = Clock_hz * ud + rd
  BY ToUnitsRounds
<1> HIDE DEF ua, ub, uw, ud
<1>6. dist * Scale = b * Scale - a * Scale + n * (Wrap * Scale)
  <2>1. dist * Scale = (b - a + n * Wrap) * Scale
    OBVIOUS
  <2>2. n * Wrap \in Nat
    BY SizeAssumption
  <2>3. (b - a + n * Wrap) * Scale = b * Scale - a * Scale + (n * Wrap) * Scale
    BY <2>2, ScaleAssumption
  <2>4. (n * Wrap) * Scale = n * (Wrap * Scale)
    BY SizeAssumption, ScaleAssumption
  <2> QED
    BY <2>1, <2>3, <2>4
<1>7. n * (Wrap * Scale) = n * (Clock_hz * uw) + n * rw
  BY <1>1, <1>4, ScaleAssumption
<1>8. n * (Clock_hz * uw) = Clock_hz * (n * uw)
  BY <1>1, ScaleAssumption
<1>9. n * rw \in Nat /\ n * rw <= n * (Clock_hz - 1)
  BY ScaleAssumption
<1>10. Clock_hz * (e - ud) = ((Clock_hz * ub - Clock_hz * ua) + Clock_hz * (n * uw)) - Clock_hz * ud
  <2>1. n * uw \in Nat
    BY <1>1
  <2> DEFINE m == n * uw
  <2> HIDE DEF m
  <2>2. Clock_hz * ((ub - ua + m) - ud) = ((Clock_hz * ub - Clock_hz * ua) + Clock_hz * m) - Clock_hz * ud
    BY <1>1, <2>1, ScaleAssumption DEF m
  <2> QED
    BY <2>2 DEF m
<1> DEFINE x == Clock_hz * (e - ud)
<1>11. x = rd + ra - rb - n * rw
  <2>1. /\ Clock_hz * ua \in Nat /\ Clock_hz * ub \in Nat /\ Clock_hz * ud \in Nat
        /\ n * uw \in Nat /\ Clock_hz * (n * uw) \in Nat
    BY <1>1, ScaleAssumption
  <2>2. Clock_hz * ud + rd = (Clock_hz * ub + rb) - (Clock_hz * ua + ra)
                               + (Clock_hz * (n * uw) + n * rw)
    BY <1>2, <1>3, <1>5, <1>6, <1>7, <1>8
  <2> DEFINE A == Clock_hz * ua
             B == Clock_hz * ub
             D == Clock_hz * ud
             M == Clock_hz * (n * uw)
             R == n * rw
  <2>3. x = ((B - A) + M) - D
    BY <1>10
  <2>4. R \in Nat /\ A \in Nat /\ B \in Nat /\ D \in Nat /\ M \in Nat
        /\ D + rd = (B + rb) - (A + ra) + (M + R)
    BY <1>9, <2>1, <2>2
  <2> HIDE DEF A, B, D, M, R, x
  <2>5. x = rd + ra - rb - R
    BY <2>3, <2>4, ScaleAssumption
  <2> QED
    BY <2>5 DEF R
<1>12. n * (Clock_hz - 1) = n * Clock_hz - n /\ Clock_hz * (n + 1) = n * Clock_hz + Clock_hz
       /\ n * Clock_hz \in Nat
  BY ScaleAssumption
<1>13. -(Clock_hz * (n + 1)) < x /\ x < 2 * Clock_hz
  <2> DEFINE R == n * rw
             N == n * Clock_hz
  <2>1. R \in Nat /\ N \in Nat /\ R <= N - n /\ x = rd + ra - rb - R
        /\ Clock_hz * (n + 1) = N + Clock_hz
    BY <1>9, <1>11, <1>12
  <2> HIDE DEF R, N, x
  <2> QED
    BY <2>1, ScaleAssumption
<1>14. e - ud \in Int
  BY <1>1
<1> HIDE DEF e
<1>15. e - ud \in -(n + 1)..n + 1
  BY <1>13, <1>14, Between, ScaleAssumption
<1> QED
  BY <1>15 DEF e, ua, ub, uw, ud
------------------------------------------------------------------------------
(* Induction *)

Less == {ss \in Nat \X Nat : ss[1] < ss[2]}

\* A set of natural numbers has a least element: the order is well founded.
LEMMA LeastElement ==
  ASSUME NEW T \in SUBSET Nat, T # {}
  PROVE  \E x \in T : \A y \in T : x <= y
<1>1. IsWellFoundedOn(Less, Nat)
  BY NatLessThanWellFounded DEF OpToRel, Less
<1>2. PICK x \in T : \A y \in T : ~(<<y, x>> \in Less)
  BY <1>1, WFMin
<1>3. ASSUME NEW y \in T PROVE x <= y
  <2>1. x \in Nat /\ y \in Nat /\ ~(<<y, x>> \in Less)
    BY <1>2
  <2>2. <<y, x>> \in Nat \X Nat /\ <<y, x>>[1] = y /\ <<y, x>>[2] = x
    BY <2>1
  <2>3. ~(y < x)
    BY <2>1, <2>2 DEF Less
  <2> QED
    BY <2>1, <2>3
<1> QED
  BY <1>3

\* Induction, for the sets of numbers that have a property.
LEMMA Induction ==
  ASSUME NEW S, 0 \in S, \A n \in Nat : n \in S => n + 1 \in S
  PROVE  Nat \subseteq S
<1> SUFFICES ASSUME Nat \ S # {} PROVE FALSE
  OBVIOUS
<1>1. PICK x \in Nat \ S : \A y \in Nat \ S : x <= y
  BY LeastElement
<1>2. x # 0 /\ x - 1 \in Nat /\ x - 1 \in S
  BY <1>1
<1> QED
  BY <1>1, <1>2
------------------------------------------------------------------------------
(* Elapsed time *)

\* Wraps is a number.
LEMMA WrapsNat ==
  ASSUME NEW evs, NEW k \in Nat, k >= 1
  PROVE  Wraps(evs, k) \in Nat
<1> DEFINE l == k + 1
<1>1. l \in Nat /\ l >= 2 /\ l - 1 = k
  OBVIOUS
<1> HIDE DEF l
<1>2. Wraps(evs, l - 1) \in Nat
  BY <1>1, WrapsStep
<1> QED
  BY <1>1, <1>2

\* From one event to the next, less than a period later.
LEMMA GapExact ==
  ASSUME NEW evs \in Seq(Event), NEW clock, Ordered(evs, clock),
         NEW k \in 2..Len(evs), evs[k].at - evs[k - 1].at < Wrap
  PROVE  \E b \in {0, 1} :
            /\ Wraps(evs, k) = Wraps(evs, k - 1) + b
            /\ (evs[k].timestamp - evs[k - 1].timestamp) + b * Wrap = evs[k].at - evs[k - 1].at
<1>1. k \in Nat /\ k >= 2 /\ k \in 1..Len(evs) /\ k - 1 \in 1..Len(evs)
  OBVIOUS
<1>2. evs[k] \in Event /\ evs[k - 1] \in Event
  BY <1>1
<1>3. /\ evs[k].timestamp = evs[k].at % Wrap /\ evs[k - 1].timestamp = evs[k - 1].at % Wrap
      /\ evs[k - 1].at <= evs[k].at
  BY <1>1 DEF Ordered
<1>4. evs[k].at \in Nat /\ evs[k - 1].at \in Nat
  BY <1>2 DEF Event
<1>5. (evs[k].timestamp - evs[k - 1].timestamp)
        + (IF evs[k].timestamp < evs[k - 1].timestamp THEN Wrap ELSE 0)
            = evs[k].at - evs[k - 1].at
  BY <1>3, <1>4, GapModulo
<1>6. /\ Wraps(evs, k - 1) \in Nat
      /\ Wraps(evs, k) = IF evs[k].timestamp < evs[k - 1].timestamp
                         THEN Wraps(evs, k - 1) + 1 ELSE Wraps(evs, k - 1)
  BY <1>1, WrapsStep
<1>7. CASE evs[k].timestamp < evs[k - 1].timestamp
  <2>1. 1 * Wrap = Wrap
    BY SizeAssumption
  <2> QED
    BY <1>5, <1>6, <1>7, <2>1
<1>8. CASE ~(evs[k].timestamp < evs[k - 1].timestamp)
  <2>1. 0 * Wrap = 0
    BY SizeAssumption
  <2> QED
    BY <1>5, <1>6, <1>8, <2>1
<1> QED
  BY <1>7, <1>8

\* From one event to a later one the stamps and the wraps between them add up to
\* the real distance, as long as no two events in between are a period apart.
LEMMA SpanExact ==
  ASSUME NEW evs \in Seq(Event), NEW clock, Ordered(evs, clock),
         NEW i \in 1..Len(evs), NEW j \in 1..Len(evs), i <= j, ShortGaps(evs, i, j)
  PROVE  /\ Wraps(evs, j) - Wraps(evs, i) \in Nat
         /\ (evs[j].timestamp - evs[i].timestamp) + (Wraps(evs, j) - Wraps(evs, i)) * Wrap
               = evs[j].at - evs[i].at
<1> DEFINE Adds(k) ==
             /\ Wraps(evs, k) - Wraps(evs, i) \in Nat
             /\ (evs[k].timestamp - evs[i].timestamp) + (Wraps(evs, k) - Wraps(evs, i)) * Wrap
                   = evs[k].at - evs[i].at
           S == {n \in Nat : i + n <= j => Adds(i + n)}
<1>1. \A k \in 1..Len(evs) : evs[k].at \in Nat /\ evs[k].timestamp \in 0..Wrap - 1
  <2>1. \A k \in 1..Len(evs) : evs[k] \in Event
    OBVIOUS
  <2> QED
    BY <2>1 DEF Event
<1>2. Wraps(evs, i) \in Nat
  BY WrapsNat
<1>3. 0 \in S
  <2>1. Wraps(evs, i) - Wraps(evs, i) = 0 /\ 0 * Wrap = 0
    BY <1>2, SizeAssumption
  <2>2. Adds(i)
    BY <1>1, <2>1
  <2> QED
    BY <2>2
<1>4. ASSUME NEW n \in Nat, n \in S PROVE n + 1 \in S
  <2> DEFINE k == i + (n + 1)
             l == i + n
  <2> SUFFICES ASSUME k <= j PROVE Adds(k)
    OBVIOUS
  <2>1. k \in 2..Len(evs) /\ l \in 1..Len(evs) /\ k - 1 = l /\ k \in i + 1..j /\ k \in 1..Len(evs)
    OBVIOUS
  <2>2. Adds(l)
    BY <1>4, <2>1
  <2> HIDE DEF k, l
  <2>3. evs[k].at - evs[l].at < Wrap
    BY <2>1 DEF ShortGaps
  <2>4. PICK b \in {0, 1} :
          /\ Wraps(evs, k) = Wraps(evs, l) + b
          /\ (evs[k].timestamp - evs[l].timestamp) + b * Wrap = evs[k].at - evs[l].at
    BY <2>1, <2>3, GapExact
  <2> DEFINE w == Wraps(evs, l) - Wraps(evs, i)
  <2>5. /\ w \in Nat
        /\ (evs[l].timestamp - evs[i].timestamp) + w * Wrap = evs[l].at - evs[i].at
    BY <2>2
  <2>6. Wraps(evs, k) - Wraps(evs, i) = w + b /\ w + b \in Nat
    <3>1. Wraps(evs, l) \in Nat
      BY <2>1, WrapsNat
    <3> QED
      BY <1>2, <2>4, <2>5, <3>1
  <2>7. (w + b) * Wrap = w * Wrap + b * Wrap /\ w * Wrap \in Nat /\ b * Wrap \in Nat
    BY <2>5, SizeAssumption
  <2>8. (evs[k].timestamp - evs[i].timestamp) + (w + b) * Wrap = evs[k].at - evs[i].at
    <3>1. /\ evs[k].timestamp \in Nat /\ evs[l].timestamp \in Nat /\ evs[i].timestamp \in Nat
          /\ evs[k].at \in Nat /\ evs[l].at \in Nat /\ evs[i].at \in Nat
      BY <1>1, <2>1, SizeAssumption
    <3> DEFINE A == w * Wrap
               B == b * Wrap
    <3>2. /\ A \in Nat /\ (evs[l].timestamp - evs[i].timestamp) + A = evs[l].at - evs[i].at
          /\ B \in Nat /\ (evs[k].timestamp - evs[l].timestamp) + B = evs[k].at - evs[l].at
      BY <2>4, <2>5, <2>7
    <3>3. (w + b) * Wrap = A + B
      BY <2>7
    <3> DEFINE x == evs[i].timestamp
               y == evs[l].timestamp
               z == evs[k].timestamp
               u == evs[i].at
               v == evs[l].at
               t == evs[k].at
    <3>4. /\ x \in Nat /\ y \in Nat /\ z \in Nat /\ u \in Nat /\ v \in Nat /\ t \in Nat
          /\ A \in Nat /\ B \in Nat /\ (y - x) + A = v - u /\ (z - y) + B = t - v
      BY <3>1, <3>2
    <3> HIDE DEF A, B, w, x, y, z, u, v, t
    <3>5. (z - x) + (A + B) = t - u
      BY <3>4
    <3> QED
      BY <3>3, <3>5 DEF x, z, t, u
  <2> QED
    BY <2>6, <2>8
<1>5. Nat \subseteq S
  <2> HIDE DEF S
  <2> QED
    BY <1>3, <1>4, Induction
<1>6. j - i \in Nat /\ i + (j - i) = j
  OBVIOUS
<1>7. Adds(j)
  <2>1. j - i \in S
    BY <1>5, <1>6
  <2> HIDE DEF Adds
  <2> QED
    BY <1>6, <2>1
<1> QED
  BY <1>7

\* Later events have later clocks.
LEMMA LaterAt ==
  ASSUME NEW evs \in Seq(Event), NEW clock, Ordered(evs, clock),
         NEW i \in 1..Len(evs), NEW j \in 1..Len(evs), i <= j
  PROVE  evs[j].at - evs[i].at \in Nat
<1> DEFINE S == {n \in Nat : i + n <= j => evs[i].at <= evs[i + n].at}
<1>1. \A k \in 1..Len(evs) : evs[k].at \in Nat
  <2>1. \A k \in 1..Len(evs) : evs[k] \in Event
    OBVIOUS
  <2> QED
    BY <2>1 DEF Event
<1>2. 0 \in S
  BY <1>1
<1>3. ASSUME NEW n \in Nat, n \in S PROVE n + 1 \in S
  <2> DEFINE k == i + (n + 1)
             l == i + n
  <2> SUFFICES ASSUME k <= j PROVE evs[i].at <= evs[k].at
    OBVIOUS
  <2>1. k \in 2..Len(evs) /\ k - 1 = l /\ l \in 1..Len(evs) /\ k \in 1..Len(evs)
    OBVIOUS
  <2>2. evs[i].at <= evs[l].at
    BY <1>3, <2>1
  <2> HIDE DEF k, l
  <2>3. evs[l].at <= evs[k].at
    BY <2>1 DEF Ordered
  <2> QED
    BY <1>1, <2>1, <2>2, <2>3
<1>4. Nat \subseteq S
  <2> HIDE DEF S
  <2> QED
    BY <1>2, <1>3, Induction
<1>5. j - i \in S /\ i + (j - i) = j
  BY <1>4
<1>6. evs[i].at <= evs[j].at
  BY <1>5
<1> QED
  BY <1>1, <1>6

\* The exported distance is the distance of the scaled stamps and the periods of
\* the wraps between them.
LEMMA ExportedDistance ==
  ASSUME NEW evs, NEW i, NEW j,
         Wraps(evs, i) \in Nat, Wraps(evs, j) \in Nat,
         evs[i].timestamp \in Nat, evs[j].timestamp \in Nat
  PROVE  cyc_to_time(evs, j) - cyc_to_time(evs, i) =
           (ToUnits(evs[j].timestamp) - ToUnits(evs[i].timestamp))
             + (Wraps(evs, j) - Wraps(evs, i)) * ToUnits(Wrap)
<1> DEFINE ui == ToUnits(evs[i].timestamp)
           uj == ToUnits(evs[j].timestamp)
           u  == ToUnits(Wrap)
           wi == Wraps(evs, i)
           wj == Wraps(evs, j)
<1>1. ui \in Nat /\ uj \in Nat /\ u \in Nat /\ wi \in Nat /\ wj \in Nat
  BY ToUnitsRounds, SizeAssumption
<1>2. cyc_to_time(evs, j) = uj + wj * u /\ cyc_to_time(evs, i) = ui + wi * u
  BY DEF cyc_to_time
<1> HIDE DEF ui, uj, u, wi, wj
<1>3. (wj - wi) * u = wj * u - wi * u /\ wj * u \in Nat /\ wi * u \in Nat
  BY <1>1
<1>4. cyc_to_time(evs, j) - cyc_to_time(evs, i) = (uj - ui) + (wj - wi) * u
  BY <1>1, <1>2, <1>3
<1> QED
  BY <1>4 DEF ui, uj, u, wi, wj

\* The exported distance of two events is the real one, but for the rounding of
\* one unit and of one more for every wrap between them: for every counter period,
\* clock and output unit, and however long the capture runs.
THEOREM ElapsedFaithfulHolds == Spec => []ElapsedFaithful
<1>1. StampInv => ElapsedFaithful
  <2> SUFFICES ASSUME StampInv, NEW i \in DOMAIN Retained, NEW j \in DOMAIN Retained,
                      i < j, ShortGaps(Retained, i, j)
               PROVE  LET exported == cyc_to_time(Retained, j) - cyc_to_time(Retained, i)
                          real     == ToUnits(Retained[j].at - Retained[i].at)
                          slack    == 1 + Wraps(Retained, j) - Wraps(Retained, i)
                      IN  exported \in real - slack .. real + slack
    BY DEF ElapsedFaithful
  <2> DEFINE evs == Retained
             a == evs[i].timestamp
             b == evs[j].timestamp
             dist == evs[j].at - evs[i].at
             n == Wraps(evs, j) - Wraps(evs, i)
             exported == cyc_to_time(evs, j) - cyc_to_time(evs, i)
  <2>1. evs \in Seq(Event) /\ Ordered(evs, mtime)
    BY RetainedShape DEF StampInv
  <2> HIDE DEF evs, Retained
  <2>2. i \in 1..Len(evs) /\ j \in 1..Len(evs) /\ i <= j
    BY <2>1 DEF evs
  <2>3. n \in Nat /\ (b - a) + n * Wrap = dist
    BY <2>1, <2>2, SpanExact DEF evs
  <2>4. dist \in Nat
    BY <2>1, <2>2, LaterAt
  <2>5. a \in Nat /\ b \in Nat
    <3>1. evs[i] \in Event /\ evs[j] \in Event
      BY <2>1, <2>2
    <3> QED
      BY <3>1, SizeAssumption DEF Event
  <2>6. Wraps(evs, i) \in Nat /\ Wraps(evs, j) \in Nat
    BY <2>2, WrapsNat
  <2>7. exported = (ToUnits(b) - ToUnits(a)) + n * ToUnits(Wrap)
    BY <2>5, <2>6, ExportedDistance
  <2>8. exported - ToUnits(dist) \in -(n + 1)..n + 1
    <3> HIDE DEF n, a, b, dist, exported
    <3> QED
      BY <2>3, <2>4, <2>5, <2>7, DistanceRounds
  <2>9. ToUnits(dist) \in Nat /\ exported \in Int
    <3>1. ToUnits(dist) \in Nat /\ ToUnits(a) \in Nat /\ ToUnits(b) \in Nat /\ ToUnits(Wrap) \in Nat
      BY <2>4, <2>5, ToUnitsRounds, SizeAssumption
    <3> HIDE DEF n, a, b, dist, exported
    <3> QED
      BY <2>3, <2>7, <3>1
  <2>10. exported \in ToUnits(dist) - (1 + n) .. ToUnits(dist) + (1 + n)
    <3> HIDE DEF n, dist, exported
    <3> QED
      BY <2>3, <2>8, <2>9
  <2>11. 1 + n = 1 + Wraps(evs, j) - Wraps(evs, i)
    BY <2>6
  <2> QED
    BY <2>10, <2>11 DEF evs
<1> QED
  BY <1>1, InitStamps, StepStamps, PTL DEF Spec
------------------------------------------------------------------------------
(***************************************************************************)
(* The tables beside the ring, and that trace.bin is the last word on a    *)
(* capture.                                                                *)
(***************************************************************************)

\* An event that is not a creation is recorded.
PlainStep ==
    \E e \in Event :
        /\ e.event # "TASK_CREATE"
        /\ PutEvent(e, header.task_count)
        /\ UNCHANGED <<task_lists, trace_task_table_overflow>>

\* A creation is recorded: it finds its slot, or raises the flag.
CreateStep ==
    \E e \in Event :
        /\ e.event = "TASK_CREATE" /\ e.param1 > 0
        /\ \/ /\ OutOfTable(e.param1)
              /\ PutEvent(e, header.task_count)
              /\ trace_task_table_overflow' = TRUE
              /\ UNCHANGED task_lists
           \/ /\ ~OutOfTable(e.param1)
              /\ PutEvent(e, header.task_count + 1)
              /\ task_lists' = [task_lists EXCEPT ![e.param1] = e.param1]
              /\ UNCHANGED trace_task_table_overflow

\* Nothing the exporters read changes.
SilentStep == UNCHANGED <<ram, trace_task_table_overflow, recorded>>

\* What a hook may do: record while capturing, or nothing; the file and the
\* session are not its business.
HookStep ==
    /\ UNCHANGED <<trace_en, file, session, saved>>
    /\ (trace_en /\ PlainStep) \/ (trace_en /\ CreateStep) \/ SilentStep

\* One call of btf_trace_add_event with a kind other than a creation.
LEMMA PlainHook ==
  ASSUME TypeOK, NEW p1 \in Nat, NEW p2 \in Nat, NEW kind \in EventKinds,
         kind # "TASK_CREATE", NEW c \in Cores,
         btf_trace_add_event(p1, p2, kind, c), HookFrame
  PROVE  HookStep
<1> DEFINE e == Stamped(p1, p2, kind, c)
<1>1. e \in Event /\ e.event = kind
  BY StampedIsEvent DEF TypeOK, Stamped
<1>2. CASE trace_en
  <2>1. PutEvent(e, header.task_count)
        /\ UNCHANGED <<task_lists, trace_task_table_overflow>>
    BY <1>2 DEF btf_trace_add_event
  <2> HIDE DEF e
  <2> QED
    BY <1>1, <1>2, <2>1 DEF HookStep, PlainStep, HookFrame
<1>3. CASE ~trace_en
  BY <1>3 DEF btf_trace_add_event, NoRecord, HookStep, SilentStep, HookFrame
<1> QED
  BY <1>2, <1>3 DEF TypeOK

\* The call of btf_trace_add_task for a new task.
LEMMA CreateHook ==
  ASSUME TypeOK, NEW id \in Nat, id > 0, NEW p \in Nat, NEW c \in Cores,
         btf_trace_add_task(id, p, c), HookFrame
  PROVE  HookStep
<1> DEFINE e == Stamped(id, p, "TASK_CREATE", c)
<1>1. e \in Event /\ e.event = "TASK_CREATE" /\ e.param1 = id
  BY StampedIsEvent DEF TypeOK, Stamped, EventKinds
<1>2. CASE trace_en /\ OutOfTable(id)
  <2>1. /\ PutEvent(e, header.task_count)
        /\ trace_task_table_overflow' = TRUE
        /\ UNCHANGED task_lists
    BY <1>2 DEF btf_trace_add_task
  <2> HIDE DEF e
  <2> QED
    BY <1>1, <1>2, <2>1 DEF HookStep, CreateStep, HookFrame
<1>3. CASE trace_en /\ ~OutOfTable(id)
  <2>1. /\ PutEvent(e, header.task_count + 1)
        /\ task_lists' = [task_lists EXCEPT ![id] = id]
        /\ UNCHANGED trace_task_table_overflow
    BY <1>3 DEF btf_trace_add_task
  <2> HIDE DEF e
  <2> QED
    BY <1>1, <1>3, <2>1 DEF HookStep, CreateStep, HookFrame
<1>4. CASE ~trace_en
  BY <1>4 DEF btf_trace_add_task, NoRecord, HookStep, SilentStep, HookFrame
<1> QED
  BY <1>2, <1>3, <1>4 DEF TypeOK

\* No hook but traceTASK_CREATE records a creation.
LEMMA CreationHasOneHook ==
  /\ TaskHooks \subseteq EventKinds \ {"TASK_CREATE"}
  /\ QueueHooks \subseteq EventKinds \ {"TASK_CREATE"}
  /\ IntervalKinds \subseteq EventKinds \ {"TASK_CREATE"}
  /\ \A t \in Nat : TagKinds[(t % 8) + 1] \in EventKinds \ {"TASK_CREATE"}
<1>1. "TASK_CREATE" \notin PlainTaskKinds \cup ValuedTaskKinds
  BY DEF PlainTaskKinds, ValuedTaskKinds
<1>2. "TASK_CREATE" \notin QueueKinds \cup IntervalKinds
  BY DEF QueueKinds, IntervalKinds
<1>3. \A i \in 1..8 : TagKinds[i] # "TASK_CREATE"
  BY DEF TagKinds
<1>4. \A t \in Nat : (t % 8) + 1 \in 1..8
  OBVIOUS
<1> QED
  BY <1>1, <1>2, <1>3, <1>4, KindsAreEvents, HookAssumption

\* A step of the recorder begins a capture, ends one, or is a hook's.
LEMMA EveryHook ==
  ASSUME TypeOK, [Next]_vars
  PROVE  traceSTART \/ traceEND \/ HookStep
<1> USE CreationHasOneHook, ArgumentAssumption
<1>1. CASE Clock
  BY <1>1 DEF Clock, HookStep, SilentStep, flags
<1>2. CASE UNCHANGED vars
  BY <1>2 DEF vars, HookStep, SilentStep, flags
<1>3. ASSUME NEW c \in Cores, traceTASK_CREATE(c) PROVE HookStep
  <2>1. PICK p \in Priorities : btf_trace_add_task(created + 1, p, c)
    BY <1>3 DEF traceTASK_CREATE
  <2>2. created + 1 \in Nat /\ created + 1 > 0
    BY SizeAssumption DEF TypeOK
  <2>3. HookFrame
    BY <1>3 DEF traceTASK_CREATE
  <2> QED
    BY <2>1, <2>2, <2>3, CreateHook
<1>4. ASSUME NEW c \in Cores, TaskHook(c) PROVE HookStep
  <2>1. PICK t \in 1..created, kind \in TaskHooks :
          \E p \in IF kind \in ValuedTaskKinds THEN Priorities ELSE {0} :
            btf_trace_add_event(t, p, kind, c)
    BY <1>4 DEF TaskHook
  <2>2. PICK p \in Nat : btf_trace_add_event(t, p, kind, c)
    BY <2>1
  <2>3. t \in Nat /\ kind \in EventKinds \ {"TASK_CREATE"} /\ HookFrame
    BY <1>4 DEF TypeOK, TaskHook
  <2> QED
    BY <2>2, <2>3, PlainHook
<1>5. ASSUME NEW c \in Cores, QueueHook(c) PROVE HookStep
  <2>1. PICK q \in Queues, type \in QueueTypes, kind \in QueueHooks :
          btf_trace_add_event(type, q, kind, c)
    BY <1>5 DEF QueueHook
  <2>2. HookFrame
    BY <1>5 DEF QueueHook
  <2> QED
    BY <2>1, <2>2, PlainHook
<1>6. ASSUME NEW c \in Cores, traceTAG(c) PROVE HookStep
  <2>1. PICK t \in TagChannels, v \in TagValues :
          btf_trace_add_event(v, 0, TagKinds[(t % 8) + 1], c)
    BY <1>6 DEF traceTAG
  <2>2. HookFrame
    BY <1>6 DEF traceTAG
  <2> QED
    BY <2>1, <2>2, PlainHook
<1>7. ASSUME NEW c \in Cores, traceINTERVAL(c) PROVE HookStep
  <2>1. PICK id \in IntervalIds, kind \in IntervalKinds, h \in 0..created :
          btf_trace_add_event(id, btf_trace_current_task_id(h), kind, c)
    BY <1>7 DEF traceINTERVAL
  <2>2. btf_trace_current_task_id(h) \in Nat
    BY SizeAssumption DEF btf_trace_current_task_id, TypeOK
  <2>3. HookFrame
    BY <1>7 DEF traceINTERVAL
  <2> QED
    BY <2>1, <2>2, <2>3, PlainHook
<1>8. ASSUME NEW c \in Cores, TickTest(c) PROVE HookStep
  BY <1>8 DEF TickTest, HookStep, SilentStep, flags
<1>9. ASSUME NEW c \in Cores, TickRecord(c) PROVE HookStep
  BY <1>9, PlainHook DEF TickRecord, EventKinds
<1> QED
  BY <1>1, <1>2, <1>3, <1>4, <1>5, <1>6, <1>7, <1>8, <1>9 DEF Next
------------------------------------------------------------------------------
\* The file holds the image of an earlier session while one is captured.
FinalInv ==
    /\ saved <= session
    /\ trace_en => saved < session
    /\ DumpIsFinal

\* A dump is final step by step: traceSTART opens a newer session, traceEND
\* writes the image it has or none, and a hook that comes late records nothing.
LEMMA StepFinal ==
  ASSUME TypeOK, FinalInv, [Next]_vars
  PROVE  FinalInv'
<1>0. trace_en \in BOOLEAN /\ saved \in Nat /\ session \in Nat
  BY DEF TypeOK
<1>1. CASE traceSTART
  <2>1. trace_en' = TRUE /\ session' = session + 1 /\ saved' = saved
    BY <1>1 DEF traceSTART, btf_traceSTART
  <2> QED
    BY <1>0, <2>1 DEF FinalInv, DumpIsFinal
<1>2. CASE traceEND
  <2>1. /\ trace_en' = FALSE /\ session' = session
        /\ Image' = Image /\ DumpFile
    BY <1>2 DEF traceEND, btf_traceEND, ram, Image
  <2>2. CASE UNCHANGED <<file, saved>>
    <3>1. CASE trace_en
      BY <1>0, <2>1, <2>2, <3>1 DEF FinalInv, DumpIsFinal
    <3>2. CASE ~trace_en
      <4> HIDE DEF Image
      <4> QED
        BY <1>0, <2>1, <2>2, <3>2 DEF FinalInv, DumpIsFinal
    <3> QED
      BY <3>1, <3>2
  <2>3. CASE saved' = 0
    BY <1>0, <2>1, <2>3 DEF FinalInv, DumpIsFinal
  <2>4. CASE file' = [complete |-> TRUE, image |-> Image] /\ saved' = session
    <3> HIDE DEF Image
    <3> QED
      BY <1>0, <2>1, <2>4 DEF FinalInv, DumpIsFinal
  <2> QED
    BY <2>1, <2>2, <2>3, <2>4 DEF DumpFile
<1>3. CASE HookStep
  <2>1. UNCHANGED <<trace_en, file, session, saved>>
    BY <1>3 DEF HookStep
  <2>2. CASE trace_en
    BY <1>0, <2>1, <2>2 DEF FinalInv, DumpIsFinal
  <2>3. CASE ~trace_en
    <3>1. Image' = Image
      BY <1>3, <2>3 DEF HookStep, SilentStep, ram, Image
    <3> HIDE DEF Image
    <3> QED
      BY <2>1, <3>1 DEF FinalInv, DumpIsFinal
  <2> QED
    BY <1>0, <2>2, <2>3
<1> QED
  BY <1>1, <1>2, <1>3, EveryHook

\* A trace.bin written whole stays equal to the RAM image until the next
\* traceSTART, whatever hooks were on their way when the capture ended.
THEOREM DumpIsFinalHolds == Spec => []DumpIsFinal
<1>1. Init => TypeOK /\ FinalInv
  BY InitTypeOK DEF Init, FinalInv, DumpIsFinal
<1>2. TypeOK /\ FinalInv /\ [Next]_vars => TypeOK' /\ FinalInv'
  BY StepTypeOK, StepFinal
<1>3. FinalInv => DumpIsFinal
  BY DEF FinalInv
<1> QED
  BY <1>1, <1>2, <1>3, PTL DEF Spec
------------------------------------------------------------------------------
\* Every retained creation has a task number and is accounted for.
NamedInv ==
    /\ CreationNamed
    /\ \A k \in DOMAIN Retained :
         Retained[k].event = "TASK_CREATE" => Retained[k].param1 > 0

\* One creation is accounted for.
Accounted(e, names, flag) ==
    e.event = "TASK_CREATE" =>
        /\ e.param1 > 0
        /\ IF OutOfTable(e.param1) THEN flag ELSE names[e.param1] = e.param1

\* NamedInv says it of each retained event.
LEMMA NamedInvEach ==
  /\ NamedInv <=> \A k \in DOMAIN Retained :
        Accounted(Retained[k], task_lists, trace_task_table_overflow)
  /\ NamedInv' <=> \A k \in DOMAIN Retained' :
        Accounted(Retained'[k], task_lists', trace_task_table_overflow')
<1> HIDE DEF Retained
<1> QED
  BY DEF NamedInv, CreationNamed, Accounted

\* A window holds only events of the window before it and the new one.
LEMMA NothingElseRetained ==
  ASSUME RingInv, RingInv', NEW e \in Event, NEW n \in Nat, PutEvent(e, n),
         NEW k \in DOMAIN Retained'
  PROVE  Retained'[k] = e \/ \E j \in DOMAIN Retained : Retained'[k] = Retained[j]
<1> DEFINE len == Len(Retained)
<1>1. /\ Retained \in Seq(Event) /\ Retained' \in Seq(Event)
      /\ len \in Nat /\ len = header.event_count
  BY RetainedShape, RetainedShapeNext, LenProperties
<1>2. CASE header.event_count < MaxEvents
  <2>1. Retained' = Append(Retained, e)
    BY <1>2, RecordingRetains
  <2> QED
    BY <1>1, <2>1, AppendProperties
<1>3. CASE ~(header.event_count < MaxEvents)
  <2>1. Retained' = Append(Tail(Retained), e)
    BY <1>3, RecordingRetains
  <2>2. Retained # << >>
    <3>1. header.event_count = MaxEvents
      BY <1>3, SizeAssumption DEF RingInv, TypeOK
    <3> QED
      BY <1>1, <3>1, SizeAssumption, EmptySeq
  <2>3. /\ Tail(Retained) \in Seq(Event) /\ Len(Tail(Retained)) = len - 1
        /\ \A j \in 1..len - 1 : Tail(Retained)[j] = Retained[j + 1]
    BY <1>1, <2>2, HeadTailProperties
  <2>4. /\ DOMAIN Retained' = 1..len
        /\ Retained'[len] = e
        /\ \A j \in 1..len - 1 : Retained'[j] = Tail(Retained)[j]
    <3>1. len > 0
      BY <1>1, <2>2, EmptySeq
    <3> QED
      BY <1>1, <2>1, <2>3, <3>1, AppendProperties, LenProperties
  <2>5. DOMAIN Retained = 1..len
    BY <1>1, LenProperties
  <2>6. CASE k = len
    BY <2>4, <2>6
  <2>7. CASE k # len
    <3>1. k \in 1..len - 1 /\ k + 1 \in DOMAIN Retained
      BY <1>1, <2>4, <2>5, <2>7
    <3> QED
      BY <2>3, <2>4, <3>1
  <2> QED
    BY <2>6, <2>7
<1> QED
  BY <1>2, <1>3

\* The initial window is empty, and so is the window of a new session.
LEMMA NoEventsNoWindow ==
  /\ RingInv /\ header.event_count = 0 => Retained = << >>
  /\ RingInv' /\ header'.event_count = 0 => Retained' = << >>
BY RetainedShape, RetainedShapeNext, EmptySeq

\* A step that leaves the ring alone leaves the window alone.
LEMMA SameWindow == ASSUME UNCHANGED ram PROVE Retained' = Retained
BY DEF ram, Retained, Image, Replay, ReplaySlot, ReplayStart

\* Every retained creation stays accounted for: names are only added while the
\* window lasts, and the flag is cleared only together with it.
LEMMA StepNamed ==
  ASSUME RingInv, NamedInv, [Next]_vars
  PROVE  NamedInv'
<1>0. TypeOK /\ RingInv'
  BY StepRingInv DEF RingInv
<1> SUFFICES ASSUME NEW k \in DOMAIN Retained'
             PROVE  Accounted(Retained'[k], task_lists', trace_task_table_overflow')
  BY NamedInvEach
<1>1. \A j \in DOMAIN Retained :
        Accounted(Retained[j], task_lists, trace_task_table_overflow)
  BY NamedInvEach
<1>2. CASE traceSTART
  <2>1. header'.event_count = 0
    BY <1>2 DEF traceSTART, btf_traceSTART
  <2>2. Retained' = << >>
    BY <1>0, <2>1, NoEventsNoWindow
  <2> QED
    BY <2>2
<1>3. CASE traceEND
  <2>1. UNCHANGED <<ram, trace_task_table_overflow>>
    BY <1>3 DEF traceEND, btf_traceEND
  <2>2. Retained' = Retained /\ task_lists' = task_lists
    BY <2>1, SameWindow DEF ram
  <2> QED
    BY <1>1, <2>1, <2>2
<1>4. CASE SilentStep
  <2>1. Retained' = Retained /\ task_lists' = task_lists
    BY <1>4, SameWindow DEF SilentStep, ram
  <2> QED
    BY <1>1, <1>4, <2>1 DEF SilentStep
<1>5. CASE PlainStep
  <2>1. PICK e \in Event :
          /\ e.event # "TASK_CREATE"
          /\ PutEvent(e, header.task_count)
          /\ UNCHANGED <<task_lists, trace_task_table_overflow>>
    BY <1>5 DEF PlainStep
  <2>2. header.task_count \in Nat
    BY <1>0 DEF TypeOK
  <2>3. Retained'[k] = e \/ \E j \in DOMAIN Retained : Retained'[k] = Retained[j]
    BY <1>0, <2>1, <2>2, NothingElseRetained
  <2> QED
    BY <1>1, <2>1, <2>3 DEF Accounted
<1>6. CASE CreateStep
  <2>1. PICK e \in Event :
          /\ e.event = "TASK_CREATE" /\ e.param1 > 0
          /\ \/ /\ OutOfTable(e.param1)
                /\ PutEvent(e, header.task_count)
                /\ trace_task_table_overflow' = TRUE
                /\ UNCHANGED task_lists
             \/ /\ ~OutOfTable(e.param1)
                /\ PutEvent(e, header.task_count + 1)
                /\ task_lists' = [task_lists EXCEPT ![e.param1] = e.param1]
                /\ UNCHANGED trace_task_table_overflow
    BY <1>6 DEF CreateStep
  <2>2. header.task_count \in Nat /\ header.task_count + 1 \in Nat
    BY <1>0 DEF TypeOK
  <2>3. Retained'[k] = e \/ \E j \in DOMAIN Retained : Retained'[k] = Retained[j]
    BY <1>0, <2>1, <2>2, NothingElseRetained
  <2>4. /\ task_lists \in [0..MaxTasks - 1 -> Nat]
        /\ e.param1 \in Nat
    BY <1>0 DEF TypeOK, Event
  <2>5. CASE OutOfTable(e.param1)
    BY <1>1, <2>1, <2>3, <2>5 DEF Accounted
  <2>6. CASE ~OutOfTable(e.param1)
    <3>1. e.param1 \in 0..MaxTasks - 1
      BY <2>4, <2>6, SizeAssumption DEF OutOfTable
    <3>2. /\ task_lists'[e.param1] = e.param1
          /\ \A id : task_lists[id] = id /\ id \in 0..MaxTasks - 1
                       => task_lists'[id] = id
      BY <2>1, <2>4, <2>6, <3>1
    <3>3. \A id \in Nat : ~OutOfTable(id) => id \in 0..MaxTasks - 1
      BY SizeAssumption DEF OutOfTable
    <3>4. CASE Retained'[k] = e
      BY <2>1, <2>6, <3>2, <3>4 DEF Accounted
    <3>5. CASE \E j \in DOMAIN Retained : Retained'[k] = Retained[j]
      <4>1. PICK j \in DOMAIN Retained : Retained'[k] = Retained[j]
        BY <3>5
      <4>2. Retained[j] \in Event
        BY <1>0, <4>1, RetainedShape, ElementOfSeq, LenProperties
      <4>3. Retained[j].param1 \in Nat
        BY <4>2 DEF Event
      <4> QED
        BY <1>1, <2>1, <2>6, <3>2, <3>3, <4>1, <4>3 DEF Accounted
    <3> QED
      BY <2>3, <3>4, <3>5
  <2> QED
    BY <2>5, <2>6
<1> QED
  BY <1>0, <1>2, <1>3, <1>4, <1>5, <1>6, EveryHook DEF HookStep

\* Both invariants start true and stay so.
LEMMA AlwaysNamed == Spec => [](RingInv /\ NamedInv)
<1>1. Init => RingInv /\ NamedInv
  <2> SUFFICES ASSUME Init PROVE RingInv /\ NamedInv
    OBVIOUS
  <2>1. RingInv /\ header.event_count = 0
    BY InitRingInv DEF Init
  <2>2. Retained = << >>
    BY <2>1, NoEventsNoWindow
  <2> QED
    BY <2>1, <2>2, NamedInvEach
<1>2. RingInv /\ NamedInv /\ [Next]_vars => RingInv' /\ NamedInv'
  BY StepRingInv, StepNamed
<1> QED
  BY <1>1, <1>2, PTL DEF Spec

\* A task whose creation is retained is named in its slot, or its number has no
\* slot and the overflow flag of the running recorder says so.
THEOREM CreationNamedHolds == Spec => []CreationNamed
<1>1. NamedInv => CreationNamed
  BY DEF NamedInv
<1> QED
  BY <1>1, AlwaysNamed, PTL
------------------------------------------------------------------------------
\* The positions of the creations in a window, with and without a slot.
SlottedAt(evs) ==
    {k \in DOMAIN evs :
        evs[k].event = "TASK_CREATE" /\ ~OutOfTable(evs[k].param1)}
UnslottedAt(evs) ==
    {k \in DOMAIN evs :
        evs[k].event = "TASK_CREATE" /\ OutOfTable(evs[k].param1)}

\* While no event is lost, the header counts the creations with a slot, and the
\* flag says whether there are any without.
Summary ==
    recorded = header.event_count =>
        /\ header.task_count = Cardinality(SlottedAt(Retained))
        /\ trace_task_table_overflow = (UnslottedAt(Retained) # {})

\* Now and after a step.
LEMMA SummaryParts ==
  /\ Summary <=>
       (recorded = header.event_count =>
          /\ header.task_count = Cardinality(SlottedAt(Retained))
          /\ trace_task_table_overflow = (UnslottedAt(Retained) # {}))
  /\ Summary' <=>
       (recorded' = header'.event_count =>
          /\ header'.task_count = Cardinality(SlottedAt(Retained'))
          /\ trace_task_table_overflow' = (UnslottedAt(Retained') # {}))
<1> HIDE DEF Retained
<1> QED
  BY DEF Summary, SlottedAt, UnslottedAt

\* An event appended adds its own position, or none.
LEMMA AppendCreation ==
  ASSUME NEW evs \in Seq(Event), NEW e \in Event
  PROVE  LET new == Len(evs) + 1
             creates == e.event = "TASK_CREATE"
         IN
         /\ SlottedAt(Append(evs, e)) = SlottedAt(evs) \cup
              (IF creates /\ ~OutOfTable(e.param1) THEN {new} ELSE {})
         /\ UnslottedAt(Append(evs, e)) = UnslottedAt(evs) \cup
              (IF creates /\ OutOfTable(e.param1) THEN {new} ELSE {})
         /\ new \notin SlottedAt(evs)
         /\ IsFiniteSet(SlottedAt(evs))
<1> DEFINE new == Len(evs) + 1
<1>1. /\ DOMAIN evs = 1..Len(evs) /\ Len(evs) \in Nat
      /\ DOMAIN Append(evs, e) = 1..new
      /\ \A k \in 1..Len(evs) : Append(evs, e)[k] = evs[k]
      /\ Append(evs, e)[new] = e
  BY AppendProperties, LenProperties
<1>2. 1..new = DOMAIN evs \cup {new} /\ new \notin DOMAIN evs
  BY <1>1
<1>3. IsFiniteSet(SlottedAt(evs))
  <2>1. IsFiniteSet(1..Len(evs))
    BY <1>1, FS_Interval
  <2>2. SlottedAt(evs) \subseteq 1..Len(evs)
    BY <1>1 DEF SlottedAt
  <2> QED
    BY <2>1, <2>2, FS_Subset
<1> DEFINE longer == Append(evs, e)
<1> HIDE DEF new, longer
<1>4. /\ DOMAIN longer = DOMAIN evs \cup {new} /\ new \notin DOMAIN evs
      /\ \A k \in DOMAIN evs : longer[k] = evs[k]
      /\ longer[new] = e
  BY <1>1, <1>2 DEF longer
<1>5. /\ SlottedAt(longer) = SlottedAt(evs) \cup
           (IF e.event = "TASK_CREATE" /\ ~OutOfTable(e.param1)
            THEN {new} ELSE {})
      /\ UnslottedAt(longer) = UnslottedAt(evs) \cup
           (IF e.event = "TASK_CREATE" /\ OutOfTable(e.param1)
            THEN {new} ELSE {})
      /\ new \notin SlottedAt(evs)
  BY <1>4 DEF SlottedAt, UnslottedAt
<1> QED
  BY <1>3, <1>5 DEF new, longer

\* A recording after which nothing is lost found room: the event is appended.
LEMMA LosslessAppends ==
  ASSUME RingInv, RingInv', NEW e \in Event, NEW n \in Nat, PutEvent(e, n),
         recorded' = header'.event_count
  PROVE  /\ recorded = header.event_count
         /\ Retained' = Append(Retained, e)
         /\ Retained \in Seq(Event)
         /\ header'.task_count = n
<1>1. /\ header'.event_count = IF header.event_count < MaxEvents
                               THEN header.event_count + 1 ELSE MaxEvents
      /\ header.event_count \in 0..MaxEvents
      /\ recorded \in Nat /\ recorded' = recorded + 1
  BY PutEventFields DEF RingInv
<1>2. recorded >= header.event_count
  BY DEF RingInv
<1>3. recorded = header.event_count /\ header.event_count < MaxEvents
  BY <1>1, <1>2, SizeAssumption
<1>4. Retained' = Append(Retained, e)
  BY <1>3, RecordingRetains
<1>5. header'.task_count = n
  <2>1. DOMAIN header =
          {"magic", "task_count", "event_count", "current_index"}
    BY DEF RingInv, TypeOK
  <2> QED
    BY <2>1 DEF PutEvent
<1> QED
  BY <1>3, <1>4, <1>5, RetainedShape

\* Nothing has to be undone: while no event is lost, each creation counts or
\* raises the flag in the step that retains it.
LEMMA StepSummary ==
  ASSUME RingInv, Summary, [Next]_vars
  PROVE  Summary'
<1>0. TypeOK /\ RingInv'
  BY StepRingInv DEF RingInv
<1> SUFFICES ASSUME recorded' = header'.event_count
             PROVE  /\ header'.task_count = Cardinality(SlottedAt(Retained'))
                    /\ trace_task_table_overflow' = (UnslottedAt(Retained') # {})
  BY SummaryParts
<1>1. recorded = header.event_count =>
        /\ header.task_count = Cardinality(SlottedAt(Retained))
        /\ trace_task_table_overflow = (UnslottedAt(Retained) # {})
  BY SummaryParts
<1>2. CASE traceSTART
  <2>1. /\ header'.event_count = 0 /\ header'.task_count = 0
        /\ trace_task_table_overflow' = FALSE
    BY <1>2 DEF traceSTART, btf_traceSTART
  <2>2. Retained' = << >>
    BY <1>0, <2>1, NoEventsNoWindow
  <2>3. SlottedAt(<< >>) = {} /\ UnslottedAt(<< >>) = {}
    BY DEF SlottedAt, UnslottedAt
  <2> QED
    BY <2>1, <2>2, <2>3, FS_EmptySet
<1>3. CASE traceEND
  <2>1. /\ UNCHANGED <<ram, trace_task_table_overflow, recorded>>
    BY <1>3 DEF traceEND, btf_traceEND
  <2>2. Retained' = Retained /\ header' = header
    BY <2>1, SameWindow DEF ram
  <2> QED
    BY <1>1, <2>1, <2>2
<1>4. CASE SilentStep
  <2>1. Retained' = Retained /\ header' = header
    BY <1>4, SameWindow DEF SilentStep, ram
  <2> QED
    BY <1>1, <1>4, <2>1 DEF SilentStep
<1>5. CASE PlainStep
  <2>1. PICK e \in Event :
          /\ e.event # "TASK_CREATE"
          /\ PutEvent(e, header.task_count)
          /\ UNCHANGED <<task_lists, trace_task_table_overflow>>
    BY <1>5 DEF PlainStep
  <2>2. header.task_count \in Nat
    BY <1>0 DEF TypeOK
  <2>3. /\ recorded = header.event_count
        /\ Retained' = Append(Retained, e)
        /\ Retained \in Seq(Event)
        /\ header'.task_count = header.task_count
    BY <1>0, <2>1, <2>2, LosslessAppends
  <2>4. /\ SlottedAt(Retained') = SlottedAt(Retained)
        /\ UnslottedAt(Retained') = UnslottedAt(Retained)
    BY <2>1, <2>3, AppendCreation
  <2> QED
    BY <1>1, <2>1, <2>3, <2>4
<1>6. CASE CreateStep
  <2>1. PICK e \in Event :
          /\ e.event = "TASK_CREATE" /\ e.param1 > 0
          /\ \/ /\ OutOfTable(e.param1)
                /\ PutEvent(e, header.task_count)
                /\ trace_task_table_overflow' = TRUE
                /\ UNCHANGED task_lists
             \/ /\ ~OutOfTable(e.param1)
                /\ PutEvent(e, header.task_count + 1)
                /\ task_lists' = [task_lists EXCEPT ![e.param1] = e.param1]
                /\ UNCHANGED trace_task_table_overflow
    BY <1>6 DEF CreateStep
  <2>2. header.task_count \in Nat /\ header.task_count + 1 \in Nat
    BY <1>0 DEF TypeOK
  <2>3. CASE OutOfTable(e.param1)
    <3>1. /\ recorded = header.event_count
          /\ Retained' = Append(Retained, e)
          /\ Retained \in Seq(Event)
          /\ header'.task_count = header.task_count
      BY <1>0, <2>1, <2>2, <2>3, LosslessAppends
    <3>2. /\ SlottedAt(Retained') = SlottedAt(Retained)
          /\ UnslottedAt(Retained') # {}
      BY <2>1, <2>3, <3>1, AppendCreation
    <3> QED
      BY <1>1, <2>1, <2>3, <3>1, <3>2
  <2>4. CASE ~OutOfTable(e.param1)
    <3>1. /\ recorded = header.event_count
          /\ Retained' = Append(Retained, e)
          /\ Retained \in Seq(Event)
          /\ header'.task_count = header.task_count + 1
      BY <1>0, <2>1, <2>2, <2>4, LosslessAppends
    <3>2. /\ SlottedAt(Retained') = SlottedAt(Retained) \cup {Len(Retained) + 1}
          /\ Len(Retained) + 1 \notin SlottedAt(Retained)
          /\ IsFiniteSet(SlottedAt(Retained))
          /\ UnslottedAt(Retained') = UnslottedAt(Retained)
      BY <2>1, <2>4, <3>1, AppendCreation
    <3>3. Cardinality(SlottedAt(Retained')) = Cardinality(SlottedAt(Retained)) + 1
      BY <3>2, FS_AddElement
    <3> QED
      BY <1>1, <2>1, <2>4, <3>1, <3>2, <3>3
  <2> QED
    BY <2>3, <2>4
<1> QED
  BY <1>0, <1>2, <1>3, <1>4, <1>5, <1>6, EveryHook DEF HookStep

\* It holds of the empty window.
LEMMA InitSummary == Init => Summary
<1> SUFFICES ASSUME Init PROVE Summary
  OBVIOUS
<1>1. /\ RingInv /\ header.event_count = 0 /\ header.task_count = 0
      /\ trace_task_table_overflow = FALSE
  BY InitRingInv DEF Init
<1>2. Retained = << >>
  BY <1>1, NoEventsNoWindow
<1>3. SlottedAt(<< >>) = {} /\ UnslottedAt(<< >>) = {}
  BY DEF SlottedAt, UnslottedAt
<1> QED
  BY <1>1, <1>2, <1>3, FS_EmptySet, SummaryParts

\* It is an invariant together with the two above.
LEMMA AlwaysSummary ==
  Spec => [](RingInv /\ NamedInv /\ Summary)
<1>1. RingInv /\ Summary /\ [Next]_vars => Summary'
  BY StepSummary
<1> QED
  BY <1>1, InitSummary, AlwaysNamed, PTL DEF Spec

\* While nothing is lost, task_count is the number of retained creations that
\* have a name slot: the others are recorded and not counted.
THEOREM TaskCountIsNamedCreations ==
  Spec => [](recorded = header.event_count =>
                header.task_count = Cardinality(SlottedAt(Retained)))
<1>1. Summary => (recorded = header.event_count =>
                    header.task_count = Cardinality(SlottedAt(Retained)))
  BY DEF Summary
<1> QED
  BY <1>1, AlwaysSummary, PTL

\* While nothing is lost, gentrace infers from the file the table overflow the
\* running recorder flagged: the creation that raised the flag is still there,
\* and its number is at least MaxTasks.
THEOREM TableFlagKeptHolds == Spec => []TableFlagKept
<1>1. RingInv /\ NamedInv /\ Summary => TableFlagKept
  <2> SUFFICES ASSUME RingInv, NamedInv, Summary,
                      recorded = header.event_count, trace_task_table_overflow
               PROVE  trace_event_task_table_overflow(Image)
    BY DEF TableFlagKept
  <2>1. PICK k \in DOMAIN Retained :
          Retained[k].event = "TASK_CREATE" /\ OutOfTable(Retained[k].param1)
    <3>1. UnslottedAt(Retained) # {}
      BY SummaryParts
    <3> QED
      BY <3>1 DEF UnslottedAt
  <2>2. Retained[k] \in Event /\ Retained[k].param1 > 0
    BY <2>1, RetainedShape, ElementOfSeq, LenProperties DEF NamedInv
  <2>3. Retained[k].param1 >= MaxTasks
    BY <2>1, <2>2 DEF OutOfTable
  <2>4. Retained[k].event \in NamedTaskKinds
    BY <2>1 DEF NamedTaskKinds
  <2> HIDE DEF Image
  <2> QED
    BY <2>1, <2>3, <2>4 DEF trace_event_task_table_overflow, Retained
<1> QED
  BY <1>1, AlwaysSummary, PTL
==============================================================================
