-------------------------- MODULE SmpRecorder_proof --------------------------
(***************************************************************************)
(* The recorder is atomic on any number of harts: seen through the locks,  *)
(* one memory access at a time, the hooks of all harts together implement  *)
(* the window of EventWindow, for every ring size.  The argument has three *)
(* layers: the lock invariant of PortLocks_proof leaves at most one hart   *)
(* inside btf_trace.c; that hart's position in the ring and the window it  *)
(* began with determine what it has still to write; and when it counts the *)
(* event, the ring it leaves is the old window with one event pushed.      *)
(***************************************************************************)
EXTENDS SmpRecorder, PortLocks_proof, SequenceTheorems

RecEvent == [timestamp : Nat, core : Harts]
------------------------------------------------------------------------------
(* The ring as data *)

\* The slot of the k-th event of a replay of n events that writes at pos next.
SlotNo(n, pos, k) ==
    IF n < MaxEvents THEN k - 1
    ELSE IF pos + k - 1 < MaxEvents THEN pos + k - 1
                                    ELSE pos + k - 1 - MaxEvents

ReplayOf(n, index, ring) ==
    LET start == IF n # MaxEvents THEN 0 ELSE index
    IN  [k \in 1..n |-> ring[(start + k - 1) % MaxEvents]]

NextSlot(i) == IF i + 1 = MaxEvents THEN 0 ELSE i + 1

\* A replay never goes round the ring more than once.
LEMMA OnceRound ==
  ASSUME NEW x \in Nat, x < 2 * MaxEvents
  PROVE  x % MaxEvents = IF x < MaxEvents THEN x ELSE x - MaxEvents
BY RingAssumption

\* A replay is a sequence of the events in the slots SlotNo names.
LEMMA ReplayOfShape ==
  ASSUME NEW n \in 0..MaxEvents, NEW pos \in Slots, n < MaxEvents => pos = n,
         NEW ring, \A i \in Slots : i < n => ring[i] \in RecEvent
  PROVE  /\ ReplayOf(n, pos, ring) \in Seq(RecEvent)
         /\ Len(ReplayOf(n, pos, ring)) = n
         /\ \A k \in 1..n : ReplayOf(n, pos, ring)[k] = ring[SlotNo(n, pos, k)]
<1> DEFINE start == IF n # MaxEvents THEN 0 ELSE pos
<1>0. start \in 0..MaxEvents - 1
  BY RingAssumption DEF Slots
<1>1. ASSUME NEW k \in 1..n
      PROVE  /\ (start + k - 1) % MaxEvents = SlotNo(n, pos, k)
             /\ SlotNo(n, pos, k) \in Slots /\ SlotNo(n, pos, k) < n
  <2> DEFINE x == start + k - 1
  <2> HIDE DEF start
  <2>1. x \in Nat /\ x < 2 * MaxEvents
    <3>1. k \in Nat /\ k >= 1 /\ k <= MaxEvents
      BY RingAssumption
    <3> QED
      BY <1>0, <3>1, RingAssumption
  <2> HIDE DEF x
  <2>2. x % MaxEvents = IF x < MaxEvents THEN x ELSE x - MaxEvents
    BY <2>1, OnceRound
  <2>3. (IF x < MaxEvents THEN x ELSE x - MaxEvents) = SlotNo(n, pos, k)
    BY RingAssumption DEF start, x, SlotNo, Slots
  <2>4. SlotNo(n, pos, k) \in Slots /\ SlotNo(n, pos, k) < n
    BY RingAssumption DEF SlotNo, Slots
  <2> QED
    BY <2>2, <2>3, <2>4 DEF x, start
<1>2. ReplayOf(n, pos, ring) = [k \in 1..n |-> ring[SlotNo(n, pos, k)]]
  BY <1>1 DEF ReplayOf
<1>3. \A k \in 1..n : ring[SlotNo(n, pos, k)] \in RecEvent
  BY <1>1
<1>4. ReplayOf(n, pos, ring) \in [1..n -> RecEvent] /\ n \in Nat
  BY <1>2, <1>3
<1>5. ReplayOf(n, pos, ring) \in Seq(RecEvent)
  BY <1>4
<1> QED
  BY <1>2, <1>4, <1>5

\* The ring a finished hook leaves: w is the window it began with, of which
\* only the oldest event may have been overwritten.
LEMMA PushedWindow ==
  ASSUME NEW n \in 0..MaxEvents, NEW pos \in Slots, n < MaxEvents => pos = n,
         NEW ring, \A i \in Slots : i < n \/ i = pos => ring[i] \in RecEvent,
         NEW w \in Seq(RecEvent), Len(w) = n,
         \A k \in 1..n :
            SlotNo(n, pos, k) # pos => w[k] = ring[SlotNo(n, pos, k)]
  PROVE  ReplayOf(IF n < MaxEvents THEN n + 1 ELSE n, NextSlot(pos), ring) =
           IF n < MaxEvents THEN Append(w, ring[pos])
                            ELSE Append(Tail(w), ring[pos])
<1> DEFINE e == ring[pos]
           next == NextSlot(pos)
<1>0. next \in Slots /\ e \in RecEvent
  BY RingAssumption DEF NextSlot, Slots
<1>1. CASE n < MaxEvents
  <2> DEFINE r == ReplayOf(n + 1, next, ring)
  <2>1. /\ n + 1 \in 0..MaxEvents
        /\ n + 1 < MaxEvents => next = n + 1
        /\ \A i \in Slots : i < n + 1 => ring[i] \in RecEvent
    BY <1>1, RingAssumption DEF NextSlot, Slots
  <2>2. /\ r \in Seq(RecEvent) /\ Len(r) = n + 1
        /\ \A k \in 1..n + 1 : r[k] = ring[SlotNo(n + 1, next, k)]
    BY <1>0, <2>1, ReplayOfShape
  <2> HIDE DEF r
  <2>3. \A k \in 1..n + 1 : SlotNo(n + 1, next, k) = k - 1
    BY <1>1, RingAssumption DEF SlotNo, NextSlot
  <2>4. \A k \in 1..n : SlotNo(n, pos, k) = k - 1 /\ k - 1 # pos
    BY <1>1 DEF SlotNo
  <2>5. /\ \A k \in 1..n : r[k] = w[k]
        /\ r[n + 1] = e
    BY <1>1, <2>2, <2>3, <2>4
  <2>6. /\ Append(w, e) \in Seq(RecEvent) /\ Len(Append(w, e)) = n + 1
        /\ \A k \in 1..n : Append(w, e)[k] = w[k]
        /\ Append(w, e)[n + 1] = e
    BY <1>0, AppendProperties
  <2>7. \A k \in 1..n + 1 : r[k] = Append(w, e)[k]
    BY <2>5, <2>6
  <2>8. r = Append(w, e)
    BY <2>2, <2>6, <2>7, SeqEqual
  <2> QED
    BY <1>1, <2>8 DEF r
<1>2. CASE n = MaxEvents
  <2> DEFINE r == ReplayOf(n, next, ring)
  <2>1. /\ r \in Seq(RecEvent) /\ Len(r) = n
        /\ \A k \in 1..n : r[k] = ring[SlotNo(n, next, k)]
    BY <1>0, <1>2, ReplayOfShape DEF Slots
  <2> HIDE DEF r
  <2>2. ASSUME NEW k \in 1..n - 1
        PROVE  /\ SlotNo(n, next, k) = SlotNo(n, pos, k + 1)
               /\ SlotNo(n, pos, k + 1) # pos
    BY <1>2, RingAssumption DEF SlotNo, NextSlot, Slots
  <2>3. SlotNo(n, next, n) = pos
    BY <1>2, RingAssumption DEF SlotNo, NextSlot, Slots
  <2>4. /\ \A k \in 1..n - 1 : r[k] = w[k + 1]
        /\ r[n] = e
    BY <1>2, <2>1, <2>2, <2>3, RingAssumption
  <2>5. w # << >>
    BY <1>2, RingAssumption, EmptySeq
  <2>6. /\ Tail(w) \in Seq(RecEvent) /\ Len(Tail(w)) = n - 1
        /\ \A k \in 1..n - 1 : Tail(w)[k] = w[k + 1]
    BY <2>5, HeadTailProperties
  <2>7. /\ Append(Tail(w), e) \in Seq(RecEvent)
        /\ Len(Append(Tail(w), e)) = n
        /\ \A k \in 1..n - 1 : Append(Tail(w), e)[k] = w[k + 1]
        /\ Append(Tail(w), e)[n] = e
    <3>1. Len(Tail(w)) + 1 = n
      BY <1>2, <2>6, RingAssumption
    <3> QED
      BY <1>0, <2>6, <3>1, AppendProperties
  <2>8. \A k \in 1..n : r[k] = Append(Tail(w), e)[k]
    BY <1>2, <2>4, <2>7, RingAssumption
  <2>9. r = Append(Tail(w), e)
    BY <2>1, <2>7, <2>8, SeqEqual
  <2>10. ~(n < MaxEvents)
    BY <1>2, RingAssumption
  <2> QED
    BY <2>9, <2>10 DEF r
<1> QED
  BY <1>1, <1>2, RingAssumption

\* A window in the order of its stamps, none of them in the future.
Ordered(w, time) ==
    /\ \A k \in 1..Len(w) : w[k].timestamp <= time
    /\ \A k \in 2..Len(w) : w[k - 1].timestamp <= w[k].timestamp

\* Pushing an event that is not older than the others keeps the order.
LEMMA PushOrdered ==
  ASSUME NEW w \in Seq(RecEvent), NEW time \in Nat, Ordered(w, time),
         NEW e \in RecEvent, e.timestamp <= time,
         \A k \in 1..Len(w) : w[k].timestamp <= e.timestamp
  PROVE  /\ Ordered(Append(w, e), time)
         /\ w # << >> => Ordered(Append(Tail(w), e), time)
<1> DEFINE n == Len(w)
<1>0. n \in Nat
  BY LenProperties
<1>1. Ordered(Append(w, e), time)
  <2>1. /\ Len(Append(w, e)) = n + 1
        /\ \A k \in 1..n : Append(w, e)[k] = w[k]
        /\ Append(w, e)[n + 1] = e
    BY AppendProperties
  <2> HIDE DEF n
  <2> QED
    BY <1>0, <2>1 DEF Ordered, n
<1>2. ASSUME w # << >> PROVE Ordered(Append(Tail(w), e), time)
  <2>1. /\ Tail(w) \in Seq(RecEvent) /\ Len(Tail(w)) = n - 1
        /\ \A k \in 1..n - 1 : Tail(w)[k] = w[k + 1]
        /\ n > 0
    BY <1>2, HeadTailProperties, EmptySeq
  <2>2. /\ Len(Append(Tail(w), e)) = n
        /\ \A k \in 1..n - 1 : Append(Tail(w), e)[k] = w[k + 1]
        /\ Append(Tail(w), e)[n] = e
    <3>1. Len(Tail(w)) + 1 = n
      BY <1>0, <2>1
    <3> QED
      BY <2>1, <3>1, AppendProperties
  <2> DEFINE v == Append(Tail(w), e)
  <2>3. \A k \in 1..n : w[k].timestamp <= time
    BY DEF Ordered
  <2>4. \A k \in 2..n : w[k - 1].timestamp <= w[k].timestamp
    BY DEF Ordered
  <2> HIDE DEF n, v
  <2>5. /\ Len(v) = n /\ v[n] = e
        /\ \A k \in 1..n - 1 : v[k] = w[k + 1] /\ k + 1 \in 1..n
    BY <1>0, <2>2 DEF v
  <2>6. \A k \in 1..n : k = n \/ k \in 1..n - 1
    BY <1>0
  <2>7. \A k \in 1..n : v[k].timestamp <= time
    BY <2>3, <2>5, <2>6
  <2>8. ASSUME NEW k \in 2..n PROVE v[k - 1].timestamp <= v[k].timestamp
    <3>1. k - 1 \in 1..n - 1 /\ (k - 1) + 1 = k /\ k \in 1..n
      BY <1>0
    <3>2. v[k - 1] = w[k]
      BY <2>5, <3>1
    <3>3. CASE k = n
      BY <2>5, <3>1, <3>2, <3>3 DEF n
    <3>4. CASE k # n
      <4>1. k \in 1..n - 1 /\ k + 1 \in 2..n /\ (k + 1) - 1 = k
        BY <1>0, <3>4
      <4> QED
        BY <2>4, <2>5, <3>2, <4>1
    <3> QED
      BY <3>3, <3>4
  <2> QED
    BY <2>5, <2>7, <2>8 DEF Ordered, v
<1> QED
  BY <1>1, <1>2
\* What was ordered stays so as the clock runs.
LEMMA LaterOrdered ==
  ASSUME NEW w \in Seq(RecEvent), NEW time \in Nat, Ordered(w, time)
  PROVE  Ordered(w, time + 1)
<1>1. \A k \in 1..Len(w) : w[k].timestamp \in Nat
  <2> TAKE k \in 1..Len(w)
  <2>1. w[k] \in RecEvent
    BY ElementOfSeq
  <2> QED
    BY <2>1 DEF RecEvent
<1> QED
  BY <1>1 DEF Ordered
------------------------------------------------------------------------------
(* The invariant *)

BodyLabels == {"out", "dump", "dumpRing"} \cup AddLabels

RecTypes ==
    /\ trace_en \in BOOLEAN
    /\ current_index \in 0..MaxEvents
    /\ event_count \in 0..MaxEvents
    /\ slots \in [Slots -> [timestamp : Nat, core : Harts \cup {NoOwner}]]
    /\ body \in [Harts -> BodyLabels]
    /\ mtime \in Nat
    /\ recorded \in Nat
    /\ saved \in BOOLEAN

\* A hart inside btf_trace.c holds the ISR lock and calls no lock function.
InsideInv ==
    \A h \in Harts : body[h] # "out" => pc[h] = "run" /\ isrHeld[h] > 0

\* The slot the event in progress goes to, or the next one will.
PosAt(here) ==
    IF here = "wrap" THEN current_index - 1
    ELSE IF here = "count" /\ current_index = 0 THEN MaxEvents - 1
    ELSE IF here = "count" THEN current_index - 1
    ELSE current_index

Inner == {h \in Harts : body[h] # "out"}

\* Until the ring has filled the position is the number of events and none is
\* lost; the slots below the count are filled.
RingAt(pos) ==
    /\ pos \in Slots
    /\ event_count < MaxEvents => pos = event_count /\ recorded = event_count
    /\ recorded >= event_count
    /\ \A i \in Slots : i < event_count => slots[i].core \in Harts

RingInv ==
    /\ Inner = {} => RingAt(current_index)
    /\ \A h \in Inner : RingAt(PosAt(body[h]))
    /\ \A h \in Inner : body[h] # "wrap" => current_index \in Slots

\* What the hook in progress has done so far: the window it began with is still
\* in the ring but for the slot it writes.
FillAt(pos, here) ==
    /\ trace_en
    /\ before \in Seq(RecEvent)
    /\ Len(before) = event_count
    /\ \A k \in 1..event_count :
         SlotNo(event_count, pos, k) # pos =>
            before[k] = slots[SlotNo(event_count, pos, k)]
    /\ here # "stamp" =>
         /\ slots[pos].timestamp <= mtime
         /\ \A k \in 1..event_count : before[k].timestamp <= slots[pos].timestamp
    /\ here \in {"advance", "wrap", "count"} => slots[pos].core \in Harts

FillInv ==
    \A h \in Harts : body[h] \in AddLabels => FillAt(PosAt(body[h]), body[h])

WindowInv ==
    /\ SeenWindow \in Seq(RecEvent)
    /\ Len(SeenWindow) = event_count
    /\ Ordered(SeenWindow, mtime)

\* A finished file is newer than the capture it holds.
FileInv ==
    /\ trace_en => ~saved
    /\ \A h \in Harts : body[h] \in {"dump", "dumpRing"} => ~trace_en
    /\ \A h \in Harts :
         body[h] = "dumpRing" => image = <<event_count, current_index>>
    /\ FileIsOneState

SInv ==
    /\ IInv
    /\ RecTypes
    /\ InsideInv
    /\ RingInv
    /\ FillInv
    /\ WindowInv
    /\ FileInv
------------------------------------------------------------------------------
\* No hart but h is inside btf_trace.c.
Solo(h) == \A g \in Harts : g # h => body[g] = "out"

\* The lock keeps the other harts out of btf_trace.c.
LEMMA LockKeepsOut ==
  ASSUME IInv, InsideInv, NEW h \in Harts, isrHeld[h] > 0
  PROVE  Solo(h)
BY DEF IInv, OneISROwner, OwnsISR, InsideInv, Solo

\* A hart entering a hook is alone, and so is one inside.
LEMMA HookIsSolo ==
  ASSUME IInv, InsideInv, NEW h \in Harts, Hook(h)
  PROVE  /\ Solo(h)
         /\ pc[h] = "run" /\ isrHeld[h] > 0
<1>1. pc[h] = "run" /\ isrHeld[h] > 0
  BY DEF Hook, AddEvent, StampSlot, FillSlot, Advance, WrapIndex, CountEvent,
         Start, EndCapture, WriteHeader, WriteRing, Enter, InSection, Inside,
         InsideInv
<1> QED
  BY <1>1, LockKeepsOut

\* The invariant seen from a hart that is alone.
SoloInv(h) ==
    /\ RingAt(PosAt(body[h]))
    /\ body[h] # "wrap" => current_index \in Slots
    /\ body[h] \in AddLabels => FillAt(PosAt(body[h]), body[h])
    /\ body[h] \in {"dump", "dumpRing"} => ~trace_en
    /\ body[h] = "dumpRing" => image = <<event_count, current_index>>

\* Of a hart that is alone the parts are about that hart only.
SoloView ==
    \A h \in Harts : Solo(h) =>
        /\ RingInv /\ FillInv /\ FileInv => SoloInv(h)
        /\ SoloInv(h) => RingInv /\ FillInv
        /\ SoloInv(h) /\ (trace_en => ~saved) /\ FileIsOneState => FileInv
        /\ Adding <=> body[h] \in AddLabels

\* That is so before and after a step.
LEMMA SoloViewNow == SoloView
<1> SUFFICES ASSUME NEW h \in Harts, Solo(h)
             PROVE  /\ RingInv /\ FillInv /\ FileInv => SoloInv(h)
                    /\ SoloInv(h) => RingInv /\ FillInv
                    /\ SoloInv(h) /\ (trace_en => ~saved) /\ FileIsOneState
                          => FileInv
                    /\ Adding <=> body[h] \in AddLabels
  BY DEF SoloView
<1>1. /\ Inner = IF body[h] = "out" THEN {} ELSE {h}
      /\ \A g \in Harts : g # h => body[g] = "out"
      /\ "out" \notin AddLabels
      /\ body[h] = "out" => PosAt(body[h]) = current_index
  BY DEF Inner, Solo, AddLabels, PosAt
<1>2. Adding <=> body[h] \in AddLabels
  BY <1>1 DEF Adding
<1>3. RingInv /\ FillInv /\ FileInv => SoloInv(h)
  <2>1. body[h] = "out" /\ RingAt(current_index) => current_index \in Slots
    BY DEF RingAt
  <2> QED
    BY <1>1, <2>1 DEF RingInv, FillInv, FileInv, SoloInv
<1>4. SoloInv(h) => RingInv /\ FillInv
  BY <1>1 DEF RingInv, FillInv, SoloInv
<1>5. SoloInv(h) /\ (trace_en => ~saved) /\ FileIsOneState => FileInv
  BY <1>1 DEF FileInv, SoloInv
<1> QED
  BY <1>2, <1>3, <1>4, <1>5

\* The same after a step.
LEMMA SoloViewNext == SoloView'
BY SoloViewNow, PTL
------------------------------------------------------------------------------
(* One access of the hart that is inside *)

HookInv(h) ==
    /\ RecTypes
    /\ Solo(h)
    /\ SoloInv(h)
    /\ WindowInv
    /\ trace_en => ~saved
    /\ FileIsOneState

\* What is outside btf_trace.c sees nothing of the access.
Unseen == UNCHANGED <<trace_en, SeenWindow, recorded>>

\* A change of body[h] leaves the other harts where they are.
LEMMA SoloStays ==
  ASSUME NEW h \in Harts, Solo(h), NEW there \in BodyLabels, RecTypes,
         body' = [body EXCEPT ![h] = there]
  PROVE  /\ Solo(h)' /\ body'[h] = there
         /\ body' \in [Harts -> BodyLabels]
BY DEF Solo, RecTypes

\* Seen from outside the window is the ring, or the one the hook began with.
LEMMA SeenNow ==
  ASSUME NEW h \in Harts, Solo(h)
  PROVE  SeenWindow = IF body[h] \in AddLabels THEN before ELSE Retained
BY SoloViewNow DEF SoloView, SeenWindow

\* The same after a step.
LEMMA SeenNext ==
  ASSUME NEW h \in Harts, Solo(h)'
  PROVE  SeenWindow' = IF body'[h] \in AddLabels THEN before' ELSE Retained'
BY SoloViewNext DEF SoloView, SeenWindow

\* The ring between two hooks, read in replay order.
LEMMA RetainedNow ==
  ASSUME RecTypes, RingAt(current_index)
  PROVE  /\ Retained \in Seq(RecEvent) /\ Len(Retained) = event_count
         /\ \A k \in 1..event_count :
              Retained[k] = slots[SlotNo(event_count, current_index, k)]
<1>1. \A i \in Slots : i < event_count => slots[i] \in RecEvent
  <2> SUFFICES ASSUME NEW i \in Slots, i < event_count
               PROVE  slots[i] \in RecEvent
    OBVIOUS
  <2>1. slots[i] \in [timestamp : Nat, core : Harts \cup {NoOwner}]
        /\ slots[i].core \in Harts
    BY DEF RecTypes, RingAt
  <2> QED
    BY <2>1 DEF RecEvent
<1>2. Retained = ReplayOf(event_count, current_index, slots)
  BY DEF Retained, ReplayOf
<1>3. /\ event_count \in 0..MaxEvents /\ current_index \in Slots
      /\ event_count < MaxEvents => current_index = event_count
  BY DEF RecTypes, RingAt
<1> QED
  BY <1>1, <1>2, <1>3, ReplayOfShape

\* if (!trace_en) return: the window is remembered, nothing is written yet.
LEMMA DoAddEvent ==
  ASSUME NEW h \in Harts, HookInv(h), AddEvent(h)
  PROVE  HookInv(h)' /\ Unseen
<1> USE DEF HookInv
<1>1. /\ body[h] = "out" /\ trace_en
      /\ before' = Retained
      /\ body' = [body EXCEPT ![h] = "stamp"]
      /\ UNCHANGED <<trace_en, current_index, event_count, slots, image, mtime,
                     recorded, session, saved>>
  BY DEF AddEvent, Enter, Then
<1>2. Solo(h)' /\ body'[h] = "stamp" /\ body' \in [Harts -> BodyLabels]
  BY <1>1, SoloStays DEF BodyLabels, AddLabels
<1>3. PosAt(body[h]) = current_index /\ PosAt(body[h])' = current_index
  BY <1>1, <1>2 DEF PosAt
<1>4. RingAt(current_index) /\ RingAt(PosAt(body[h]))'
  BY <1>1, <1>3 DEF SoloInv, RingAt
<1>5. /\ Retained \in Seq(RecEvent) /\ Len(Retained) = event_count
      /\ \A k \in 1..event_count :
           Retained[k] = slots[SlotNo(event_count, current_index, k)]
  BY <1>4, RetainedNow
<1>6. FillAt(current_index, "stamp")'
  BY <1>1, <1>5 DEF FillAt
<1>7. SeenWindow = Retained /\ SeenWindow' = Retained
  BY <1>1, <1>2, SeenNow, SeenNext DEF AddLabels
<1>8. WindowInv'
  BY <1>1, <1>7 DEF WindowInv, Ordered
<1>9. RecTypes' /\ FileIsOneState'
  BY <1>1, <1>2 DEF RecTypes, FileIsOneState
<1>10. SoloInv(h)'
  BY <1>1, <1>2, <1>3, <1>4, <1>6 DEF SoloInv, RingAt
<1> QED
  BY <1>1, <1>2, <1>7, <1>8, <1>9, <1>10 DEF Unseen

\* A replay looks at slots of the ring only.
LEMMA SlotNoInRing ==
  ASSUME NEW n \in 0..MaxEvents, NEW pos \in Slots, NEW k \in 1..n
  PROVE  SlotNo(n, pos, k) \in Slots
BY RingAssumption DEF SlotNo, Slots

\* Writing the event's slot leaves the rest of the old window in the ring.
LEMMA WriteSlot ==
  ASSUME RecTypes, NEW pos \in Slots, RingAt(pos), NEW here, FillAt(pos, here),
         NEW e \in [timestamp : Nat, core : Harts \cup {NoOwner}],
         pos < event_count => e.core \in Harts,
         slots' = [slots EXCEPT ![pos] = e],
         UNCHANGED <<event_count, recorded>>
  PROVE  /\ slots' \in [Slots -> [timestamp : Nat, core : Harts \cup {NoOwner}]]
         /\ slots'[pos] = e
         /\ RingAt(pos)'
         /\ \A k \in 1..event_count :
              SlotNo(event_count, pos, k) # pos =>
                 before[k] = slots'[SlotNo(event_count, pos, k)]
<1>1. /\ slots' \in [Slots -> [timestamp : Nat, core : Harts \cup {NoOwner}]]
      /\ slots'[pos] = e
      /\ \A i \in Slots : i # pos => slots'[i] = slots[i]
  BY DEF RecTypes
<1>2. \A k \in 1..event_count : SlotNo(event_count, pos, k) \in Slots
  BY SlotNoInRing DEF RecTypes
<1>3. RingAt(pos)'
  BY <1>1 DEF RingAt
<1>4. \A k \in 1..event_count :
         SlotNo(event_count, pos, k) # pos =>
            before[k] = slots'[SlotNo(event_count, pos, k)]
  BY <1>1, <1>2 DEF FillAt
<1> QED
  BY <1>1, <1>3, <1>4

\* The stamp is not older than any event of the window: the clock was read
\* after every one of them.
LEMMA DoStampSlot ==
  ASSUME NEW h \in Harts, HookInv(h), StampSlot(h)
  PROVE  HookInv(h)' /\ Unseen
<1> USE DEF HookInv
<1> DEFINE e == [timestamp |-> mtime, core |-> slots[current_index].core]
<1>1. /\ body[h] = "stamp"
      /\ slots' = [slots EXCEPT ![current_index] = e]
      /\ body' = [body EXCEPT ![h] = "fill"]
      /\ UNCHANGED <<trace_en, current_index, event_count, image, mtime,
                     recorded, session, before, saved>>
  BY DEF StampSlot, Inside, Then
<1>2. Solo(h)' /\ body'[h] = "fill" /\ body' \in [Harts -> BodyLabels]
  BY <1>1, SoloStays DEF BodyLabels, AddLabels
<1>3. PosAt(body[h]) = current_index /\ PosAt(body[h])' = current_index
  BY <1>1, <1>2 DEF PosAt
<1>4. /\ RingAt(current_index) /\ current_index \in Slots
      /\ FillAt(current_index, "stamp")
  BY <1>1, <1>3 DEF SoloInv, RingAt, AddLabels
<1>5. /\ e \in [timestamp : Nat, core : Harts \cup {NoOwner}]
      /\ current_index < event_count => e.core \in Harts
  BY <1>4 DEF RecTypes, RingAt
<1> HIDE DEF e
<1>6. /\ slots' \in [Slots -> [timestamp : Nat, core : Harts \cup {NoOwner}]]
      /\ slots'[current_index] = e
      /\ RingAt(current_index)'
      /\ \A k \in 1..event_count :
           SlotNo(event_count, current_index, k) # current_index =>
              before[k] = slots'[SlotNo(event_count, current_index, k)]
  BY <1>1, <1>4, <1>5, WriteSlot
<1>7. SeenWindow = before /\ SeenWindow' = before
  BY <1>1, <1>2, SeenNow, SeenNext DEF AddLabels
<1>8. /\ slots'[current_index].timestamp = mtime
      /\ \A k \in 1..event_count : before[k].timestamp <= mtime
  BY <1>6, <1>7 DEF e, WindowInv, Ordered
<1>9. FillAt(current_index, "fill")'
  BY <1>1, <1>4, <1>6, <1>8 DEF FillAt, RecTypes
<1>10. WindowInv'
  BY <1>1, <1>7 DEF WindowInv, Ordered
<1>11. RecTypes' /\ FileIsOneState'
  <2>1. trace_en
    BY <1>4 DEF FillAt
  <2> QED
    BY <1>1, <1>2, <1>6, <2>1 DEF RecTypes, FileIsOneState
<1>12. SoloInv(h)'
  BY <1>1, <1>2, <1>3, <1>4, <1>6, <1>9 DEF SoloInv, RingAt
<1> QED
  BY <1>1, <1>2, <1>7, <1>10, <1>11, <1>12 DEF Unseen

\* The rest of the event goes to the same slot.
LEMMA DoFillSlot ==
  ASSUME NEW h \in Harts, HookInv(h), FillSlot(h)
  PROVE  HookInv(h)' /\ Unseen
<1> USE DEF HookInv
<1> DEFINE e == [timestamp |-> slots[current_index].timestamp, core |-> h]
<1>1. /\ body[h] = "fill"
      /\ slots' = [slots EXCEPT ![current_index] = e]
      /\ body' = [body EXCEPT ![h] = "advance"]
      /\ UNCHANGED <<trace_en, current_index, event_count, image, mtime,
                     recorded, session, before, saved>>
  BY DEF FillSlot, Inside, Then
<1>2. Solo(h)' /\ body'[h] = "advance" /\ body' \in [Harts -> BodyLabels]
  BY <1>1, SoloStays DEF BodyLabels, AddLabels
<1>3. PosAt(body[h]) = current_index /\ PosAt(body[h])' = current_index
  BY <1>1, <1>2 DEF PosAt
<1>4. /\ RingAt(current_index) /\ current_index \in Slots
      /\ FillAt(current_index, "fill")
  BY <1>1, <1>3 DEF SoloInv, RingAt, AddLabels
<1>5. /\ e \in [timestamp : Nat, core : Harts \cup {NoOwner}]
      /\ e.core \in Harts
  BY <1>4 DEF RecTypes, RingAt
<1> HIDE DEF e
<1>6. /\ slots' \in [Slots -> [timestamp : Nat, core : Harts \cup {NoOwner}]]
      /\ slots'[current_index] = e
      /\ RingAt(current_index)'
      /\ \A k \in 1..event_count :
           SlotNo(event_count, current_index, k) # current_index =>
              before[k] = slots'[SlotNo(event_count, current_index, k)]
  BY <1>1, <1>4, <1>5, WriteSlot
<1>7. SeenWindow = before /\ SeenWindow' = before
  BY <1>1, <1>2, SeenNow, SeenNext DEF AddLabels
<1>8. /\ slots'[current_index].timestamp <= mtime
      /\ \A k \in 1..event_count :
           before[k].timestamp <= slots'[current_index].timestamp
  BY <1>4, <1>6 DEF e, FillAt
<1>9. FillAt(current_index, "advance")'
  BY <1>1, <1>4, <1>5, <1>6, <1>8 DEF FillAt
<1>10. WindowInv'
  BY <1>1, <1>7 DEF WindowInv, Ordered
<1>11. RecTypes' /\ FileIsOneState'
  <2>1. trace_en
    BY <1>4 DEF FillAt
  <2> QED
    BY <1>1, <1>2, <1>6, <2>1 DEF RecTypes, FileIsOneState
<1>12. SoloInv(h)'
  BY <1>1, <1>2, <1>3, <1>4, <1>6, <1>9 DEF SoloInv, RingAt
<1> QED
  BY <1>1, <1>2, <1>7, <1>10, <1>11, <1>12 DEF Unseen

\* The index moves on, past the ring and back: the position it came from stays
\* known.
LEMMA DoAdvance ==
  ASSUME NEW h \in Harts, HookInv(h), Advance(h) \/ WrapIndex(h)
  PROVE  HookInv(h)' /\ Unseen
<1> USE DEF HookInv
<1>0. PICK pos \in Slots : pos = PosAt(body[h])
  BY DEF SoloInv, RingAt
<1>1. /\ body[h] \in {"advance", "wrap"}
      /\ body' = [body EXCEPT ![h] = IF body[h] = "advance" THEN "wrap" ELSE "count"]
      /\ current_index' = IF body[h] = "advance" THEN current_index + 1
                          ELSE IF current_index = MaxEvents THEN 0
                          ELSE current_index
      /\ UNCHANGED <<trace_en, event_count, slots, image, mtime, recorded,
                     session, before, saved>>
  BY DEF Advance, WrapIndex, Inside, Then
<1>2. /\ Solo(h)' /\ body' \in [Harts -> BodyLabels]
      /\ body'[h] = IF body[h] = "advance" THEN "wrap" ELSE "count"
  BY <1>1, SoloStays DEF BodyLabels, AddLabels
<1>3. RingAt(pos) /\ FillAt(pos, body[h]) /\ pos \in 0..MaxEvents - 1
  BY <1>0, <1>1 DEF SoloInv, AddLabels, Slots
<1>4. /\ PosAt(body[h])' = pos
      /\ current_index' \in 0..MaxEvents
      /\ body'[h] = "count" => current_index' \in Slots
  <2>1. CASE body[h] = "advance"
    <3>1. pos = current_index
      BY <1>0, <2>1 DEF PosAt
    <3> QED
      BY <1>1, <1>2, <1>3, <2>1, <3>1, RingAssumption DEF PosAt
  <2>2. CASE body[h] = "wrap"
    <3>1. pos = current_index - 1
      BY <1>0, <2>2 DEF PosAt
    <3>2. current_index \in 1..MaxEvents
      BY <1>3, <3>1, RingAssumption DEF RecTypes
    <3> QED
      BY <1>1, <1>2, <2>2, <3>1, <3>2, RingAssumption DEF PosAt, Slots
  <2> QED
    BY <1>1, <2>1, <2>2
<1>5. SeenWindow = before /\ SeenWindow' = before
  BY <1>1, <1>2, SeenNow, SeenNext DEF AddLabels
<1>6. RingAt(pos)' /\ FillAt(pos, body[h])'
  BY <1>1, <1>2, <1>3 DEF RingAt, FillAt
<1>7. WindowInv'
  BY <1>1, <1>5 DEF WindowInv, Ordered
<1>8. RecTypes' /\ FileIsOneState'
  <2>1. trace_en
    BY <1>3 DEF FillAt
  <2> QED
    BY <1>1, <1>2, <1>4, <2>1 DEF RecTypes, FileIsOneState
<1>9. SoloInv(h)'
  <2>1. body'[h] = "wrap" \/ body'[h] = "count"
    BY <1>1, <1>2
  <2>2. RingAt(PosAt(body[h]))' /\ FillAt(PosAt(body[h]), body[h])'
    BY <1>4, <1>6 DEF RingAt, FillAt
  <2> QED
    BY <1>4, <2>1, <2>2 DEF SoloInv
<1> QED
  BY <1>1, <1>2, <1>5, <1>7, <1>8, <1>9 DEF Unseen

\* The window gets the event, and loses its oldest one when it is full.
Pushed ==
    /\ trace_en /\ trace_en' = trace_en
    /\ recorded' = recorded + 1
    /\ \E e \in RecEvent :
         SeenWindow' = IF event_count < MaxEvents
                       THEN Append(SeenWindow, e)
                       ELSE Append(Tail(SeenWindow), e)

\* The count makes the event visible: the ring now is the old window with the
\* event pushed.
LEMMA DoCountEvent ==
  ASSUME NEW h \in Harts, HookInv(h), CountEvent(h)
  PROVE  HookInv(h)' /\ Pushed
<1> USE DEF HookInv
<1>0. PICK pos \in Slots : pos = PosAt(body[h])
  BY DEF SoloInv, RingAt
<1>1. /\ body[h] = "count"
      /\ event_count' =
           IF event_count < MaxEvents THEN event_count + 1 ELSE event_count
      /\ recorded' = recorded + 1
      /\ body' = [body EXCEPT ![h] = "out"]
      /\ UNCHANGED <<trace_en, current_index, slots, image, mtime, session,
                     before, saved>>
  BY DEF CountEvent, Inside, Then
<1>2. Solo(h)' /\ body'[h] = "out" /\ body' \in [Harts -> BodyLabels]
  BY <1>1, SoloStays DEF BodyLabels
<1>3. RingAt(pos) /\ FillAt(pos, "count") /\ current_index \in Slots
  BY <1>0, <1>1 DEF SoloInv, AddLabels
<1>4. current_index = NextSlot(pos)
  BY <1>0, <1>1, <1>3, RingAssumption DEF PosAt, NextSlot, Slots
<1>5. PosAt(body[h])' = current_index'
  BY <1>1, <1>2 DEF PosAt
<1>6. slots[pos] \in RecEvent
  <2>1. slots[pos] \in [timestamp : Nat, core : Harts \cup {NoOwner}]
        /\ slots[pos].core \in Harts
    BY <1>3 DEF RecTypes, FillAt
  <2> QED
    BY <2>1 DEF RecEvent
<1>7. \A i \in Slots : i < event_count \/ i = pos => slots[i] \in RecEvent
  <2> SUFFICES ASSUME NEW i \in Slots, i < event_count PROVE slots[i] \in RecEvent
    BY <1>6
  <2>1. slots[i] \in [timestamp : Nat, core : Harts \cup {NoOwner}]
        /\ slots[i].core \in Harts
    BY <1>3 DEF RecTypes, RingAt
  <2> QED
    BY <2>1 DEF RecEvent
<1>8. event_count \in 0..MaxEvents /\ event_count' \in 0..MaxEvents
  BY <1>1, RingAssumption DEF RecTypes
<1>9. Retained' = IF event_count < MaxEvents
                  THEN Append(before, slots[pos])
                  ELSE Append(Tail(before), slots[pos])
  <2>1. Retained' = ReplayOf(event_count', current_index, slots)
    BY <1>1 DEF Retained, ReplayOf
  <2>2. /\ event_count < MaxEvents => pos = event_count
        /\ before \in Seq(RecEvent) /\ Len(before) = event_count
        /\ \A k \in 1..event_count :
             SlotNo(event_count, pos, k) # pos =>
                before[k] = slots[SlotNo(event_count, pos, k)]
    BY <1>3 DEF RingAt, FillAt
  <2>3. ReplayOf(IF event_count < MaxEvents THEN event_count + 1
                                            ELSE event_count,
                 NextSlot(pos), slots)
          = IF event_count < MaxEvents THEN Append(before, slots[pos])
                                       ELSE Append(Tail(before), slots[pos])
    BY <1>7, <1>8, <2>2, PushedWindow
  <2> QED
    BY <1>1, <1>4, <2>1, <2>3
<1>10. SeenWindow = before /\ SeenWindow' = Retained'
  BY <1>1, <1>2, SeenNow, SeenNext DEF AddLabels
<1>11. Pushed
  BY <1>1, <1>3, <1>6, <1>9, <1>10 DEF Pushed, FillAt
<1>12. RingAt(current_index)'
  <2>1. event_count' < MaxEvents =>
          current_index = event_count' /\ recorded' = event_count'
    BY <1>1, <1>3, <1>4, <1>8, RingAssumption DEF RingAt, NextSlot
  <2>2. recorded' >= event_count'
    BY <1>1, <1>3, <1>8 DEF RingAt, RecTypes
  <2>3. \A i \in Slots : i < event_count' => slots'[i].core \in Harts
    <3>1. \A i \in Slots : i < event_count' => i < event_count \/ i = pos
      BY <1>1, <1>3, <1>8, RingAssumption DEF RingAt, Slots
    <3>2. \A i \in Slots : i < event_count \/ i = pos => slots[i].core \in Harts
      BY <1>7 DEF RecEvent
    <3> QED
      BY <1>1, <3>1, <3>2
  <2> QED
    BY <1>1, <1>3, <2>1, <2>2, <2>3 DEF RingAt
<1>13. WindowInv'
  <2>1. /\ before \in Seq(RecEvent) /\ Len(before) = event_count
        /\ Ordered(before, mtime) /\ mtime \in Nat
        /\ slots[pos].timestamp <= mtime
        /\ \A k \in 1..Len(before) : before[k].timestamp <= slots[pos].timestamp
    BY <1>3, <1>10 DEF FillAt, WindowInv, RecTypes
  <2>2. CASE event_count < MaxEvents
    <3>1. Ordered(Append(before, slots[pos]), mtime)
      BY <1>6, <2>1, PushOrdered
    <3>2. /\ Append(before, slots[pos]) \in Seq(RecEvent)
          /\ Len(Append(before, slots[pos])) = event_count + 1
      BY <1>6, <2>1, AppendProperties
    <3> QED
      BY <1>1, <1>9, <1>10, <2>2, <3>1, <3>2 DEF WindowInv
  <2>3. CASE ~(event_count < MaxEvents)
    <3>1. before # << >> /\ event_count > 0
      BY <1>8, <2>1, <2>3, RingAssumption, EmptySeq
    <3>2. Ordered(Append(Tail(before), slots[pos]), mtime)
      BY <1>6, <2>1, <3>1, PushOrdered
    <3>3. Tail(before) \in Seq(RecEvent) /\ Len(Tail(before)) = event_count - 1
      BY <2>1, <3>1, HeadTailProperties
    <3>4. /\ Append(Tail(before), slots[pos]) \in Seq(RecEvent)
          /\ Len(Append(Tail(before), slots[pos])) = event_count
      BY <1>6, <1>8, <3>3, AppendProperties
    <3> QED
      BY <1>1, <1>9, <1>10, <2>3, <3>2, <3>4 DEF WindowInv
  <2> QED
    BY <2>2, <2>3
<1>14. RecTypes'
  BY <1>1, <1>2, <1>8 DEF RecTypes
<1>15. FileIsOneState' /\ (trace_en' => ~saved')
  BY <1>1, <1>3 DEF FileIsOneState, FillAt
<1>16. SoloInv(h)'
  <2>1. RingAt(PosAt(body[h]))'
    BY <1>5, <1>12 DEF RingAt
  <2> QED
    BY <1>1, <1>2, <1>3, <2>1 DEF SoloInv, AddLabels
<1> QED
  BY <1>2, <1>11, <1>13, <1>14, <1>15, <1>16
------------------------------------------------------------------------------
\* traceSTART empties the window.
LEMMA DoStart ==
  ASSUME NEW h \in Harts, HookInv(h), Start(h)
  PROVE  /\ HookInv(h)'
         /\ trace_en' = TRUE /\ SeenWindow' = << >> /\ recorded' = 0
<1> USE DEF HookInv
<1>1. /\ body[h] = "out" /\ trace_en' = TRUE
      /\ current_index' = 0 /\ event_count' = 0 /\ recorded' = 0
      /\ saved' = FALSE
      /\ UNCHANGED <<slots, image, body, mtime, before>>
  BY DEF Start, Enter
<1>2. Solo(h)'
  BY <1>1 DEF Solo
<1>3. RecTypes'
  <2>1. current_index' \in 0..MaxEvents /\ event_count' \in 0..MaxEvents
    BY <1>1, RingAssumption
  <2>2. trace_en' \in BOOLEAN /\ saved' \in BOOLEAN /\ recorded' \in Nat
    BY <1>1
  <2> QED
    BY <1>1, <2>1, <2>2 DEF RecTypes
<1>4. PosAt(body[h])' = 0 /\ RingAt(PosAt(body[h]))'
  <2>1. PosAt(body[h])' = 0
    BY <1>1 DEF PosAt
  <2> QED
    BY <1>1, <2>1, RingAssumption DEF RingAt, Slots
<1>5. SeenWindow' = Retained'
  BY <1>1, <1>2, SeenNext DEF AddLabels
<1>6. Retained' = << >>
  BY <1>1 DEF Retained
<1>7. WindowInv'
  <2>1. << >> \in Seq(RecEvent) /\ Len(<< >>) = 0
    BY EmptySeq
  <2> QED
    BY <1>1, <1>5, <1>6, <2>1 DEF WindowInv, Ordered
<1>8. FileIsOneState'
  BY <1>1 DEF FileIsOneState
<1>9. SoloInv(h)'
  BY <1>1, <1>4, RingAssumption DEF SoloInv, AddLabels, Slots
<1> QED
  BY <1>1, <1>2, <1>3, <1>5, <1>6, <1>7, <1>8, <1>9

\* A third member joins a pair.
LEMMA AppendThird ==
  ASSUME NEW a, NEW b, NEW c
  PROVE  Append(<<a, b>>, c) = <<a, b, c>>
<1> DEFINE S == {a, b, c}
           s == Append(<<a, b>>, c)
<1>1. <<a, b>> \in Seq(S) /\ <<a, b, c>> \in Seq(S) /\ c \in S
  OBVIOUS
<1>2. Len(<<a, b>>) = 2 /\ Len(<<a, b, c>>) = 3
  OBVIOUS
<1>3. /\ s \in Seq(S) /\ Len(s) = 3
      /\ \A i \in 1..2 : s[i] = <<a, b>>[i]
      /\ s[3] = c
  BY <1>1, <1>2, AppendProperties
<1>4. \A i \in 1..3 : s[i] = <<a, b, c>>[i]
  BY <1>3
<1> QED
  BY <1>1, <1>2, <1>3, <1>4, SeqEqual

\* Nothing is recorded while the capture is ended and written.
LEMMA DoDump ==
  ASSUME NEW h \in Harts, HookInv(h),
         EndCapture(h) \/ WriteHeader(h) \/ WriteRing(h)
  PROVE  /\ HookInv(h)' /\ trace_en' = FALSE
         /\ UNCHANGED <<SeenWindow, recorded>>
         /\ trace_en => EndCapture(h)
<1> USE DEF HookInv
<1>1. /\ body[h] \in {"out", "dump", "dumpRing"} /\ trace_en' = FALSE
      /\ \E there \in {"out", "dump", "dumpRing"} :
           body' = [body EXCEPT ![h] = there]
      /\ UNCHANGED <<current_index, event_count, slots, mtime, recorded>>
  BY DEF EndCapture, WriteHeader, WriteRing, Enter, Inside, Then, SoloInv, RecTypes
<1>2. Solo(h)' /\ body' \in [Harts -> BodyLabels]
      /\ body'[h] \in {"out", "dump", "dumpRing"}
  BY <1>1, SoloStays DEF BodyLabels
<1>3. PosAt(body[h]) = current_index /\ PosAt(body[h])' = current_index
  BY <1>1, <1>2 DEF PosAt
<1>4. RingAt(current_index) /\ RingAt(PosAt(body[h]))'
  BY <1>1, <1>3 DEF SoloInv, RingAt
<1>5. SeenWindow' = SeenWindow
  <2>1. SeenWindow = Retained /\ SeenWindow' = Retained'
    BY <1>1, <1>2, SeenNow, SeenNext DEF AddLabels
  <2> QED
    BY <1>1, <2>1 DEF Retained
<1>6. WindowInv'
  BY <1>1, <1>5 DEF WindowInv, Ordered
<1>7. CASE EndCapture(h)
  <2>1. body'[h] = "dump" /\ UNCHANGED <<image, saved>>
    BY <1>7 DEF EndCapture, Then, RecTypes
  <2>2. FileIsOneState' /\ RecTypes'
    BY <1>1, <1>2, <2>1 DEF FileIsOneState, RecTypes
  <2> QED
    BY <1>1, <1>2, <1>4, <1>5, <1>6, <1>7, <2>1, <2>2 DEF SoloInv, AddLabels, RingAt
<1>8. CASE WriteHeader(h)
  <2>1. /\ body[h] = "dump" /\ body'[h] = "dumpRing"
        /\ image' = <<event_count, current_index>> /\ saved' = FALSE
    BY <1>8 DEF WriteHeader, Inside, Then, RecTypes
  <2>2. FileIsOneState' /\ RecTypes' /\ ~trace_en
    BY <1>1, <1>2, <2>1 DEF FileIsOneState, RecTypes, SoloInv
  <2> QED
    BY <1>1, <1>2, <1>4, <1>5, <1>6, <2>1, <2>2 DEF SoloInv, AddLabels, RingAt
<1>9. CASE WriteRing(h)
  <2>1. /\ body[h] = "dumpRing" /\ body'[h] = "out"
        /\ image' = Append(image, slots) /\ saved' = TRUE
    BY <1>9 DEF WriteRing, Inside, Then, RecTypes
  <2>2. image' = <<event_count, current_index, slots>>
    BY <2>1, AppendThird DEF SoloInv
  <2>3. FileIsOneState' /\ RecTypes' /\ ~trace_en
    BY <1>1, <1>2, <2>1, <2>2 DEF FileIsOneState, RecTypes, SoloInv
  <2> QED
    BY <1>1, <1>2, <1>4, <1>5, <1>6, <2>1, <2>3 DEF SoloInv, AddLabels, RingAt
<1> QED
  BY <1>7, <1>8, <1>9
------------------------------------------------------------------------------
(* All steps *)

\* The parts the lock functions and the clock do not touch.
LEMMA HookKeepsSInv ==
  ASSUME SInv, NEW h \in Harts, Hook(h)
  PROVE  HookInv(h) /\ (HookInv(h)' => SInv')
<1>1. Solo(h) /\ pc[h] = "run" /\ isrHeld[h] > 0
  BY HookIsSolo DEF SInv
<1>2. HookInv(h)
  BY <1>1, SoloViewNow DEF SInv, SoloView, HookInv, FileInv
<1>3. UNCHANGED lockVars
  BY DEF Hook, AddEvent, StampSlot, FillSlot, Advance, WrapIndex, CountEvent,
         Start, EndCapture, WriteHeader, WriteRing
<1>4. IInv'
  BY <1>3 DEF SInv, lockVars, taskLock, held, IInv, TypeOK, TaskPart, ISRPart,
              OneTaskOwner, OneISROwner, OwnsTask, OwnsISR
<1>5. ASSUME HookInv(h)' PROVE SInv'
  <2>1. RingInv' /\ FillInv' /\ FileInv'
    BY <1>5, SoloViewNext DEF SoloView, HookInv
  <2>2. InsideInv'
    <3>1. UNCHANGED <<pc, isrHeld>>
      BY <1>3 DEF lockVars, held
    <3>2. Solo(h)'
      BY <1>5 DEF HookInv
    <3> QED
      BY <1>1, <3>1, <3>2 DEF InsideInv, Solo
  <2> QED
    BY <1>4, <1>5, <2>1, <2>2 DEF SInv, HookInv
<1> QED
  BY <1>2, <1>5

\* A lock function changes only what belongs to its own hart.
LEMMA HartStepLocal ==
  ASSUME TypeOK, NEW h \in Harts, HartStep(h), NEW g \in Harts, g # h
  PROVE  pc'[g] = pc[g] /\ isrHeld'[g] = isrHeld[g]
BY DEF HartStep, Call, Release, LockStep, GetTaskStep, ReleaseTaskStep,
       GetISRStep, ReleaseISRStep, CallGetTask, CallGetISR, CallReleaseTask,
       CallReleaseISR, ReenterTask, NotOwnerOfTask, SeeTaskFree, SwapTask,
       SetTaskOwner, SetTaskDepth, LeaveTask, ClearTaskOwner, ClearTaskDepth,
       UnlockTask, ReenterISR, NotOwnerOfISR, SeeISRFree, SwapISR, SetISRCount,
       LeaveISR, ClearISRCount, FreeISR, GotTask, GotISR, TaskStep, ISRStep,
       Goto, TypeOK, held

\* A lock function of a hart outside leaves the recorder alone.
LEMMA DoLock ==
  ASSUME SInv, NEW h \in Harts, body[h] = "out", HartStep(h), UNCHANGED recVars
  PROVE  SInv' /\ Unseen
<1>1. IInv'
  BY StepIInv DEF SInv
<1>2. InsideInv'
  <2>1. TypeOK /\ body' = body
    BY DEF SInv, IInv, recVars
  <2> QED
    BY <2>1, HartStepLocal DEF SInv, InsideInv
<1>3. UNCHANGED <<trace_en, current_index, event_count, slots, image, body,
                  mtime, recorded, session, before, saved>>
  BY DEF recVars
<1>4. Retained' = Retained /\ SeenWindow' = SeenWindow
  BY <1>3 DEF Retained, SeenWindow, Adding
<1>5. RecTypes' /\ WindowInv'
  BY <1>3, <1>4 DEF SInv, RecTypes, WindowInv, Ordered
<1>6. FileInv'
  BY <1>3 DEF SInv, FileInv, FileIsOneState
<1>7. RingInv'
  BY <1>3 DEF SInv, RingInv, RingAt, PosAt, Inner
<1>8. FillInv'
  BY <1>3 DEF SInv, FillInv, FillAt, PosAt
<1> QED
  BY <1>1, <1>2, <1>3, <1>4, <1>5, <1>6, <1>7, <1>8 DEF SInv, Unseen

\* So does the clock, and no stamp gets ahead of it.
LEMMA DoTick ==
  ASSUME SInv, Tick
  PROVE  SInv' /\ Unseen
<1>1. /\ mtime' = mtime + 1
      /\ UNCHANGED <<lockVars, trace_en, current_index, event_count, slots,
                     image, body, recorded, session, before, saved>>
  BY DEF Tick
<1>2. IInv' /\ InsideInv'
  BY <1>1 DEF SInv, lockVars, taskLock, held, IInv, TypeOK, TaskPart, ISRPart,
              OneTaskOwner, OneISROwner, OwnsTask, OwnsISR, InsideInv
<1>3. Retained' = Retained /\ SeenWindow' = SeenWindow
  BY <1>1 DEF Retained, SeenWindow, Adding
<1>4. mtime \in Nat /\ mtime' \in Nat
  BY <1>1 DEF SInv, RecTypes
<1>5. RecTypes'
  BY <1>1, <1>4 DEF SInv, RecTypes
<1>6. WindowInv'
  <2>1. /\ SeenWindow \in Seq(RecEvent) /\ Len(SeenWindow) = event_count
        /\ Ordered(SeenWindow, mtime)
    BY DEF SInv, WindowInv
  <2>2. Ordered(SeenWindow, mtime')
    BY <1>1, <1>4, <2>1, LaterOrdered
  <2>3. Ordered(SeenWindow, mtime)'
    BY <1>3, <2>2 DEF Ordered
  <2> QED
    BY <1>1, <1>3, <2>1, <2>3 DEF WindowInv
<1>7. FileInv'
  BY <1>1 DEF SInv, FileInv, FileIsOneState
<1>8. RingInv'
  BY <1>1 DEF SInv, RingInv, RingAt, PosAt, Inner
<1>9. FillInv'
  <2> SUFFICES ASSUME NEW h \in Harts, body[h] \in AddLabels
               PROVE  FillAt(PosAt(body[h]), body[h])'
    BY <1>1 DEF FillInv
  <2>1. PICK pos \in Slots : pos = PosAt(body[h])
    <3>1. h \in Inner
      BY DEF Inner, AddLabels
    <3> QED
      BY <3>1 DEF SInv, RingInv, RingAt
  <2>2. FillAt(pos, body[h])
    BY <2>1 DEF SInv, FillInv
  <2>3. slots[pos].timestamp \in Nat
    BY DEF SInv, RecTypes
  <2>4. FillAt(pos, body[h])'
    BY <1>1, <1>4, <2>2, <2>3 DEF FillAt
  <2>5. PosAt(body[h])' = pos
    BY <1>1, <2>1 DEF PosAt
  <2> QED
    BY <2>4, <2>5 DEF FillAt
<1> QED
  BY <1>1, <1>2, <1>3, <1>5, <1>6, <1>7, <1>8, <1>9 DEF SInv, Unseen

\* Every step keeps the invariant, and looks from outside like one event, the
\* beginning or the end of a capture, or nothing.
LEMMA SmpStep ==
  ASSUME SInv, [SmpNext]_smpVars
  PROVE  /\ SInv'
         /\ \/ Unseen \/ Pushed
            \/ trace_en' = TRUE /\ SeenWindow' = << >> /\ recorded' = 0
            \/ trace_en' = FALSE /\ UNCHANGED <<SeenWindow, recorded>>
<1>1. ASSUME NEW h \in Harts, Hook(h) PROVE SInv' /\
         (\/ Unseen \/ Pushed
          \/ trace_en' = TRUE /\ SeenWindow' = << >> /\ recorded' = 0
          \/ trace_en' = FALSE /\ UNCHANGED <<SeenWindow, recorded>>)
  <2>1. HookInv(h) /\ (HookInv(h)' => SInv')
    BY <1>1, HookKeepsSInv
  <2> QED
    BY <1>1, <2>1, DoAddEvent, DoStampSlot, DoFillSlot, DoAdvance, DoCountEvent,
       DoStart, DoDump DEF Hook
<1>2. ASSUME NEW h \in Harts, body[h] = "out", HartStep(h), UNCHANGED recVars
      PROVE  SInv' /\ Unseen
  BY <1>2, DoLock
<1>3. CASE Tick
  BY <1>3, DoTick
<1>4. CASE UNCHANGED smpVars
  <2>1. UNCHANGED <<lockVars, recVars>>
    BY <1>4 DEF smpVars
  <2>2. UNCHANGED <<trace_en, current_index, event_count, slots, image, body,
                    mtime, recorded, session, before, saved>>
    BY <2>1 DEF recVars
  <2>3. IInv' /\ InsideInv'
    BY <2>1, <2>2 DEF SInv, lockVars, taskLock, held, IInv, TypeOK, TaskPart,
         ISRPart, OneTaskOwner, OneISROwner, OwnsTask, OwnsISR, InsideInv
  <2>4. Retained' = Retained /\ SeenWindow' = SeenWindow
    BY <2>2 DEF Retained, SeenWindow, Adding
  <2>5. RecTypes' /\ WindowInv'
    BY <2>2, <2>4 DEF SInv, RecTypes, WindowInv, Ordered
  <2>6. FileInv'
    BY <2>2 DEF SInv, FileInv, FileIsOneState
  <2>7. RingInv'
    BY <2>2 DEF SInv, RingInv, RingAt, PosAt, Inner
  <2>8. FillInv'
    BY <2>2 DEF SInv, FillInv, FillAt, PosAt
  <2> QED
    BY <2>2, <2>3, <2>4, <2>5, <2>6, <2>7, <2>8 DEF SInv, Unseen
<1> QED
  BY <1>1, <1>2, <1>3, <1>4 DEF SmpNext

\* Nobody is inside an empty recorder.
LEMMA InitSInv == SmpInit => SInv /\ SeenWindow = << >>
<1> SUFFICES ASSUME SmpInit PROVE SInv /\ SeenWindow = << >>
  OBVIOUS
<1>1. IInv
  BY InitIInv DEF SmpInit
<1>2. RecTypes
  <2>1. 0 \in 0..MaxEvents /\ "out" \in BodyLabels
    BY RingAssumption DEF BodyLabels
  <2> QED
    BY <2>1 DEF SmpInit, RecTypes
<1>3. InsideInv /\ FillInv /\ Inner = {} /\ ~Adding
  BY DEF SmpInit, InsideInv, FillInv, Inner, Adding, AddLabels
<1>4. RingInv
  BY <1>3, RingAssumption DEF SmpInit, RingInv, RingAt, Slots
<1>5. FileInv
  BY DEF SmpInit, FileInv, FileIsOneState
<1>6. SeenWindow = << >> /\ event_count = 0
  BY <1>3 DEF SmpInit, SeenWindow, Retained
<1>7. WindowInv
  <2>1. << >> \in Seq(RecEvent) /\ Len(<< >>) = 0
    BY EmptySeq
  <2> QED
    BY <1>6, <2>1 DEF WindowInv, Ordered
<1> QED
  BY <1>1, <1>2, <1>3, <1>4, <1>5, <1>6, <1>7 DEF SInv

\* The invariant of the recorder under its locks.
LEMMA AlwaysSInv == SmpSpec => []SInv
BY InitSInv, SmpStep, PTL DEF SmpSpec
------------------------------------------------------------------------------
\* The recorder's use of the locks keeps their promise: two harts never both hold
\* the ISR lock.
THEOREM SmpISRMutexHolds == SmpSpec => []ISRMutex
<1>1. SInv => ISRMutex
  BY DEF SInv, IInv, OneISROwner, OwnsISR, ISRMutex, Exclusive
<1> QED
  BY <1>1, AlwaysSInv, PTL

\* The ring is in time order on any number of harts: a stamp is taken inside
\* the section that orders the slots.
THEOREM RetainedInTimeOrderHolds == SmpSpec => []RetainedInTimeOrder
<1>1. SInv => RetainedInTimeOrder
  BY DEF SInv, WindowInv, Ordered, RetainedInTimeOrder
<1> QED
  BY <1>1, AlwaysSInv, PTL

\* The file is one state of the recorder and that state is final, however many
\* harts run on while it is written.
THEOREM FileIsOneStateHolds == SmpSpec => []FileIsOneState
<1>1. SInv => FileIsOneState
  BY DEF SInv, FileInv
<1> QED
  BY <1>1, AlwaysSInv, PTL

\* The hooks of all harts, one memory access at a time, are one recorder that
\* takes whole events: no slot is written by two harts, no event is torn,
\* skipped or counted twice, and none is added after the capture ended.
THEOREM HooksAreAtomicHolds == SmpSpec => HooksAreAtomic
<1>1. SmpInit => Promise!Init
  <2> SUFFICES ASSUME SmpInit PROVE Promise!Init
    OBVIOUS
  <2>1. SeenWindow = << >> /\ recorded = 0 /\ trace_en = FALSE
    BY InitSInv DEF SmpInit
  <2>2. Len(SeenWindow) = 0
    BY <2>1, EmptySeq
  <2>3. recorded - Len(SeenWindow) = 0
    <3>1. recorded = 0
      BY <2>1
    <3> QED
      BY <2>2, <3>1
  <2> QED
    BY <2>1, <2>3 DEF Promise!Init
<1>2. SInv /\ [SmpNext]_smpVars => [Promise!Next]_Promise!wvars
  <2> SUFFICES ASSUME SInv, [SmpNext]_smpVars
               PROVE  [Promise!Next]_Promise!wvars
    OBVIOUS
  <2>0. /\ SeenWindow \in Seq(RecEvent) /\ Len(SeenWindow) = event_count
        /\ event_count \in 0..MaxEvents /\ recorded \in Nat
    BY DEF SInv, WindowInv, RecTypes
  <2>1. CASE Unseen
    BY <2>1 DEF Unseen, Promise!wvars
  <2>2. CASE Pushed
    <3>1. PICK e \in RecEvent :
            SeenWindow' = IF event_count < MaxEvents
                          THEN Append(SeenWindow, e)
                          ELSE Append(Tail(SeenWindow), e)
      BY <2>2 DEF Pushed
    <3>2. CASE event_count < MaxEvents
      <4>1. SeenWindow' = Append(SeenWindow, e)
        BY <3>1, <3>2
      <4>2. /\ Len(SeenWindow') = event_count + 1
            /\ SeenWindow'[event_count + 1] = e /\ SeenWindow' # << >>
        BY <2>0, <4>1, AppendProperties
      <4>3. recorded' - Len(SeenWindow') = recorded - Len(SeenWindow)
        BY <2>0, <2>2, <4>2 DEF Pushed
      <4>4. Promise!Keep(e)
        BY <2>0, <3>2, <4>1, <4>3 DEF Promise!Keep
      <4> QED
        BY <2>2, <4>2, <4>4 DEF Pushed, Promise!Next, Promise!Record, RecEvent
    <3>3. CASE ~(event_count < MaxEvents)
      <4>1. SeenWindow' = Append(Tail(SeenWindow), e) /\ SeenWindow # << >>
            /\ event_count = MaxEvents
        BY <2>0, <3>1, <3>3, RingAssumption, EmptySeq
      <4>2. /\ Tail(SeenWindow) \in Seq(RecEvent)
            /\ Len(Tail(SeenWindow)) = event_count - 1
        BY <2>0, <4>1, HeadTailProperties
      <4>3. /\ Len(SeenWindow') = event_count
            /\ SeenWindow'[event_count] = e /\ SeenWindow' # << >>
        <5>1. Len(Tail(SeenWindow)) + 1 = event_count
          BY <2>0, <4>2
        <5> QED
          BY <4>1, <4>2, <5>1, AppendProperties
      <4>4. recorded' - Len(SeenWindow') = recorded - Len(SeenWindow) + 1
        <5>1. /\ Len(SeenWindow') = event_count /\ event_count \in Nat
              /\ Len(SeenWindow) = event_count
              /\ recorded' = recorded + 1 /\ recorded \in Nat
          BY <2>0, <2>2, <4>3, RingAssumption DEF Pushed
        <5> QED
          BY <5>1
      <4>5. Promise!PushOut(e)
        BY <2>0, <4>1, <4>4 DEF Promise!PushOut
      <4> QED
        BY <2>2, <4>3, <4>5 DEF Pushed, Promise!Next, Promise!Record, RecEvent
    <3> QED
      BY <3>2, <3>3
  <2>3. CASE trace_en' = TRUE /\ SeenWindow' = << >> /\ recorded' = 0
    <3>1. recorded' - Len(SeenWindow') = 0
      <4>1. Len(SeenWindow') = 0
        BY <2>3, EmptySeq
      <4>2. recorded' = 0
        BY <2>3
      <4> QED
        BY <4>1, <4>2
    <3> QED
      BY <2>3, <3>1 DEF Promise!Next, Promise!Begin
  <2>4. CASE trace_en' = FALSE /\ UNCHANGED <<SeenWindow, recorded>>
    <3>1. recorded' - Len(SeenWindow') = recorded - Len(SeenWindow)
      BY <2>4
    <3> QED
      BY <2>4, <3>1 DEF Promise!Next, Promise!Stop
  <2> QED
    BY <2>1, <2>2, <2>3, <2>4, SmpStep
<1> QED
  BY <1>1, <1>2, AlwaysSInv, PTL DEF SmpSpec, HooksAreAtomic, Promise!Spec
==============================================================================
