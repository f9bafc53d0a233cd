---------------------------- MODULE SyncObjects ----------------------------
(***************************************************************************)
(* What the viewer makes of the events of kernel objects and of interval   *)
(* markers: _build_sync_object_data and _post_process_sti of               *)
(* btf_viewer_pkg/parser.py.                                               *)
(*                                                                         *)
(* The actions are the traced system: tasks on cores use mutexes,          *)
(* semaphores, queues and intervals, the kernel's hooks leave one event    *)
(* each, and the truth is kept beside them.  The operators of the first    *)
(* part read nothing but the events and the segments, as the parser does.  *)
(*                                                                         *)
(* The trace may begin when objects are in use: mutexes are held, queues   *)
(* have messages and intervals are open.                                   *)
(*                                                                         *)
(* The system is bound by four assumptions.  Three are guards with a name: *)
(* InRankOrder, Separate and PastCreation.  The fourth is that a message   *)
(* is put at the back of its queue and leaves it only when it is received. *)
(* The parser is wrong without them.                                       *)
(***************************************************************************)
EXTENDS Integers, Sequences, FiniteSets, SequencesExt

CONSTANTS
    Tasks, Cores, Objects,
    Nobody,
    PostCreateMax,  \* _POST_CREATE_GIVE_MAX_NS
    Capacity,       \* of a semaphore
    MaxTime,        \* bound: the clock
    MaxEvents,      \* bound: events
    MaxSwitches,    \* bound: switches after the first of each core
    Backlog,        \* bound: messages and intervals older than the trace, of an object
    Setups          \* what the objects are: mutex, sem, queue, interval, unused

ASSUME SyncAssumption ==
    /\ Nobody \notin Tasks
    /\ IsFiniteSet(Objects)
    /\ Setups \subseteq [Objects -> {"mutex", "sem", "queue", "interval", "unused"}]
    /\ {PostCreateMax, Capacity, MaxTime, MaxEvents, MaxSwitches, Backlog} \subseteq Nat

VARIABLES       \* the trace
    now,
    log,        \* object -> its events in file order
    running, since,
    closed      \* core -> segments that have ended

VARIABLES       \* the traced system
    kind,       \* object -> what it is
    present,    \* object -> created, or older than the trace
    count, initial,     \* tokens of a semaphore, and how many it began with
    older,      \* object -> how many messages or intervals are older than the trace
    open,       \* object -> holds, messages or intervals that are open, the others
    real,       \* object -> those that are over, oldest end first
    shifted,    \* queues of which an older message was received before one sent since
    orphaned,   \* mutexes given that were taken before the trace began
    heldDeleted \* mutexes deleted while they were held

trace == <<now, log, running, since, closed>>
system == <<kind, present, count, initial, older, open, real, shifted, orphaned, heldDeleted>>
vars == <<trace, system>>

OfKind(k) == {o \in Objects : kind[o] = k}
Before == -1    \* the time of a take before the trace began
------------------------------------------------------------------------------
(* The parser *)

\* The segments of a core in order: those that have ended, and the last one up
\* to the end of the trace.
core_segs == [c \in Cores |->
    Append(closed[c], [task |-> running[c], start |-> since[c], end |-> now])]

\* The first segment that has not ended before the event.  Of the segments segs
\* the parser has none of length zero and none of what is not a task.
_task_mk_at(segs, t) ==
    LET later == {i \in DOMAIN segs : /\ segs[i].start < segs[i].end
                                      /\ segs[i].task # Nobody
                                      /\ segs[i].end >= t}
        first == segs[Min(later)]
    IN  IF later = {} \/ first.start > t THEN Nobody ELSE first.task

\* The names of the actions in the order of the alphabet; of markers, starts
\* come first.
Rank == [create |-> 1, delete |-> 2, give |-> 3, recv |-> 4, send |-> 5, take |-> 6,
         start |-> 1, stop |-> 2]

SortedBy(evs, Less(_, _)) ==
    LET First(i, j) == Less(evs[i], evs[j]) \/ (i < j /\ ~Less(evs[j], evs[i]))
    IN  [k \in DOMAIN evs |->
            evs[CHOOSE i \in DOMAIN evs :
                    Cardinality({j \in DOMAIN evs : First(j, i)}) = k - 1]]

\* Mutant: of one time, the other order of the names.
EarlierReversed(e, f) ==
    e.time < f.time \/ (e.time = f.time /\ Rank[e.action] > Rank[f.action])
InOrderReversed(evs) == SortedBy(evs, EarlierReversed)

Earlier(e, f) ==
    e.time < f.time \/ (e.time = f.time /\ Rank[e.action] < Rank[f.action])
InOrder(evs) == SortedBy(evs, Earlier)

\* create_ns is the time of the creation, if the trace has it.
_empty_obj == [create_ns |-> {}, holds |-> <<>>, issues |-> {}, takes |-> <<>>,
               gives |-> <<>>, waiters |-> {}, max_nest |-> 0]

\* Mutant: every give counts.
_is_post_create_kernel_give_never(obj, t) == FALSE

\* The give with which the kernel makes a new mutex available.
_is_post_create_kernel_give(obj, t) ==
    \E created \in obj.create_ns : t - created <= PostCreateMax

_record_hold(obj, take, give, take_first) ==
    [obj EXCEPT !.holds = Append(@,
        IF take_first THEN [start |-> take.time, stop |-> give.time, holder |-> take.task]
                      ELSE [start |-> give.time, stop |-> take.time, holder |-> take.task])]

Issue(what, rec) == [kind |-> what, time |-> rec.time, task |-> rec.task]

OnTake(obj, k, rec) ==
    IF k \in {"sem", "queue"} /\ obj.gives # <<>>
    THEN LET give == Head(obj.gives)
             rest == [obj EXCEPT !.gives = Tail(@)]
         IN  IF k = "sem" THEN _record_hold(rest, rec, give, FALSE)
                          ELSE _record_hold(rest, give, rec, TRUE)
    ELSE LET nest == Len(obj.takes) + 1 IN
         [obj EXCEPT
            !.waiters = IF obj.takes # <<>> /\ rec.task \notin {Nobody, Last(obj.takes).task}
                        THEN @ \cup {rec.task} ELSE @,
            !.takes = Append(@, rec),
            !.max_nest = IF nest > @ THEN nest ELSE @]

MutexGive(obj, rec) ==
    IF obj.takes = <<>>
    THEN [obj EXCEPT !.issues = @ \cup {Issue("orphan_give", rec)}]
    ELSE LET take == Last(obj.takes)
             cross == IF Nobody \notin {take.task, rec.task} /\ take.task # rec.task
                      THEN {Issue("cross_task_give", rec)} ELSE {}
             moved == IF take.core # rec.core
                      THEN {Issue("CORE_MIGRATION_WHILE_HELD", rec)} ELSE {}
         IN  _record_hold([obj EXCEPT !.takes = Front(@), !.issues = @ \cup cross \cup moved],
                          take, rec, TRUE)

\* Mutant: a semaphore given back is one signalled.
OnGiveSignals(obj, k, rec) ==
    IF k = "mutex" THEN MutexGive(obj, rec)
    ELSE [obj EXCEPT !.gives = Append(@, rec)]

OnGive(obj, k, rec) ==
    IF k = "mutex" THEN MutexGive(obj, rec)
    ELSE IF k = "sem" /\ obj.takes # <<>>
    THEN _record_hold([obj EXCEPT !.takes = Tail(@)], Head(obj.takes), rec, TRUE)
    ELSE [obj EXCEPT !.gives = Append(@, rec)]

\* Mutant: what was open stays so.
OnDeleteKept(obj, rec) ==
    [obj EXCEPT !.issues = @ \cup IF obj.takes # <<>> THEN {Issue("delete_while_held", rec)}
                                                      ELSE {}]

OnDelete(obj, rec) ==
    [obj EXCEPT !.issues = @ \cup IF obj.takes # <<>> THEN {Issue("delete_while_held", rec)}
                                                      ELSE {},
                !.takes = <<>>, !.gives = <<>>]

OnEvent(obj, k, rec) ==
    CASE rec.action = "create" -> [_empty_obj EXCEPT !.create_ns = {rec.time}]
      [] rec.action \in {"take", "recv"} -> OnTake(obj, k, rec)
      [] rec.action = "send" -> OnGive(obj, k, rec)
      [] rec.action = "give" ->
            IF _is_post_create_kernel_give(obj, rec.time) THEN obj ELSE OnGive(obj, k, rec)
      [] rec.action = "delete" -> OnDelete(obj, rec)

\* The events of an object, each with the task that ran on its core.
Record(segs, e) == [time |-> e.time, core |-> e.core, action |-> e.action,
                    task |-> _task_mk_at(segs[e.core], e.time)]
Records(o) ==
    LET evs == InOrder(log[o]) IN [i \in DOMAIN evs |-> Record(core_segs, evs[i])]

\* An object of kind k after its last event.
Replayed(k, recs) ==
    LET obj[n \in 0..Len(recs)] ==
            IF n = 0 THEN _empty_obj ELSE OnEvent(obj[n - 1], k, recs[n])
    IN  obj[Len(recs)]

Parsed(o) == Replayed(kind[o], Records(o))

\* The issues of the end of the trace are added.
Issues(o) ==
    LET obj == Parsed(o) IN
    obj.issues \cup {Issue("unmatched_take", r) : r \in ToSet(obj.takes)}
               \cup {Issue(IF kind[o] = "queue" THEN "unmatched_send" ELSE "unmatched_give", r) :
                        r \in ToSet(obj.gives)}

\* Two mutexes are held by two tasks at the end of the trace.
deadlock_risk ==
    LET ends == UNION {{[obj |-> o, rec |-> r] : r \in ToSet(Parsed(o).takes)} :
                            o \in OfKind("mutex")}
    IN  Cardinality(ends) >= 2 /\ Cardinality({e.rec.task : e \in ends} \ {Nobody}) >= 2

\* Mutant: a stop ends the oldest start.
OnMarkerFirst(st, e) ==
    IF e.action = "start" THEN [st EXCEPT !.stack = Append(@, e.time)]
    ELSE IF st.stack = <<>> THEN st
    ELSE [stack |-> Tail(st.stack),
          spans |-> IF e.time > Head(st.stack)
                    THEN Append(st.spans, [start |-> Head(st.stack), stop |-> e.time])
                    ELSE st.spans]

\* Markers of one pairing key: a stop ends the start that is last.
OnMarker(st, e) ==
    IF e.action = "start" THEN [st EXCEPT !.stack = Append(@, e.time)]
    ELSE IF st.stack = <<>> THEN st
    ELSE [stack |-> Front(st.stack),
          spans |-> IF e.time > Last(st.stack)
                    THEN Append(st.spans, [start |-> Last(st.stack), stop |-> e.time])
                    ELSE st.spans]

\* The markers of one key paired off.
Paired(evs) ==
    LET st[n \in 0..Len(evs)] ==
            IF n = 0 THEN [stack |-> <<>>, spans |-> <<>>] ELSE OnMarker(st[n - 1], evs[n])
    IN  st[Len(evs)]

Intervals(o) == Paired(InOrder(log[o]))
------------------------------------------------------------------------------
(* The traced system *)

Init ==
    /\ now = 0
    /\ log = [o \in Objects |-> <<>>]
    /\ running \in [Cores -> Tasks \cup {Nobody}]
    /\ \A c, d \in Cores : c # d => running[c] = Nobody \/ running[c] # running[d]
    /\ since = [c \in Cores |-> 0]
    /\ closed = [c \in Cores |-> <<>>]
    /\ kind \in Setups
    /\ present \in [Objects -> BOOLEAN]
    /\ initial \in [Objects -> 0..Capacity] /\ count = initial
    /\ older \in [Objects -> 0..Backlog]
    /\ open \in [Objects -> {<<>>} \cup {<<[time |-> Before, task |-> t]>> : t \in Tasks}]
    /\ \A o \in Objects :
            /\ kind[o] = "interval" => present[o]
            /\ kind[o] = "unused" => ~present[o]
            /\ kind[o] \notin {"queue", "interval"} \/ ~present[o] => older[o] = 0
            /\ kind[o] # "mutex" \/ ~present[o] => open[o] = <<>>
            /\ kind[o] # "sem" \/ ~present[o] => initial[o] = 0
    /\ real = [o \in Objects |-> <<>>]
    /\ shifted = {} /\ orphaned = {} /\ heldDeleted = {}

Advance ==
    /\ now < MaxTime
    /\ now' = now + 1
    /\ UNCHANGED <<log, running, since, closed, system>>

\* Another task, or none that is traced, runs on the core.
Switch(c, t) ==
    /\ t = Nobody \/ \A d \in Cores : running[d] # t
    /\ running[c] # t
    /\ since[c] < now \/ running[c] = Nobody
    /\ SumFunctionOnSet([d \in Cores |-> Len(closed[d])], Cores) < MaxSwitches
    /\ closed' = [closed EXCEPT ![c] =
            Append(@, [task |-> running[c], start |-> since[c], end |-> now])]
    /\ running' = [running EXCEPT ![c] = t]
    /\ since' = [since EXCEPT ![c] = now]
    /\ UNCHANGED <<now, log, system>>

\* Assumed: the events of an object at one time are in the order of their names.
InRankOrder(o, action) ==
    \A i \in DOMAIN log[o] : log[o][i].time = now => Rank[log[o][i].action] <= Rank[action]

\* Assumed: a task leaves no event at the time of the switch to it.
Separate(c) == running[c] # Nobody /\ since[c] < now

\* Assumed: nobody gives within PostCreateMax of the creation.
PastCreation(o) ==
    \A i \in DOMAIN log[o] : log[o][i].action = "create" => now - log[o][i].time > PostCreateMax

Hooked(c, o, actions) ==
    /\ Separate(c) /\ InRankOrder(o, actions[1])
    /\ SumFunctionOnSet([p \in Objects |-> Len(log[p])], Objects) + Len(actions) <= MaxEvents
    /\ log' = [log EXCEPT ![o] = @ \o
            [i \in DOMAIN actions |-> [time |-> now, core |-> c, action |-> actions[i]]]]
    /\ UNCHANGED <<now, running, since, closed, kind>>

Held(c) == [time |-> now, task |-> running[c]]

\* What was open longest, or last, is over.
Over(o, r) == real' = [real EXCEPT ![o] =
    Append(@, [start |-> r.time, stop |-> now, holder |-> r.task])]

\* The address may be one that was used before.
CreateObject(c, o) ==
    /\ ~present[o] /\ kind[o] # "unused"
    /\ \E n \in IF kind[o] = "sem" THEN 0..Capacity ELSE {0} :
            count' = [count EXCEPT ![o] = n] /\ initial' = [initial EXCEPT ![o] = n]
    /\ Hooked(c, o, IF kind[o] = "mutex" THEN <<"create", "give">> ELSE <<"create">>)
    /\ present' = [present EXCEPT ![o] = TRUE]
    /\ real' = [real EXCEPT ![o] = <<>>]
    /\ shifted' = shifted \ {o}
    /\ orphaned' = orphaned \ {o} /\ heldDeleted' = heldDeleted \ {o}
    /\ UNCHANGED <<older, open>>

DeleteObject(c, o) ==
    /\ present[o] /\ kind[o] # "interval"
    /\ Hooked(c, o, <<"delete">>)
    /\ present' = [present EXCEPT ![o] = FALSE]
    /\ older' = [older EXCEPT ![o] = 0]
    /\ open' = [open EXCEPT ![o] = <<>>]
    /\ heldDeleted' = heldDeleted \cup {p \in {o} : open[p] # <<>> /\ open[p][1].time # Before}
    /\ UNCHANGED <<count, initial, real, shifted, orphaned>>

TakeMutex(c, o) ==
    /\ present[o] /\ kind[o] = "mutex" /\ open[o] = <<>>
    /\ Hooked(c, o, <<"take">>)
    /\ open' = [open EXCEPT ![o] = <<Held(c)>>]
    /\ UNCHANGED <<present, count, initial, older, real, shifted, orphaned, heldDeleted>>

GiveMutex(c, o) ==
    /\ present[o] /\ kind[o] = "mutex" /\ open[o] # <<>> /\ open[o][1].task = running[c]
    /\ PastCreation(o)
    /\ Hooked(c, o, <<"give">>)
    /\ open' = [open EXCEPT ![o] = <<>>]
    /\ IF open[o][1].time = Before
       THEN orphaned' = orphaned \cup {o} /\ UNCHANGED real
       ELSE Over(o, open[o][1]) /\ UNCHANGED orphaned
    /\ UNCHANGED <<present, count, initial, older, shifted, heldDeleted>>

TakeSem(c, o) ==
    /\ present[o] /\ kind[o] = "sem" /\ count[o] > 0
    /\ Hooked(c, o, <<"take">>)
    /\ count' = [count EXCEPT ![o] = @ - 1]
    /\ UNCHANGED <<present, initial, older, open, real, shifted, orphaned, heldDeleted>>

GiveSem(c, o) ==
    /\ present[o] /\ kind[o] = "sem" /\ count[o] < Capacity
    /\ PastCreation(o)
    /\ Hooked(c, o, <<"give">>)
    /\ count' = [count EXCEPT ![o] = @ + 1]
    /\ UNCHANGED <<present, initial, older, open, real, shifted, orphaned, heldDeleted>>

\* Assumed: the message goes to the back and no other is overwritten.
Send(c, o) ==
    /\ present[o] /\ kind[o] = "queue"
    /\ Hooked(c, o, <<"send">>)
    /\ open' = [open EXCEPT ![o] = Append(@, Held(c))]
    /\ UNCHANGED <<present, count, initial, older, real, shifted, orphaned, heldDeleted>>

\* The oldest message: of those from before the trace nothing is known.
Receive(c, o) ==
    /\ present[o] /\ kind[o] = "queue"
    /\ Hooked(c, o, <<"recv">>)
    /\ \/ /\ older[o] > 0
          /\ older' = [older EXCEPT ![o] = @ - 1]
          /\ shifted' = shifted \cup {p \in {o} : open[p] # <<>>}
          /\ UNCHANGED <<open, real>>
       \/ /\ older[o] = 0 /\ open[o] # <<>>
          /\ open' = [open EXCEPT ![o] = Tail(@)]
          /\ Over(o, Head(open[o]))
          /\ UNCHANGED <<older, shifted>>
    /\ UNCHANGED <<present, count, initial, orphaned, heldDeleted>>

IntervalStart(c, o) ==
    /\ kind[o] = "interval"
    /\ Hooked(c, o, <<"start">>)
    /\ open' = [open EXCEPT ![o] = Append(@, Held(c))]
    /\ UNCHANGED <<present, count, initial, older, real, shifted, orphaned, heldDeleted>>

\* The one that started last.  One of no length is not shown.
IntervalStop(c, o) ==
    /\ kind[o] = "interval"
    /\ Hooked(c, o, <<"stop">>)
    /\ \/ /\ open[o] # <<>>
          /\ open' = [open EXCEPT ![o] = Front(@)]
          /\ IF Last(open[o]).time < now THEN Over(o, Last(open[o])) ELSE UNCHANGED real
          /\ UNCHANGED older
       \/ /\ open[o] = <<>> /\ older[o] > 0
          /\ older' = [older EXCEPT ![o] = @ - 1]
          /\ UNCHANGED <<open, real>>
    /\ UNCHANGED <<present, count, initial, shifted, orphaned, heldDeleted>>

Next ==
    \/ Advance
    \/ \E c \in Cores, t \in Tasks \cup {Nobody} : Switch(c, t)
    \/ \E c \in Cores, o \in Objects : CreateObject(c, o)
    \/ \E c \in Cores, o \in Objects : DeleteObject(c, o)
    \/ \E c \in Cores, o \in Objects : TakeMutex(c, o)
    \/ \E c \in Cores, o \in Objects : GiveMutex(c, o)
    \/ \E c \in Cores, o \in Objects : TakeSem(c, o)
    \/ \E c \in Cores, o \in Objects : GiveSem(c, o)
    \/ \E c \in Cores, o \in Objects : Send(c, o)
    \/ \E c \in Cores, o \in Objects : Receive(c, o)
    \/ \E c \in Cores, o \in Objects : IntervalStart(c, o)
    \/ \E c \in Cores, o \in Objects : IntervalStop(c, o)

Spec == Init /\ [][Next]_vars
------------------------------------------------------------------------------
(* Properties *)

\* The holds shown of a mutex and the messages shown of a queue are the real
\* ones, with their holder or sender: also when a mutex is handed from one core
\* to another within one unit of time, when its holder has moved to another core
\* or was switched out meanwhile, and when an address is used again.  Sends and
\* receives are paired in the order of the log: of a queue that had messages when
\* the trace began this is right until one of them is received while one sent
\* since is waiting, and wrong from then on.
HoldsReal ==
    \A o \in OfKind("mutex") \cup (OfKind("queue") \ shifted) :
        Parsed(o).holds = real[o]

\* Issues are reported of a mutex when there is reason to: the only give without
\* a take is of a mutex that was taken before the trace began, the only take
\* without a give that of the mutex held at its end.
IssuesReal ==
    \A o \in OfKind("mutex") :
        LET kinds == {i.kind : i \in Issues(o)} IN
        /\ "cross_task_give" \notin kinds
        /\ "orphan_give" \in kinds <=> o \in orphaned
        /\ "delete_while_held" \in kinds <=> o \in heldDeleted
        /\ "unmatched_take" \in kinds <=> open[o] # <<>> /\ open[o][1].time # Before

\* The risk of a deadlock is reported when two tasks hold a mutex each.
DeadlockRiskReal ==
    deadlock_risk <=>
        \E o, p \in OfKind("mutex") :
            /\ o # p /\ open[o] # <<>> /\ open[p] # <<>>
            /\ Before \notin {open[o][1].time, open[p][1].time}
            /\ open[o][1].task # open[p][1].task

\* Takes and gives of a semaphore are paired off as far as they go: what is left
\* is the difference of its tokens from those it had at first, one way or the
\* other and never both.
SemBalance ==
    \A o \in OfKind("sem") :
        LET obj == Parsed(o) IN
        /\ obj.takes = <<>> \/ obj.gives = <<>>
        /\ present[o] => Len(obj.gives) - Len(obj.takes) = count[o] - initial[o]

\* Nested intervals of one key are shown as they were, inside of some that are
\* older than the trace or not.
IntervalsReal ==
    \A o \in OfKind("interval") :
        /\ Intervals(o).spans = [i \in DOMAIN real[o] |->
                                    [start |-> real[o][i].start, stop |-> real[o][i].stop]]
        /\ Len(Intervals(o).stack) = Len(open[o])
==============================================================================
