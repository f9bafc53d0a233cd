----------------------------- MODULE BtfSegments -----------------------------
(***************************************************************************)
(* How the viewer rebuilds execution segments from a BTF file: phase 2 of  *)
(* _parse_btf in btf_viewer_pkg/parser.py, of which                        *)
(* web/src/parser/btfParser.js holds the twin, fed with the task lines     *)
(* genbtf() writes for the context switches of an SMP kernel.              *)
(*                                                                         *)
(* The lines of one time unit share a timestamp: "lines" collects them and *)
(* the parser handles them together when the clock moves on.  The file is  *)
(* read before phase 2 starts, but phase 2 never looks at a later          *)
(* timestamp, so handling each one as it completes gives the same result.  *)
(* The scheduler is external; the history variables run and executed       *)
(* remember what it really did.                                            *)
(***************************************************************************)
EXTENDS Integers, Sequences

CONSTANTS
    Tasks, Cores,
    NoTask, NoCore,
    Core_0,         \* the core of a resume whose core cannot be told
    Dialects,       \* what a resume names as its source: "core", "task"
    MaxTime,        \* bound: last timestamp
    MaxLines        \* bound: lines of one timestamp

ASSUME EntityAssumption ==
    /\ Core_0 \in Cores
    /\ NoTask \notin Tasks \cup Cores
    /\ NoCore \notin Tasks \cup Cores
    /\ Tasks \cap Cores = {}
    /\ Dialects \subseteq {"core", "task"}
    /\ MaxTime \in Nat /\ MaxLines \in Nat

VARIABLES
    dialect,    \* of this file: "core" (BTF 2.3, genbtf) or "task" (older)
    lines,      \* T lines of the current timestamp, in file order
    openSeg,    \* the open segments: [task, start, core]
    lastCore,   \* the core a task was last seen on
    segments,   \* the closed segments: [task, start, end, core]
    done        \* the end of the file was handled

VARIABLES       \* the scheduler
    now,        \* the current timestamp; 0 stands for "before the file starts"
    created,    \* tasks that exist
    run,        \* per core: [task, start, blurred] of the running task
    executed    \* [task, start, end, core, blurred] of every finished run

parser == <<openSeg, lastCore, segments, done>>
scheduler == <<now, created, run, executed>>
vars == <<dialect, lines, parser, scheduler>>

Running == {run[c].task : c \in Cores} \ {NoTask}

\* The ring may have lost the start of the trace, so the file may begin with
\* tasks that exist and run already.
Init ==
    /\ dialect \in Dialects
    /\ lines = << >>
    /\ openSeg = {}
    /\ lastCore = [t \in Tasks |-> NoCore]
    /\ segments = {}
    /\ done = FALSE
    /\ now = 1
    /\ created \in SUBSET Tasks
    /\ run \in [Cores -> [task : created \cup {NoTask}, start : {0},
                          blurred : {FALSE}]]
    /\ \A b, c \in Cores : b # c /\ run[b].task # NoTask =>
                              run[b].task # run[c].task
    /\ executed = {}
------------------------------------------------------------------------------
(* genbtf: the task lines *)

Preempt(c, t) == [event |-> "preempt", source |-> c, target |-> t]
Resume(source, t) == [event |-> "resume", source |-> source, target |-> t]

\* The older dialect names the outgoing task where genbtf names the core.
SourceOf(c) ==
    IF dialect = "core" \/ run[c].task = NoTask THEN c ELSE run[c].task

PreemptsOf(ls, t) ==
    {i \in DOMAIN ls : ls[i].event = "preempt" /\ ls[i].target = t}

\* Sources that issued a resume.
resumeSources(ls) ==
    {ls[i].source : i \in {j \in DOMAIN ls : ls[j].event = "resume"}}

PreemptedNow(t) == PreemptsOf(lines, t) # {}

\* Assumed of files in the older dialect: no task is switched out twice within
\* one time unit.  corePreempts knows only the core of the second time, and the
\* task that was resumed the first time would be put there.
SwitchedOutOnce(c) == run[c].task \notin resumeSources(lines)

\* TASK_CREATE is written as a preempt by the creating core.
CreateTask(c, t) ==
    /\ ~done /\ Len(lines) < MaxLines
    /\ t \notin created
    /\ created' = created \cup {t}
    /\ lines' = Append(lines, Preempt(c, t))
    /\ UNCHANGED <<dialect, parser, now, run, executed>>

\* The run of core c that ends now, unless its start is not in the file or it
\* took no time.
Finished(c) ==
    IF run[c].task = NoTask \/ run[c].start \in {0, now} THEN {}
    ELSE {[task |-> run[c].task, start |-> run[c].start, end |-> now,
           core |-> c, blurred |-> run[c].blurred]}

\* vTaskSwitchContext: TASK_SWITCHED_OUT, then TASK_SWITCHED_IN, of the same
\* task when the kernel selects it again.
Switch(c, t) ==
    /\ ~done /\ Len(lines) + 2 <= MaxLines
    /\ t \in created /\ (t \in Running => run[c].task = t)
    /\ SwitchedOutOnce(c)
    /\ lines' = lines \o (IF run[c].task = NoTask THEN << >>
                           ELSE <<Preempt(c, run[c].task)>>)
                      \o <<Resume(SourceOf(c), t)>>
    /\ run' = [run EXCEPT ![c] =
                 [task |-> t, start |-> now,
                  blurred |-> PreemptedNow(t) \/ run[c].task = t]]
    /\ executed' = executed \cup Finished(c)
    /\ UNCHANGED <<dialect, parser, now, created>>
------------------------------------------------------------------------------
(* Phase 2: the lines ls of one time unit *)

State == [open |-> openSeg, last |-> lastCore, segs |-> segments]

Closed(o, endTime) ==
    [task |-> o.task, start |-> o.start, end |-> endTime, core |-> o.core]

\* A segment of no length is dropped.
closeSeg(s, task, endTime) ==
    [open |-> {o \in s.open : o.task # task},
     last |-> s.last,
     segs |-> s.segs \cup {Closed(o, endTime) :
                o \in {x \in s.open : x.task = task /\ endTime > x.start}}]

openSegFn(s, task, startTime, core) ==
    LET closed == closeSeg(s, task, startTime) IN
    [open |-> closed.open \cup {[task |-> task, start |-> startTime, core |-> core]},
     last |-> [closed.last EXCEPT ![task] = core],
     segs |-> closed.segs]

\* The last preempt line of a task names its core.
corePreempts(ls, t) ==
    IF PreemptsOf(ls, t) = {} THEN NoCore
    ELSE ls[CHOOSE i \in PreemptsOf(ls, t) :
                \A j \in PreemptsOf(ls, t) : j <= i].source

ResumeCore(s, ls, source) ==
    CASE corePreempts(ls, source) # NoCore -> corePreempts(ls, source)
      [] corePreempts(ls, source) = NoCore /\ source \in Cores -> source
      [] OTHER -> IF s.last[source] # NoCore THEN s.last[source] ELSE Core_0

\* Mutant: the outgoing task of an old resume line stays open.
PassAKeepsSource(s, ls, ev, time) ==
    IF ev.event # "resume" THEN s
    ELSE openSegFn(s, ev.target, time, ResumeCore(s, ls, ev.source))

PassA(s, ls, ev, time) ==
    IF ev.event # "resume" THEN s
    ELSE openSegFn(closeSeg(s, ev.source, time), ev.target, time,
                   ResumeCore(s, ls, ev.source))

\* Mutant: the preempted task stays open.
PassBKeepsOpen(s, ls, ev, time) ==
    IF ev.event # "preempt" \/ ev.target \in resumeSources(ls) THEN s
    ELSE [s EXCEPT !.last[ev.target] = ev.source]

\* Preempts without matching resume.
PassB(s, ls, ev, time) ==
    IF ev.event # "preempt" \/ ev.target \in resumeSources(ls) THEN s
    ELSE LET closed == closeSeg(s, ev.target, time) IN
         [open |-> closed.open,
          last |-> [closed.last EXCEPT ![ev.target] = ev.source],
          segs |-> closed.segs]

\* The state after the resume lines, which come first.
Resumed(s, ls, time) ==
    LET pass[k \in 0..Len(ls)] ==
            IF k = 0 THEN s ELSE PassA(pass[k - 1], ls, ls[k], time)
    IN  pass[Len(ls)]

\* The state after the preempt lines.
Preempted(s, ls, time) ==
    LET pass[k \in 0..Len(ls)] ==
            IF k = 0 THEN s ELSE PassB(pass[k - 1], ls, ls[k], time)
    IN  pass[Len(ls)]

Handled == Preempted(Resumed(State, lines, now), lines, now)

\* Mutant: what is open at the end of the file is dropped.
DropAll(s) == [s EXCEPT !.open = {}]

CloseAll(s) ==
    [open |-> {},
     last |-> s.last,
     segs |-> s.segs \cup {Closed(o, now) : o \in {x \in s.open : now > x.start}}]

Set(s) ==
    /\ openSeg' = s.open
    /\ lastCore' = s.last
    /\ segments' = s.segs

\* All lines of this timestamp are handled; the next one begins.
NextTimestamp ==
    /\ ~done /\ now < MaxTime
    /\ Set(Handled)
    /\ lines' = << >>
    /\ now' = now + 1
    /\ UNCHANGED <<dialect, done, created, run, executed>>

\* The segments still open end with the trace.
EndOfTrace ==
    /\ ~done
    /\ Set(CloseAll(Handled))
    /\ done' = TRUE
    /\ lines' = << >>
    /\ executed' = executed \cup UNION {Finished(c) : c \in Cores}
    /\ UNCHANGED <<dialect, now, created, run>>

Next ==
    \/ \E c \in Cores, t \in Tasks : CreateTask(c, t) \/ Switch(c, t)
    \/ NextTimestamp
    \/ EndOfTrace

Spec == Init /\ [][Next]_vars
------------------------------------------------------------------------------
Seen(x) == [task |-> x.task, start |-> x.start, end |-> x.end, core |-> x.core]

\* A segment is a run that really happened, on its core and from its start to
\* its end: never two runs glued together, a run extended over another task's,
\* or a run put on the core its task left.
SegmentsReal == segments \subseteq {Seen(x) : x \in executed}

\* Between timestamps an open segment is the run its core is in the middle of,
\* so no two tasks are open on a core and no task on two cores.
OpenIsRunning ==
    lines = << >> =>
        \A o \in openSeg :
            run[o.core].task = o.task /\ run[o.core].start = o.start

\* When the file ends, no run is missing whose task was not also preempted or
\* created within the time unit in which the run began.
NoRunMissing ==
    done => \A x \in executed : ~x.blurred => Seen(x) \in segments

\* parser.py:8143-8145: pass B handles the preempts that have no matching
\* resume at the same tick, and only closes those, so a run that begins in the
\* same tick as its task's preempt is in the file's segments like any other.
NoRunMissingAtAll ==
    done => \A x \in executed : Seen(x) \in segments
==============================================================================
