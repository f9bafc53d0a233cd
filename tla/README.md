# A TLA+ model of FreeRTOS-BTF-Trace

FreeRTOS-BTF-Trace records what the FreeRTOS kernel does into a RAM ring on the
target, exports the ring as a BTF (Best Trace Format) file, and shows that file
in a viewer. This directory holds TLA+ modules for the parts of it in which
order, concurrency and limits matter, the TLC configurations that check them and
the TLAPS proofs about them.

Run a check with `tlc -config MCPortLocks.cfg MCPortLocks`, a proof with
`tlapm PortLocks_proof.tla`. `PROJECT.json` lists runs, mutants, the lines each
definition translates, hazards, findings and theorems.

## 1. Inventory

Viewer paths are relative to `BTFViewer/btf_viewer_pkg/` unless they begin with
`web/`.

| Component | Where | State | Operations | Status |
|---|---|---|---|---|
| Recorder | `FreeRTOS-Trace/btf_trace.c`, `.h`, `FreeRTOS-Trace.h` | `trace_en`, header counters, name table, event ring, three flags, `trace.bin` | `traceSTART`, `traceEND`, create, task, queue, tag, interval and tick hooks | modelled: `TraceRecorder`, `TraceReplay`; by memory access, without task creation: `SmpRecorder` |
| Live exporter | `btf_dump()` in `btf_trace.c` | time accumulator | replay, time extension, quality flags | partly (not the text): `TraceReplay` |
| Offline converter | `tools/gentrace.c` | the same, read from `trace.bin` | `genbtf`, `genvcd` | partly: replay, time, flags in `TraceReplay`, task lines in `BtfSegments` |
| SMP spinlocks | `Demo/port/RISC-V/port.c` | raw word, owner and depth of the task lock; owner and count of the ISR lock | get and release of each | modelled: `PortLocks` |
| SMP timer, tickless idle, yield, hart start | `Demo/port/RISC-V/port.c`, `portASM.S` | compare registers, MSIP bits | tick handler, sleep, yield | not modelled |
| BTF parser, segments | `parser.py`, `web/src/parser/btfParser.js` | open segments, last core of a task, closed segments | two passes per timestamp | partly (phase 2): `BtfSegments` |
| BTF parser, objects and intervals | `parser.py`, `web/src/utils/syncObjectAnalysis.js`, `intervalAnalysis.js` | open takes and gives of an object, open starts of a key | attribution to tasks, pairing, issues | partly: `SyncObjects` |
| Trace loading and tabs | `mainwindow.py`, `stats.py` (the parser thread) | load guard, parser thread, three queues, waiting packages, tabs | open, archive, workspace, demo, session restore, cancel, done, error, switch, close | partly: `TraceLoading` |
| AI conversation | `ai_assistant.py`, `ai_case.py`, `ai_tools.py` | messages, round counter, busy flag, current worker | ask, stop, clear, compare, the slots of a worker, tool rounds | partly: `AiChat` |
| Guided demo | `demo_inapp.py`, `demo_api.py` | script position, five flags, the audio event, the clip | the runner thread; previous, next, language, pause, stop | partly: `DemoRunner` |
| Statistics worker client, web tabs | `web/src/utils/statsWorkerClient.js`, `web/src/composables/useTraceTabs.js` | pending requests; tabs | register, compute, terminate | not modelled |
| Statistics, reports, rendering | `stats.py`, most of `ai_*.py`, `mainwindow.py` | an immutable trace | presentation | not modelled |
| Simulator, Eclipse plug-in, demo programs, C stubs | `sim/`, `BTFViewer/eclipse`, `Demo` | | | not modelled |
| FreeRTOS kernel | a git submodule, not in this tree | | calls the hooks and the locks | external: a nondeterministic caller |

How they interact. The kernel calls a hook macro; the macro takes a critical
section (both spinlocks in a task, the ISR lock in an interrupt), calls
`btf_trace.c`, which fills a ring slot, and leaves. `traceEND` writes the RAM
image to `trace.bin`. `btf_dump` reads the RAM, `gentrace` the file; both write
the same BTF lines. The viewer's parser thread groups the lines by timestamp,
rebuilds which task ran where and when, and pairs the events of kernel objects;
its signal hands the result to the GUI thread, which gives it a tab. The demo
runner and the AI workers are threads of the viewer that reach the window through
queued signals.

What is hard in it, and therefore what the properties are about:

- the boundary at which the ring fills: replay start, retained count and flags
  all switch at one event;
- two captures in one run of the program, with the slots of the first still there;
- a tick that tests `trace_en` outside the lock while the capture is being ended;
- 32-bit stamps that wrap, several times, and are rescaled with rounding;
- harts in the middle of the lock code and of the recorder at the same time;
- several task or object lines with one timestamp, handled in an order of the
  parser's own;
- a file that begins in the middle of the story because the ring overflowed;
- an open request at any moment of another load, which may fail or be cancelled;
- Stop or Clear between the end of an HTTP request and the slot of its signal;
- a handler that writes two flags while another thread reads them.

The whole list, line by line, is under `hazards` in `PROJECT.json`.

## 2. Modules

`EventWindow` is abstract; `TraceReplay` and `SmpRecorder` implement it.
`SmpRecorder` composes `PortLocks` with the recorder. The four viewer modules and
`BtfSegments` stand alone: what they exchange is a finished file or trace.

### EventWindow (abstract)

What a recorder promises without a ring: while capture is on, every event is
appended, the newest `Capacity` events of the session are kept in order, each
one pushed out is counted as lost, a new session starts empty.

### TraceRecorder

`btf_trace.c` and the hook macros, one step per hook with its critical section.

| Model | Code |
|---|---|
| `header`, `event_lists`, `task_lists` | `trace_data.h`, `.d.event_lists`, `.d.task_lists`; a name slot holds the number of the task it names, 0 if empty |
| `trace_en`, `trace_wrap_warned`, `trace_task_table_overflow`, `trace_stopped_cleanly` | the statics of the same names |
| `file` | `trace.bin`: absent, incomplete, or an image |
| `PutEvent`, `btf_trace_add_event`, `btf_trace_add_task` | the functions; their common tail is one operator |
| `btf_traceSTART`, `btf_traceEND`, `DumpFile` | the functions; `fopen` may fail and `fwrite` may be short |
| `TickTest`, `TickRecord` | the two halves of `btf_trace_increment_tick`: its first test of `trace_en` holds no lock |
| `TaskHook`, `QueueHook`, `traceTAG`, `traceINTERVAL`, `traceTASK_CREATE` | the macros of `FreeRTOS-Trace.h` |
| `mtime`, `created`, `taskNumber`, `Clock` | the environment: CLINT, kernel task numbering |

`recorded`, `session`, `saved` and the field `at` of an event are history: no
action of the code reads them. Which task or queue a hook names is the kernel's
choice, so every created one is possible.

### TraceReplay

What the two exporters compute from an image, as operators over the recorder's
states: `ReplayStart`, `Replay`, `cyc_to_time`, the two ring flags, the
task-table flag `gentrace` infers. It holds the properties of recorder and
exporter together. `cyc_to_time` starts each conversion with `last_timestamp`
and the accumulator at 0, as `btf_dump` and `gentrace` reset them; the number of
wraps seen is a count instead of a running sum.

The ring flag is also set when the ring is exactly full and nothing was lost
(`btf_trace.c:306`, `gentrace.c:218`), so `NoSilentLoss` is an implication: it
does not say that the flag is never raised for nothing. `task_count` leaves out
the creations without a name slot, against its documentation (finding 4).

### PortLocks

The two recursive spinlocks, one action per access to shared memory. `pc[h]` is
the access hart `h` makes next. Spinning on a taken word is stuttering; the load
that sees it free and the swap are separate steps, so any number of harts may
have seen it free. What the kernel does between calls is external and bounded by
`MayGetTask`, `MayGetISR`, `MayReleaseTask`: the task lock comes first and goes
last, as `xPortTimerTickHandler` does and comments. The constant `IsrAlone`
additionally lets a hart take the ISR lock without the task lock, which is what
`taskENTER_CRITICAL_FROM_ISR` in an application interrupt does.

Memory is sequentially consistent in the model. The code pairs `amoswap.aqrl`
with `fence rw, rw` before each freeing store, so accesses inside a section do
not leave it.

### SmpRecorder

`PortLocks` and the recorder together: `btf_trace_add_event` one access at a time
(stamp, fill, advance, wrap, count), `traceSTART`, and `traceEND` with the file
written in two parts. A hook runs while its hart holds the ISR lock, which is
what every macro guarantees (`InSection`); the lock code is `PortLocks`, in full.
Task creation has the same tail and is covered at the grain of `TraceRecorder`.

### BtfSegments

Phase 2 of the parser (`parser.py`; `btfParser.js` has the same passes), fed with
the task lines `genbtf` writes. The scheduler is external: `Switch` is
`vTaskSwitchContext`, which reports the outgoing and the incoming task even when
they are one. `run` and `executed` record what really ran. The `task` dialect is
the older one, in which a resume names the outgoing task instead of the core.
`PassA` and `PassB` handle one line; `Resumed` and `Preempted` are the two loops, as
functions of the number of lines handled. `SwitchedOutOnce` is assumed of files in
the older dialect: no task is switched out twice within one time unit (section 6).
The parser is run as each timestamp completes; the code runs it after reading
the file, but phase 2 never looks at a later timestamp, so the result is equal.
Legacy entity labels that carry a core (`[core/task]Name`) are left out.

### SyncObjects

The second half of the parser: `_build_sync_object_data` and the interval pairing
of `_build_sti_derived`, as operators over a log. The traced system is the
environment: tasks that run, are switched and migrate (`Switch`), and take, give,
send, receive, create and delete mutexes, semaphores, queues and intervals. It
keeps what really happened in `real`, `open`, `count`, and the log gets only what
the hooks write: time, core, object, action. `_task_mk_at` attributes an event to a
task by the segments, `InOrder` is the sort by time and name of the action,
`OnTake`, `OnGive`, `OnDelete`, `OnMarker` are the branches of the two loops, and
`Replayed` and `Paired` the loops, as functions of the number of events handled.
`core_segs` are the segments the parser would have if the trace ended now, so every
property is about every prefix of a trace.
The log may begin with objects in use, as it does after the ring has overflowed:
a mutex that is held (`open` with the time `Before`), a queue with messages and a
key with open intervals (`older`, at most `Backlog` of them).

Four assumptions about the traced system are made, each because the parser
errs without it. They are limits of the tool that its users should know:

- `InRankOrder`: the events of an object at one time are in the order of their
  names. A mutex taken and given back within one time unit is sorted give first
  and reported as an orphan give and an unmatched take; a message sent and
  received in one unit pairs the wrong way; an interval that stops and starts
  again in one unit is merged with the next.
- `Separate`: a task leaves no event at the very time it is switched in; such an
  event is attributed to the task before it.
- `PastCreation`: nobody gives an object within 1000 ns of its creation. The parser
  drops such a give as the kernel's own.
- A queue is first in, first out (`Send`, `Receive`): nobody sends to the front of it,
  overwrites a message or resets it. The first two leave the event of any send, the
  last one none.

Of the messages of a queue the parser can only match what is in the log. When a
message older than the trace is received while one sent since is waiting, the
receive takes that one's send, and so does every later receive with the send after
it (`parser.py:2277-2279`; `STATISTICS.md:667` warns that the viewer cannot prove
which message was received). `shifted` is the set of the queues to which this has
happened, and `HoldsReal` speaks of the others.

Semaphores given, and queues sent to, from interrupts leave no event
(`FreeRTOS-Trace.h:217-231`), so a trace of them shows unmatched takes; the model has
no such gives. An address that is used again drops the holds and issues of the object
that had it first, here as in the code.

### TraceLoading

`MainWindow` and `_ParseThread`. The GUI thread runs one handler at a time, so each
command, each slot and the timer that ends a load is one action with everything
it calls.

| Model | Code |
|---|---|
| `load_in_progress`, `parse_thread` | the guard and the thread; its queued result and whether Cancel was asked |
| `pending_open_paths`, `session_restore_queue`, `session_restore_active` | the attributes of the same names |
| `pending_workspace`, `pending_demo`, `demo_runner` | what waits for a trace, and the demo that runs on one |
| `OpenFile`, `ResumeOpens` | `_open_file`, `_continue_session_restore`, `_drain_pending_open_paths` and their mutual calls, as what the whole chain does |
| `OpenTrace`, `OpenZip`, `OpenWorkspace`, `OpenDemo`, `OpenBroken`, `RestoreSession`, `SwitchTab`, `CloseTab`, `RequestCancel` | the commands |
| `ParseEnds`, `OnDone`, `OnRenderError`, `OnError`, `OnCancelled` | the thread and the slots of its signals |
| `FinishLoad` | `_finish_load_pipeline`, which a timer runs after the window was painted |

`outcome`, `undisturbed` and `landed` are history. What a tab shows, saving a
session and closing the window are left out.

### AiChat

`AiAssistantPanel` and its workers. A worker makes one HTTP request and looks at its
cancel event once more (`Run`), and then, in a step of its own, queues one signal
(`Emit`); the slot of the signal appends the answer, and answers with tool calls
start the next worker (`NextRound`), up to `MaxRounds`. Stop and Clear set the
cancel event of the current worker; both may come too late, between these two
steps or after the signal was queued. Whether a queued slot still runs after
its disconnection depends on the Qt binding: `Slot` and `Purge` are both
possible. `compact_chat_history` is modelled because it decides which requests are
well formed. `calm` records that none of three things has happened that the code
allows and the properties must exclude: Trace Compare asks while a request runs
(`mainwindow.py:14064`, `ai_assistant.py:8015`), Clear comes while one runs, and a
"nextstep:" tool call is dropped without a result.

### DemoRunner

`InAppDemoRunner`: the thread of `run()`, one access to the shared flags at a time
(`pc`), and the handlers of the GUI thread, which write the direction and the
restart flag one after the other (`Skip`, `WriteDirection`, ...). `_check` is four
steps (`ReadAbort`, `ReadRestart`, `ReadDir`, `RaiseSkip`), `_reset_skip` two, and the
choice of the direction after a skip two. The one exception is the condition of
the loop of a paused demo, read as a whole (`Held`): its flags are read again by
the `_check` that follows. A call to the window blocks until the GUI thread is between
two handlers (`GuiFree`). A clip is played by `QMediaPlayer` or by a subprocess with a
waiter thread (`player`, `StaleWaiter`). The player is kept when its clip has ended,
so that Resume plays it again (`toggle_pause`). An action of the script is an API
call with an optional wait, or a clip; the forty or so tags differ in the call they
make. The wait for the move of the pointer overlay is not modelled. `ops`, `heard`,
`asked`, `spoken`, `inPause`, `afterStop` are history.

## 3. Runs

| Run | Config | What it shows | Bounds |
|---|---|---|---|
| recorder | `MCTraceReplay.cfg` | the ring is the window; no loss without a flag; creations named or flagged; flags agree; the file is final; exported time is monotone and keeps distances up to rounding | ring of 3, 4 events (so it overflows), 2 sessions, 1 usable name slot and 2 tasks; counter period 2, clock to 4 (two wraps, and gaps of a whole period), 4/3 unit per cycle; `ClockOrSession` |
| locks | `MCPortLocks.cfg` | exclusion, exact depth, nothing leaked; a holder lets go | 3 harts, depth 3, 5 calls per section, lock order of the demo |
| smp_recorder | `MCSmpRecorder.cfg` | hooks are atomic, the ring is in time order, the file is one state, the ISR lock excludes although losers of the race overwrite its owner word | 2 harts, ring of 2, 3 events, 2 sessions, ISR lock also on its own |
| segments | `MCBtfSegments.cfg` | every segment is a run, every open segment is running, no run is missing | 2 cores, 3 tasks, 3 timestamps, 6 lines each, both dialects |
| sync | `MCSyncObjects.cfg` | holds, issues, deadlock risk, semaphore balance and intervals are the real ones | 2 tasks, 2 cores, 2 mutexes or 1 object of another kind, 1 message or interval older than the trace, 4 times, 5 events, 2 switches |
| loading | `MCTraceLoading.cfg` | the load guard is exact, a trace gets one tab, a package lands on its trace, the queues move | 2 traces, 1 workspace, sessions of 1 and 2 tabs, 3 commands, any number of tab switches and closings |
| chat | `MCAiChat.cfg` | the panel waits only for a worker that will answer, requests are bounded and well formed, Stop stops, the panel becomes ready | 2 questions, 2 tool rounds, history of 1 question, 1 clear |
| demo | `MCDemoRunner.cfg` | Stop and Pause let at most one action through, clips are heard, steps are left only as asked, the demo ends | 3 steps, 3 requests of the user |
| isr_alone, reselected, loading_queue, task_count | see section 6 | disagreements between a comment and the code | the smallest instance |

Why the bounds are enough. The ring code only distinguishes "not full", "just
full" and "overwritten"; a ring of three with four events visits all of them, and
a second session starts from every one. Time is reconstructed from neighbouring
events, so three retained stamps and two wraps contain every pattern, including
a wrap whose events have been overwritten. Lock words distinguish the owner,
another owner and free; with three harts a third can arrive while two race. In
the parser only tasks and cores that share a timestamp interact; with two cores
and six lines a task can be created, run, move to the other core and be preempted
there, all in one time unit. Five
events create a mutex, have it taken on one core and given on another, delete it
or hand it on. Three commands and a session fill every queue of the loader while
a load ends in each of its ways. Two questions suffice for one to overlap, stop or
outlive the other, and the third request is the last of its tool rounds. Three
requests of the user contain a restart that is withdrawn and a request that
reaches the step after the one it was for.

`ClockOrSession` keeps `recorder` small: the clock runs only in a first capture of at
most one task without queue and tag events, and a second capture is made only
at one time and without switches and intervals. Stamps and the name table
meet in no operator but `Stamped`, and a second capture starts its times anew.

Deadlock is checked in `recorder` and `locks`. `smp_recorder` turns it off
because the harts do stop once the owner word of the ISR lock was overwritten
(section 6); `segments` and `sync` because a trace has an end; `loading` and `chat`
because nobody has to open or ask anything more; `demo` because a demo ends.

Fairness. Every liveness property assumes only that threads run and that what they
wait for outside ends; no user action is ever assumed.

| Property | Assumed | Because |
|---|---|---|
| `TaskLockReleased` | `LockStep`, `Release` of each hart | harts run independently, a section comes to its releases; nothing fair is assumed of the race for a lock |
| `QueuesMove` | `ParseEnds`, `Slot`, `FinishLoad` | a file ends, the event loop goes on |
| `ReadyAgain` | `Run` or `Emit` of each worker, `Slot` | the HTTP request has a timeout, the event loop goes on |
| `DemoEnds` | `RunnerStep`, `HandlerStep`, `ClipEnds` | both threads run, a clip that plays ends; a pause may last forever and the property allows it |

Every property has a mutant, an operator that changes the code's definition as a
plausible bug would; TLC finds the property violated with it. They are the
definitions marked "Mutant" in the modules.

## 4. Proofs

All proofs hold for every value of the constants that the named `ASSUME`s allow:
any number of harts, any ring, script, history, session, number of commands.
TLC evaluates the assumptions in every run.

`PortLocks_proof`

- `TypeCorrect`, `TaskMutexHolds`, `ISRMutexHolds`. The inductive invariant
  `IInv` adds to the types who owns a lock in each program location. Mutual
  exclusion is not inductive by itself: a hart may stand after its swap and before
  it has written the owner word. `OwnsTask` and `OwnsISR` therefore say that a
  hart owns a lock from the successful swap to the freeing store, and the
  invariant says that there is at most one such hart, and that the raw word is
  taken while there is one. For the ISR lock the owner word may name a loser of
  the race, so the invariant asks only that it is not free; a release by a hart
  the word does not name changes nothing.
- `DepthExactHolds`, `NothingLeakedHolds`, under `IsrAlone = FALSE`. `NInv` adds that
  only the owner of the task lock is in the code of the ISR lock, and that a lock
  nobody owns is free. The assumption is needed: `isr_alone` is a counterexample
  without it.

`TraceReplay_proof`

- `TypeCorrect`. Every step of the recorder is a start, an end, one recording or
  none (`EveryStep`), so the ring needs one argument and not one per hook.
- `NoSilentLossHolds`, `RingImplementsWindow`. `RingInv` says that the write index
  equals the number of events until the ring has filled, that the filled slots
  hold events and that the accepted events exceed the retained ones only when the
  ring is full. From it every step of the ring maps to a step of
  `EventWindow` or to a stutter (`StepWindow`).
- `TimesMonotoneHolds`. A step to the next event either keeps the wrap count and
  has no smaller stamp, or adds one period, which is worth more than any stamp;
  scaling is monotone (`ToUnitsMonotone`).
- `ElapsedFaithfulHolds`. While no two neighbours are a whole period apart, the
  stamps of two neighbours and the wrap between them give their distance exactly
  (`GapExact`); by induction over the events so do those of any two (`SpanExact`).
  What is exported rounds each stamp and the period of each wrap once, which is the
  slack the property grants (`DistanceRounds`).
- `DumpIsFinalHolds`. A session is saved at most once and not while it is
  captured; since a hook that comes later records nothing, a complete file stays
  equal to RAM.
- `CreationNamedHolds`, `TaskCountIsNamedCreations`, `TableFlagKeptHolds`. A hook
  records one event or nothing. The invariant accounts for each retained creation:
  its task is in its slot or the overflow flag is up. What the header says changes
  with the append of an event, and only with it while nothing is overwritten. While
  nothing is lost, `task_count` is the number of creations whose task has a name
  slot: that is what holds in place of finding 4.

`SmpRecorder_proof`

- `SmpISRMutexHolds` carries the lock invariant over to the composed system.
- `HooksAreAtomicHolds`: the recorder under the locks, one memory access at a
  time, implements `EventWindow`. Mutual exclusion leaves at most one hart inside
  `btf_trace.c` (`Solo`); that hart's place in the function, with the window as it
  was when the hook began, determines what the ring and the index hold. The
  abstract step is the one that counts the event, the last of the hook.
- `RetainedInTimeOrderHolds`, `FileIsOneStateHolds` use the same description of a
  hook in progress: the stamp is read inside the lock, and no hook can begin
  between the two writes of the file.

`TraceLoading_proof`: `LoadGuardExactHolds`, `OneTabPerTraceHolds`,
`PackageOnItsTraceHolds`. The invariant has the types, the guard, one tab per trace
and none for the trace being parsed, and for a package nothing came across that it
is on its way: its trace is being parsed or its load is being finished with its
tab current, and all queues are empty.

`AiChat_proof`: `BusyHasWorkerHolds`, `SingleFlightHolds`, `RequestsBoundedHolds`,
`RequestsWellFormedHolds`, `StopAbortsHolds`. The invariant says that each worker
signals once, that requests made and rounds left fit into the budget of questions
and clears, and, while `calm`, that only the current worker is pending, that one
stopped before its last look at the cancel event ends as cancelled and that the
conversation is well formed. Shortening the
history keeps it so because it cuts in front of a question.

`DemoRunner_proof`: `TypeCorrect`, `StopWinsHolds`, `PauseHoldsHolds`,
`StepsInOrderHolds`, `ClipHeardHolds`. The invariant ties the places of the runner
to the flags: which counters can be nonzero where, that a request the runner has
seen is among those made in this step, and that with `QMediaPlayer` the audio
event is only set while no clip plays or the one that plays has been heard before.

`BtfSegments_proof`: `SegmentsRealHolds`, `OpenIsRunningHolds`, `NoRunMissingHolds`.
The parser sees the lines of a time unit together, the scheduler writes them one by
one, so the invariant speaks of `After`: the parser's state had it handled the
resume lines written so far. One more switch is one more step of pass A on it
(`SwitchAfter`), which needs that a later line does not change the core an earlier
resume was given; this is where `SwitchedOutOnce` enters. In `After` an open segment is the run
of its core, or one whose task was preempted and stays so, which pass B will close
(`Stopped`); every closed segment is a run; every run, under way or over, that is
not one of finding 2 is open or closed. `NextTimestamp` adds pass B, whose effect is
that exactly the segments of the preempted tasks are closed (`PreemptedCloses`).

`SyncObjects_proof`: `HoldsRealHolds`, `IssuesRealHolds`, `DeadlockRiskRealHolds`,
`SemBalanceHolds`, `IntervalsRealHolds`. The parser starts from nothing at every
prefix of the trace, and the proof shows that one more event is one more turn of
its loop. It takes three facts. Under `InRankOrder` the log of an object is in the
order the parser sorts by, and the sort, although it is a `CHOOSE` by rank, leaves
such a log as it is (`SortKeepsOrder`). Segments only grow at the end, and under
`Separate` each event lies strictly inside the segment of its task, so it keeps the
task it was attributed to (`Attributed`, `RecordKept`). The loop unfolds at its last
event (`ReplayedAppend`, `PairedAppend`). The invariant then says of each object
what the parser holds of it: an open take of a mutex is its holder, the gives of a
queue that is not `shifted` are the messages in it sent since the trace began, the
stack of a key is its open intervals of that time. `PastCreation`
is what tells a give of a task from the kernel's own. For `DeadlockRiskReal` the
cardinalities of the code become the existence of two elements (`TwoElements`), for
which the objects have to be finite.

Both use recursive functions, not `RECURSIVE` operators, and induction over the
number of lines or events. The induction theorems of the library take an operator
as a parameter and cannot be used; `Induction` is the same principle for a set of
numbers, proved from the well-foundedness of their order.

What the proofs take for granted is what the modules name: the `ASSUME`s of the
constants, and the guards `MayGetTask`, `InSection`, `SwitchedOutOnce`, `InRankOrder`,
`Separate`, `PastCreation` that stand for the environment.

Only model-checked are `TaskLockReleased`, `QueuesMove`, `ReadyAgain` and `DemoEnds`:
liveness under fairness is out of the prover's reach. Every safety property of a
run is a theorem.

## 5. Not modelled

- The SMP timer, tickless idle, yield and hart start. What they do depends on
  the kernel they call (`xTaskIncrementTick`, `vTaskStepTick`, the scheduler), which
  is not in this tree. The lock calls of the tick handler are in `PortLocks`.
- The VCD writer (`gentrace.c:895`): it writes the falling edge of a tick one unit
  late, possibly after the next event. Whether that is wrong is up to the reader.
- The text of BTF lines, task-name copying and its truncation; `#truncated`, which
  repeats `trace_stopped_cleanly` (live) or a file size (offline); overflow of
  scaled 64-bit time, as the product of stamp and scale stays below 2^62.
- The affinity mask and the core field of an event are stored as they come.
- Statistics, reports, prompts and rendering. By far the most of the viewer's
  Python is Qt presentation, numerical reports over an immutable trace and text for
  a language model: pure functions of large inputs with no protocol or shared
  state. This is why the mapped lines are a small share of all lines, and the
  state machines of the viewer a small share of its files.
- `BTFViewer/builds/btf_viewer.py` is the same package again as one generated
  file.
- The web viewer beyond its parser: its tabs and loading are a second user
  interface, its statistics client one table of callbacks with one owner.
- The HTTP layer, the tools the assistant may call and what they compute.
- The simulator (an instruction-set interpreter; only `mtime` and the lock
  primitives are used, as environment), the Eclipse wrapper, the demo programs
  and C library stubs.

What could still be added, in order of use: `btf_trace_add_task` in
`SmpRecorder`; saving and closing in `TraceLoading`; the timer and yield code
once a kernel version is fixed.

## 6. Findings

1. `isr_alone`: `vPortGetISRLock` swaps its own id into the owner word whether or
   not the lock was still free. The winner of a race is then no longer named as the
   owner; its release does nothing and the lock stays taken. It takes users of
   the ISR lock that do not hold the task lock. Mutual exclusion itself survives
   (`ISRMutexHolds`).
2. `reselected`: a task that is switched out and selected again within one time
   unit is opened by pass A and closed by pass B, because pass B only looks at the
   sources of resume lines and these are cores. The run that begins there is lost.
   `NoRunMissing` states what holds: no other run is missing.
3. `loading_queue`: `_on_error` and `_on_cancelled` take the load guard down but do not
   call `_finish_load_pipeline`. The traces queued behind a load that fails or is
   cancelled stay unopened until some later load succeeds. `QueuesMove` states
   what holds: while loads succeed, the queues move.
4. `task_count`: `btf_trace_add_task` records the creation of every task, but counts
   only those with a slot in the name table (`btf_trace.c:153-166`).
   `TRACE_FORMAT.md:49` calls the field "Number of recorded `TASK_CREATE` events".
   `TaskCountIsNamedCreations` proves what holds.

What else was met on the way, with no text in the repository that says otherwise:

- Segments, older dialect: when a task is switched out on two cores within one time
  unit, the resume line of the first switch is given the core of the second
  (`parser.py:8171`), and the task resumed there is shown on the wrong core.
  `SwitchedOutOnce` excludes it; BTF 2.3 files name the core and are not affected.
- Objects: a trace that begins with messages in a queue shows receives paired with
  the sends of later messages (section 2, `SyncObjects`).
- Loading: a workspace or demo opened during another load, or before a tab switch, is
  applied to the tab that is current when the next load is finished; after a failed
  load it waits for the next one that succeeds. A demo whose trace is already open
  waits for the next load, too. A trace that cannot be drawn keeps the tab it was given.
- Conversation: Stop after the worker's last look at its cancel event, even before the
  signal is emitted (`ai_assistant.py:5426-5429`), does not keep the panel from
  executing the tool calls of the answer and going on. Clear while a request runs lets the old
  answer into the new conversation if it comes too late to stop it. Trace Compare
  during a request starts a second worker.
- Demo: a request made while the runner is between two steps is lost. A clip or action
  already begun is heard after Pause or Skip and can play on into the next step. With
  a subprocess as player the waiter of a stopped clip ends the wait for the next
  one, so `ClipHeard` is stated for `QMediaPlayer`. Pause and Resume play a clip that had
  ended once more (`demo_inapp.py:1297-1320`), and the next step does not wait for it:
  `ClipHeard` says that a clip is heard to its end once. Previous directly after a change
  of language can go forward.
