---------------------------- MODULE TraceLoading ----------------------------
(***************************************************************************)
(* How the desktop viewer opens traces: MainWindow of                      *)
(* btf_viewer_pkg/mainwindow.py and the parser thread _ParseThread of      *)
(* stats.py.                                                               *)
(*                                                                         *)
(* One trace is parsed at a time.  An open request that meets a load waits *)
(* in _pending_open_paths, the tabs of the last session wait in            *)
(* _session_restore_queue, and a workspace or demo package leaves what it  *)
(* has to restore in _pending_workspace or _pending_demo until "its" load  *)
(* has gone through.  The GUI thread runs one handler at a time: user      *)
(* commands, the queued signals of the parser thread and the timer that    *)
(* ends the load are the actions.                                          *)
(*                                                                         *)
(* _open_file and the handlers that resume the queues call each other;     *)
(* Unopened and ResumeOpens say what the whole chain of calls does.  A     *)
(* parser thread that cannot be started ends like a parse error.           *)
(***************************************************************************)
EXTENDS Naturals, SequencesExt

CONSTANTS
    Paths,      \* traces in files of their own
    Packages,   \* traces that workspaces stage, each in a fresh directory
    NoPath,
    Sessions,   \* what the settings file may hold: traces, each once
    MaxOpens    \* bound: open commands of the user

ASSUME PathAssumption ==
    /\ Paths \cap Packages = {}
    /\ NoPath \notin Paths \cup Packages
    /\ Sessions \subseteq Seq(Paths) \ {<< >>}
    /\ MaxOpens \in Nat

VARIABLES
    load_in_progress,
    parse_thread,           \* [path, result, interrupted]; path NoPath: no thread
    finishing,              \* the timer of _finalize_loaded_trace is queued
    pending_open_paths,
    session_restore_queue,
    session_restore_active, \* tab to focus after the restore; 0 for none
    pending_workspace,      \* the trace the workspace was saved with
    pending_demo,           \* the trace the demo was recorded on
    demo_runner,            \* the trace of the running demo
    tabs, active            \* paths of the tabs; index of the current one or 0

VARIABLES                   \* history
    outcome,                \* of the load: "none", "running", "ok", "failed"
    opens,                  \* open commands so far
    restored,               \* the session of the last run was opened
    staged,                 \* packages opened so far
    undisturbed,            \* nothing came between a package and its load
    landed                  \* packages applied last: [to, on, undisturbed]

loader == <<load_in_progress, parse_thread, outcome>>
queues == <<pending_open_paths, session_restore_queue, session_restore_active>>
packages == <<pending_workspace, pending_demo, demo_runner>>
user == <<opens, restored, staged>>
vars == <<loader, finishing, queues, packages, tabs, active, user, undisturbed,
          landed>>

Traces == Paths \cup Packages
NoThread == [path |-> NoPath, result |-> "none", interrupted |-> FALSE]
IsOpen(p) == p \in ToSet(tabs)
TabOf(p) == SelectInSeq(tabs, LAMBDA q : q = p)

Init ==
    /\ load_in_progress = FALSE
    /\ parse_thread = NoThread
    /\ finishing = FALSE
    /\ pending_open_paths = << >>
    /\ session_restore_queue = << >>
    /\ session_restore_active = 0
    /\ pending_workspace = NoPath
    /\ pending_demo = NoPath
    /\ demo_runner = NoPath
    /\ tabs = << >>
    /\ active = 0
    /\ opens = 0
    /\ restored = FALSE
    /\ staged = {}
    /\ outcome = "none"
    /\ undisturbed = FALSE
    /\ landed = {}
------------------------------------------------------------------------------
(* Opening and resuming *)

\* The load guard is taken and the parser thread starts.
StartLoad(p) ==
    /\ load_in_progress' = TRUE
    /\ parse_thread' = [NoThread EXCEPT !.path = p]
    /\ outcome' = "running"

\* Nothing is left to load.
LoaderIdle ==
    /\ load_in_progress' = FALSE
    /\ parse_thread' = NoThread
    /\ UNCHANGED outcome

\* Mutant: popped traces are opened without a look at the tabs.
UnopenedUnchecked(queue) == queue

\* What is left of a queue once the traces that are open already were popped
\* and focused.
Unopened(queue) ==
    LET first == SelectInSeq(queue, LAMBDA p : ~IsOpen(p))
    IN  IF first = 0 THEN << >> ELSE SubSeq(queue, first, Len(queue))

\* The tab such a queue leaves focused, if it pops an open trace.
FocusedBy(queue, otherwise) ==
    LET popped == Len(queue) - Len(Unopened(queue))
    IN  IF popped = 0 THEN otherwise ELSE TabOf(queue[popped])

\* The last step of the restore focuses the tab that was current.
SavedFocus(saved, otherwise) ==
    CASE saved = 0 \/ tabs = << >> -> otherwise
      [] saved # 0 /\ tabs # << >> -> IF saved <= Len(tabs) THEN saved ELSE Len(tabs)

\* Mutant: the restore goes on, the traces that wait are forgotten.
ResumeSession(session, saved, pending, current) ==
    LET toRestore == Unopened(session) IN
    /\ IF toRestore # << >> THEN StartLoad(Head(toRestore))
       ELSE LoaderIdle
    /\ session_restore_queue' =
         IF toRestore = << >> THEN << >> ELSE Tail(toRestore)
    /\ pending_open_paths' = pending
    /\ session_restore_active' = saved
    /\ active' = FocusedBy(session, current)

\* _continue_session_restore and _drain_pending_open_paths, and the calls of
\* _open_file they make, with no load in progress: the session comes first.
ResumeOpens(session, saved, pending, current) ==
    LET toRestore == Unopened(session)
        toOpen == Unopened(pending)
        focus == FocusedBy(session, current)
    IN  \/ /\ toRestore # << >>
           /\ StartLoad(Head(toRestore))
           /\ session_restore_queue' = Tail(toRestore)
           /\ session_restore_active' = saved
           /\ pending_open_paths' = pending
           /\ active' = focus
        \/ /\ toRestore = << >>
           /\ IF toOpen # << >> THEN StartLoad(Head(toOpen))
              ELSE LoaderIdle
           /\ session_restore_queue' = << >>
           /\ session_restore_active' = 0
           /\ pending_open_paths' = IF toOpen = << >> THEN << >> ELSE Tail(toOpen)
           /\ active' = FocusedBy(pending, SavedFocus(saved, focus))

\* _open_file stops the demo unless one is about to start.
DemoAfterOpen == IF pending_demo = NoPath THEN NoPath ELSE demo_runner

DemoAfterResume ==
    IF session_restore_queue \o pending_open_paths = << >> THEN demo_runner
    ELSE DemoAfterOpen

\* The second member of an archive, if there is one and it does not wait already.
Waiting(more) ==
    IF more # << >> /\ Contains(pending_open_paths, Head(more)) THEN << >> ELSE more

OpenFile(p, more) ==
    LET pending == pending_open_paths \o Waiting(more) IN
    \/ /\ IsOpen(p) /\ ~load_in_progress
       /\ ResumeOpens(session_restore_queue, session_restore_active, pending,
                      TabOf(p))
    \/ /\ IsOpen(p) /\ load_in_progress
       /\ active' = TabOf(p)
       /\ pending_open_paths' = pending
       /\ UNCHANGED <<loader, session_restore_queue, session_restore_active>>
    \/ /\ ~IsOpen(p) /\ ~load_in_progress
       /\ StartLoad(p)
       /\ pending_open_paths' = pending
       /\ UNCHANGED <<session_restore_queue, session_restore_active, active>>
    \/ /\ ~IsOpen(p) /\ load_in_progress
       /\ pending_open_paths' =
            IF Contains(pending, p) THEN pending ELSE Append(pending, p)
       /\ UNCHANGED <<loader, session_restore_queue, session_restore_active,
                      active>>
------------------------------------------------------------------------------
(* What the user does *)

Command == opens < MaxOpens /\ opens' = opens + 1

OpenTrace(p) ==
    /\ Command
    /\ OpenFile(p, << >>)
    /\ demo_runner' = DemoAfterOpen
    /\ undisturbed' = FALSE
    /\ UNCHANGED <<finishing, pending_workspace, pending_demo, tabs, restored, staged,
                   landed>>

\* An archive with two traces.
OpenZip(p, q) ==
    /\ Command /\ p # q
    /\ OpenFile(p, <<q>>)
    /\ demo_runner' = DemoAfterOpen
    /\ undisturbed' = FALSE
    /\ UNCHANGED <<finishing, pending_workspace, pending_demo, tabs, restored, staged,
                   landed>>

\* The load of a package opened now is the next one to finish.
GoesThrough(p) ==
    /\ ~load_in_progress /\ ~IsOpen(p)
    /\ pending_workspace = NoPath /\ pending_demo = NoPath
    /\ session_restore_queue \o pending_open_paths = << >>
    /\ session_restore_active = 0

OpenWorkspace(p) ==
    /\ Command /\ p \in Packages \ staged
    /\ pending_workspace' = p
    /\ OpenFile(p, << >>)
    /\ demo_runner' = NoPath
    /\ staged' = staged \cup {p}
    /\ undisturbed' = GoesThrough(p)
    /\ UNCHANGED <<finishing, pending_demo, tabs, restored, landed>>

\* The trace of a demo lies next to its script.
OpenDemo(p) ==
    /\ Command
    /\ pending_demo' = p
    /\ OpenFile(p, << >>)
    /\ demo_runner' = NoPath
    /\ undisturbed' = GoesThrough(p)
    /\ UNCHANGED <<finishing, pending_workspace, tabs, restored, staged, landed>>

\* An archive that cannot be read: only the restore goes on.
OpenBroken ==
    /\ Command /\ ~load_in_progress
    /\ \/ /\ session_restore_queue # << >>
          /\ ResumeOpens(session_restore_queue, session_restore_active,
                         pending_open_paths, active)
       \/ /\ session_restore_queue = << >>
          /\ active' = SavedFocus(session_restore_active, active)
          /\ session_restore_active' = 0
          /\ UNCHANGED <<loader, pending_open_paths, session_restore_queue>>
    /\ demo_runner' = DemoAfterOpen
    /\ undisturbed' = FALSE
    /\ UNCHANGED <<finishing, pending_workspace, pending_demo, tabs, restored, staged,
                   landed>>

\* The timer of main(): the first trace of the session, or of the command
\* line, is opened and the others wait.
RestoreSession(session, saved) ==
    /\ ~restored
    /\ restored' = TRUE
    /\ \/ /\ ~load_in_progress
          /\ ResumeOpens(session, saved, pending_open_paths, active)
       \/ /\ load_in_progress
          /\ session_restore_queue' = Tail(session)
          /\ session_restore_active' = saved
          /\ IF IsOpen(Head(session))
             THEN active' = TabOf(Head(session)) /\ UNCHANGED pending_open_paths
             ELSE /\ pending_open_paths' =
                       pending_open_paths \o Waiting(<<Head(session)>>)
                  /\ UNCHANGED active
          /\ UNCHANGED loader
    /\ demo_runner' = DemoAfterOpen
    /\ undisturbed' = FALSE
    /\ UNCHANGED <<finishing, pending_workspace, pending_demo, tabs, opens, staged,
                   landed>>

\* The Cancel button.
RequestCancel ==
    /\ parse_thread.path # NoPath
    /\ parse_thread' = [parse_thread EXCEPT !.interrupted = TRUE]
    /\ UNCHANGED <<load_in_progress, outcome, finishing, queues, packages, tabs,
                   active, user, undisturbed, landed>>

SwitchTab(i) ==
    /\ active' = i
    /\ undisturbed' = FALSE
    /\ UNCHANGED <<loader, finishing, queues, packages, tabs, user, landed>>

\* The neighbour of a closed tab is focused, whichever was current.
CloseTab(i) ==
    /\ tabs' = RemoveAt(tabs, i)
    /\ active' = IF i <= Len(tabs) - 1 THEN i ELSE Len(tabs) - 1
    /\ undisturbed' = FALSE
    /\ UNCHANGED <<loader, finishing, queues, packages, user, landed>>
------------------------------------------------------------------------------
(* _ParseThread.run *)

\* The signal is queued when the thread emits it; an interruption that comes
\* later has no effect.
ParseEnds(result) ==
    /\ parse_thread.path # NoPath /\ parse_thread.result = "none"
    /\ result = "cancelled" => parse_thread.interrupted
    /\ parse_thread' = [parse_thread EXCEPT !.result = result]
    /\ UNCHANGED <<load_in_progress, outcome, finishing, queues, packages, tabs,
                   active, user, undisturbed, landed>>
------------------------------------------------------------------------------
(* The slots of its signals *)

\* Mutant: the load guard goes down with the progress line.
OnDoneUnguarded ==
    /\ parse_thread.result = "done"
    /\ tabs' = Append(tabs, parse_thread.path)
    /\ active' = Len(tabs) + 1
    /\ finishing' = TRUE
    /\ load_in_progress' = FALSE
    /\ parse_thread' = NoThread
    /\ outcome' = "ok"
    /\ UNCHANGED <<queues, packages, user, undisturbed, landed>>

\* Mutant: the new tab is not focused.
OnDoneUnfocused ==
    /\ parse_thread.result = "done"
    /\ tabs' = Append(tabs, parse_thread.path)
    /\ active' = IF active = 0 THEN 1 ELSE active
    /\ finishing' = TRUE
    /\ parse_thread' = NoThread
    /\ outcome' = "ok"
    /\ UNCHANGED <<load_in_progress, queues, packages, user, undisturbed, landed>>

\* The trace gets its tab; a timer ends the load when the window was painted.
OnDone ==
    /\ parse_thread.result = "done"
    /\ tabs' = Append(tabs, parse_thread.path)
    /\ active' = Len(tabs) + 1
    /\ finishing' = TRUE
    /\ parse_thread' = NoThread
    /\ outcome' = "ok"
    /\ UNCHANGED <<load_in_progress, queues, packages, user, undisturbed, landed>>

\* The load guard is taken down, and that is all.
LoadFailed ==
    /\ load_in_progress' = FALSE
    /\ parse_thread' = NoThread
    /\ outcome' = "failed"
    /\ undisturbed' = FALSE
    /\ UNCHANGED <<finishing, queues, packages, user, landed>>

\* The scene cannot be built; the tab was added before.
OnRenderError ==
    /\ parse_thread.result = "done"
    /\ tabs' = Append(tabs, parse_thread.path)
    /\ active' = Len(tabs) + 1
    /\ LoadFailed

OnError ==
    /\ parse_thread.result = "errored"
    /\ LoadFailed
    /\ UNCHANGED <<tabs, active>>

OnCancelled ==
    /\ parse_thread.result = "cancelled"
    /\ LoadFailed
    /\ UNCHANGED <<tabs, active>>

\* _start_pending_workspace and _start_pending_demo: what waits is applied to
\* the tab that is current then; only the demo starts without one.
Waits ==
    {pending_demo} \cup (IF active' = 0 THEN {} ELSE {pending_workspace})

ApplyPackages ==
    /\ landed' =
         {[to |-> p, on |-> IF active' = 0 THEN NoPath ELSE tabs[active'],
           undisturbed |-> undisturbed] : p \in Waits \ {NoPath}}
    /\ pending_workspace' = NoPath
    /\ pending_demo' = NoPath
    /\ demo_runner' = IF pending_demo # NoPath THEN pending_demo ELSE DemoAfterResume

\* The timer: _finish_load_pipeline.  The guard is cleared, the queues go on,
\* and then the packages have their turn.
FinishLoad ==
    /\ finishing
    /\ finishing' = FALSE
    /\ ResumeOpens(session_restore_queue, session_restore_active,
                   pending_open_paths, active)
    /\ ApplyPackages
    /\ UNCHANGED <<tabs, user, undisturbed>>

\* The user stops the demo, or it ends.
DemoEnds ==
    /\ demo_runner # NoPath
    /\ demo_runner' = NoPath
    /\ UNCHANGED <<loader, finishing, queues, pending_workspace, pending_demo, tabs,
                   active, user, undisturbed, landed>>

Slot == OnDone \/ OnRenderError \/ OnError \/ OnCancelled

Next ==
    \/ \E p \in Paths : OpenTrace(p) \/ OpenDemo(p)
    \/ \E p, q \in Paths : OpenZip(p, q)
    \/ \E p \in Packages : OpenWorkspace(p)
    \/ OpenBroken
    \/ \E session \in Sessions : \E saved \in DOMAIN session :
         RestoreSession(session, saved)
    \/ RequestCancel
    \/ \E i \in DOMAIN tabs : SwitchTab(i) \/ CloseTab(i)
    \/ \E result \in {"done", "errored", "cancelled"} : ParseEnds(result)
    \/ Slot
    \/ FinishLoad
    \/ DemoEnds

Spec == Init /\ [][Next]_vars

\* A file comes to its end and the event loop goes on; nothing is assumed of
\* the user.
FairSpec ==
    /\ Spec
    /\ WF_vars(\E result \in {"done", "errored", "cancelled"} : ParseEnds(result))
    /\ WF_vars(Slot)
    /\ WF_vars(FinishLoad)
------------------------------------------------------------------------------
TypeOK ==
    /\ load_in_progress \in BOOLEAN
    /\ parse_thread \in [path : Traces \cup {NoPath},
                         result : {"none", "done", "errored", "cancelled"},
                         interrupted : BOOLEAN]
    /\ finishing \in BOOLEAN
    /\ pending_open_paths \in Seq(Traces)
    /\ session_restore_queue \in Seq(Paths)
    /\ session_restore_active \in Nat
    /\ pending_workspace \in Packages \cup {NoPath}
    /\ pending_demo \in Paths \cup {NoPath}
    /\ demo_runner \in Paths \cup {NoPath}
    /\ tabs \in Seq(Traces)
    /\ active \in 0..Len(tabs)
    /\ outcome \in {"none", "running", "ok", "failed"}
    /\ opens \in 0..MaxOpens
    /\ restored \in BOOLEAN
    /\ staged \subseteq Packages
    /\ undisturbed \in BOOLEAN
    /\ landed \subseteq [to : Traces, on : Traces \cup {NoPath},
                         undisturbed : BOOLEAN]

\* The load guard is up exactly while a trace is parsed or its load is being
\* finished, and never for two of them: no request is refused because of a load
\* that is over, and the branch of _open_file that meets a running parser
\* thread is never taken.
LoadGuardExact ==
    /\ load_in_progress <=> parse_thread.path # NoPath \/ finishing
    /\ ~(parse_thread.path # NoPath /\ finishing)

\* However a trace is asked for, twice, while it is being loaded, by the
\* session and by the user, it gets one tab, and none while it is parsed.
OneTabPerTrace ==
    /\ \A i, j \in DOMAIN tabs : tabs[i] = tabs[j] => i = j
    /\ ~IsOpen(parse_thread.path)

\* A workspace or demo that was opened with nothing else under way, and whose
\* load nothing came across, is applied to the tab of its own trace.
PackageOnItsTrace ==
    \A l \in landed : l.undisturbed => l.on = l.to

Queued == session_restore_queue \o pending_open_paths # << >>

\* While loads succeed every trace that waits is opened, those of the session
\* and those the user asked for meanwhile.
QueuesMove == Queued ~> ~Queued \/ outcome = "failed"

\* mainwindow.py:10416: the pending paths are "Open files queued while a
\* previous load was still finishing", so a trace that waits is opened when
\* that load has finished, whatever its outcome.
QueuedIsOpened ==
    \A p \in Traces :
        Contains(pending_open_paths, p) ~> ~Contains(pending_open_paths, p)
=============================================================================
