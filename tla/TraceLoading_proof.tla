-------------------------- MODULE TraceLoading_proof --------------------------
(***************************************************************************)
(* Proofs about the loading of traces, for any set of files, sessions of   *)
(* any length and any number of commands.                                  *)
(***************************************************************************)
EXTENDS TraceLoading, WellFoundedInduction, TLAPS

\* A set of numbers that is not empty has a least one.
LEMMA LeastIsIn ==
    ASSUME NEW I \in SUBSET Nat, I # {}
    PROVE  Min(I) \in I /\ \A i \in I : Min(I) <= i
<1>1. PICK x \in I : \A y \in I : <<y, x>> \notin OpToRel(<, Nat)
  BY NatLessThanWellFounded, WFMin, Zenon
<1>2. \A y \in I : ~(y < x)
  BY <1>1, Zenon DEF OpToRel
<1>3. \A y \in I : x <= y
  BY <1>2
<1> QED
  BY <1>3 DEF Min

\* The tab of an open trace.
LEMMA TabOfOpen ==
    ASSUME NEW p, IsOpen(p), tabs \in Seq(Traces)
    PROVE  TabOf(p) \in 1..Len(tabs) /\ tabs[TabOf(p)] = p
<1> DEFINE I == {i \in 1..Len(tabs) : tabs[i] = p}
<1>1. I # {}
  BY DEF IsOpen, ToSet
<1>2. TabOf(p) = Min(I)
  BY <1>1 DEF TabOf, SelectInSeq
<1>3. I \in SUBSET Nat
  OBVIOUS
<1>4. Min(I) \in I
  <2> HIDE DEF I
  <2> QED
    BY <1>1, <1>3, LeastIsIn
<1> QED
  BY <1>2, <1>4

\* What is left of a queue begins with a trace that is not open, and a queue
\* focuses a tab that is there.
LEMMA UnopenedEffect ==
    ASSUME NEW S, S \subseteq Traces, NEW queue \in Seq(S), tabs \in Seq(Traces),
           NEW otherwise \in 0..Len(tabs)
    PROVE  /\ Unopened(queue) \in Seq(S)
           /\ Unopened(queue) # << >> => ~IsOpen(Head(Unopened(queue)))
           /\ Unopened(queue) # << >> => queue # << >>
           /\ FocusedBy(queue, otherwise) \in 0..Len(tabs)
<1> DEFINE I == {i \in 1..Len(queue) : ~IsOpen(queue[i])}
           first == SelectInSeq(queue, LAMBDA p : ~IsOpen(p))
           popped == Len(queue) - Len(Unopened(queue))
<1>1. Len(queue) \in Nat /\ I \in SUBSET Nat
  OBVIOUS
<1>2. first = IF I # {} THEN Min(I) ELSE 0
  BY DEF SelectInSeq
<1>3. Unopened(queue) = IF first = 0 THEN << >> ELSE SubSeq(queue, first, Len(queue))
  BY DEF Unopened
<1>4. FocusedBy(queue, otherwise) = IF popped = 0 THEN otherwise ELSE TabOf(queue[popped])
  BY DEF FocusedBy
<1> HIDE DEF first
<1>5. CASE I = {}
  <2>1. Unopened(queue) = << >> /\ popped = Len(queue)
    BY <1>1, <1>2, <1>3, <1>5
  <2>2. popped # 0 => IsOpen(queue[popped])
    BY <1>1, <1>5, <2>1
  <2>3. popped # 0 => TabOf(queue[popped]) \in 1..Len(tabs)
    BY <2>2, TabOfOpen
  <2> QED
    BY <1>4, <2>1, <2>3
<1>6. CASE I # {}
  <2>1. first \in I /\ \A i \in I : first <= i
    <3> HIDE DEF I
    <3> QED
      BY <1>1, <1>2, <1>6, LeastIsIn
  <2>2. /\ first \in 1..Len(queue) /\ ~IsOpen(queue[first])
        /\ \A i \in 1..Len(queue) : i < first => IsOpen(queue[i])
    BY <1>1, <2>1
  <2>3. /\ Unopened(queue) = SubSeq(queue, first, Len(queue))
        /\ Unopened(queue) \in Seq(S) /\ Len(Unopened(queue)) = Len(queue) - first + 1
        /\ Unopened(queue)[1] = queue[first]
    BY <1>1, <1>3, <2>2
  <2>4. popped = first - 1 /\ Head(Unopened(queue)) = queue[first] /\ queue # << >>
    BY <1>1, <2>2, <2>3
  <2>5. popped # 0 => TabOf(queue[popped]) \in 1..Len(tabs)
    BY <1>1, <2>2, <2>4, TabOfOpen
  <2> QED
    BY <1>4, <2>2, <2>3, <2>4, <2>5
<1> QED
  BY <1>5, <1>6
------------------------------------------------------------------------------
(* The loader and its queues *)

Ends == {"none", "done", "errored", "cancelled"}
ThreadType == [path : Traces \cup {NoPath}, result : Ends, interrupted : BOOLEAN]

LoaderTypes ==
    /\ load_in_progress \in BOOLEAN
    /\ parse_thread \in ThreadType
    /\ outcome \in {"none", "running", "ok", "failed"}
    /\ parse_thread.path = NoPath => parse_thread.result = "none"
QueueTypes ==
    /\ pending_open_paths \in Seq(Traces)
    /\ session_restore_queue \in Seq(Paths)
    /\ session_restore_active \in Nat
PackageTypes ==
    /\ pending_workspace \in Packages \cup {NoPath}
    /\ pending_demo \in Paths \cup {NoPath}
    /\ demo_runner \in Paths \cup {NoPath}
TabTypes == tabs \in Seq(Traces) /\ active \in 0..Len(tabs)
UserTypes ==
    /\ finishing \in BOOLEAN
    /\ opens \in 0..MaxOpens
    /\ restored \in BOOLEAN
    /\ staged \subseteq Packages
    /\ undisturbed \in BOOLEAN
LandedTypes ==
    landed \subseteq [to : Traces, on : Traces \cup {NoPath}, undisturbed : BOOLEAN]

\* A load that is started is of a trace without a tab, and takes the guard.
LEMMA StartLoadEffect ==
    ASSUME NEW p \in Traces, StartLoad(p)
    PROVE  /\ LoaderTypes' /\ load_in_progress' = TRUE
           /\ parse_thread'.path = p /\ parse_thread'.path # NoPath
<1>1. p # NoPath /\ p \in Traces
  BY PathAssumption DEF Traces
<1>2. parse_thread' = [path |-> p, result |-> "none", interrupted |-> FALSE]
  BY DEF StartLoad, NoThread
<1>3. /\ parse_thread' \in ThreadType /\ parse_thread'.path = p
      /\ parse_thread'.result = "none"
  BY <1>1, <1>2 DEF ThreadType, Ends
<1>4. load_in_progress' = TRUE /\ outcome' = "running"
  BY DEF StartLoad
<1> QED
  BY <1>1, <1>3, <1>4 DEF LoaderTypes

\* Nothing is loaded.
LEMMA IdleEffect ==
    ASSUME LoaderIdle, LoaderTypes
    PROVE  LoaderTypes' /\ load_in_progress' = FALSE /\ parse_thread'.path = NoPath
<1>1. parse_thread' = [path |-> NoPath, result |-> "none", interrupted |-> FALSE]
  BY DEF LoaderIdle, NoThread
<1>2. /\ parse_thread' \in ThreadType /\ parse_thread'.path = NoPath
      /\ parse_thread'.result = "none"
  BY <1>1 DEF ThreadType, Ends
<1>3. load_in_progress' = FALSE /\ outcome' = outcome
  BY DEF LoaderIdle
<1> QED
  BY <1>2, <1>3 DEF LoaderTypes

\* Resuming starts one load of a trace that is not open, or none.
LEMMA ResumeEffect ==
    ASSUME LoaderTypes, TabTypes, NEW session \in Seq(Paths), NEW saved \in Nat,
           NEW pending \in Seq(Traces), NEW current \in 0..Len(tabs),
           ResumeOpens(session, saved, pending, current)
    PROVE  /\ LoaderTypes' /\ QueueTypes' /\ active' \in 0..Len(tabs)
           /\ load_in_progress' <=> parse_thread'.path # NoPath
           /\ parse_thread'.path # NoPath => ~IsOpen(parse_thread'.path)
           /\ parse_thread'.path # NoPath => session # << >> \/ pending # << >>
<1> DEFINE toRestore == Unopened(session)
           toOpen == Unopened(pending)
           focus == FocusedBy(session, current)
<1>1. /\ toRestore \in Seq(Paths) /\ focus \in 0..Len(tabs)
      /\ toRestore # << >> => ~IsOpen(Head(toRestore)) /\ session # << >>
  BY UnopenedEffect DEF TabTypes, Traces
<1>2. SavedFocus(saved, focus) \in 0..Len(tabs)
  <2> HIDE DEF focus
  <2> QED
    BY <1>1 DEF SavedFocus, TabTypes
<1>3. /\ toOpen \in Seq(Traces)
      /\ FocusedBy(pending, SavedFocus(saved, focus)) \in 0..Len(tabs)
      /\ toOpen # << >> => ~IsOpen(Head(toOpen)) /\ pending # << >>
  <2> HIDE DEF focus
  <2> QED
    BY <1>2, UnopenedEffect DEF TabTypes
<1>4. CASE /\ toRestore # << >>
           /\ StartLoad(Head(toRestore))
           /\ session_restore_queue' = Tail(toRestore)
           /\ session_restore_active' = saved
           /\ pending_open_paths' = pending
           /\ active' = focus
  <2> HIDE DEF toRestore, focus
  <2>1. Head(toRestore) \in Traces /\ Tail(toRestore) \in Seq(Paths)
    BY <1>1, <1>4 DEF Traces
  <2> QED
    BY <1>1, <1>4, <2>1, StartLoadEffect DEF QueueTypes
<1>5. CASE /\ toRestore = << >>
           /\ IF toOpen # << >> THEN StartLoad(Head(toOpen)) ELSE LoaderIdle
           /\ session_restore_queue' = << >>
           /\ session_restore_active' = 0
           /\ pending_open_paths' = IF toOpen = << >> THEN << >> ELSE Tail(toOpen)
           /\ active' = FocusedBy(pending, SavedFocus(saved, focus))
  <2> HIDE DEF toRestore, toOpen, focus
  <2>1. QueueTypes'
    BY <1>3, <1>5 DEF QueueTypes
  <2>2. CASE toOpen # << >>
    <3>1. Head(toOpen) \in Traces
      BY <1>3, <2>2
    <3> QED
      BY <1>3, <1>5, <2>1, <2>2, <3>1, StartLoadEffect
  <2>3. CASE toOpen = << >>
    BY <1>3, <1>5, <2>1, <2>3, IdleEffect
  <2> QED
    BY <2>2, <2>3
<1> QED
  BY <1>4, <1>5 DEF ResumeOpens
------------------------------------------------------------------------------
(* The invariant *)

\* A trace has one tab; tabs are added and closed.
OneTab == \A i, j \in DOMAIN tabs : tabs[i] = tabs[j] => i = j

\* The tab of the load that is being finished is current, or its trace is still
\* being parsed; nothing else waits for the end of the load.
OnItsWay(p) ==
    /\ session_restore_queue = << >> /\ pending_open_paths = << >>
    /\ session_restore_active = 0
    /\ \/ parse_thread.path = p
       \/ finishing /\ active # 0 /\ tabs[active] = p

\* One package waits, or none: it was applied.
Carried == {pending_workspace, pending_demo} \ {NoPath}
Escorted == undisturbed => \A p \in Carried : Carried = {p} /\ OnItsWay(p)

LoadInv ==
    /\ LoaderTypes /\ QueueTypes /\ PackageTypes /\ TabTypes /\ UserTypes /\ LandedTypes
    /\ LoadGuardExact
    /\ OneTab /\ ~IsOpen(parse_thread.path)
    /\ Escorted /\ PackageOnItsTrace

\* The viewer begins without tabs and loads.
LEMMA InitLoadInv == Init => LoadInv
<1> SUFFICES ASSUME Init PROVE LoadInv
  OBVIOUS
<1> USE DEF Init
<1>1. LoaderTypes
  BY DEF LoaderTypes, ThreadType, Ends, NoThread
<1>2. QueueTypes /\ PackageTypes /\ UserTypes /\ LandedTypes
  <2>1. 0 \in 0..MaxOpens
    BY PathAssumption
  <2>2. UserTypes
    BY <2>1 DEF UserTypes
  <2> QED
    BY <2>2 DEF QueueTypes, PackageTypes, LandedTypes
<1>3. TabTypes /\ OneTab /\ ~IsOpen(parse_thread.path)
  BY DEF TabTypes, OneTab, IsOpen, ToSet
<1>4. LoadGuardExact /\ Escorted /\ PackageOnItsTrace
  BY DEF LoadGuardExact, Escorted, PackageOnItsTrace, NoThread
<1> QED
  BY <1>1, <1>2, <1>3, <1>4 DEF LoadInv

\* What _open_file does to the loader, the queues and the tabs.
LEMMA OpenFileEffect ==
    ASSUME LoadInv, NEW p \in Traces, NEW more \in Seq(Traces), OpenFile(p, more),
           UNCHANGED <<finishing, tabs>>
    PROVE  /\ LoaderTypes' /\ QueueTypes' /\ TabTypes' /\ LoadGuardExact'
           /\ ~IsOpen(parse_thread.path)'
<1> DEFINE pending == pending_open_paths \o Waiting(more)
<1> USE DEF LoadInv
<1>1. pending \in Seq(Traces)
  BY DEF Waiting, QueueTypes
<1>2. IsOpen(p) => TabOf(p) \in 0..Len(tabs)
  BY TabOfOpen DEF TabTypes
<1> HIDE DEF pending
<1>3. CASE /\ IsOpen(p) /\ ~load_in_progress
           /\ ResumeOpens(session_restore_queue, session_restore_active, pending,
                          TabOf(p))
  <2>1. /\ LoaderTypes' /\ QueueTypes' /\ active' \in 0..Len(tabs)
        /\ load_in_progress' <=> parse_thread'.path # NoPath
        /\ parse_thread'.path # NoPath => ~IsOpen(parse_thread'.path)
    BY <1>1, <1>2, <1>3, ResumeEffect DEF QueueTypes
  <2>2. ~finishing
    BY <1>3 DEF LoadGuardExact
  <2>3. ~IsOpen(NoPath)
    BY PathAssumption DEF IsOpen, ToSet, TabTypes, Traces
  <2> QED
    BY <2>1, <2>2, <2>3 DEF TabTypes, LoadGuardExact, IsOpen
<1>4. CASE /\ IsOpen(p) /\ load_in_progress
           /\ active' = TabOf(p)
           /\ pending_open_paths' = pending
           /\ UNCHANGED <<loader, session_restore_queue, session_restore_active>>
  BY <1>1, <1>2, <1>4 DEF LoaderTypes, QueueTypes, TabTypes, LoadGuardExact, IsOpen, loader
<1>5. CASE /\ ~IsOpen(p) /\ ~load_in_progress
           /\ StartLoad(p)
           /\ pending_open_paths' = pending
           /\ UNCHANGED <<session_restore_queue, session_restore_active, active>>
  <2>1. /\ LoaderTypes' /\ load_in_progress' = TRUE
        /\ parse_thread'.path = p /\ parse_thread'.path # NoPath
    BY <1>5, StartLoadEffect
  <2>2. ~finishing
    BY <1>5 DEF LoadGuardExact
  <2> QED
    BY <1>1, <1>5, <2>1, <2>2 DEF QueueTypes, TabTypes, LoadGuardExact, IsOpen
<1>6. CASE /\ ~IsOpen(p) /\ load_in_progress
           /\ pending_open_paths' =
                IF Contains(pending, p) THEN pending ELSE Append(pending, p)
           /\ UNCHANGED <<loader, session_restore_queue, session_restore_active,
                          active>>
  BY <1>1, <1>6 DEF LoaderTypes, QueueTypes, TabTypes, LoadGuardExact, IsOpen, loader
<1> QED
  BY <1>3, <1>4, <1>5, <1>6 DEF OpenFile, pending

\* A command that comes across a package leaves nothing to say of it.
LEMMA DisturbedInv ==
    ASSUME LoadInv, undisturbed' = FALSE, UNCHANGED <<tabs, landed>>,
           LoaderTypes', QueueTypes', PackageTypes', TabTypes', UserTypes',
           LoadGuardExact', ~IsOpen(parse_thread.path)'
    PROVE  LoadInv'
BY DEF LoadInv, LandedTypes, OneTab, Escorted, PackageOnItsTrace

\* The user opens a trace ...
LEMMA OpenTraceStep == ASSUME LoadInv, NEW p \in Paths, OpenTrace(p) PROVE LoadInv'
<1>1. /\ OpenFile(p, << >>) /\ undisturbed' = FALSE
      /\ opens < MaxOpens /\ opens' = opens + 1 /\ demo_runner' = DemoAfterOpen
      /\ UNCHANGED <<finishing, pending_workspace, pending_demo, tabs, restored, staged,
                     landed>>
  BY DEF OpenTrace, Command
<1>2. PackageTypes' /\ UserTypes'
  <2>1. opens' \in 0..MaxOpens
    BY <1>1, PathAssumption DEF LoadInv, UserTypes
  <2>2. UserTypes'
    BY <1>1, <2>1 DEF LoadInv, UserTypes
  <2>3. PackageTypes'
    BY <1>1 DEF LoadInv, PackageTypes, DemoAfterOpen
  <2> QED
    BY <2>2, <2>3
<1>3. p \in Traces /\ << >> \in Seq(Traces)
  BY DEF Traces
<1> QED
  BY <1>1, <1>2, <1>3, OpenFileEffect, DisturbedInv

\* ... or an archive with two.
LEMMA OpenZipStep ==
    ASSUME LoadInv, NEW p \in Paths, NEW q \in Paths, OpenZip(p, q) PROVE LoadInv'
<1>1. /\ OpenFile(p, <<q>>) /\ undisturbed' = FALSE
      /\ opens < MaxOpens /\ opens' = opens + 1 /\ demo_runner' = DemoAfterOpen
      /\ UNCHANGED <<finishing, pending_workspace, pending_demo, tabs, restored, staged,
                     landed>>
  BY DEF OpenZip, Command
<1>2. PackageTypes' /\ UserTypes'
  <2>1. opens' \in 0..MaxOpens
    BY <1>1, PathAssumption DEF LoadInv, UserTypes
  <2>2. UserTypes'
    BY <1>1, <2>1 DEF LoadInv, UserTypes
  <2>3. PackageTypes'
    BY <1>1 DEF LoadInv, PackageTypes, DemoAfterOpen
  <2> QED
    BY <2>2, <2>3
<1>3. p \in Traces /\ <<q>> \in Seq(Traces)
  BY DEF Traces
<1> QED
  BY <1>1, <1>2, <1>3, OpenFileEffect, DisturbedInv

\* A package whose load nothing comes across: it starts at once.
LEMMA GoesThroughEffect ==
    ASSUME LoadInv, NEW p \in Traces, GoesThrough(p), OpenFile(p, << >>)
    PROVE  OnItsWay(p)'
<1>1. /\ session_restore_queue = << >> /\ pending_open_paths = << >>
      /\ session_restore_active = 0 /\ ~load_in_progress /\ ~IsOpen(p)
  BY DEF GoesThrough, LoadInv, QueueTypes
<1>2. Waiting(<< >>) = << >>
  BY DEF Waiting
<1>3. /\ StartLoad(p) /\ pending_open_paths' = pending_open_paths \o << >>
      /\ UNCHANGED <<session_restore_queue, session_restore_active>>
  BY <1>1, <1>2 DEF OpenFile
<1>4. parse_thread'.path = p
  BY <1>3, StartLoadEffect
<1> QED
  BY <1>1, <1>3, <1>4 DEF OnItsWay

\* Workspaces and demos alike.
LEMMA PackageStep ==
    ASSUME LoadInv, NEW p \in Traces, OpenFile(p, << >>), undisturbed' = GoesThrough(p),
           GoesThrough(p) => Carried' = {p},
           PackageTypes', UserTypes', UNCHANGED <<finishing, tabs, landed>>
    PROVE  LoadInv'
<1>1. << >> \in Seq(Traces)
  OBVIOUS
<1>2. /\ LoaderTypes' /\ QueueTypes' /\ TabTypes' /\ LoadGuardExact'
      /\ ~IsOpen(parse_thread.path)'
  BY <1>1, OpenFileEffect
<1>3. Escorted'
  <2> SUFFICES ASSUME GoesThrough(p) PROVE Carried' = {p} /\ OnItsWay(p)'
    BY DEF Escorted
  <2> QED
    BY GoesThroughEffect
<1> QED
  BY <1>2, <1>3 DEF LoadInv, LandedTypes, OneTab, PackageOnItsTrace

\* A workspace stages its trace.
LEMMA OpenWorkspaceStep ==
    ASSUME LoadInv, NEW p \in Packages, OpenWorkspace(p) PROVE LoadInv'
<1>1. /\ p \in Traces /\ p # NoPath
  BY PathAssumption DEF Traces
<1>2. /\ OpenFile(p, << >>) /\ undisturbed' = GoesThrough(p)
      /\ pending_workspace' = p /\ pending_demo' = pending_demo /\ demo_runner' = NoPath
      /\ opens < MaxOpens /\ opens' = opens + 1 /\ staged' = staged \cup {p}
      /\ UNCHANGED <<finishing, tabs, restored, landed>>
  BY DEF OpenWorkspace, Command
<1>3. GoesThrough(p) \in BOOLEAN
  BY DEF GoesThrough
<1>4. PackageTypes'
  BY <1>2 DEF LoadInv, PackageTypes
<1>5. UserTypes'
  BY <1>2, <1>3, PathAssumption DEF LoadInv, UserTypes
<1>6. GoesThrough(p) => Carried' = {p}
  BY <1>1, <1>2 DEF GoesThrough, Carried
<1> QED
  BY <1>1, <1>2, <1>4, <1>5, <1>6, PackageStep

\* A demo names its trace.
LEMMA OpenDemoStep ==
    ASSUME LoadInv, NEW p \in Paths, OpenDemo(p) PROVE LoadInv'
<1>1. /\ p \in Traces /\ p # NoPath
  BY PathAssumption DEF Traces
<1>2. /\ OpenFile(p, << >>) /\ undisturbed' = GoesThrough(p)
      /\ pending_demo' = p /\ pending_workspace' = pending_workspace
      /\ demo_runner' = NoPath /\ opens < MaxOpens /\ opens' = opens + 1
      /\ UNCHANGED <<finishing, tabs, restored, staged, landed>>
  BY DEF OpenDemo, Command
<1>3. GoesThrough(p) \in BOOLEAN
  BY DEF GoesThrough
<1>4. PackageTypes'
  BY <1>2 DEF LoadInv, PackageTypes
<1>5. UserTypes'
  BY <1>2, <1>3, PathAssumption DEF LoadInv, UserTypes
<1>6. GoesThrough(p) => Carried' = {p}
  BY <1>1, <1>2 DEF GoesThrough, Carried
<1> QED
  BY <1>1, <1>2, <1>4, <1>5, <1>6, PackageStep

\* A resume that no load and no timer are in the way of.
LEMMA ResumeInv ==
    ASSUME LoadInv, ~load_in_progress \/ finishing, finishing' = FALSE, tabs' = tabs,
           NEW session \in Seq(Paths), NEW saved \in Nat,
           ResumeOpens(session, saved, pending_open_paths, active)
    PROVE  /\ LoaderTypes' /\ QueueTypes' /\ TabTypes' /\ LoadGuardExact'
           /\ ~IsOpen(parse_thread.path)'
<1>1. /\ LoaderTypes' /\ QueueTypes' /\ active' \in 0..Len(tabs)
      /\ load_in_progress' <=> parse_thread'.path # NoPath
      /\ parse_thread'.path # NoPath => ~IsOpen(parse_thread'.path)
  BY ResumeEffect DEF LoadInv, QueueTypes, TabTypes
<1>2. ~IsOpen(NoPath)
  BY PathAssumption DEF LoadInv, IsOpen, ToSet, TabTypes, Traces
<1> QED
  BY <1>1, <1>2 DEF LoadInv, TabTypes, LoadGuardExact, IsOpen

\* The focus the restore ends with is on a tab that is there.
LEMMA SavedFocusThere ==
    ASSUME TabTypes, NEW saved \in Nat, NEW otherwise \in 0..Len(tabs)
    PROVE  SavedFocus(saved, otherwise) \in 0..Len(tabs)
BY DEF SavedFocus, TabTypes

\* An archive that cannot be read.
LEMMA OpenBrokenStep == ASSUME LoadInv, OpenBroken PROVE LoadInv'
<1>1. /\ ~load_in_progress /\ undisturbed' = FALSE
      /\ opens < MaxOpens /\ opens' = opens + 1 /\ demo_runner' = DemoAfterOpen
      /\ UNCHANGED <<finishing, pending_workspace, pending_demo, tabs, restored, staged,
                     landed>>
  BY DEF OpenBroken, Command
<1>2. finishing' = FALSE
  BY <1>1 DEF LoadInv, LoadGuardExact, UserTypes
<1>3. PackageTypes' /\ UserTypes'
  <2>1. opens' \in 0..MaxOpens
    BY <1>1, PathAssumption DEF LoadInv, UserTypes
  <2>2. UserTypes'
    BY <1>1, <2>1 DEF LoadInv, UserTypes
  <2>3. PackageTypes'
    BY <1>1 DEF LoadInv, PackageTypes, DemoAfterOpen
  <2> QED
    BY <2>2, <2>3
<1>4. CASE ResumeOpens(session_restore_queue, session_restore_active,
                       pending_open_paths, active)
  BY <1>1, <1>2, <1>3, <1>4, ResumeInv, DisturbedInv DEF LoadInv, QueueTypes
<1>5. CASE /\ active' = SavedFocus(session_restore_active, active)
           /\ session_restore_active' = 0
           /\ UNCHANGED <<loader, pending_open_paths, session_restore_queue>>
  <2>1. active' \in 0..Len(tabs)
    BY <1>5, SavedFocusThere DEF LoadInv, TabTypes, QueueTypes
  <2>2. /\ LoaderTypes' /\ QueueTypes' /\ TabTypes' /\ LoadGuardExact'
        /\ ~IsOpen(parse_thread.path)'
    BY <1>1, <1>5, <2>1 DEF LoadInv, LoaderTypes, QueueTypes, TabTypes, LoadGuardExact,
       IsOpen, loader
  <2> QED
    BY <1>1, <1>3, <2>2, DisturbedInv
<1> QED
  BY <1>4, <1>5 DEF OpenBroken

\* The session of the last run.
LEMMA RestoreSessionStep ==
    ASSUME LoadInv, NEW session \in Sessions, NEW saved \in DOMAIN session,
           RestoreSession(session, saved)
    PROVE  LoadInv'
<1>1. /\ session \in Seq(Paths) /\ session # << >> /\ saved \in Nat
      /\ Head(session) \in Traces /\ Tail(session) \in Seq(Paths)
  BY PathAssumption DEF Traces
<1>2. /\ restored' = TRUE /\ undisturbed' = FALSE /\ demo_runner' = DemoAfterOpen
      /\ UNCHANGED <<finishing, pending_workspace, pending_demo, tabs, opens, staged,
                     landed>>
  BY DEF RestoreSession
<1>3. PackageTypes' /\ UserTypes'
  BY <1>2, PathAssumption DEF LoadInv, PackageTypes, UserTypes, DemoAfterOpen
<1>4. CASE ~load_in_progress /\ ResumeOpens(session, saved, pending_open_paths, active)
  <2>1. finishing' = FALSE
    BY <1>2, <1>4 DEF LoadInv, LoadGuardExact, UserTypes
  <2> QED
    BY <1>1, <1>2, <1>3, <1>4, <2>1, ResumeInv, DisturbedInv
<1>5. CASE /\ load_in_progress
           /\ session_restore_queue' = Tail(session)
           /\ session_restore_active' = saved
           /\ IF IsOpen(Head(session))
              THEN active' = TabOf(Head(session)) /\ UNCHANGED pending_open_paths
              ELSE /\ pending_open_paths' =
                        pending_open_paths \o Waiting(<<Head(session)>>)
                   /\ UNCHANGED active
           /\ UNCHANGED loader
  <2>1. active' \in 0..Len(tabs)
    BY <1>5, TabOfOpen DEF LoadInv, TabTypes
  <2>2. pending_open_paths' \in Seq(Traces)
    <3>1. Waiting(<<Head(session)>>) \in Seq(Traces)
      BY <1>1 DEF Waiting
    <3>2. CASE IsOpen(Head(session))
      BY <1>5, <3>2 DEF LoadInv, QueueTypes
    <3>3. CASE ~IsOpen(Head(session))
      <4>1. pending_open_paths \in Seq(Traces)
        BY DEF LoadInv, QueueTypes
      <4>2. pending_open_paths' = pending_open_paths \o Waiting(<<Head(session)>>)
        BY <1>5, <3>3
      <4> QED
        BY <3>1, <4>1, <4>2
    <3> QED
      BY <3>2, <3>3
  <2>3. /\ LoaderTypes' /\ QueueTypes' /\ TabTypes' /\ LoadGuardExact'
        /\ ~IsOpen(parse_thread.path)'
    BY <1>1, <1>2, <1>5, <2>1, <2>2 DEF LoadInv, LoaderTypes, QueueTypes, TabTypes,
       LoadGuardExact, IsOpen, loader
  <2> QED
    BY <1>2, <1>3, <2>3, DisturbedInv
<1> QED
  BY <1>4, <1>5 DEF RestoreSession

\* The parser thread goes on or is told to stop: the trace stays the same.
LEMMA ThreadStep ==
    ASSUME LoadInv, parse_thread' \in ThreadType, parse_thread.path # NoPath,
           parse_thread'.path = parse_thread.path,
           UNCHANGED <<load_in_progress, outcome, finishing, queues, packages, tabs,
                       active, user, undisturbed, landed>>
    PROVE  LoadInv'
<1> USE DEF LoadInv, queues, packages, user
<1>1. LoaderTypes' /\ QueueTypes' /\ PackageTypes' /\ TabTypes' /\ UserTypes' /\ LandedTypes'
  BY DEF LoaderTypes, QueueTypes, PackageTypes, TabTypes, UserTypes, LandedTypes
<1>2. LoadGuardExact' /\ OneTab' /\ ~IsOpen(parse_thread.path)' /\ PackageOnItsTrace'
  BY DEF LoadGuardExact, OneTab, IsOpen, PackageOnItsTrace
<1>3. Escorted'
  BY DEF Escorted, Carried, OnItsWay
<1> QED
  BY <1>1, <1>2, <1>3

\* The Cancel button only tells the thread.
LEMMA RequestCancelStep == ASSUME LoadInv, RequestCancel PROVE LoadInv'
<1>1. parse_thread \in ThreadType
  BY DEF LoadInv, LoaderTypes
<1>2. /\ parse_thread.path # NoPath
      /\ parse_thread' = [parse_thread EXCEPT !.interrupted = TRUE]
  BY DEF RequestCancel
<1>3. parse_thread' \in ThreadType /\ parse_thread'.path = parse_thread.path
  BY <1>1, <1>2 DEF ThreadType
<1> QED
  BY <1>2, <1>3, ThreadStep DEF RequestCancel

\* The thread ends, its signal is queued.
LEMMA ParseEndsStep ==
    ASSUME LoadInv, NEW result \in {"done", "errored", "cancelled"}, ParseEnds(result)
    PROVE  LoadInv'
<1>1. parse_thread \in ThreadType
  BY DEF LoadInv, LoaderTypes
<1>2. /\ parse_thread.path # NoPath
      /\ parse_thread' = [parse_thread EXCEPT !.result = result]
  BY DEF ParseEnds
<1>3. parse_thread' \in ThreadType /\ parse_thread'.path = parse_thread.path
  BY <1>1, <1>2 DEF ThreadType, Ends
<1> QED
  BY <1>2, <1>3, ThreadStep DEF ParseEnds

\* Two sequences, one after the other.
LEMMA Joined ==
    ASSUME NEW S, NEW a \in Seq(S), NEW b \in Seq(S)
    PROVE  a \o b \in Seq(S) /\ Len(a \o b) = Len(a) + Len(b)
OBVIOUS

\* Closing a tab leaves the others as they are, one for each trace.
LEMMA CloseTabEffect ==
    ASSUME tabs \in Seq(Traces), OneTab, NEW i \in DOMAIN tabs
    PROVE  LET rest == RemoveAt(tabs, i)
           IN  /\ rest \in Seq(Traces) /\ Len(rest) = Len(tabs) - 1
               /\ ToSet(rest) \subseteq ToSet(tabs)
               /\ \A j, k \in DOMAIN rest : rest[j] = rest[k] => j = k
<1> DEFINE rest == RemoveAt(tabs, i)
           old(j) == IF j < i THEN j ELSE j + 1
<1>1. Len(tabs) \in Nat /\ DOMAIN tabs = 1..Len(tabs) /\ i \in 1..Len(tabs)
  OBVIOUS
<1>2. /\ rest \in Seq(Traces) /\ Len(rest) = Len(tabs) - 1
      /\ \A j \in 1..(Len(tabs) - 1) : rest[j] = tabs[old(j)]
  <2> DEFINE a == SubSeq(tabs, 1, i - 1)
             b == SubSeq(tabs, i + 1, Len(tabs))
  <2>1. /\ a \in Seq(Traces) /\ Len(a) = i - 1
        /\ \A j \in 1..(i - 1) : a[j] = tabs[j]
    BY <1>1
  <2>2. /\ b \in Seq(Traces) /\ Len(b) = Len(tabs) - i
        /\ \A j \in 1..(Len(tabs) - i) : b[j] = tabs[i + j]
    BY <1>1
  <2>3. rest = a \o b
    BY DEF RemoveAt
  <2> HIDE DEF a, b, rest
  <2>4. rest \in Seq(Traces) /\ Len(rest) = Len(tabs) - 1
    <3>1. a \o b \in Seq(Traces) /\ Len(a \o b) = Len(a) + Len(b)
      BY <2>1, <2>2, Joined
    <3>2. (i - 1) + (Len(tabs) - i) = Len(tabs) - 1
      BY <1>1
    <3> QED
      BY <2>1, <2>2, <2>3, <3>1, <3>2
  <2>5. ASSUME NEW j \in 1..(Len(tabs) - 1) PROVE rest[j] = tabs[old(j)]
    <3>1. CASE j < i
      BY <1>1, <2>1, <2>2, <2>3, <3>1
    <3>2. CASE ~(j < i)
      <4>1. rest[j] = b[j - (i - 1)] /\ j - (i - 1) \in 1..(Len(tabs) - i)
        BY <1>1, <2>1, <2>2, <2>3, <3>2
      <4>2. i + (j - (i - 1)) = j + 1
        BY <1>1
      <4> QED
        BY <2>2, <3>2, <4>1, <4>2
    <3> QED
      BY <3>1, <3>2
  <2> QED
    BY <2>4, <2>5
<1> HIDE DEF rest
<1>3. DOMAIN rest = 1..(Len(tabs) - 1)
  BY <1>2
<1>4. \A j \in 1..(Len(tabs) - 1) : old(j) \in 1..Len(tabs)
  BY <1>1
<1>5. \A j, k \in 1..(Len(tabs) - 1) : old(j) = old(k) => j = k
  BY <1>1
<1> HIDE DEF old
<1>6. ToSet(rest) \subseteq ToSet(tabs)
  BY <1>1, <1>2, <1>3, <1>4 DEF ToSet
<1>7. \A j, k \in DOMAIN rest : rest[j] = rest[k] => j = k
  BY <1>1, <1>2, <1>3, <1>4, <1>5 DEF OneTab
<1> QED
  BY <1>2, <1>6, <1>7 DEF rest

\* Another tab is focused.
LEMMA SwitchTabStep == ASSUME LoadInv, NEW i \in DOMAIN tabs, SwitchTab(i) PROVE LoadInv'
<1> USE DEF LoadInv, SwitchTab, loader, queues, packages, user
<1>1. LoaderTypes' /\ QueueTypes' /\ PackageTypes' /\ UserTypes'
  BY DEF LoaderTypes, QueueTypes, PackageTypes, UserTypes
<1>2. TabTypes' /\ LoadGuardExact' /\ ~IsOpen(parse_thread.path)'
  BY DEF TabTypes, LoadGuardExact, IsOpen
<1> QED
  BY <1>1, <1>2, DisturbedInv

\* A tab is closed, with a load under way or not.
LEMMA CloseTabStep == ASSUME LoadInv, NEW i \in DOMAIN tabs, CloseTab(i) PROVE LoadInv'
<1> USE DEF LoadInv, CloseTab, loader, queues, packages, user
<1>1. LoaderTypes' /\ QueueTypes' /\ PackageTypes' /\ UserTypes' /\ LandedTypes'
  BY DEF LoaderTypes, QueueTypes, PackageTypes, UserTypes, LandedTypes
<1>2. /\ tabs' \in Seq(Traces) /\ Len(tabs') = Len(tabs) - 1
      /\ ToSet(tabs') \subseteq ToSet(tabs) /\ OneTab'
  BY CloseTabEffect DEF TabTypes, OneTab
<1>3. i \in 1..Len(tabs) /\ Len(tabs) \in Nat
  BY DEF TabTypes
<1>4. TabTypes' /\ LoadGuardExact' /\ ~IsOpen(parse_thread.path)'
  BY <1>2, <1>3 DEF TabTypes, LoadGuardExact, IsOpen
<1>5. Escorted' /\ PackageOnItsTrace'
  BY DEF Escorted, PackageOnItsTrace
<1> QED
  BY <1>1, <1>2, <1>4, <1>5

\* The trace that was parsed gets a tab of its own.
LEMMA NewTab ==
    ASSUME LoadInv, parse_thread.result = "done",
           tabs' = Append(tabs, parse_thread.path), active' = Len(tabs) + 1,
           parse_thread' = NoThread
    PROVE  /\ TabTypes' /\ OneTab' /\ ~IsOpen(parse_thread.path)'
           /\ parse_thread.path # NoPath
           /\ active' # 0 /\ tabs'[active'] = parse_thread.path
<1>1. /\ parse_thread.path # NoPath /\ parse_thread.path \in Traces
      /\ tabs \in Seq(Traces) /\ OneTab /\ ~IsOpen(parse_thread.path)
  BY DEF LoadInv, LoaderTypes, ThreadType, TabTypes
<1> DEFINE p == parse_thread.path
           n == Len(tabs)
<1>2. /\ n \in Nat /\ DOMAIN tabs = 1..n /\ tabs' \in Seq(Traces)
      /\ Len(tabs') = n + 1 /\ DOMAIN tabs' = 1..(n + 1) /\ tabs'[n + 1] = p
      /\ \A j \in 1..n : tabs'[j] = tabs[j]
  BY <1>1
<1>3. \A j \in 1..n : tabs[j] # p
  BY <1>1, <1>2 DEF IsOpen, ToSet
<1>4. OneTab'
  BY <1>1, <1>2, <1>3 DEF OneTab
<1>5. ~IsOpen(parse_thread.path)'
  <2>1. parse_thread'.path = NoPath
    BY DEF NoThread
  <2>2. \A q \in ToSet(tabs') : q \in Traces
    BY <1>2 DEF ToSet
  <2>3. NoPath \notin ToSet(tabs')
    BY <2>2, PathAssumption DEF Traces
  <2> QED
    BY <2>1, <2>3 DEF IsOpen
<1> QED
  BY <1>1, <1>2, <1>4, <1>5 DEF TabTypes

\* The load guard comes down and nothing is left of the load.
LEMMA LoadFailedEffect ==
    ASSUME LoadInv, parse_thread.result # "none", LoadFailed
    PROVE  /\ LoaderTypes' /\ QueueTypes' /\ PackageTypes' /\ UserTypes' /\ LandedTypes'
           /\ LoadGuardExact' /\ Escorted' /\ PackageOnItsTrace'
           /\ parse_thread'.path = NoPath
<1> USE DEF LoadInv, LoadFailed, queues, packages, user
<1>1. /\ parse_thread' = NoThread /\ parse_thread'.path = NoPath
      /\ parse_thread' \in ThreadType /\ parse_thread'.result = "none"
  BY DEF NoThread, ThreadType, Ends
<1>2. finishing' = FALSE
  BY DEF LoadGuardExact, LoaderTypes, UserTypes
<1>3. LoaderTypes' /\ LoadGuardExact'
  BY <1>1, <1>2 DEF LoaderTypes, LoadGuardExact
<1>4. QueueTypes' /\ PackageTypes' /\ UserTypes' /\ LandedTypes'
  BY DEF QueueTypes, PackageTypes, UserTypes, LandedTypes
<1>5. Escorted' /\ PackageOnItsTrace'
  BY DEF Escorted, PackageOnItsTrace
<1> QED
  BY <1>1, <1>3, <1>4, <1>5

\* A load that fails or was cancelled adds no tab.
LEMMA FailedStep == ASSUME LoadInv, OnError \/ OnCancelled PROVE LoadInv'
<1>1. /\ parse_thread.result # "none" /\ LoadFailed /\ UNCHANGED <<tabs, active>>
  BY DEF OnError, OnCancelled
<1>2. /\ LoaderTypes' /\ QueueTypes' /\ PackageTypes' /\ UserTypes' /\ LandedTypes'
      /\ LoadGuardExact' /\ Escorted' /\ PackageOnItsTrace'
      /\ parse_thread'.path = NoPath
  BY <1>1, LoadFailedEffect
<1>3. ~IsOpen(NoPath)
  BY PathAssumption DEF LoadInv, IsOpen, ToSet, TabTypes, Traces
<1> QED
  BY <1>1, <1>2, <1>3 DEF LoadInv, TabTypes, OneTab, IsOpen

\* A trace that cannot be drawn has its tab, and the guard comes down.
LEMMA OnRenderErrorStep == ASSUME LoadInv, OnRenderError PROVE LoadInv'
<1>1. /\ parse_thread.result = "done" /\ LoadFailed
      /\ tabs' = Append(tabs, parse_thread.path) /\ active' = Len(tabs) + 1
  BY DEF OnRenderError
<1>2. /\ LoaderTypes' /\ QueueTypes' /\ PackageTypes' /\ UserTypes' /\ LandedTypes'
      /\ LoadGuardExact' /\ Escorted' /\ PackageOnItsTrace'
  BY <1>1, LoadFailedEffect
<1>3. TabTypes' /\ OneTab' /\ ~IsOpen(parse_thread.path)'
  BY <1>1, NewTab DEF LoadFailed
<1> QED
  BY <1>2, <1>3 DEF LoadInv

\* A trace that was parsed has its tab, and the guard stays up for the timer.
LEMMA OnDoneStep == ASSUME LoadInv, OnDone PROVE LoadInv'
<1>1. /\ parse_thread.result = "done" /\ parse_thread' = NoThread
      /\ tabs' = Append(tabs, parse_thread.path) /\ active' = Len(tabs) + 1
      /\ finishing' = TRUE /\ outcome' = "ok"
      /\ UNCHANGED <<load_in_progress, queues, packages, user, undisturbed, landed>>
  BY DEF OnDone
<1>2. /\ TabTypes' /\ OneTab' /\ ~IsOpen(parse_thread.path)'
      /\ parse_thread.path # NoPath
      /\ active' # 0 /\ tabs'[active'] = parse_thread.path
  BY <1>1, NewTab
<1>3. /\ parse_thread'.path = NoPath /\ parse_thread'.result = "none"
      /\ parse_thread' \in ThreadType
  BY <1>1 DEF NoThread, ThreadType, Ends
<1>4. ~finishing /\ load_in_progress
  BY <1>2 DEF LoadInv, LoadGuardExact
<1>5. LoaderTypes' /\ LoadGuardExact'
  BY <1>1, <1>3, <1>4 DEF LoadInv, LoaderTypes, LoadGuardExact
<1>6. QueueTypes' /\ PackageTypes' /\ UserTypes' /\ LandedTypes' /\ PackageOnItsTrace'
  BY <1>1 DEF LoadInv, QueueTypes, PackageTypes, UserTypes, LandedTypes, PackageOnItsTrace,
     queues, packages, user
<1>7. Escorted'
  <2> SUFFICES ASSUME undisturbed, NEW p \in Carried PROVE Carried = {p} /\ OnItsWay(p)'
    BY <1>1 DEF Escorted, Carried, packages
  <2>1. Carried = {p} /\ OnItsWay(p)
    BY DEF LoadInv, Escorted
  <2> QED
    BY <1>1, <1>2, <1>4, <2>1 DEF OnItsWay, queues
<1> QED
  BY <1>2, <1>5, <1>6, <1>7 DEF LoadInv

\* The end of the load: the queues go on, and a package that nothing came across
\* meets the tab of its trace, which is still the current one.
LEMMA FinishLoadStep == ASSUME LoadInv, FinishLoad PROVE LoadInv'
<1>1. /\ finishing /\ finishing' = FALSE
      /\ ResumeOpens(session_restore_queue, session_restore_active,
                     pending_open_paths, active)
      /\ ApplyPackages
      /\ UNCHANGED <<tabs, user, undisturbed>>
  BY DEF FinishLoad
<1>2. /\ LoaderTypes' /\ QueueTypes' /\ TabTypes' /\ LoadGuardExact'
      /\ ~IsOpen(parse_thread.path)'
  BY <1>1, ResumeInv DEF LoadInv, QueueTypes
<1>3. /\ pending_workspace' = NoPath /\ pending_demo' = NoPath
      /\ demo_runner' = IF pending_demo # NoPath THEN pending_demo ELSE DemoAfterResume
      /\ landed' = {[to |-> p, on |-> IF active' = 0 THEN NoPath ELSE tabs[active'],
                     undisturbed |-> undisturbed] : p \in Waits \ {NoPath}}
  BY <1>1 DEF ApplyPackages
<1>4. PackageTypes'
  BY <1>3 DEF LoadInv, PackageTypes, DemoAfterResume, DemoAfterOpen
<1>5. UserTypes'
  BY <1>1 DEF LoadInv, UserTypes, user
<1>6. Waits \ {NoPath} \subseteq Carried /\ Carried \subseteq Traces /\ NoPath \notin Carried
  BY PathAssumption DEF Waits, Carried, LoadInv, PackageTypes, Traces
<1> DEFINE on == IF active' = 0 THEN NoPath ELSE tabs[active']
<1>7. on \in Traces \cup {NoPath}
  BY <1>1, <1>2 DEF TabTypes
<1>8. undisturbed \in BOOLEAN
  BY DEF LoadInv, UserTypes
<1>9. LandedTypes'
  <2> HIDE DEF on
  <2>1. \A p \in Traces : [to |-> p, on |-> on, undisturbed |-> undisturbed]
          \in [to : Traces, on : Traces \cup {NoPath}, undisturbed : BOOLEAN]
    BY <1>7, <1>8
  <2>2. landed' = {[to |-> p, on |-> on, undisturbed |-> undisturbed] : p \in Waits \ {NoPath}}
    BY <1>3 DEF on
  <2> QED
    BY <1>6, <2>1, <2>2 DEF LandedTypes
<1>10. ASSUME undisturbed, NEW p \in Carried PROVE on = p
  <2>1. OnItsWay(p) /\ p # NoPath
    BY <1>6, <1>10 DEF LoadInv, Escorted
  <2>2. /\ session_restore_queue = << >> /\ pending_open_paths = << >>
        /\ session_restore_active = 0 /\ active # 0 /\ tabs[active] = p
    BY <1>1, <2>1 DEF OnItsWay, LoadInv, LoadGuardExact
  <2>3. Unopened(<< >>) = << >>
    <3>1. << >> \in Seq(Traces) /\ tabs \in Seq(Traces) /\ 0 \in 0..Len(tabs)
      BY DEF LoadInv, TabTypes
    <3> QED
      BY <3>1, UnopenedEffect
  <2>4. \A f : FocusedBy(<< >>, f) = f
    BY <2>3 DEF FocusedBy
  <2>5. SavedFocus(0, active) = active
    BY DEF SavedFocus
  <2>6. active' = active
    BY <1>1, <2>2, <2>3, <2>4, <2>5 DEF ResumeOpens
  <2> QED
    BY <2>2, <2>6
<1>11. PackageOnItsTrace'
  <2> HIDE DEF on
  <2>1. landed' = {[to |-> p, on |-> on, undisturbed |-> undisturbed] : p \in Waits \ {NoPath}}
    BY <1>3 DEF on
  <2>2. ASSUME NEW p \in Waits \ {NoPath}, undisturbed PROVE on = p
    BY <1>6, <1>10, <2>2
  <2> QED
    BY <2>1, <2>2 DEF PackageOnItsTrace
<1>12. Escorted' /\ OneTab'
  BY <1>1, <1>3 DEF LoadInv, Escorted, Carried, OneTab
<1> QED
  BY <1>2, <1>4, <1>5, <1>9, <1>11, <1>12 DEF LoadInv

\* A demo that ends, and steps in which nothing happens.
LEMMA QuietStep ==
    ASSUME LoadInv, demo_runner' \in Paths \cup {NoPath},
           UNCHANGED <<loader, finishing, queues, pending_workspace, pending_demo, tabs,
                       active, user, undisturbed, landed>>
    PROVE  LoadInv'
<1> USE DEF LoadInv, loader, queues, user
<1>1. LoaderTypes' /\ QueueTypes' /\ PackageTypes' /\ TabTypes' /\ UserTypes' /\ LandedTypes'
  BY DEF LoaderTypes, QueueTypes, PackageTypes, TabTypes, UserTypes, LandedTypes
<1>2. LoadGuardExact' /\ OneTab' /\ ~IsOpen(parse_thread.path)' /\ PackageOnItsTrace'
  BY DEF LoadGuardExact, OneTab, IsOpen, PackageOnItsTrace
<1>3. Escorted'
  BY DEF Escorted, Carried, OnItsWay
<1> QED
  BY <1>1, <1>2, <1>3

\* Every step keeps the invariant.
LEMMA NextLoadInv == ASSUME LoadInv, [Next]_vars PROVE LoadInv'
<1>1. CASE \E p \in Paths : OpenTrace(p) \/ OpenDemo(p)
  BY <1>1, OpenTraceStep, OpenDemoStep
<1>2. CASE \E p, q \in Paths : OpenZip(p, q)
  BY <1>2, OpenZipStep
<1>3. CASE \E p \in Packages : OpenWorkspace(p)
  BY <1>3, OpenWorkspaceStep
<1>4. CASE OpenBroken
  BY <1>4, OpenBrokenStep
<1>5. CASE \E session \in Sessions : \E saved \in DOMAIN session :
             RestoreSession(session, saved)
  BY <1>5, RestoreSessionStep
<1>6. CASE RequestCancel
  BY <1>6, RequestCancelStep
<1>7. CASE \E i \in DOMAIN tabs : SwitchTab(i) \/ CloseTab(i)
  BY <1>7, SwitchTabStep, CloseTabStep
<1>8. CASE \E result \in {"done", "errored", "cancelled"} : ParseEnds(result)
  BY <1>8, ParseEndsStep
<1>9. CASE Slot
  BY <1>9, OnDoneStep, OnRenderErrorStep, FailedStep DEF Slot
<1>10. CASE FinishLoad
  BY <1>10, FinishLoadStep
<1>11. CASE DemoEnds
  BY <1>11, QuietStep DEF DemoEnds
<1>12. CASE UNCHANGED vars
  BY <1>12, QuietStep DEF vars, packages, LoadInv, PackageTypes
<1> QED
  BY <1>1, <1>2, <1>3, <1>4, <1>5, <1>6, <1>7, <1>8, <1>9, <1>10, <1>11, <1>12 DEF Next

\* Initialisation, steps and stuttering together.
LEMMA AlwaysLoadInv == Spec => []LoadInv
BY InitLoadInv, NextLoadInv, PTL DEF Spec
------------------------------------------------------------------------------
(* Theorems *)

\* The variables keep their types.
THEOREM TypeCorrect == Spec => []TypeOK
<1>1. LoadInv => TypeOK
  BY DEF LoadInv, LoaderTypes, ThreadType, Ends, QueueTypes, PackageTypes, TabTypes,
     UserTypes, LandedTypes, TypeOK
<1> QED
  BY <1>1, AlwaysLoadInv, PTL

\* The load guard is up exactly while a trace is parsed or its load finished.
THEOREM LoadGuardExactHolds == Spec => []LoadGuardExact
<1>1. LoadInv => LoadGuardExact
  BY DEF LoadInv
<1> QED
  BY <1>1, AlwaysLoadInv, PTL

\* A trace never gets a second tab.
THEOREM OneTabPerTraceHolds == Spec => []OneTabPerTrace
<1>1. LoadInv => OneTabPerTrace
  BY DEF LoadInv, OneTab, OneTabPerTrace
<1> QED
  BY <1>1, AlwaysLoadInv, PTL

\* A package nothing came across is applied to the tab of its own trace.
THEOREM PackageOnItsTraceHolds == Spec => []PackageOnItsTrace
<1>1. LoadInv => PackageOnItsTrace
  BY DEF LoadInv
<1> QED
  BY <1>1, AlwaysLoadInv, PTL
==============================================================================
