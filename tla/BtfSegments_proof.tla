-------------------------- MODULE BtfSegments_proof --------------------------
(***************************************************************************)
(* Proofs about BtfSegments, for any tasks, cores and number of lines.     *)
(***************************************************************************)
EXTENDS BtfSegments, WellFoundedInduction, SequenceTheorems, TLAPS

(* Induction *)

Less == {ss \in Nat \X Nat : ss[1] < ss[2]}

\* A set of natural numbers has a least element: the order is well founded.
LEMMA LeastElement ==
  ASSUME NEW T \in SUBSET Nat, T # {}
  PROVE  \E x \in T : \A y \in T : x <= y
<1>1. IsWellFoundedOn(Less, Nat)
  BY NatLessThanWellFounded DEF OpToRel, Less
<1>2. PICK x \in T : \A y \in T : ~(<<y, x>> \in Less)
  BY <1>1, WFMin
<1>3. ASSUME NEW y \in T PROVE x <= y
  <2>1. x \in Nat /\ y \in Nat /\ ~(<<y, x>> \in Less)
    BY <1>2
  <2>2. <<y, x>> \in Nat \X Nat /\ <<y, x>>[1] = y /\ <<y, x>>[2] = x
    BY <2>1
  <2>3. ~(y < x)
    BY <2>1, <2>2 DEF Less
  <2> QED
    BY <2>1, <2>3
<1> QED
  BY <1>3

\* Induction, for the sets of numbers that have a property.
LEMMA Induction ==
  ASSUME NEW S, 0 \in S, \A n \in Nat : n \in S => n + 1 \in S
  PROVE  Nat \subseteq S
<1> SUFFICES ASSUME Nat \ S # {} PROVE FALSE
  OBVIOUS
<1>1. PICK x \in Nat \ S : \A y \in Nat \ S : x <= y
  BY LeastElement
<1>2. x # 0 /\ x - 1 \in Nat /\ x - 1 \in S
  BY <1>1
<1> QED
  BY <1>1, <1>2
------------------------------------------------------------------------------
(* The two passes *)

\* The states f between the resume lines.
Resuming(f, s, ls, time, m) ==
    f = [k \in 0..m |-> IF k = 0 THEN s ELSE PassA(f[k - 1], ls, ls[k], time)]

\* The recursion of Resumed has a value for every line.
LEMMA ResumingExists ==
  ASSUME NEW s, NEW ls, NEW time, NEW m \in Nat
  PROVE  \E f : Resuming(f, s, ls, time, m)
<1> DEFINE S == {n \in Nat : \E f : Resuming(f, s, ls, time, n)}
<1>1. 0 \in S
  <2>1. Resuming([k \in 0..0 |-> s], s, ls, time, 0)
    BY DEF Resuming
  <2> QED
    BY <2>1
<1>2. ASSUME NEW n \in Nat, n \in S PROVE n + 1 \in S
  <2>1. PICK f : Resuming(f, s, ls, time, n)
    BY <1>2
  <2> DEFINE g == [k \in 0..n + 1 |-> IF k = n + 1 THEN PassA(f[n], ls, ls[n + 1], time)
                                      ELSE f[k]]
  <2>2. ASSUME NEW k \in 0..n + 1
        PROVE  g[k] = IF k = 0 THEN s ELSE PassA(g[k - 1], ls, ls[k], time)
    BY <2>1, <2>2 DEF Resuming
  <2>3. Resuming(g, s, ls, time, n + 1)
    BY <2>2 DEF Resuming
  <2>4. \E h : Resuming(h, s, ls, time, n + 1)
    <3> HIDE DEF g
    <3> QED
      BY <2>3
  <2> QED
    BY <2>4
<1>3. Nat \subseteq S
  <2> HIDE DEF S
  <2> QED
    BY <1>1, <1>2, Induction
<1> QED
  BY <1>3

\* Resumed is what the last of them is.
LEMMA ResumedUnfolds ==
  ASSUME NEW s, NEW ls, NEW time, Len(ls) \in Nat
  PROVE  \E f : Resuming(f, s, ls, time, Len(ls)) /\ Resumed(s, ls, time) = f[Len(ls)]
<1> DEFINE Pass == CHOOSE f : Resuming(f, s, ls, time, Len(ls))
<1>1. Resuming(Pass, s, ls, time, Len(ls))
  BY ResumingExists
<1>2. Resumed(s, ls, time) = Pass[Len(ls)]
  BY Zenon DEF Resumed, Resuming
<1> QED
  <2> HIDE DEF Pass
  <2> QED
    BY <1>1, <1>2

\* One more line: the lines before it are handled as they were without it,
\* because it changes the core of none of their sources.
LEMMA ResumedAppend ==
  ASSUME NEW s, NEW L, NEW ls \in Seq(L), NEW l \in L, NEW time,
         \A i \in DOMAIN ls : ls[i].event = "resume" =>
            corePreempts(Append(ls, l), ls[i].source) = corePreempts(ls, ls[i].source)
  PROVE  Resumed(s, Append(ls, l), time) =
            PassA(Resumed(s, ls, time), Append(ls, l), l, time)
<1> DEFINE more == Append(ls, l)
<1>1. /\ Len(ls) \in Nat /\ Len(more) = Len(ls) + 1 /\ more[Len(ls) + 1] = l
      /\ \A i \in 1..Len(ls) : more[i] = ls[i]
      /\ DOMAIN ls = 1..Len(ls)
  OBVIOUS
<1>2. PICK f : Resuming(f, s, ls, time, Len(ls)) /\ Resumed(s, ls, time) = f[Len(ls)]
  BY <1>1, ResumedUnfolds
<1>3. PICK g : Resuming(g, s, more, time, Len(more)) /\ Resumed(s, more, time) = g[Len(more)]
  <2> HIDE DEF more
  <2> QED
    BY <1>1, ResumedUnfolds
<1> DEFINE S == {n \in Nat : n <= Len(ls) => g[n] = f[n]}
<1>4. 0 \in S
  BY <1>1, <1>2, <1>3 DEF Resuming
<1>5. ASSUME NEW n \in Nat, n \in S PROVE n + 1 \in S
  <2> SUFFICES ASSUME n + 1 <= Len(ls) PROVE g[n + 1] = f[n + 1]
    OBVIOUS
  <2> DEFINE x == f[n]
  <2>1. /\ f[n + 1] = PassA(x, ls, ls[n + 1], time)
        /\ g[n + 1] = PassA(x, more, ls[n + 1], time)
    BY <1>1, <1>2, <1>3, <1>5 DEF Resuming
  <2>2. ls[n + 1].event = "resume" =>
            ResumeCore(x, more, ls[n + 1].source) = ResumeCore(x, ls, ls[n + 1].source)
    BY <1>1 DEF ResumeCore
  <2>3. PassA(x, more, ls[n + 1], time) = PassA(x, ls, ls[n + 1], time)
    BY <2>2 DEF PassA
  <2> QED
    BY <2>1, <2>3
<1>6. Nat \subseteq S
  <2> HIDE DEF S
  <2> QED
    BY <1>4, <1>5, Induction
<1>7. g[Len(ls)] = f[Len(ls)]
  BY <1>1, <1>6
<1>8. g[Len(more)] = PassA(g[Len(ls)], more, l, time)
  <2> HIDE DEF more
  <2>1. Len(more) \in 0..Len(more) /\ Len(more) # 0 /\ Len(more) - 1 = Len(ls)
    BY <1>1
  <2>2. g[Len(more)] = PassA(g[Len(more) - 1], more, more[Len(more)], time)
    BY <1>3, <2>1 DEF Resuming
  <2> QED
    BY <1>1, <2>1, <2>2
<1> QED
  BY <1>2, <1>3, <1>7, <1>8

\* Without lines nothing happens.
LEMMA ResumedEmpty ==
  ASSUME NEW s, NEW time
  PROVE  Resumed(s, << >>, time) = s
<1>1. Len(<< >>) = 0
  OBVIOUS
<1> QED
  BY <1>1, ResumedUnfolds DEF Resuming
------------------------------------------------------------------------------
\* The states f between the preempt lines.
Preempting(f, s, ls, time, m) ==
    f = [k \in 0..m |-> IF k = 0 THEN s ELSE PassB(f[k - 1], ls, ls[k], time)]

\* The recursion of Preempted has a value for every line.
LEMMA PreemptingExists ==
  ASSUME NEW s, NEW ls, NEW time, NEW m \in Nat
  PROVE  \E f : Preempting(f, s, ls, time, m)
<1> DEFINE S == {n \in Nat : \E f : Preempting(f, s, ls, time, n)}
<1>1. 0 \in S
  <2>1. Preempting([k \in 0..0 |-> s], s, ls, time, 0)
    BY DEF Preempting
  <2> QED
    BY <2>1
<1>2. ASSUME NEW n \in Nat, n \in S PROVE n + 1 \in S
  <2>1. PICK f : Preempting(f, s, ls, time, n)
    BY <1>2
  <2> DEFINE g == [k \in 0..n + 1 |-> IF k = n + 1 THEN PassB(f[n], ls, ls[n + 1], time)
                                      ELSE f[k]]
  <2>2. ASSUME NEW k \in 0..n + 1
        PROVE  g[k] = IF k = 0 THEN s ELSE PassB(g[k - 1], ls, ls[k], time)
    BY <2>1, <2>2 DEF Preempting
  <2>3. Preempting(g, s, ls, time, n + 1)
    BY <2>2 DEF Preempting
  <2>4. \E h : Preempting(h, s, ls, time, n + 1)
    <3> HIDE DEF g
    <3> QED
      BY <2>3
  <2> QED
    BY <2>4
<1>3. Nat \subseteq S
  <2> HIDE DEF S
  <2> QED
    BY <1>1, <1>2, Induction
<1> QED
  BY <1>3

\* Preempted is what the last of them is.
LEMMA PreemptedUnfolds ==
  ASSUME NEW s, NEW ls, NEW time, Len(ls) \in Nat
  PROVE  \E f : Preempting(f, s, ls, time, Len(ls)) /\ Preempted(s, ls, time) = f[Len(ls)]
<1> DEFINE Pass == CHOOSE f : Preempting(f, s, ls, time, Len(ls))
<1>1. Preempting(Pass, s, ls, time, Len(ls))
  BY PreemptingExists
<1>2. Preempted(s, ls, time) = Pass[Len(ls)]
  BY Zenon DEF Preempted, Preempting
<1> QED
  <2> HIDE DEF Pass
  <2> QED
    BY <1>1, <1>2

\* The tasks pass B closes because of the first k lines.
NakedUpTo(ls, k) ==
    {ls[i].target : i \in {j \in 1..k : ls[j].event = "preempt"}} \ resumeSources(ls)

\* s with the segments of the tasks T closed.
ClosedBy(s, T, time, r) ==
    /\ r.open = {o \in s.open : o.task \notin T}
    /\ r.segs = s.segs \cup {Closed(o, time) :
                    o \in {x \in s.open : x.task \in T /\ time > x.start}}

\* One line closes the segment of its target.
LEMMA PassBCloses ==
  ASSUME NEW s, NEW r, NEW ls, NEW k \in Nat, NEW time,
         ClosedBy(s, NakedUpTo(ls, k), time, r)
  PROVE  ClosedBy(s, NakedUpTo(ls, k + 1), time, PassB(r, ls, ls[k + 1], time))
<1> DEFINE l == ls[k + 1]
           T == NakedUpTo(ls, k)
<1>1. CASE l.event # "preempt" \/ l.target \in resumeSources(ls)
  <2>1. NakedUpTo(ls, k + 1) = T
    BY <1>1 DEF NakedUpTo
  <2> QED
    BY <1>1, <2>1 DEF PassB
<1>2. CASE ~(l.event # "preempt" \/ l.target \in resumeSources(ls))
  <2>1. NakedUpTo(ls, k + 1) = T \cup {l.target}
    BY <1>2 DEF NakedUpTo
  <2> DEFINE n == PassB(r, ls, l, time)
  <2>2. /\ n.open = {o \in r.open : o.task # l.target}
        /\ n.segs = r.segs \cup {Closed(o, time) :
                        o \in {x \in r.open : x.task = l.target /\ time > x.start}}
    BY <1>2 DEF PassB, closeSeg
  <2> HIDE DEF n, T
  <2>3. n.open = {o \in s.open : o.task \notin T \cup {l.target}}
    BY <2>2 DEF ClosedBy, T
  <2> DEFINE Cut(U, V) == {x \in U : x.task \in V /\ time > x.start}
  <2>4. Cut(s.open, T \cup {l.target}) = Cut(s.open, T) \cup Cut(r.open, {l.target})
    BY DEF ClosedBy, T
  <2>5. n.segs = r.segs \cup {Closed(o, time) : o \in Cut(r.open, {l.target})}
    BY <2>2
  <2>6. r.segs = s.segs \cup {Closed(o, time) : o \in Cut(s.open, T)}
    BY DEF ClosedBy, T
  <2>7. n.segs = s.segs \cup {Closed(o, time) : o \in Cut(s.open, T \cup {l.target})}
    <3> HIDE DEF Cut, l
    <3> QED
      BY <2>4, <2>5, <2>6
  <2>8. ClosedBy(s, T \cup {l.target}, time, n)
    BY <2>3, <2>7 DEF ClosedBy
  <2> QED
    BY <2>1, <2>8 DEF n
<1> QED
  BY <1>1, <1>2

\* Pass B closes the segments of the preempted tasks that no resume names as its
\* source, and nothing else.
LEMMA PreemptedCloses ==
  ASSUME NEW s, NEW ls, NEW time, Len(ls) \in Nat
  PROVE  ClosedBy(s, NakedUpTo(ls, Len(ls)), time, Preempted(s, ls, time))
<1>1. PICK f : Preempting(f, s, ls, time, Len(ls)) /\ Preempted(s, ls, time) = f[Len(ls)]
  BY PreemptedUnfolds
<1> DEFINE S == {n \in Nat : n <= Len(ls) => ClosedBy(s, NakedUpTo(ls, n), time, f[n])}
<1>2. 0 \in S
  <2>1. f[0] = s /\ NakedUpTo(ls, 0) = {}
    BY <1>1 DEF Preempting, NakedUpTo
  <2> QED
    BY <2>1 DEF ClosedBy
<1>3. ASSUME NEW n \in Nat, n \in S PROVE n + 1 \in S
  <2> SUFFICES ASSUME n + 1 <= Len(ls)
               PROVE  ClosedBy(s, NakedUpTo(ls, n + 1), time, f[n + 1])
    OBVIOUS
  <2>1. f[n + 1] = PassB(f[n], ls, ls[n + 1], time)
    BY <1>1 DEF Preempting
  <2> QED
    BY <1>3, <2>1, PassBCloses
<1>4. Nat \subseteq S
  <2> HIDE DEF S
  <2> QED
    BY <1>2, <1>3, Induction
<1> QED
  BY <1>1, <1>4
------------------------------------------------------------------------------
(* The core of a resume *)

\* A bounded set of natural numbers has a greatest element.
LEMMA GreatestElement ==
  ASSUME NEW n \in Nat, NEW T \in SUBSET (1..n), T # {}
  PROVE  \E x \in T : \A y \in T : y <= x
<1> DEFINE U == {n - x : x \in T}
<1>1. U \in SUBSET Nat /\ U # {}
  <2>1. \A x \in T : n - x \in Nat
    OBVIOUS
  <2> QED
    BY <2>1
<1>2. PICK u \in U : \A v \in U : u <= v
  <2> HIDE DEF U
  <2> QED
    BY <1>1, LeastElement
<1>3. PICK x \in T : u = n - x
  BY <1>2
<1>4. ASSUME NEW y \in T PROVE y <= x
  <2>1. n - y \in U /\ y \in 1..n /\ x \in 1..n
    OBVIOUS
  <2> QED
    BY <1>2, <1>3, <2>1
<1> QED
  BY <1>4

\* The lines of a file.
Line == [event : {"preempt", "resume"}, source : Tasks \cup Cores, target : Tasks]

\* A line that does not preempt u leaves its preempts as they are.
LEMMA PreemptsKept ==
  ASSUME NEW ls \in Seq(Line), NEW l \in Line, NEW u,
         l.event # "preempt" \/ l.target # u
  PROVE  PreemptsOf(Append(ls, l), u) = PreemptsOf(ls, u)
BY DEF PreemptsOf

\* And the core they name.
LEMMA CoreKept ==
  ASSUME NEW ls \in Seq(Line), NEW l \in Line, NEW u,
         l.event # "preempt" \/ l.target # u
  PROVE  corePreempts(Append(ls, l), u) = corePreempts(ls, u)
<1> DEFINE P == PreemptsOf(ls, u)
<1>1. PreemptsOf(Append(ls, l), u) = P
  BY PreemptsKept
<1>2. CASE P = {}
  BY <1>1, <1>2 DEF corePreempts
<1>3. CASE P # {}
  <2> DEFINE k == CHOOSE i \in P : \A j \in P : j <= i
  <2>1. P \subseteq 1..Len(ls) /\ Len(ls) \in Nat
    BY DEF PreemptsOf
  <2>2. k \in P
    <3> HIDE DEF P
    <3> QED
      BY <1>3, <2>1, GreatestElement
  <2>3. Append(ls, l)[k] = ls[k]
    <3> HIDE DEF k
    <3> QED
      BY <2>1, <2>2
  <2>4. corePreempts(ls, u) = ls[k].source /\ corePreempts(Append(ls, l), u) = Append(ls, l)[k].source
    <3> HIDE DEF P
    <3> QED
      BY <1>1, <1>3 DEF corePreempts, P
  <2> QED
    BY <2>3, <2>4
<1> QED
  BY <1>2, <1>3

\* A preempt line that is the last of its task names its core.
LEMMA CoreLast ==
  ASSUME NEW ls \in Seq(Line), NEW c, NEW u \in Tasks, Preempt(c, u) \in Line
  PROVE  corePreempts(Append(ls, Preempt(c, u)), u) = c
<1> DEFINE more == Append(ls, Preempt(c, u))
           P == PreemptsOf(more, u)
           n == Len(ls) + 1
<1>1. /\ n \in P
      /\ \A j \in P : j \in Nat /\ j <= n
      /\ more[n] = Preempt(c, u)
  BY DEF PreemptsOf, Preempt
<1> HIDE DEF P, more, n
<1>2. \A i \in P : (\A j \in P : j <= i) => i = n
  <2>1. n \in Nat
    BY DEF n
  <2> QED
    BY <1>1, <2>1
<1>3. (CHOOSE i \in P : \A j \in P : j <= i) = n
  BY <1>1, <1>2
<1>4. corePreempts(more, u) = more[n].source
  BY <1>1, <1>3 DEF corePreempts, P
<1>5. corePreempts(more, u) = c
  BY <1>1, <1>4 DEF Preempt
<1> QED
  BY <1>5 DEF more
------------------------------------------------------------------------------
(* The invariant *)

\* The types of what is counted, and of the lines.
Types ==
    /\ dialect \in {"core", "task"}
    /\ lines \in Seq(Line)
    /\ done \in BOOLEAN
    /\ now \in Nat /\ now >= 1
    /\ created \subseteq Tasks
    /\ run \in [Cores -> [task : created \cup {NoTask}, start : Nat, blurred : BOOLEAN]]

\* The scheduler: a task runs on one core; one that was preempted in this time
\* unit and runs has begun in it, and that run is blurred.  A resume names a core,
\* or in the older dialect a task that was preempted.
SchedInv ==
    /\ \A c \in Cores : run[c].start <= now
    /\ \A b, c \in Cores : run[b].task # NoTask /\ run[b].task = run[c].task => b = c
    /\ \A c \in Cores : PreemptedNow(run[c].task) => run[c].start = now /\ run[c].blurred
    /\ \A i \in DOMAIN lines : lines[i].target \in created
    /\ \A i \in DOMAIN lines : lines[i].event = "resume" =>
            \/ lines[i].source \in Cores
            \/ dialect = "task" /\ lines[i].source \in created
    /\ \A x \in executed : x.start \in Nat /\ x.end \in Nat
                          /\ x.start < x.end /\ x.end <= now
    /\ done => lines = << >>

\* The parser when it has handled the resume lines so far.
After == Resumed(State, lines, now)

Really(x) == \E e \in executed : x = Seen(e)
Current(o) == run[o.core].task = o.task /\ run[o.core].start = o.start
Opened(x, c) == [task |-> x.task, start |-> x.start, core |-> c]

\* Its task was preempted, and pass B will close it.
Stopped(o) ==
    /\ dialect = "core" /\ o.task \notin Running /\ PreemptedNow(o.task)
    /\ o.start < now => Really(Closed(o, now))

\* An open segment is a run, or one that has ended in this time unit.
OpenInv ==
    \A o \in After.open :
        /\ o.task \in Tasks /\ o.core \in Cores /\ o.start \in 1..now
        /\ Current(o) \/ Stopped(o)

SegsInv == \A x \in After.segs : Really(x)

\* A run that is not blurred is open.
RunInv ==
    ~done => \A c \in Cores :
        run[c].task # NoTask /\ run[c].start # 0 /\ ~run[c].blurred =>
            Opened(run[c], c) \in After.open

\* A finished run that is not blurred is a segment, or pass B will make it one.
ExecInv ==
    \A x \in executed : ~x.blurred =>
        \/ Seen(x) \in After.segs
        \/ /\ dialect = "core" /\ x.end = now /\ PreemptedNow(x.task) /\ ~done
           /\ Opened(x, x.core) \in After.open

IInv ==
    /\ Types /\ SchedInv
    /\ OpenInv /\ SegsInv /\ RunInv /\ ExecInv
    /\ SegmentsReal

\* Without lines in this time unit there is nothing to handle.
LEMMA AfterNothing ==
  ASSUME lines = << >>
  PROVE  After = State
BY ResumedEmpty DEF After
------------------------------------------------------------------------------
(* Types *)

\* One more line that preempts a task, or does not.
LEMMA PreemptsMore ==
  ASSUME NEW ls \in Seq(Line), NEW l \in Line, NEW u
  PROVE  PreemptsOf(Append(ls, l), u) # {} <=>
            (PreemptsOf(ls, u) # {} \/ (l.event = "preempt" /\ l.target = u))
<1>1. CASE l.event # "preempt" \/ l.target # u
  BY <1>1, PreemptsKept
<1>2. CASE l.event = "preempt" /\ l.target = u
  <2>1. Len(ls) + 1 \in PreemptsOf(Append(ls, l), u)
    BY <1>2 DEF PreemptsOf
  <2> QED
    BY <1>2, <2>1
<1> QED
  BY <1>1, <1>2

\* What the hooks write are lines.
LEMMA LineTypes ==
  ASSUME Types, NEW c \in Cores, NEW t \in Tasks
  PROVE  /\ Preempt(c, t) \in Line
         /\ Resume(SourceOf(c), t) \in Line
         /\ run[c].task # NoTask => Preempt(c, run[c].task) \in Line
         /\ run[c].task # NoTask => run[c].task \in Tasks
<1>1. run[c].task # NoTask => run[c].task \in Tasks
  BY DEF Types
<1>2. SourceOf(c) \in Tasks \cup Cores
  BY <1>1 DEF SourceOf
<1> QED
  BY <1>1, <1>2 DEF Line, Preempt, Resume

\* A context switch adds one line or two.
LEMMA SwitchLines ==
  ASSUME Types, NEW c \in Cores, NEW t \in Tasks, Switch(c, t)
  PROVE  /\ run[c].task = NoTask => lines' = Append(lines, Resume(SourceOf(c), t))
         /\ run[c].task # NoTask =>
              lines' = Append(Append(lines, Preempt(c, run[c].task)), Resume(SourceOf(c), t))
<1> DEFINE P == Preempt(c, run[c].task)
           R == Resume(SourceOf(c), t)
<1>1. lines \in Seq(Line) /\ R \in Line /\ (run[c].task # NoTask => P \in Line)
  BY LineTypes DEF Types
<1>2. CASE run[c].task = NoTask
  <2>1. lines' = (lines \o << >>) \o <<R>>
    BY <1>2 DEF Switch
  <2>2. lines' = Append(lines, R)
    <3> HIDE DEF R
    <3> QED
      BY <1>1, <2>1
  <2> QED
    BY <1>2, <2>2
<1>3. CASE run[c].task # NoTask
  <2>1. lines' = (lines \o <<P>>) \o <<R>>
    BY <1>3 DEF Switch
  <2>2. lines' = Append(Append(lines, P), R)
    <3> HIDE DEF R, P
    <3>1. lines \o <<P>> = Append(lines, P) /\ Append(lines, P) \in Seq(Line)
      BY <1>1, <1>3
    <3>2. Append(lines, P) \o <<R>> = Append(Append(lines, P), R)
      BY <1>1, <3>1
    <3> QED
      BY <2>1, <3>1, <3>2
  <2> QED
    BY <1>3, <2>2
<1> QED
  BY <1>2, <1>3

\* The types are kept by every step.
LEMMA TypesKept == Types /\ [Next]_vars => Types'
<1> SUFFICES ASSUME Types, [Next]_vars PROVE Types'
  OBVIOUS
<1>1. ASSUME NEW c \in Cores, NEW t \in Tasks, CreateTask(c, t) PROVE Types'
  <2>1. lines' \in Seq(Line)
    BY <1>1, LineTypes DEF CreateTask, Types
  <2> QED
    BY <1>1, <2>1 DEF CreateTask, Types, parser
<1>2. ASSUME NEW c \in Cores, NEW t \in Tasks, Switch(c, t) PROVE Types'
  <2>1. lines' \in Seq(Line)
    <3> DEFINE P == Preempt(c, run[c].task)
               R == Resume(SourceOf(c), t)
    <3>1. lines \in Seq(Line) /\ R \in Line /\ (run[c].task # NoTask => P \in Line)
      BY LineTypes DEF Types
    <3>2. \/ lines' = Append(lines, R)
          \/ run[c].task # NoTask /\ lines' = Append(Append(lines, P), R)
      BY <1>2, SwitchLines
    <3> HIDE DEF P, R
    <3> QED
      BY <3>1, <3>2
  <2>2. run' \in [Cores -> [task : created \cup {NoTask}, start : Nat, blurred : BOOLEAN]]
    <3> DEFINE b == PreemptedNow(t) \/ run[c].task = t
    <3>1. run' = [run EXCEPT ![c] = [task |-> t, start |-> now, blurred |-> b]]
      BY <1>2 DEF Switch
    <3>2. b \in BOOLEAN
      OBVIOUS
    <3> HIDE DEF b
    <3> QED
      BY <1>2, <3>1, <3>2 DEF Switch, Types
  <2> QED
    BY <1>2, <2>1, <2>2 DEF Switch, Types, parser
<1>3. CASE NextTimestamp
  BY <1>3 DEF NextTimestamp, Types
<1>4. CASE EndOfTrace
  BY <1>4 DEF EndOfTrace, Types
<1>5. CASE UNCHANGED vars
  BY <1>5 DEF vars, parser, scheduler, Types
<1> QED
  BY <1>1, <1>2, <1>3, <1>4, <1>5 DEF Next
------------------------------------------------------------------------------
(* What a step is for the parser *)

\* A creation is no resume, and its task was the source of none.
LEMMA CreateAfter ==
  ASSUME Types, SchedInv, NEW c \in Cores, NEW t \in Tasks, CreateTask(c, t)
  PROVE  After' = After
<1> DEFINE P == Preempt(c, t)
<1>1. lines \in Seq(Line) /\ P \in Line /\ lines' = Append(lines, P)
  BY LineTypes DEF Types, CreateTask
<1>2. ASSUME NEW i \in DOMAIN lines, lines[i].event = "resume"
      PROVE  corePreempts(Append(lines, P), lines[i].source) = corePreempts(lines, lines[i].source)
  <2>1. lines[i].source # t
    BY <1>2, EntityAssumption DEF SchedInv, CreateTask
  <2>2. P.target = t
    BY DEF Preempt
  <2> QED
    BY <1>1, <2>1, <2>2, CoreKept
<1>3. Resumed(State, Append(lines, P), now) = PassA(After, Append(lines, P), P, now)
  BY <1>1, <1>2, ResumedAppend DEF After
<1>4. PassA(After, Append(lines, P), P, now) = After
  BY DEF PassA, Preempt
<1> QED
  BY <1>1, <1>3, <1>4 DEF After, State, CreateTask, parser

\* A resume whose source is a core is on that core, and one whose source is a
\* task on the core that preempted it last.
LEMMA ResumeCoreIs ==
  ASSUME NEW s, NEW ls \in Seq(Line), NEW c \in Cores, NEW source,
         source = c \/ corePreempts(ls, source) = c
  PROVE  ResumeCore(s, ls, source) = c
<1>1. c # NoCore
  BY EntityAssumption
<1>2. CASE corePreempts(ls, source) = c
  BY <1>1, <1>2 DEF ResumeCore
<1>3. CASE corePreempts(ls, source) # c /\ source = c
  <2>1. PreemptsOf(ls, c) = {}
    <3>1. \A i \in DOMAIN ls : ls[i] \in Line
      OBVIOUS
    <3>2. \A i \in DOMAIN ls : ls[i].target # c
      BY <3>1, EntityAssumption DEF Line
    <3> QED
      BY <3>2 DEF PreemptsOf
  <2>2. corePreempts(ls, c) = NoCore
    BY <2>1 DEF corePreempts
  <2> QED
    BY <1>3, <2>2 DEF ResumeCore
<1> QED
  BY <1>2, <1>3

\* What the parser makes of a context switch: the outgoing task is closed if the
\* line names it, and the incoming one is opened on the core that switched.
LEMMA SwitchAfter ==
  ASSUME Types, SchedInv, NEW c \in Cores, NEW t \in Tasks, Switch(c, t)
  PROVE  After' = openSegFn(closeSeg(After, SourceOf(c), now), t, now, c)
<1> DEFINE X == run[c].task
           P == Preempt(c, X)
           R == Resume(SourceOf(c), t)
           Opening == openSegFn(closeSeg(After, SourceOf(c), now), t, now, c)
<1>1. lines \in Seq(Line) /\ R \in Line /\ (X # NoTask => P \in Line /\ X \in Tasks)
  BY LineTypes DEF Types
<1>2. After' = Resumed(State, lines', now)
  BY DEF After, State, Switch, parser
<1>3. R.event = "resume" /\ R.source = SourceOf(c) /\ R.target = t
  BY DEF Resume
<1>4. ASSUME NEW ls \in Seq(Line), Resumed(State, ls, now) = After,
             SourceOf(c) = c \/ corePreempts(ls, SourceOf(c)) = c
      PROVE  Resumed(State, Append(ls, R), now) = Opening
  <2> HIDE DEF R
  <2>1. \A u : corePreempts(Append(ls, R), u) = corePreempts(ls, u)
    BY <1>1, <1>3, CoreKept
  <2>2. Resumed(State, Append(ls, R), now) = PassA(After, Append(ls, R), R, now)
    BY <1>1, <1>4, <2>1, ResumedAppend
  <2>3. ResumeCore(After, Append(ls, R), SourceOf(c)) = c
    <3>1. Append(ls, R) \in Seq(Line)
      BY <1>1
    <3>2. SourceOf(c) = c \/ corePreempts(Append(ls, R), SourceOf(c)) = c
      BY <1>4, <2>1
    <3> QED
      BY <3>1, <3>2, ResumeCoreIs
  <2> QED
    BY <1>3, <2>2, <2>3 DEF PassA
<1>5. CASE X = NoTask
  <2>1. SourceOf(c) = c
    BY <1>5 DEF SourceOf
  <2>2. Resumed(State, Append(lines, R), now) = Opening
    BY <1>1, <1>4, <2>1 DEF After
  <2>3. lines' = Append(lines, R)
    BY <1>5, SwitchLines
  <2> QED
    BY <1>2, <2>2, <2>3
<1>6. CASE X # NoTask
  <2> DEFINE L == Append(lines, P)
  <2>1. L \in Seq(Line) /\ P.event = "preempt" /\ P.target = X
    BY <1>1, <1>6 DEF Preempt
  <2>2. ASSUME NEW i \in DOMAIN lines, lines[i].event = "resume"
        PROVE  corePreempts(L, lines[i].source) = corePreempts(lines, lines[i].source)
    <3>1. lines[i].source # X
      BY <2>2 DEF Switch, SwitchedOutOnce, resumeSources
    <3> QED
      BY <1>1, <1>6, <2>1, <3>1, CoreKept
  <2>3. Resumed(State, L, now) = PassA(After, L, P, now)
    <3> HIDE DEF P
    <3> QED
      BY <1>1, <1>6, <2>2, ResumedAppend DEF After
  <2>4. Resumed(State, L, now) = After
    BY <2>1, <2>3 DEF PassA
  <2>5. SourceOf(c) = c \/ corePreempts(L, SourceOf(c)) = c
    BY <1>1, <1>6, CoreLast DEF SourceOf
  <2>6. Resumed(State, Append(L, R), now) = Opening
    <3> HIDE DEF L
    <3> QED
      BY <1>4, <2>1, <2>4, <2>5
  <2>7. lines' = Append(L, R)
    BY <1>6, SwitchLines
  <2> QED
    BY <1>2, <2>6, <2>7
<1> QED
  BY <1>5, <1>6
------------------------------------------------------------------------------
(* The scheduler's part of the invariant *)

\* A task is known to be preempted in this time unit after a creation if it was
\* before, or was created.
LEMMA CreatePreempts ==
  ASSUME Types, NEW c \in Cores, NEW t \in Tasks, CreateTask(c, t)
  PROVE  \A u : PreemptsOf(lines', u) # {} <=> (PreemptsOf(lines, u) # {} \/ u = t)
<1>1. lines \in Seq(Line) /\ Preempt(c, t) \in Line /\ lines' = Append(lines, Preempt(c, t))
  BY LineTypes DEF Types, CreateTask
<1>2. Preempt(c, t).event = "preempt" /\ Preempt(c, t).target = t
  BY DEF Preempt
<1> HIDE DEF Preempt
<1> QED
  BY <1>1, <1>2, PreemptsMore

\* After a context switch, if it was before or has just left its core.
LEMMA SwitchPreempts ==
  ASSUME Types, NEW c \in Cores, NEW t \in Tasks, Switch(c, t)
  PROVE  \A u \in Tasks : PreemptsOf(lines', u) # {} <=>
                              (PreemptsOf(lines, u) # {} \/ u = run[c].task)
<1> SUFFICES ASSUME NEW u \in Tasks
             PROVE  PreemptsOf(lines', u) # {} <=>
                       (PreemptsOf(lines, u) # {} \/ u = run[c].task)
  OBVIOUS
<1> DEFINE X == run[c].task
           P == Preempt(c, X)
           R == Resume(SourceOf(c), t)
<1>1. lines \in Seq(Line) /\ R \in Line /\ (X # NoTask => P \in Line)
  BY LineTypes DEF Types
<1>2. R.event = "resume" /\ P.event = "preempt" /\ P.target = X
  BY DEF Resume, Preempt
<1>3. \/ X = NoTask /\ lines' = Append(lines, R)
      \/ X # NoTask /\ lines' = Append(Append(lines, P), R)
  BY SwitchLines
<1>4. u # NoTask
  BY EntityAssumption
<1> HIDE DEF X, P, R
<1>5. X = NoTask => (PreemptsOf(lines', u) # {} <=> PreemptsOf(lines, u) # {})
  BY <1>1, <1>2, <1>3, PreemptsMore
<1>6. X # NoTask => (PreemptsOf(lines', u) # {} <=> (PreemptsOf(lines, u) # {} \/ u = X))
  <2> SUFFICES ASSUME X # NoTask
               PROVE  PreemptsOf(lines', u) # {} <=> (PreemptsOf(lines, u) # {} \/ u = X)
    OBVIOUS
  <2>1. Append(lines, P) \in Seq(Line)
    BY <1>1
  <2>2. PreemptsOf(Append(lines, P), u) # {} <=> (PreemptsOf(lines, u) # {} \/ u = X)
    BY <1>1, <1>2, PreemptsMore
  <2>3. PreemptsOf(Append(Append(lines, P), R), u) # {} <=> PreemptsOf(Append(lines, P), u) # {}
    BY <1>1, <1>2, <2>1, PreemptsMore
  <2> QED
    BY <1>3, <2>2, <2>3
<1> QED
  BY <1>4, <1>5, <1>6 DEF X

\* What run becomes.
LEMMA SwitchRun ==
  ASSUME Types, NEW c \in Cores, NEW t \in Tasks, Switch(c, t)
  PROVE  /\ run'[c].task = t /\ run'[c].start = now
         /\ run'[c].blurred <=> PreemptedNow(t) \/ run[c].task = t
         /\ \A b \in Cores : b # c => run'[b] = run[b]
         /\ now' = now /\ dialect' = dialect /\ done' = done /\ created' = created
         /\ ~done /\ executed' = executed \cup Finished(c)
BY DEF Switch, Types, parser

\* A finished run took time.
LEMMA FinishedTookTime ==
  ASSUME Types, SchedInv, NEW c \in Cores, NEW x \in Finished(c)
  PROVE  /\ x.task = run[c].task /\ x.start = run[c].start /\ x.end = now
         /\ x.core = c /\ x.blurred = run[c].blurred
         /\ run[c].task # NoTask /\ x.start \in Nat \ {0} /\ x.end \in Nat /\ x.start < x.end
<1>1. run[c].start \in Nat /\ run[c].start <= now /\ now \in Nat
  BY DEF Types, SchedInv
<1> QED
  BY <1>1 DEF Finished

\* A switch keeps the scheduler's part.
LEMMA SwitchSched ==
  ASSUME Types, SchedInv, NEW c \in Cores, NEW t \in Tasks, Switch(c, t)
  PROVE  SchedInv'
<1>1. t \in created /\ (t \in Running => run[c].task = t) /\ t # NoTask
  BY EntityAssumption DEF Switch
<1>2. now \in Nat
  BY DEF Types
<1>3. \A b \in Cores : run'[b].start <= now'
  BY <1>2, SwitchRun DEF SchedInv
<1>4. \A a, b \in Cores : run'[a].task # NoTask /\ run'[a].task = run'[b].task => a = b
  <2>1. \A b \in Cores : b # c => run'[b].task # t
    BY <1>1, SwitchRun DEF SchedInv, Running
  <2> QED
    BY <2>1, SwitchRun DEF SchedInv
<1>5. \A b \in Cores : PreemptsOf(lines', run'[b].task) # {} =>
                           run'[b].start = now' /\ run'[b].blurred
  <2> SUFFICES ASSUME NEW b \in Cores, PreemptsOf(lines', run'[b].task) # {}
               PROVE  run'[b].start = now' /\ run'[b].blurred
    OBVIOUS
  <2>1. CASE b = c
    <3>1. PreemptsOf(lines', t) # {}
      BY <2>1, SwitchRun
    <3>2. PreemptedNow(t) \/ t = run[c].task
      BY <3>1, SwitchPreempts DEF PreemptedNow
    <3> QED
      BY <2>1, <3>2, SwitchRun
  <2>2. CASE b # c
    <3>1. run'[b] = run[b]
      BY <2>2, SwitchRun
    <3>2. run[b].task # NoTask => run[b].task \in Tasks
      BY DEF Types
    <3>3. run[b].task # NoTask => run[b].task # run[c].task
      BY <2>2 DEF SchedInv
    <3>4. run[b].task # NoTask
      <4>1. lines' \in Seq(Line)
        BY TypesKept DEF Types, Next
      <4>2. \A i \in DOMAIN lines' : lines'[i].target # NoTask
        <5>1. \A i \in DOMAIN lines' : lines'[i] \in Line
          BY <4>1
        <5> QED
          BY <5>1, EntityAssumption DEF Line
      <4> QED
        BY <3>1, <4>2 DEF PreemptsOf
    <3>5. PreemptedNow(run[b].task)
      BY <3>1, <3>2, <3>3, <3>4, SwitchPreempts DEF PreemptedNow
    <3> QED
      BY <3>1, <3>5, SwitchRun DEF SchedInv
  <2> QED
    BY <2>1, <2>2
<1>6. /\ \A i \in DOMAIN lines' : lines'[i].target \in created'
      /\ \A i \in DOMAIN lines' : lines'[i].event = "resume" =>
              \/ lines'[i].source \in Cores
              \/ dialect' = "task" /\ lines'[i].source \in created'
  <2> DEFINE X == run[c].task
             P == Preempt(c, X)
             R == Resume(SourceOf(c), t)
             Fits(l) == /\ l.target \in created
                        /\ l.event = "resume" =>
                             l.source \in Cores \/ (dialect = "task" /\ l.source \in created)
  <2>1. lines \in Seq(Line) /\ R \in Line /\ (X # NoTask => P \in Line)
    BY LineTypes DEF Types
  <2>2. X # NoTask => X \in created
    BY DEF Types
  <2>3. Fits(R)
    <3>1. SourceOf(c) \in Cores \/ (dialect = "task" /\ SourceOf(c) \in created)
      BY <2>2 DEF SourceOf, Types
    <3> QED
      BY <1>1, <3>1 DEF Resume
  <2>4. X # NoTask => Fits(P)
    BY <2>2 DEF Preempt
  <2>5. \A i \in DOMAIN lines : Fits(lines[i])
    BY DEF SchedInv
  <2>6. \/ lines' = Append(lines, R)
        \/ X # NoTask /\ lines' = Append(Append(lines, P), R)
    BY SwitchLines
  <2>7. \A i \in DOMAIN lines' : Fits(lines'[i])
    <3> HIDE DEF Fits, X, P, R
    <3>1. CASE lines' = Append(lines, R)
      BY <2>1, <2>3, <2>5, <3>1
    <3>2. CASE X # NoTask /\ lines' = Append(Append(lines, P), R)
      <4> DEFINE L == Append(lines, P)
      <4>1. L \in Seq(Line) /\ \A i \in DOMAIN L : Fits(L[i])
        BY <2>1, <2>4, <2>5, <3>2
      <4> HIDE DEF L
      <4>2. lines' = Append(L, R)
        BY <3>2 DEF L
      <4> QED
        BY <2>1, <2>3, <4>1, <4>2
    <3> QED
      BY <2>6, <3>1, <3>2
  <2> QED
    BY <2>7, SwitchRun
<1>7. \A x \in executed' : x.start \in Nat /\ x.end \in Nat
                             /\ x.start < x.end /\ x.end <= now'
  BY <1>2, SwitchRun, FinishedTookTime DEF SchedInv
<1>8. ~done'
  BY SwitchRun
<1> QED
  BY <1>3, <1>4, <1>5, <1>6, <1>7, <1>8 DEF SchedInv, PreemptedNow

\* A creation keeps it.
LEMMA CreateSched ==
  ASSUME Types, SchedInv, NEW c \in Cores, NEW t \in Tasks, CreateTask(c, t)
  PROVE  SchedInv'
<1> DEFINE P == Preempt(c, t)
<1>1. lines \in Seq(Line) /\ P \in Line /\ lines' = Append(lines, P)
  BY LineTypes DEF Types, CreateTask
<1>2. run' = run /\ now' = now /\ executed' = executed /\ dialect' = dialect /\ ~done'
      /\ created' = created \cup {t} /\ t \notin created
  BY DEF CreateTask, parser
<1>3. \A b \in Cores : PreemptsOf(lines', run[b].task) # {} =>
                           run[b].start = now /\ run[b].blurred
  <2> SUFFICES ASSUME NEW b \in Cores, PreemptsOf(lines', run[b].task) # {}
               PROVE  run[b].start = now /\ run[b].blurred
    OBVIOUS
  <2>1. run[b].task # t
    BY <1>2, EntityAssumption DEF Types
  <2>2. PreemptedNow(run[b].task)
    BY <1>2, <2>1, CreatePreempts DEF PreemptedNow
  <2> QED
    BY <2>2 DEF SchedInv
<1>4. /\ \A i \in DOMAIN lines' : lines'[i].target \in created'
      /\ \A i \in DOMAIN lines' : lines'[i].event = "resume" =>
              \/ lines'[i].source \in Cores
              \/ dialect' = "task" /\ lines'[i].source \in created'
  <2>1. P.event = "preempt" /\ P.target = t
    BY DEF Preempt
  <2> HIDE DEF P
  <2> QED
    BY <1>1, <1>2, <2>1 DEF SchedInv
<1> QED
  BY <1>2, <1>3, <1>4 DEF SchedInv, PreemptedNow

\* And so does every other step.
LEMMA SchedKept == Types /\ SchedInv /\ [Next]_vars => SchedInv'
<1> SUFFICES ASSUME Types, SchedInv, [Next]_vars PROVE SchedInv'
  OBVIOUS
<1>1. lines' = << >> => \A u : PreemptsOf(lines', u) = {}
  BY DEF PreemptsOf
<1>2. CASE NextTimestamp
  <2>1. \A c \in Cores : run[c].start \in Nat /\ run[c].start <= now /\ now \in Nat
    BY DEF Types, SchedInv
  <2>2. lines' = << >> /\ run' = run /\ now' = now + 1 /\ executed' = executed /\ ~done'
    BY <1>2 DEF NextTimestamp
  <2>3. \A x \in executed : x.start \in Nat /\ x.end \in Nat
                            /\ x.start < x.end /\ x.end <= now + 1
    BY DEF SchedInv, Types
  <2> QED
    BY <1>1, <2>1, <2>2, <2>3 DEF SchedInv, PreemptedNow
<1>3. CASE EndOfTrace
  <2>1. lines' = << >> /\ run' = run /\ now' = now /\ done'
        /\ executed' = executed \cup UNION {Finished(c) : c \in Cores}
    BY <1>3 DEF EndOfTrace
  <2>2. \A c \in Cores : \A x \in Finished(c) : x.start \in Nat /\ x.end \in Nat
                                                /\ x.start < x.end /\ x.end <= now
    BY FinishedTookTime DEF Types
  <2> QED
    BY <1>1, <2>1, <2>2 DEF SchedInv, PreemptedNow
<1>4. CASE UNCHANGED vars
  BY <1>4 DEF vars, parser, scheduler, SchedInv, PreemptedNow
<1> QED
  BY <1>2, <1>3, <1>4, SwitchSched, CreateSched DEF Next
------------------------------------------------------------------------------
(* A context switch and the parser's part of the invariant *)

ParserInv == OpenInv /\ SegsInv /\ RunInv /\ ExecInv

\* What the parser makes of a context switch, field by field: the segments of the
\* source (a task only in the older dialect) and of the incoming task are closed.
LEMMA SwitchFields ==
  ASSUME Types, SchedInv, NEW c \in Cores, NEW t \in Tasks, Switch(c, t)
  PROVE  /\ After'.open = {o \in After.open : o.task # SourceOf(c) /\ o.task # t}
                             \cup {[task |-> t, start |-> now, core |-> c]}
         /\ After'.segs = After.segs \cup
               {Closed(o, now) : o \in {x \in After.open :
                   (x.task = SourceOf(c) \/ x.task = t) /\ now > x.start}}
<1> DEFINE a == After
           src == SourceOf(c)
<1>1. After' = openSegFn(closeSeg(a, src, now), t, now, c)
  BY SwitchAfter
<1> HIDE DEF a, src
<1> DEFINE b == closeSeg(a, src, now)
<1>2. /\ b.open = {o \in a.open : o.task # src}
      /\ b.segs = a.segs \cup {Closed(o, now) :
                      o \in {x \in a.open : x.task = src /\ now > x.start}}
  BY DEF closeSeg
<1> HIDE DEF b
<1>3. /\ After'.open = {o \in b.open : o.task # t} \cup {[task |-> t, start |-> now, core |-> c]}
      /\ After'.segs = b.segs \cup {Closed(o, now) :
                      o \in {x \in b.open : x.task = t /\ now > x.start}}
  BY <1>1 DEF openSegFn, closeSeg, b
<1>4. After'.open = {o \in a.open : o.task # src /\ o.task # t}
                      \cup {[task |-> t, start |-> now, core |-> c]}
  BY <1>2, <1>3
<1> DEFINE S == {x \in a.open : x.task = src /\ now > x.start}
           T == {x \in b.open : x.task = t /\ now > x.start}
           U == {x \in a.open : (x.task = src \/ x.task = t) /\ now > x.start}
<1>5. U = S \cup T
  BY <1>2
<1>6. After'.segs = a.segs \cup {Closed(o, now) : o \in U}
  <2>1. After'.segs = (a.segs \cup {Closed(o, now) : o \in S}) \cup {Closed(o, now) : o \in T}
    BY <1>2, <1>3
  <2> HIDE DEF S, T, U
  <2> QED
    BY <1>5, <2>1
<1> QED
  BY <1>4, <1>6 DEF a, src

\* An open segment of the task that leaves its core is the run that ends.
LEMMA LeavingSegment ==
  ASSUME Types, SchedInv, NEW c \in Cores, run[c].task # NoTask,
         NEW o, o.task = run[c].task, o.core \in Cores, o.start \in 1..now,
         Current(o), o.start < now
  PROVE  /\ o.core = c
         /\ \E x \in Finished(c) : Closed(o, now) = Seen(x) /\ x.blurred = run[c].blurred
<1>1. o.core = c
  BY DEF Current, SchedInv
<1> DEFINE x == [task |-> run[c].task, start |-> run[c].start, end |-> now,
                 core |-> c, blurred |-> run[c].blurred]
<1>2. run[c].start = o.start /\ run[c].start \notin {0, now}
  BY <1>1 DEF Current, Types
<1>3. Finished(c) = {x}
  BY <1>2 DEF Finished
<1>4. Closed(o, now) = Seen(x)
  BY <1>1, <1>2 DEF Closed, Seen
<1> QED
  BY <1>1, <1>3, <1>4

\* A closed segment is a run, if its task leaves its core now or has left one.
LEMMA SwitchSegs ==
  ASSUME Types, SchedInv, ParserInv, NEW c \in Cores, NEW t \in Tasks, Switch(c, t)
  PROVE  SegsInv'
<1> SUFFICES ASSUME NEW y \in After'.segs
             PROVE  \E e \in executed' : y = Seen(e)
  BY DEF SegsInv, Really
<1>1. executed' = executed \cup Finished(c)
  BY SwitchRun
<1>2. CASE y \in After.segs
  BY <1>1, <1>2 DEF ParserInv, SegsInv, Really
<1>3. CASE y \notin After.segs
  <2>1. PICK o \in After.open : /\ y = Closed(o, now)
                                /\ o.task = SourceOf(c) \/ o.task = t
                                /\ now > o.start
    BY <1>3, SwitchFields
  <2>2. /\ o.task \in Tasks /\ o.core \in Cores /\ o.start \in 1..now
        /\ Current(o) \/ Stopped(o)
    BY DEF ParserInv, OpenInv
  <2>3. o.start < now
    BY <2>1, <2>2 DEF Types
  <2>4. CASE Current(o)
    <3>1. run[c].task # NoTask /\ o.task = run[c].task
      <4>1. CASE o.task = t
        <5>1. t \in Running
          BY <2>2, <2>4, <4>1, EntityAssumption DEF Current, Running
        <5> QED
          BY <2>2, <4>1, <5>1, EntityAssumption DEF Switch
      <4>2. CASE o.task = SourceOf(c)
        BY <2>2, <4>2, EntityAssumption DEF SourceOf
      <4> QED
        BY <2>1, <4>1, <4>2
    <3>2. \E x \in Finished(c) : Closed(o, now) = Seen(x)
      BY <2>2, <2>3, <2>4, <3>1, LeavingSegment
    <3> QED
      BY <1>1, <2>1, <3>2
  <2>5. CASE Stopped(o)
    BY <1>1, <2>1, <2>3, <2>5 DEF Stopped, Really
  <2> QED
    BY <2>2, <2>4, <2>5
<1> QED
  BY <1>2, <1>3

\* What stays open is another core's run, or what the outgoing task leaves behind
\* in the dialect that does not name it.
LEMMA SwitchOpen ==
  ASSUME Types, SchedInv, ParserInv, NEW c \in Cores, NEW t \in Tasks, Switch(c, t)
  PROVE  OpenInv'
<1> SUFFICES ASSUME NEW o \in After'.open
             PROVE  /\ o.task \in Tasks /\ o.core \in Cores /\ o.start \in 1..now'
                    /\ Current(o)' \/ Stopped(o)'
  BY DEF OpenInv
<1>1. now \in Nat /\ now >= 1 /\ t # NoTask
  BY EntityAssumption DEF Types
<1>2. \A b \in Cores : run'[b].task = IF b = c THEN t ELSE run[b].task
  BY SwitchRun
<1>3. CASE o = [task |-> t, start |-> now, core |-> c]
  <2>1. Current(o)'
    BY <1>3, SwitchRun DEF Current
  <2> QED
    BY <1>1, <1>3, <2>1, SwitchRun
<1>4. CASE o \in After.open /\ o.task # SourceOf(c) /\ o.task # t
  <2>1. /\ o.task \in Tasks /\ o.core \in Cores /\ o.start \in 1..now
        /\ Current(o) \/ Stopped(o)
    BY <1>4 DEF ParserInv, OpenInv
  <2>2. o.task # NoTask
    BY <2>1, EntityAssumption
  <2>3. CASE Current(o) /\ o.core # c
    <3>1. Current(o)'
      BY <2>1, <2>3, SwitchRun DEF Current
    <3> QED
      BY <2>1, <3>1, SwitchRun
  <2>4. CASE Current(o) /\ o.core = c
    <3>1. dialect = "core" /\ run[c].task = o.task
      BY <1>4, <2>2, <2>4 DEF Current, SourceOf
    <3>2. \A b \in Cores : run'[b].task # o.task
      BY <1>2, <1>4, <2>2, <3>1 DEF SchedInv
    <3>3. PreemptsOf(lines', o.task) # {}
      BY <2>1, <3>1, SwitchPreempts
    <3>4. o.start < now => \E e \in executed' : Closed(o, now) = Seen(e)
      BY <2>1, <2>2, <2>4, <3>1, LeavingSegment, SwitchRun
    <3>5. Stopped(o)'
      BY <3>1, <3>2, <3>3, <3>4, SwitchRun DEF Stopped, Running, PreemptedNow, Really
    <3> QED
      BY <2>1, <3>5, SwitchRun
  <2>5. CASE Stopped(o)
    <3>1. \A b \in Cores : run'[b].task # o.task
      BY <1>2, <1>4, <2>2, <2>5 DEF Stopped, Running
    <3>2. PreemptsOf(lines', o.task) # {}
      BY <2>1, <2>5, SwitchPreempts DEF Stopped, PreemptedNow
    <3>3. o.start < now => \E e \in executed' : Closed(o, now) = Seen(e)
      BY <2>5, SwitchRun DEF Stopped, Really
    <3>4. Stopped(o)'
      BY <2>5, <3>1, <3>2, <3>3, SwitchRun DEF Stopped, Running, PreemptedNow, Really
    <3> QED
      BY <2>1, <3>4, SwitchRun
  <2> QED
    BY <2>1, <2>3, <2>4, <2>5
<1> QED
  BY <1>3, <1>4, SwitchFields

\* The incoming task's run is open, and no other core's run is closed.
LEMMA SwitchRuns ==
  ASSUME Types, SchedInv, ParserInv, NEW c \in Cores, NEW t \in Tasks, Switch(c, t)
  PROVE  RunInv'
<1> SUFFICES ASSUME NEW b \in Cores,
                    run'[b].task # NoTask, run'[b].start # 0, ~run'[b].blurred
             PROVE  Opened(run'[b], b) \in After'.open
  BY DEF RunInv
<1>1. CASE b = c
  BY <1>1, SwitchRun, SwitchFields DEF Opened
<1>2. CASE b # c
  <2>1. run'[b] = run[b] /\ ~done
    BY <1>2, SwitchRun
  <2>2. Opened(run[b], b) \in After.open
    BY <2>1 DEF ParserInv, RunInv
  <2>3. run[b].task \in Tasks
    BY <2>1 DEF Types
  <2>4. run[b].task # SourceOf(c)
    BY <1>2, <2>1, <2>3, EntityAssumption DEF SourceOf, SchedInv
  <2>5. run[b].task # t
    <3>1. run[b].task \in Running
      BY <2>1 DEF Running
    <3> QED
      BY <1>2, <2>1, <2>3, <3>1 DEF Switch, SchedInv
  <2> QED
    BY <2>1, <2>2, <2>4, <2>5, SwitchFields DEF Opened
<1> QED
  BY <1>1, <1>2

\* The run that ends was open: it is closed, or left to pass B.
LEMMA SwitchExec ==
  ASSUME Types, SchedInv, ParserInv, NEW c \in Cores, NEW t \in Tasks, Switch(c, t)
  PROVE  ExecInv'
<1> SUFFICES ASSUME NEW x \in executed', ~x.blurred
             PROVE  \/ Seen(x) \in After'.segs
                    \/ /\ dialect = "core" /\ x.end = now
                       /\ PreemptsOf(lines', x.task) # {}
                       /\ Opened(x, x.core) \in After'.open
  BY SwitchRun DEF ExecInv, PreemptedNow
<1>1. ASSUME x.end = now, x.start < x.end, Opened(x, x.core) \in After.open,
             x.task = SourceOf(c) \/ x.task = t
      PROVE  Seen(x) \in After'.segs
  <2>1. Closed(Opened(x, x.core), now) = Seen(x)
    BY <1>1 DEF Closed, Opened, Seen
  <2>2. Opened(x, x.core).task = x.task /\ Opened(x, x.core).start = x.start
    BY DEF Opened
  <2>3. x.start \in 1..now
    BY <1>1, <2>2 DEF ParserInv, OpenInv
  <2>4. now > Opened(x, x.core).start
    BY <1>1, <2>2, <2>3 DEF Types
  <2> QED
    BY <1>1, <2>1, <2>2, <2>4, SwitchFields
<1>2. ASSUME Opened(x, x.core) \in After.open, x.task # SourceOf(c), x.task # t
      PROVE  Opened(x, x.core) \in After'.open
  <2>1. Opened(x, x.core).task = x.task
    BY DEF Opened
  <2> QED
    BY <1>2, <2>1, SwitchFields
<1>3. CASE x \in executed
  <2>1. CASE Seen(x) \in After.segs
    BY <2>1, SwitchFields
  <2>2. CASE /\ dialect = "core" /\ x.end = now /\ PreemptedNow(x.task)
             /\ Opened(x, x.core) \in After.open
    <3>1. x.start < x.end
      BY <1>3 DEF SchedInv
    <3>2. x.task \in Tasks
      <4>1. Opened(x, x.core).task = x.task
        BY DEF Opened
      <4> QED
        BY <2>2, <4>1 DEF ParserInv, OpenInv
    <3>3. PreemptsOf(lines', x.task) # {}
      BY <2>2, <3>2, SwitchPreempts DEF PreemptedNow
    <3> QED
      BY <1>1, <1>2, <2>2, <3>1, <3>3
  <2> QED
    BY <1>3, <2>1, <2>2 DEF ParserInv, ExecInv
<1>4. CASE x \in Finished(c)
  <2>1. /\ x.task = run[c].task /\ x.start = run[c].start /\ x.end = now
        /\ x.core = c /\ ~run[c].blurred
        /\ run[c].task # NoTask /\ x.start # 0 /\ x.start < x.end
    BY <1>4, FinishedTookTime
  <2>2. Opened(x, x.core) \in After.open
    <3>1. Opened(run[c], c) \in After.open
      BY <2>1, SwitchRun DEF ParserInv, RunInv
    <3> QED
      BY <2>1, <3>1 DEF Opened
  <2>3. x.task \in Tasks
    BY <2>1 DEF Types
  <2>4. PreemptsOf(lines', x.task) # {}
    BY <2>1, <2>3, SwitchPreempts
  <2>5. x.task # SourceOf(c) => dialect = "core"
    BY <2>1 DEF SourceOf, Types
  <2> QED
    BY <1>1, <1>2, <2>1, <2>2, <2>4, <2>5
<1> QED
  BY <1>3, <1>4, SwitchRun
------------------------------------------------------------------------------
(* The other steps *)

\* A creation changes nothing for the parser yet.
LEMMA CreateParser ==
  ASSUME Types, SchedInv, ParserInv, NEW c \in Cores, NEW t \in Tasks, CreateTask(c, t)
  PROVE  ParserInv'
<1>1. /\ After' = After /\ run' = run /\ now' = now /\ executed' = executed
      /\ dialect' = dialect /\ done' = done
  BY CreateAfter DEF CreateTask, parser
<1>2. \A u : PreemptsOf(lines, u) # {} => PreemptsOf(lines', u) # {}
  BY CreatePreempts
<1>3. OpenInv'
  BY <1>1, <1>2 DEF ParserInv, OpenInv, Current, Stopped, Running, PreemptedNow, Really
<1>4. SegsInv' /\ RunInv'
  BY <1>1 DEF ParserInv, SegsInv, RunInv, Really
<1>5. ExecInv'
  BY <1>1, <1>2 DEF ParserInv, ExecInv, PreemptedNow
<1> QED
  BY <1>3, <1>4, <1>5 DEF ParserInv

\* A context switch keeps the parser's part.
LEMMA SwitchParser ==
  ASSUME Types, SchedInv, ParserInv, NEW c \in Cores, NEW t \in Tasks, Switch(c, t)
  PROVE  ParserInv'
BY SwitchSegs, SwitchOpen, SwitchRuns, SwitchExec DEF ParserInv

\* What is left when the lines of a time unit are handled: every open segment is
\* its core's run, every run that is not blurred is open, and all that is finished
\* is closed.
LEMMA HandledIs ==
  ASSUME Types, SchedInv, ParserInv
  PROVE  /\ \A o \in Handled.open : /\ o.task \in Tasks /\ o.core \in Cores
                                    /\ o.start \in 1..now /\ Current(o)
         /\ \A x \in Handled.segs : Really(x)
         /\ ~done => \A c \in Cores :
               run[c].task # NoTask /\ run[c].start # 0 /\ ~run[c].blurred =>
                   Opened(run[c], c) \in Handled.open
         /\ \A x \in executed : ~x.blurred => Seen(x) \in Handled.segs
<1> DEFINE Naked == NakedUpTo(lines, Len(lines))
<1>1. /\ Len(lines) \in Nat /\ DOMAIN lines = 1..Len(lines)
      /\ \A i \in DOMAIN lines : lines[i] \in Line
  BY DEF Types
<1>2. ClosedBy(After, Naked, now, Handled)
  BY <1>1, PreemptedCloses DEF Handled, After
<1>3. \A u : u \in Naked <=> PreemptedNow(u) /\ u \notin resumeSources(lines)
  BY <1>1 DEF NakedUpTo, PreemptedNow, PreemptsOf
<1>4. dialect = "core" => \A u \in Tasks : u \notin resumeSources(lines)
  BY EntityAssumption DEF SchedInv, resumeSources
<1> HIDE DEF Naked
<1>5. ASSUME NEW o \in Handled.open
      PROVE  o.task \in Tasks /\ o.core \in Cores /\ o.start \in 1..now /\ Current(o)
  <2>1. o \in After.open /\ o.task \notin Naked
    BY <1>2 DEF ClosedBy
  <2>2. ~Stopped(o)
    BY <1>3, <1>4, <2>1 DEF Stopped, ParserInv, OpenInv
  <2> QED
    BY <2>1, <2>2 DEF ParserInv, OpenInv
<1>6. ASSUME NEW x \in Handled.segs
      PROVE  Really(x)
  <2>1. CASE x \in After.segs
    BY <2>1 DEF ParserInv, SegsInv
  <2>2. CASE x \notin After.segs
    <3>1. PICK o \in After.open : o.task \in Naked /\ now > o.start /\ x = Closed(o, now)
      BY <1>2, <2>2 DEF ClosedBy
    <3>2. ~Current(o)
      BY <1>3, <3>1 DEF Current, SchedInv, Types, ParserInv, OpenInv
    <3>3. o.start \in 1..now /\ Stopped(o)
      BY <3>2 DEF ParserInv, OpenInv
    <3> QED
      BY <3>1, <3>3 DEF Stopped, Types
  <2> QED
    BY <2>1, <2>2
<1>7. ASSUME ~done, NEW c \in Cores,
             run[c].task # NoTask, run[c].start # 0, ~run[c].blurred
      PROVE  Opened(run[c], c) \in Handled.open
  <2>1. Opened(run[c], c) \in After.open
    BY <1>7 DEF ParserInv, RunInv
  <2>2. run[c].task \notin Naked
    BY <1>3, <1>7 DEF SchedInv
  <2>3. Opened(run[c], c).task = run[c].task
    BY DEF Opened
  <2> QED
    BY <1>2, <2>1, <2>2, <2>3 DEF ClosedBy
<1>8. ASSUME NEW x \in executed, ~x.blurred
      PROVE  Seen(x) \in Handled.segs
  <2>1. CASE Seen(x) \in After.segs
    BY <1>2, <2>1 DEF ClosedBy
  <2>2. CASE /\ dialect = "core" /\ x.end = now /\ PreemptedNow(x.task)
             /\ Opened(x, x.core) \in After.open
    <3> DEFINE o == Opened(x, x.core)
    <3>1. o.task = x.task /\ o.start = x.start /\ Closed(o, now) = Seen(x)
      BY <2>2 DEF Opened, Closed, Seen
    <3>2. o.task \in Naked
      BY <1>3, <1>4, <2>2, <3>1 DEF ParserInv, OpenInv
    <3>3. now > o.start
      BY <2>2, <3>1 DEF SchedInv, Types
    <3> HIDE DEF o
    <3>4. o \in After.open
      BY <2>2 DEF o
    <3> QED
      BY <1>2, <3>1, <3>2, <3>3, <3>4 DEF ClosedBy
  <2> QED
    BY <1>8, <2>1, <2>2 DEF ParserInv, ExecInv
<1> QED
  BY <1>5, <1>6, <1>7, <1>8

\* The next time unit begins with what is left.
LEMMA NextTimestampParser ==
  ASSUME Types, SchedInv, ParserInv, NextTimestamp
  PROVE  ParserInv'
<1>1. /\ lines' = << >> /\ now' = now + 1 /\ ~done
      /\ openSeg' = Handled.open /\ segments' = Handled.segs
      /\ run' = run /\ executed' = executed /\ done' = done
  BY DEF NextTimestamp, Set
<1>2. After'.open = openSeg' /\ After'.segs = segments'
  <2>1. Resumed(State', << >>, now') = State'
    BY ResumedEmpty
  <2>2. After' = State'
    BY <1>1, <2>1 DEF After
  <2> QED
    BY <2>2 DEF State
<1>3. \A o : o.start \in 1..now => o.start \in 1..now + 1
  BY DEF Types
<1>4. OpenInv'
  BY <1>1, <1>2, <1>3, HandledIs DEF OpenInv, Current
<1>5. SegsInv'
  BY <1>1, <1>2, HandledIs DEF SegsInv, Really
<1>6. RunInv'
  BY <1>1, <1>2, HandledIs DEF RunInv
<1>7. ExecInv'
  BY <1>1, <1>2, HandledIs DEF ExecInv
<1> QED
  BY <1>4, <1>5, <1>6, <1>7 DEF ParserInv

\* The end of the trace closes what is left.
LEMMA EndOfTraceParser ==
  ASSUME Types, SchedInv, ParserInv, EndOfTrace
  PROVE  ParserInv'
<1>1. /\ lines' = << >> /\ now' = now /\ done' /\ ~done
      /\ openSeg' = {}
      /\ segments' = Handled.segs \cup
            {Closed(o, now) : o \in {x \in Handled.open : now > x.start}}
      /\ run' = run /\ executed' = executed \cup UNION {Finished(c) : c \in Cores}
  BY DEF EndOfTrace, Set, CloseAll
<1>2. After'.open = {} /\ After'.segs = segments'
  <2>1. Resumed(State', << >>, now') = State'
    BY ResumedEmpty
  <2>2. After' = State'
    BY <1>1, <2>1 DEF After
  <2> QED
    BY <1>1, <2>2 DEF State
<1>3. OpenInv' /\ RunInv'
  BY <1>1, <1>2 DEF OpenInv, RunInv
<1>4. ASSUME NEW y \in segments'
      PROVE  \E e \in executed' : y = Seen(e)
  <2>1. CASE y \in Handled.segs
    BY <1>1, <2>1, HandledIs DEF Really
  <2>2. CASE y \notin Handled.segs
    <3>1. PICK o \in Handled.open : now > o.start /\ y = Closed(o, now)
      BY <1>1, <2>2
    <3>2. o.task \in Tasks /\ o.core \in Cores /\ o.start \in 1..now /\ Current(o)
      BY HandledIs
    <3>3. run[o.core].task = o.task /\ o.task # NoTask /\ o.start < now
      BY <3>1, <3>2, EntityAssumption DEF Current, Types
    <3>4. \E e \in Finished(o.core) : y = Seen(e)
      BY <3>1, <3>2, <3>3, LeavingSegment
    <3> QED
      BY <1>1, <3>2, <3>4
  <2> QED
    BY <2>1, <2>2
<1>5. SegsInv'
  BY <1>2, <1>4 DEF SegsInv, Really
<1>6. ASSUME NEW x \in executed', ~x.blurred
      PROVE  Seen(x) \in segments'
  <2>1. CASE x \in executed
    BY <1>1, <1>6, <2>1, HandledIs
  <2>2. CASE x \notin executed
    <3>1. PICK c \in Cores : x \in Finished(c)
      BY <1>1, <2>2
    <3>2. /\ x.task = run[c].task /\ x.start = run[c].start /\ x.end = now
          /\ x.core = c /\ ~run[c].blurred
          /\ run[c].task # NoTask /\ x.start \in Nat \ {0} /\ x.start < x.end
      BY <1>6, <3>1, FinishedTookTime
    <3> DEFINE o == Opened(run[c], c)
    <3>3. o \in Handled.open
      BY <1>1, <3>2, HandledIs
    <3>4. o.start = x.start /\ Closed(o, now) = Seen(x)
      BY <3>2 DEF Opened, Closed, Seen
    <3>5. now > o.start
      BY <3>2, <3>4 DEF Types
    <3> HIDE DEF o
    <3> QED
      BY <1>1, <3>3, <3>4, <3>5
  <2> QED
    BY <2>1, <2>2
<1>7. ExecInv'
  BY <1>2, <1>6 DEF ExecInv
<1> QED
  BY <1>3, <1>5, <1>7 DEF ParserInv
------------------------------------------------------------------------------
(* The invariant holds *)

\* The file begins with nothing open and nothing finished.
LEMMA InitIInv == Init => IInv
<1> SUFFICES ASSUME Init PROVE IInv
  OBVIOUS
<1>1. Types
  <2>1. run \in [Cores -> [task : created \cup {NoTask}, start : Nat, blurred : BOOLEAN]]
    <3>1. ASSUME NEW A, NEW B, NEW C, NEW BB, NEW CC, B \subseteq BB, C \subseteq CC
          PROVE  [task : A, start : B, blurred : C] \subseteq [task : A, start : BB, blurred : CC]
      BY <3>1
    <3>2. {0} \subseteq Nat /\ {FALSE} \subseteq BOOLEAN
      OBVIOUS
    <3>3. [task : created \cup {NoTask}, start : {0}, blurred : {FALSE}]
             \subseteq [task : created \cup {NoTask}, start : Nat, blurred : BOOLEAN]
      BY <3>1, <3>2
    <3> QED
      BY <3>3 DEF Init
  <2>2. lines \in Seq(Line)
    BY DEF Init
  <2>3. dialect \in {"core", "task"} /\ created \subseteq Tasks
    BY EntityAssumption DEF Init
  <2>4. now \in Nat /\ now >= 1
    BY DEF Init
  <2>5. done \in BOOLEAN
    BY DEF Init
  <2> QED
    BY <2>1, <2>2, <2>3, <2>4, <2>5, Zenon DEF Types
<1>2. SchedInv
  <2>1. \A b, c \in Cores : run[b].task # NoTask /\ run[b].task = run[c].task => b = c
    BY DEF Init
  <2>2. \A c \in Cores : run[c].start <= now
    <3>1. \A c \in Cores : run[c].start = 0
      BY DEF Init
    <3>2. now = 1
      BY DEF Init
    <3> QED
      BY <3>1, <3>2
  <2> QED
    BY <2>1, <2>2 DEF Init, SchedInv, PreemptedNow, PreemptsOf
<1>3. After.open = {} /\ After.segs = {} /\ executed = {}
  BY AfterNothing DEF Init, State
<1>4. \A c \in Cores : run[c].start = 0
  BY DEF Init
<1> QED
  BY <1>1, <1>2, <1>3, <1>4 DEF IInv, OpenInv, SegsInv, RunInv, ExecInv, SegmentsReal, Init

\* Every step keeps it.
LEMMA IInvKept == IInv /\ [Next]_vars => IInv'
<1> SUFFICES ASSUME IInv, [Next]_vars PROVE IInv'
  OBVIOUS
<1>1. Types /\ SchedInv /\ ParserInv
  BY DEF IInv, ParserInv
<1>2. Types' /\ SchedInv'
  BY <1>1, TypesKept, SchedKept
<1>3. ParserInv'
  <2>1. CASE UNCHANGED vars
    <3>1. /\ After' = After /\ run' = run /\ now' = now /\ executed' = executed
          /\ dialect' = dialect /\ done' = done /\ lines' = lines
      BY <2>1 DEF vars, parser, scheduler, After, State
    <3>2. OpenInv'
      BY <1>1, <3>1 DEF ParserInv, OpenInv, Current, Stopped, Running, PreemptedNow, Really
    <3>3. SegsInv' /\ RunInv' /\ ExecInv'
      BY <1>1, <3>1 DEF ParserInv, SegsInv, RunInv, ExecInv, PreemptedNow, Really
    <3> QED
      BY <3>2, <3>3 DEF ParserInv
  <2> QED
    BY <1>1, <2>1, CreateParser, SwitchParser, NextTimestampParser, EndOfTraceParser DEF Next
<1>4. SegmentsReal'
  <2>1. CASE lines' = << >>
    <3>1. After' = State'
      <4>1. Resumed(State', << >>, now') = State'
        BY ResumedEmpty
      <4> QED
        BY <2>1, <4>1 DEF After
    <3>2. \A x \in segments' : \E e \in executed' : x = Seen(e)
      BY <1>3, <3>1 DEF ParserInv, SegsInv, Really, State
    <3> QED
      BY <3>2 DEF SegmentsReal
  <2>2. CASE lines' # << >>
    <3>1. segments' = segments /\ executed \subseteq executed'
      BY <2>2 DEF Next, CreateTask, Switch, NextTimestamp, EndOfTrace, vars, parser, scheduler
    <3> QED
      BY <3>1 DEF IInv, SegmentsReal
  <2> QED
    BY <2>1, <2>2
<1> QED
  BY <1>2, <1>3, <1>4 DEF IInv, ParserInv

\* The invariant of the file and of the parser at every line.
THEOREM Invariance == Spec => []IInv
<1> QED
  BY InitIInv, IInvKept, PTL DEF Spec

\* A segment is a run that really happened: once the lines of a time unit are
\* handled they are all the parser has closed.
THEOREM SegmentsRealHolds == Spec => []SegmentsReal
<1>1. IInv => SegmentsReal
  BY DEF IInv
<1> QED
  BY <1>1, Invariance, PTL

\* Between timestamps an open segment is its core's run.
THEOREM OpenIsRunningHolds == Spec => []OpenIsRunning
<1>1. IInv => OpenIsRunning
  BY AfterNothing DEF IInv, OpenIsRunning, OpenInv, Current, Stopped, PreemptedNow, PreemptsOf, State
<1> QED
  BY <1>1, Invariance, PTL

\* No run is missing at the end, but those that began in the time unit in which
\* their task was preempted or created.
THEOREM NoRunMissingHolds == Spec => []NoRunMissing
<1>1. IInv => NoRunMissing
  BY AfterNothing DEF IInv, NoRunMissing, ExecInv, SchedInv, State
<1> QED
  BY <1>1, Invariance, PTL
==============================================================================
