------------------------- MODULE SyncObjects_proof -------------------------
(***************************************************************************)
(* Proofs about SyncObjects, for any tasks, cores, objects, limits and     *)
(* lengths of the trace.                                                   *)
(***************************************************************************)
EXTENDS SyncObjects, WellFoundedInduction, FiniteSetTheorems, SequenceTheorems, TLAPS

(* Induction *)

Less == {ss \in Nat \X Nat : ss[1] < ss[2]}

\* A set of natural numbers has a least element: the order is well founded.
LEMMA LeastElement ==
  ASSUME NEW T \in SUBSET Nat, T # {}
  PROVE  \E x \in T : \A y \in T : x <= y
<1>1. IsWellFoundedOn(Less, Nat)
  BY NatLessThanWellFounded DEF OpToRel, Less
<1>2. PICK x \in T : \A y \in T : ~(<<y, x>> \in Less)
  BY <1>1, WFMin
<1>3. ASSUME NEW y \in T PROVE x <= y
  <2>1. x \in Nat /\ y \in Nat /\ ~(<<y, x>> \in Less)
    BY <1>2
  <2>2. <<y, x>> \in Nat \X Nat /\ <<y, x>>[1] = y /\ <<y, x>>[2] = x
    BY <2>1
  <2>3. ~(y < x)
    BY <2>1, <2>2 DEF Less
  <2> QED
    BY <2>1, <2>3
<1> QED
  BY <1>3

\* Induction, for the sets of numbers that have a property.
LEMMA Induction ==
  ASSUME NEW S, 0 \in S, \A n \in Nat : n \in S => n + 1 \in S
  PROVE  Nat \subseteq S
<1> SUFFICES ASSUME Nat \ S # {} PROVE FALSE
  OBVIOUS
<1>1. PICK x \in Nat \ S : \A y \in Nat \ S : x <= y
  BY LeastElement
<1>2. x # 0 /\ x - 1 \in Nat /\ x - 1 \in S
  BY <1>1
<1> QED
  BY <1>1, <1>2
------------------------------------------------------------------------------
(* The loop over the events of an object *)

\* The objects f after each of the first m events.
Replaying(f, k, recs, m) ==
    f = [n \in 0..m |-> IF n = 0 THEN _empty_obj ELSE OnEvent(f[n - 1], k, recs[n])]

\* The recursion of Replayed has a value for every event.
LEMMA ReplayingExists ==
  ASSUME NEW k, NEW recs, NEW m \in Nat
  PROVE  \E f : Replaying(f, k, recs, m)
<1> DEFINE S == {n \in Nat : \E f : Replaying(f, k, recs, n)}
<1>1. 0 \in S
  <2>1. Replaying([n \in 0..0 |-> _empty_obj], k, recs, 0)
    BY DEF Replaying
  <2> QED
    BY <2>1
<1>2. ASSUME NEW n \in Nat, n \in S PROVE n + 1 \in S
  <2>1. PICK f : Replaying(f, k, recs, n)
    BY <1>2
  <2> DEFINE g == [i \in 0..n + 1 |-> IF i = n + 1 THEN OnEvent(f[n], k, recs[n + 1])
                                      ELSE f[i]]
  <2>2. ASSUME NEW i \in 0..n + 1
        PROVE  g[i] = IF i = 0 THEN _empty_obj ELSE OnEvent(g[i - 1], k, recs[i])
    BY <2>1, <2>2 DEF Replaying
  <2>3. Replaying(g, k, recs, n + 1)
    BY <2>2 DEF Replaying
  <2>4. \E h : Replaying(h, k, recs, n + 1)
    <3> HIDE DEF g
    <3> QED
      BY <2>3
  <2> QED
    BY <2>4
<1>3. Nat \subseteq S
  <2> HIDE DEF S
  <2> QED
    BY <1>1, <1>2, Induction
<1> QED
  BY <1>3

\* Replayed is what the last of them is.
LEMMA ReplayedUnfolds ==
  ASSUME NEW k, NEW recs, Len(recs) \in Nat
  PROVE  \E f : Replaying(f, k, recs, Len(recs)) /\ Replayed(k, recs) = f[Len(recs)]
<1> DEFINE After == CHOOSE f : Replaying(f, k, recs, Len(recs))
<1>1. Replaying(After, k, recs, Len(recs))
  BY ReplayingExists
<1>2. Replayed(k, recs) = After[Len(recs)]
  BY Zenon DEF Replayed, Replaying
<1> QED
  <2> HIDE DEF After
  <2> QED
    BY <1>1, <1>2

\* An object with no event is new.
LEMMA ReplayedNone ==
  ASSUME NEW k
  PROVE  Replayed(k, <<>>) = _empty_obj
<1>1. Len(<<>>) = 0
  OBVIOUS
<1> QED
  BY <1>1, ReplayedUnfolds DEF Replaying

\* One more event is handled after those before it.
LEMMA ReplayedAppend ==
  ASSUME NEW k, NEW R, NEW recs \in Seq(R), NEW rec \in R
  PROVE  Replayed(k, Append(recs, rec)) = OnEvent(Replayed(k, recs), k, rec)
<1> DEFINE more == Append(recs, rec)
<1>1. /\ Len(recs) \in Nat /\ Len(more) = Len(recs) + 1 /\ more[Len(recs) + 1] = rec
      /\ \A i \in 1..Len(recs) : more[i] = recs[i]
  OBVIOUS
<1>2. PICK f : Replaying(f, k, recs, Len(recs)) /\ Replayed(k, recs) = f[Len(recs)]
  BY <1>1, ReplayedUnfolds
<1>3. PICK g : Replaying(g, k, more, Len(more)) /\ Replayed(k, more) = g[Len(more)]
  <2> HIDE DEF more
  <2> QED
    BY <1>1, ReplayedUnfolds
<1> DEFINE S == {n \in Nat : n <= Len(recs) => g[n] = f[n]}
<1>4. 0 \in S
  BY <1>1, <1>2, <1>3 DEF Replaying
<1>5. ASSUME NEW n \in Nat, n \in S PROVE n + 1 \in S
  <2> HIDE DEF more
  <2> SUFFICES ASSUME n + 1 <= Len(recs) PROVE g[n + 1] = f[n + 1]
    OBVIOUS
  <2>1. n + 1 \in 0..Len(recs) /\ n + 1 \in 0..Len(more) /\ n + 1 # 0 /\ (n + 1) - 1 = n
    BY <1>1
  <2>2. /\ f[n + 1] = OnEvent(f[(n + 1) - 1], k, recs[n + 1])
        /\ g[n + 1] = OnEvent(g[(n + 1) - 1], k, more[n + 1])
    BY <1>2, <1>3, <2>1 DEF Replaying
  <2>3. g[n] = f[n] /\ more[n + 1] = recs[n + 1]
    BY <1>1, <1>5, <2>1
  <2> QED
    BY <2>1, <2>2, <2>3
<1>6. Nat \subseteq S
  <2> HIDE DEF S
  <2> QED
    BY <1>4, <1>5, Induction
<1>7. g[Len(recs)] = f[Len(recs)]
  BY <1>1, <1>6
<1>8. g[Len(more)] = OnEvent(g[Len(recs)], k, rec)
  <2> HIDE DEF more
  <2>1. Len(more) \in 0..Len(more) /\ Len(more) # 0 /\ Len(more) - 1 = Len(recs)
    BY <1>1
  <2>2. g[Len(more)] = OnEvent(g[Len(more) - 1], k, more[Len(more)])
    BY <1>3, <2>1 DEF Replaying
  <2> QED
    BY <1>1, <2>1, <2>2
<1> QED
  BY <1>2, <1>3, <1>7, <1>8
------------------------------------------------------------------------------
(* The loop over the markers of a key *)

NoMarkers == [stack |-> <<>>, spans |-> <<>>]

\* The pairings f after each of the first m markers.
Pairing(f, evs, m) ==
    f = [n \in 0..m |-> IF n = 0 THEN NoMarkers ELSE OnMarker(f[n - 1], evs[n])]

\* The recursion of Paired has a value for every marker.
LEMMA PairingExists ==
  ASSUME NEW evs, NEW m \in Nat
  PROVE  \E f : Pairing(f, evs, m)
<1> DEFINE S == {n \in Nat : \E f : Pairing(f, evs, n)}
<1>1. 0 \in S
  <2>1. Pairing([n \in 0..0 |-> NoMarkers], evs, 0)
    BY DEF Pairing
  <2> QED
    BY <2>1
<1>2. ASSUME NEW n \in Nat, n \in S PROVE n + 1 \in S
  <2>1. PICK f : Pairing(f, evs, n)
    BY <1>2
  <2> DEFINE g == [i \in 0..n + 1 |-> IF i = n + 1 THEN OnMarker(f[n], evs[n + 1])
                                      ELSE f[i]]
  <2>2. ASSUME NEW i \in 0..n + 1
        PROVE  g[i] = IF i = 0 THEN NoMarkers ELSE OnMarker(g[i - 1], evs[i])
    BY <2>1, <2>2 DEF Pairing
  <2>3. Pairing(g, evs, n + 1)
    BY <2>2 DEF Pairing
  <2>4. \E h : Pairing(h, evs, n + 1)
    <3> HIDE DEF g
    <3> QED
      BY <2>3
  <2> QED
    BY <2>4
<1>3. Nat \subseteq S
  <2> HIDE DEF S
  <2> QED
    BY <1>1, <1>2, Induction
<1> QED
  BY <1>3

\* Paired is what the last of them is.
LEMMA PairedUnfolds ==
  ASSUME NEW evs, Len(evs) \in Nat
  PROVE  \E f : Pairing(f, evs, Len(evs)) /\ Paired(evs) = f[Len(evs)]
<1> DEFINE After == CHOOSE f : Pairing(f, evs, Len(evs))
<1>1. Pairing(After, evs, Len(evs))
  BY PairingExists
<1>2. Paired(evs) = After[Len(evs)]
  BY Zenon DEF Paired, Pairing, NoMarkers
<1> QED
  <2> HIDE DEF After
  <2> QED
    BY <1>1, <1>2

\* Without markers there is nothing to pair.
LEMMA PairedNone == Paired(<<>>) = NoMarkers
<1>1. Len(<<>>) = 0
  OBVIOUS
<1> QED
  BY <1>1, PairedUnfolds DEF Pairing

\* One more marker is paired after those before it.
LEMMA PairedAppend ==
  ASSUME NEW E, NEW evs \in Seq(E), NEW e \in E
  PROVE  Paired(Append(evs, e)) = OnMarker(Paired(evs), e)
<1> DEFINE more == Append(evs, e)
<1>1. /\ Len(evs) \in Nat /\ Len(more) = Len(evs) + 1 /\ more[Len(evs) + 1] = e
      /\ \A i \in 1..Len(evs) : more[i] = evs[i]
  OBVIOUS
<1>2. PICK f : Pairing(f, evs, Len(evs)) /\ Paired(evs) = f[Len(evs)]
  BY <1>1, PairedUnfolds
<1>3. PICK g : Pairing(g, more, Len(more)) /\ Paired(more) = g[Len(more)]
  <2> HIDE DEF more
  <2> QED
    BY <1>1, PairedUnfolds
<1> DEFINE S == {n \in Nat : n <= Len(evs) => g[n] = f[n]}
<1>4. 0 \in S
  BY <1>1, <1>2, <1>3 DEF Pairing
<1>5. ASSUME NEW n \in Nat, n \in S PROVE n + 1 \in S
  <2> HIDE DEF more
  <2> SUFFICES ASSUME n + 1 <= Len(evs) PROVE g[n + 1] = f[n + 1]
    OBVIOUS
  <2>1. n + 1 \in 0..Len(evs) /\ n + 1 \in 0..Len(more) /\ n + 1 # 0 /\ (n + 1) - 1 = n
    BY <1>1
  <2>2. /\ f[n + 1] = OnMarker(f[(n + 1) - 1], evs[n + 1])
        /\ g[n + 1] = OnMarker(g[(n + 1) - 1], more[n + 1])
    BY <1>2, <1>3, <2>1 DEF Pairing
  <2>3. g[n] = f[n] /\ more[n + 1] = evs[n + 1]
    BY <1>1, <1>5, <2>1
  <2> QED
    BY <2>1, <2>2, <2>3
<1>6. Nat \subseteq S
  <2> HIDE DEF S
  <2> QED
    BY <1>4, <1>5, Induction
<1>7. g[Len(evs)] = f[Len(evs)]
  BY <1>1, <1>6
<1>8. g[Len(more)] = OnMarker(g[Len(evs)], e)
  <2> HIDE DEF more
  <2>1. Len(more) \in 0..Len(more) /\ Len(more) # 0 /\ Len(more) - 1 = Len(evs)
    BY <1>1
  <2>2. g[Len(more)] = OnMarker(g[Len(more) - 1], more[Len(more)])
    BY <1>3, <2>1 DEF Pairing
  <2> QED
    BY <1>1, <2>1, <2>2
<1> QED
  BY <1>2, <1>3, <1>7, <1>8
------------------------------------------------------------------------------
(* The inductive invariant *)

Actions == {"create", "delete", "give", "recv", "send", "take", "start", "stop"}
Someone == Tasks \cup {Nobody}
Event == [time : Nat, core : Cores, action : Actions]
Segment == [task : Someone, start : Nat, end : Nat]
Rec == [time : Nat, core : Cores, action : Actions, task : Someone]
Entry == [time : Int, task : Tasks]
Hold == [start : Int, stop : Nat, holder : Someone]
IssueKinds == {"orphan_give", "cross_task_give", "delete_while_held",
               "CORE_MIGRATION_WHILE_HELD"}
Report == [kind : IssueKinds, time : Nat, task : Someone]
Obj == [create_ns : SUBSET Nat, holds : Seq(Hold),
        issues : SUBSET Report,
        takes : Seq(Rec), gives : Seq(Rec), waiters : SUBSET Someone, max_nest : Nat]
Kinds == {"mutex", "sem", "queue", "interval", "unused"}

TypeOK ==
    /\ now \in Nat
    /\ log \in [Objects -> Seq(Event)]
    /\ running \in [Cores -> Someone]
    /\ since \in [Cores -> Nat]
    /\ closed \in [Cores -> Seq(Segment)]
    /\ kind \in [Objects -> Kinds]
    /\ present \in [Objects -> BOOLEAN]
    /\ count \in [Objects -> Nat] /\ initial \in [Objects -> Nat]
    /\ older \in [Objects -> Nat] /\ open \in [Objects -> Seq(Entry)]
    /\ real \in [Objects -> Seq(Hold)]
    /\ shifted \subseteq Objects
    /\ orphaned \subseteq Objects /\ heldDeleted \subseteq Objects

\* Segments that follow each other.
InTurn(S) ==
    /\ \A i \in DOMAIN S : S[i].start <= S[i].end
    /\ \A i, j \in DOMAIN S : i < j => S[i].end <= S[j].start

SegmentsOrdered == \A c \in Cores : InTurn(core_segs[c])

\* A segment of a task has the time t in it.
Covers(S, i, t) ==
    /\ i \in DOMAIN S
    /\ S[i].task # Nobody
    /\ S[i].start < t /\ t <= S[i].end
Covered(segs, e) == \E i \in DOMAIN segs[e.core] : Covers(segs[e.core], i, e.time)

InFileOrder(evs) ==
    \A i, j \in DOMAIN evs : i < j =>
        \/ evs[i].time < evs[j].time
        \/ evs[i].time = evs[j].time /\ Rank[evs[i].action] <= Rank[evs[j].action]

\* Events the parser can attribute, up to the time t.
Known(segs, evs, t) ==
    /\ InFileOrder(evs)
    /\ \A i \in DOMAIN evs : evs[i].time <= t /\ Covered(segs, evs[i])

LogInv == \A o \in Objects : Known(core_segs, log[o], now)

\* What a mutex looks like to the parser.
MutexLike(o, obj) ==
    /\ obj.gives = <<>>
    /\ obj.holds = real[o]
    /\ Len(open[o]) <= 1
    /\ IF open[o] = <<>> \/ open[o][1].time = Before THEN obj.takes = <<>>
       ELSE /\ Len(obj.takes) = 1
            /\ obj.takes[1].time = open[o][1].time
            /\ obj.takes[1].task = open[o][1].task
    /\ \A i \in obj.issues :
            i.kind \in {"orphan_give", "delete_while_held", "CORE_MIGRATION_WHILE_HELD"}
    /\ (\E i \in obj.issues : i.kind = "orphan_give") <=> (o \in orphaned)
    /\ (\E i \in obj.issues : i.kind = "delete_while_held") <=> (o \in heldDeleted)

SemLike(o, obj) ==
    /\ obj.takes = <<>> \/ obj.gives = <<>>
    /\ present[o] => Len(obj.gives) - Len(obj.takes) = count[o] - initial[o]

\* Receives of older messages may be left over, as takes.
QueueLike(o, obj) ==
    o \notin shifted =>
        /\ obj.holds = real[o]
        /\ Len(obj.gives) = Len(open[o])
        /\ \A i \in DOMAIN open[o] : obj.gives[i].time = open[o][i].time
                                   /\ obj.gives[i].task = open[o][i].task

Times(s) == [i \in DOMAIN s |-> s[i].time]
Spans(s) == [i \in DOMAIN s |-> [start |-> s[i].start, stop |-> s[i].stop]]
IntervalLike(o, st) == st = [stack |-> Times(open[o]), spans |-> Spans(real[o])]

CreationLogged(evs, obj) ==
    \A t \in obj.create_ns :
        \E i \in DOMAIN evs : evs[i].action = "create" /\ evs[i].time = t

Shared == {"mutex", "sem", "queue"}

ObjectInv(o) ==
    /\ ~present[o] => open[o] = <<>>
    /\ kind[o] = "interval" => present[o]
    /\ kind[o] \in Shared => Parsed(o) \in Obj /\ CreationLogged(log[o], Parsed(o))
    /\ kind[o] = "mutex" => MutexLike(o, Parsed(o))
    /\ kind[o] = "sem" => SemLike(o, Parsed(o))
    /\ kind[o] = "queue" => QueueLike(o, Parsed(o))
    /\ kind[o] = "interval" => IntervalLike(o, Intervals(o))

IInv ==
    /\ TypeOK
    /\ SegmentsOrdered
    /\ LogInv
    /\ \A o \in Objects : ObjectInv(o)
------------------------------------------------------------------------------
(* The sort *)

\* A rank is a number.
LEMMA RankType == \A a \in Actions : Rank[a] \in Nat
  BY DEF Actions, Rank

\* Events that are in order already are left in it.
LEMMA SortKeepsOrder ==
  ASSUME NEW evs \in Seq(Event), InFileOrder(evs)
  PROVE  InOrder(evs) = evs
<1> DEFINE First(i, j) == Earlier(evs[i], evs[j]) \/ (i < j /\ ~Earlier(evs[j], evs[i]))
           Place(k) == CHOOSE i \in DOMAIN evs :
                          Cardinality({j \in DOMAIN evs : First(j, i)}) = k - 1
<1>1. InOrder(evs) = [k \in DOMAIN evs |-> evs[Place(k)]]
  BY Zenon DEF InOrder, SortedBy
<1>2. Len(evs) \in Nat /\ DOMAIN evs = 1..Len(evs)
  OBVIOUS
<1>3. \A i \in DOMAIN evs : evs[i].time \in Nat /\ Rank[evs[i].action] \in Nat
  <2> SUFFICES ASSUME NEW i \in DOMAIN evs
               PROVE  evs[i].time \in Nat /\ Rank[evs[i].action] \in Nat
    OBVIOUS
  <2>1. evs[i] \in Event
    BY <1>2
  <2>2. evs[i].time \in Nat /\ evs[i].action \in Actions
    BY <2>1 DEF Event
  <2> QED
    BY <2>2, RankType
<1>4. ASSUME NEW i \in DOMAIN evs, NEW j \in DOMAIN evs
      PROVE  First(j, i) <=> j < i
  <2>1. CASE j < i
    <3>1. ~Earlier(evs[i], evs[j])
      BY <1>2, <1>3, <2>1 DEF InFileOrder, Earlier
    <3> QED
      BY <2>1, <3>1
  <2>2. CASE i < j
    <3>1. ~Earlier(evs[j], evs[i])
      BY <1>2, <1>3, <2>2 DEF InFileOrder, Earlier
    <3> QED
      BY <1>2, <2>2, <3>1
  <2>3. CASE i = j
    <3>1. ~Earlier(evs[j], evs[i])
      BY <1>3, <2>3 DEF Earlier
    <3> QED
      BY <1>2, <2>3, <3>1
  <2> QED
    BY <1>2, <2>1, <2>2, <2>3
<1>5. ASSUME NEW i \in DOMAIN evs
      PROVE  Cardinality({j \in DOMAIN evs : First(j, i)}) = i - 1
  <2> HIDE DEF First
  <2>1. {j \in DOMAIN evs : First(j, i)} = 1..i - 1
    BY <1>2, <1>4
  <2>2. 1 \in Int /\ i - 1 \in Int /\ i >= 1
    BY <1>2
  <2>3. Cardinality(1..(i - 1)) = IF 1 > i - 1 THEN 0 ELSE ((i - 1) - 1) + 1
    BY <2>2, FS_Interval
  <2>4. Cardinality(1..(i - 1)) = i - 1
    BY <2>2, <2>3
  <2> QED
    BY <2>1, <2>4
<1>6. ASSUME NEW k \in DOMAIN evs PROVE Place(k) = k
  <2> HIDE DEF First
  <2>1. \E i \in DOMAIN evs : Cardinality({j \in DOMAIN evs : First(j, i)}) = k - 1
    BY <1>5
  <2>2. /\ Place(k) \in DOMAIN evs
        /\ Cardinality({j \in DOMAIN evs : First(j, Place(k))}) = k - 1
    BY <2>1
  <2> HIDE DEF Place
  <2> QED
    BY <1>2, <1>5, <2>2
<1> HIDE DEF Place
<1> QED
  BY <1>1, <1>6
------------------------------------------------------------------------------
(* The task of an event *)

\* A time in the middle of a segment is attributed to its task.
LEMMA Attributed ==
  ASSUME NEW S \in Seq(Segment), InTurn(S), NEW i, NEW t \in Nat, Covers(S, i, t)
  PROVE  _task_mk_at(S, t) = S[i].task
<1> DEFINE later == {j \in DOMAIN S : S[j].start < S[j].end /\ S[j].task # Nobody
                                       /\ S[j].end >= t}
<1>1. DOMAIN S \subseteq Nat /\ \A j \in DOMAIN S : S[j].start \in Nat /\ S[j].end \in Nat
  <2>1. DOMAIN S = 1..Len(S) /\ \A j \in DOMAIN S : S[j] \in Segment
    OBVIOUS
  <2> QED
    BY <2>1 DEF Segment
<1>2. i \in DOMAIN S /\ S[i].task # Nobody /\ S[i].start < t /\ t <= S[i].end
  BY DEF Covers
<1>3. i \in later
  BY <1>1, <1>2
<1>4. ASSUME NEW j \in later PROVE i <= j
  <2>1. j \in DOMAIN S /\ S[j].end >= t
    OBVIOUS
  <2>2. j < i => S[j].end <= S[i].start
    BY <1>2, <2>1 DEF InTurn
  <2> QED
    BY <1>1, <1>2, <2>1, <2>2
<1>5. later \subseteq Nat
  BY <1>1
<1>6. Min(later) = i
  <2> HIDE DEF later
  <2>1. \E x \in later : \A y \in later : x <= y
    BY <1>3, <1>4
  <2>2. Min(later) \in later /\ \A y \in later : Min(later) <= y
    BY <2>1, Zenon DEF Min
  <2> DEFINE m == Min(later)
  <2>3. m \in later /\ m <= i
    BY <1>3, <2>2
  <2>4. i <= m
    BY <1>4, <2>3
  <2>5. i \in Nat /\ m \in Nat
    BY <1>3, <1>5, <2>3
  <2> QED
    <3> HIDE DEF m
    <3>1. m = i
      BY <2>3, <2>4, <2>5
    <3> QED
      BY <3>1 DEF m
<1>7. ~(S[i].start > t)
  BY <1>1, <1>2
<1>8. _task_mk_at(S, t) = IF later = {} \/ S[Min(later)].start > t THEN Nobody
                     ELSE S[Min(later)].task
  BY DEF _task_mk_at
<1> QED
  BY <1>3, <1>6, <1>7, <1>8

------------------------------------------------------------------------------
(* What the trace adds to a core *)

\* The segments of a core grow at the end.
Longer(S, T) ==
    /\ Len(T) >= Len(S)
    /\ \A i \in DOMAIN S : /\ T[i].task = S[i].task /\ T[i].start = S[i].start
                            /\ T[i].end >= S[i].end

\* A segment that has a time in it keeps it when the core goes on.
LEMMA LongerCovers ==
  ASSUME NEW S \in Seq(Segment), NEW T \in Seq(Segment), Longer(S, T),
         NEW i, NEW t \in Nat, Covers(S, i, t)
  PROVE  Covers(T, i, t) /\ T[i].task = S[i].task
<1>1. /\ i \in DOMAIN S /\ i \in DOMAIN T
      /\ S[i] \in Segment /\ T[i] \in Segment
  BY DEF Longer, Covers
<1>2. S[i].end \in Nat /\ T[i].end \in Nat
  BY <1>1 DEF Segment
<1> QED
  BY <1>1, <1>2 DEF Longer, Covers

\* Which steps change the segments, and how.
TraceStep ==
    \/ Advance
    \/ \E c \in Cores, t \in Someone : Switch(c, t)
    \/ UNCHANGED <<now, running, since, closed>>

\* A step closes the last segment, prolongs it or begins one after it.
LEMMA SegmentsGrow ==
  ASSUME TypeOK, TypeOK', SegmentsOrdered, TraceStep, NEW c \in Cores
  PROVE  /\ core_segs[c] \in Seq(Segment) /\ core_segs'[c] \in Seq(Segment)
         /\ Longer(core_segs[c], core_segs'[c])
         /\ InTurn(core_segs'[c])
<1> DEFINE S == core_segs[c]
           old == [task |-> running[c], start |-> since[c], end |-> now]
           n == Len(closed[c])
<1>1. /\ closed[c] \in Seq(Segment) /\ old \in Segment /\ now \in Nat
      /\ closed'[c] \in Seq(Segment)
      /\ [task |-> running'[c], start |-> since'[c], end |-> now'] \in Segment
  BY DEF TypeOK, Segment
<1>2. /\ S = Append(closed[c], old)
      /\ S' = Append(closed'[c], [task |-> running'[c], start |-> since'[c], end |-> now'])
  BY DEF core_segs
<1>3. S \in Seq(Segment) /\ S' \in Seq(Segment)
  BY <1>1, <1>2
<1>4. /\ n \in Nat /\ Len(S) = n + 1 /\ DOMAIN S = 1..n + 1 /\ S[n + 1] = old
      /\ \A i \in 1..n : S[i] = closed[c][i]
  BY <1>1, <1>2
<1>5. \A i \in 1..n + 1 : S[i].start \in Nat /\ S[i].end \in Nat
  <2>1. \A i \in 1..n + 1 : S[i] \in Segment
    BY <1>3, <1>4
  <2> QED
    BY <2>1 DEF Segment
<1>6. InTurn(S)
  BY DEF SegmentsOrdered
<1>7. CASE Advance
  <2> DEFINE new == [task |-> running[c], start |-> since[c], end |-> now + 1]
  <2>1. S' = Append(closed[c], new)
    BY <1>2, <1>7 DEF Advance
  <2>2. /\ Len(S') = n + 1 /\ DOMAIN S' = 1..n + 1 /\ S'[n + 1] = new
        /\ \A i \in 1..n : S'[i] = closed[c][i]
    <3> HIDE DEF new
    <3> QED
      BY <1>1, <2>1
  <2>3. /\ S'[n + 1].task = S[n + 1].task /\ S'[n + 1].start = S[n + 1].start
        /\ S'[n + 1].end = S[n + 1].end + 1
    BY <1>1, <1>4, <2>2
  <2> HIDE DEF S, old, new
  <2>4. Longer(S, S')
    BY <1>4, <1>5, <2>2, <2>3 DEF Longer
  <2>6. \A i \in 1..n : S'[i] = S[i]
    BY <1>4, <2>2
  <2>5. ASSUME NEW i \in 1..n + 1
        PROVE  S'[i].start = S[i].start /\ S'[i].end >= S[i].end /\ S'[i].end \in Nat
    <3>1. CASE i \in 1..n
      BY <1>4, <1>5, <2>6, <3>1
    <3>2. CASE i = n + 1
      BY <1>4, <1>5, <2>3, <3>2
    <3> QED
      BY <1>4, <3>1, <3>2
  <2>7. ASSUME NEW i \in 1..n + 1 PROVE S'[i].start <= S'[i].end
    <3>1. S[i].start <= S[i].end
      BY <1>4, <1>6 DEF InTurn
    <3> QED
      BY <1>5, <2>5, <3>1
  <2>8. ASSUME NEW i \in 1..n + 1, NEW j \in 1..n + 1, i < j
        PROVE  S'[i].end <= S'[j].start
    <3>1. S[i].end <= S[j].start /\ i \in 1..n
      BY <1>4, <1>6, <2>8 DEF InTurn
    <3> QED
      BY <2>5, <2>6, <3>1
  <2>9. InTurn(S')
    BY <2>2, <2>7, <2>8 DEF InTurn
  <2> QED
    BY <1>3, <2>4, <2>9 DEF S
<1>8. ASSUME NEW d \in Cores, NEW t \in Someone, Switch(d, t), d = c
      PROVE  Longer(S, S') /\ InTurn(S')
  <2> DEFINE new == [task |-> t, start |-> now, end |-> now]
  <2>1. /\ closed'[c] = Append(closed[c], old)
        /\ running'[c] = t /\ since'[c] = now /\ now' = now
    BY <1>8 DEF Switch, TypeOK
  <2>2. S' = Append(S, new)
    BY <1>2, <2>1
  <2>3. new \in Segment
    BY <1>1 DEF Segment
  <2>4. /\ Len(S') = n + 2 /\ DOMAIN S' = 1..n + 2 /\ S'[n + 2] = new
        /\ \A i \in 1..n + 1 : S'[i] = S[i]
    <3> HIDE DEF S, old, new
    <3> QED
      BY <1>3, <1>4, <2>2, <2>3
  <2>5. S'[n + 2].start = now /\ S'[n + 2].end = now /\ S[n + 1].end = now
    BY <1>4, <2>4
  <2> HIDE DEF S, old, new
  <2>6. Longer(S, S')
    BY <1>4, <1>5, <2>4 DEF Longer
  <2>7. ASSUME NEW i \in 1..n + 1 PROVE S[i].end <= now
    <3>1. CASE i = n + 1
      BY <1>1, <2>5, <3>1
    <3>2. CASE i < n + 1
      <4>1. n + 1 \in DOMAIN S /\ i \in DOMAIN S
        BY <1>4
      <4>2. S[i].end <= S[n + 1].start
        BY <1>6, <3>2, <4>1 DEF InTurn
      <4>3. S[n + 1].start <= S[n + 1].end
        BY <1>6, <4>1 DEF InTurn
      <4>4. S[i].end \in Nat /\ S[n + 1].start \in Nat /\ S[n + 1].end \in Nat
        BY <1>4, <1>5, <4>1
      <4> QED
        BY <2>5, <4>2, <4>3, <4>4
    <3> QED
      BY <1>4, <3>1, <3>2
  <2>8. ASSUME NEW i \in 1..n + 2 PROVE S'[i].start <= S'[i].end
    <3>1. CASE i \in 1..n + 1
      BY <1>4, <1>6, <2>4, <3>1 DEF InTurn
    <3>2. CASE i = n + 2
      BY <1>1, <2>5, <3>2
    <3> QED
      BY <1>4, <3>1, <3>2
  <2>9. ASSUME NEW i \in 1..n + 2, NEW j \in 1..n + 2, i < j
        PROVE  S'[i].end <= S'[j].start
    <3>1. i \in 1..n + 1
      BY <1>4, <2>9
    <3>2. CASE j \in 1..n + 1
      BY <1>4, <1>6, <2>4, <2>9, <3>1, <3>2 DEF InTurn
    <3>3. CASE j = n + 2
      BY <2>4, <2>5, <2>7, <3>1, <3>3
    <3> QED
      BY <1>4, <3>2, <3>3
  <2> QED
    BY <2>4, <2>6, <2>8, <2>9 DEF InTurn
<1>9. ASSUME closed'[c] = closed[c], running'[c] = running[c], since'[c] = since[c], now' = now
      PROVE  Longer(S, S') /\ InTurn(S')
  <2>1. S' = S
    BY <1>2, <1>9
  <2> HIDE DEF S, old
  <2> QED
    BY <1>4, <1>5, <1>6, <2>1 DEF Longer, InTurn
<1>10. ASSUME NEW d \in Cores, NEW t \in Someone, Switch(d, t), d # c
       PROVE  Longer(S, S') /\ InTurn(S')
  <2>1. closed'[c] = closed[c] /\ running'[c] = running[c] /\ since'[c] = since[c] /\ now' = now
    BY <1>10 DEF Switch, TypeOK
  <2> QED
    BY <1>9, <2>1
<1> QED
  BY <1>3, <1>7, <1>8, <1>9, <1>10 DEF TraceStep

\* The events of the log stay where they are and keep their tasks.
LEMMA RecordKept ==
  ASSUME TypeOK, TypeOK', SegmentsOrdered, TraceStep, NEW e \in Event, Covered(core_segs, e)
  PROVE  Covered(core_segs', e) /\ Record(core_segs', e) = Record(core_segs, e)
<1> DEFINE S == core_segs[e.core]
<1>1. e.core \in Cores /\ e.time \in Nat
  BY DEF Event
<1>2. S \in Seq(Segment) /\ S' \in Seq(Segment) /\ Longer(S, S') /\ InTurn(S')
  BY <1>1, SegmentsGrow
<1>3. InTurn(S)
  BY <1>1 DEF SegmentsOrdered
<1>4. PICK i \in DOMAIN S : Covers(S, i, e.time)
  BY DEF Covered
<1> HIDE DEF S
<1>5. Covers(S', i, e.time) /\ S'[i].task = S[i].task
  BY <1>1, <1>2, <1>4, LongerCovers
<1>6. _task_mk_at(S, e.time) = S[i].task /\ _task_mk_at(S', e.time) = S'[i].task
  BY <1>1, <1>2, <1>3, <1>4, <1>5, Attributed
<1>7. Covered(core_segs', e)
  BY <1>5 DEF Covered, Covers, S
<1> QED
  BY <1>5, <1>6, <1>7 DEF Record, S

\* An event of now is one of the task that runs on its core.
LEMMA RecordNow ==
  ASSUME TypeOK, SegmentsOrdered, NEW c \in Cores, Separate(c), NEW a \in Actions
  PROVE  LET e == [time |-> now, core |-> c, action |-> a] IN
         /\ Covered(core_segs, e)
         /\ Record(core_segs, e) = [time |-> now, core |-> c, action |-> a, task |-> running[c]]
<1> DEFINE S == core_segs[c]
           n == Len(closed[c])
<1>1. S \in Seq(Segment) /\ n + 1 \in DOMAIN S
      /\ S[n + 1] = [task |-> running[c], start |-> since[c], end |-> now]
  <2>1. closed[c] \in Seq(Segment)
    BY DEF TypeOK
  <2>2. [task |-> running[c], start |-> since[c], end |-> now] \in Segment
    BY DEF TypeOK, Segment
  <2> QED
    BY <2>1, <2>2 DEF core_segs
<1>2. InTurn(S) /\ now \in Nat
  BY DEF SegmentsOrdered, TypeOK
<1>3. Covers(S, n + 1, now)
  BY <1>1, <1>2 DEF Covers, Separate
<1>4. _task_mk_at(S, now) = running[c]
  <2>1. _task_mk_at(S, now) = S[n + 1].task
    <3> HIDE DEF S, n
    <3> QED
      BY <1>1, <1>2, <1>3, Attributed
  <2> QED
    BY <1>1, <2>1
<1>5. \E i \in DOMAIN core_segs[c] : Covers(core_segs[c], i, now)
  BY <1>1, <1>3
<1> QED
  BY <1>4, <1>5 DEF Covered, Record
------------------------------------------------------------------------------
(* What a hook adds to the log *)

Ev(c, a) == [time |-> now, core |-> c, action |-> a]

\* A hook appends its event to the log of its object.
LEMMA HookedOne ==
  ASSUME TypeOK, NEW c \in Cores, NEW o \in Objects, NEW a \in Actions, Hooked(c, o, <<a>>)
  PROVE  /\ Separate(c) /\ InRankOrder(o, a)
         /\ UNCHANGED <<now, running, since, closed, kind>>
         /\ Ev(c, a) \in Event
         /\ log' = [log EXCEPT ![o] = Append(@, Ev(c, a))]
<1>1. log \in [Objects -> Seq(Event)] /\ Ev(c, a) \in Event
  BY DEF TypeOK, Event, Ev
<1>2. [i \in DOMAIN <<a>> |-> [time |-> now, core |-> c, action |-> <<a>>[i]]] = <<Ev(c, a)>>
  BY DEF Ev
<1>3. log[o] \o <<Ev(c, a)>> = Append(log[o], Ev(c, a))
  BY <1>1
<1> QED
  BY <1>1, <1>2, <1>3 DEF Hooked

\* A new mutex leaves two events: its creation and the give of the kernel.
LEMMA HookedTwo ==
  ASSUME TypeOK, NEW c \in Cores, NEW o \in Objects, Hooked(c, o, <<"create", "give">>)
  PROVE  /\ Separate(c) /\ InRankOrder(o, "create")
         /\ UNCHANGED <<now, running, since, closed, kind>>
         /\ Ev(c, "create") \in Event /\ Ev(c, "give") \in Event
         /\ log' = [log EXCEPT ![o] = Append(Append(@, Ev(c, "create")), Ev(c, "give"))]
<1>1. /\ log \in [Objects -> Seq(Event)]
      /\ Ev(c, "create") \in Event /\ Ev(c, "give") \in Event
  BY DEF TypeOK, Event, Ev, Actions
<1> DEFINE acts == <<"create", "give">>
<1>2. [i \in DOMAIN acts |-> [time |-> now, core |-> c, action |-> acts[i]]] =
        <<Ev(c, "create"), Ev(c, "give")>>
  BY DEF Ev
<1>3. log[o] \o <<Ev(c, "create"), Ev(c, "give")>> =
        Append(Append(log[o], Ev(c, "create")), Ev(c, "give"))
  BY <1>1
<1>4. acts[1] = "create"
  OBVIOUS
<1> QED
  BY <1>1, <1>2, <1>3, <1>4, Zenon DEF Hooked

\* A hook of its own, and the two of a new mutex.
LEMMA HookedAny ==
  ASSUME TypeOK, NEW c \in Cores, NEW o \in Objects, NEW acts,
         \/ acts \in {<<a>> : a \in Actions}
         \/ acts = <<"create", "give">>,
         Hooked(c, o, acts)
  PROVE  /\ Separate(c)
         /\ UNCHANGED <<now, running, since, closed, kind>>
         /\ log' \in [Objects -> Seq(Event)]
         /\ running[c] \in Tasks
<1>1. log \in [Objects -> Seq(Event)]
  BY DEF TypeOK
<1>2. /\ Separate(c)
      /\ UNCHANGED <<now, running, since, closed, kind>>
      /\ log' \in [Objects -> Seq(Event)]
  <2>1. ASSUME NEW a \in Actions, acts = <<a>>
        PROVE  /\ Separate(c)
               /\ UNCHANGED <<now, running, since, closed, kind>>
               /\ log' \in [Objects -> Seq(Event)]
    BY <1>1, <2>1, HookedOne
  <2>2. ASSUME acts = <<"create", "give">>
        PROVE  /\ Separate(c)
               /\ UNCHANGED <<now, running, since, closed, kind>>
               /\ log' \in [Objects -> Seq(Event)]
    <3>1. Hooked(c, o, <<"create", "give">>)
      BY <2>2
    <3>2. /\ Separate(c)
          /\ UNCHANGED <<now, running, since, closed, kind>>
          /\ Ev(c, "create") \in Event /\ Ev(c, "give") \in Event
          /\ log' = [log EXCEPT ![o] = Append(Append(@, Ev(c, "create")), Ev(c, "give"))]
      BY <3>1, HookedTwo
    <3>3. Append(Append(log[o], Ev(c, "create")), Ev(c, "give")) \in Seq(Event)
      BY <1>1, <3>2
    <3> QED
      BY <1>1, <3>2, <3>3
  <2> QED
    BY <2>1, <2>2
<1>3. running[c] \in Tasks
  BY <1>2 DEF Separate, TypeOK, Someone
<1> QED
  BY <1>2, <1>3

\* The types of the first states.
LEMMA TypeInit == Init => TypeOK
<1> SUFFICES ASSUME Init PROVE TypeOK
  OBVIOUS
<1>1. kind \in [Objects -> Kinds]
  BY SyncAssumption DEF Init, Kinds
<1>2. open \in [Objects -> Seq(Entry)]
  <2>1. <<>> \in Seq(Entry)
    OBVIOUS
  <2>2. ASSUME NEW t \in Tasks PROVE <<[time |-> Before, task |-> t]>> \in Seq(Entry)
    <3>1. [time |-> Before, task |-> t] \in Entry
      BY DEF Entry, Before
    <3> QED
      BY <3>1
  <2> DEFINE Opens == {<<>>} \cup {<<[time |-> Before, task |-> t]>> : t \in Tasks}
  <2>3. Opens \subseteq Seq(Entry)
    BY <2>1, <2>2
  <2>4. open \in [Objects -> Opens]
    BY DEF Init
  <2> HIDE DEF Opens
  <2> QED
    BY <2>3, <2>4
<1>3. /\ initial \in [Objects -> Nat] /\ count \in [Objects -> Nat]
      /\ older \in [Objects -> Nat]
  BY SyncAssumption DEF Init
<1>4. log \in [Objects -> Seq(Event)] /\ real \in [Objects -> Seq(Hold)]
      /\ closed \in [Cores -> Seq(Segment)]
  <2>1. /\ log = [o \in Objects |-> <<>>] /\ real = [o \in Objects |-> <<>>]
        /\ closed = [c \in Cores |-> <<>>]
    BY DEF Init
  <2> QED
    BY <2>1
<1>5. /\ now \in Nat /\ running \in [Cores -> Someone] /\ since \in [Cores -> Nat]
      /\ present \in [Objects -> BOOLEAN] /\ shifted \subseteq Objects
      /\ orphaned \subseteq Objects /\ heldDeleted \subseteq Objects
  BY DEF Init, Someone
<1> QED
  BY <1>1, <1>2, <1>3, <1>4, <1>5 DEF TypeOK

\* The types of every later state.
LEMMA TypeStep ==
  ASSUME TypeOK, Next
  PROVE  TypeOK'
<1>1. /\ now \in Nat /\ running \in [Cores -> Someone]
      /\ since \in [Cores -> Nat] /\ closed \in [Cores -> Seq(Segment)]
      /\ kind \in [Objects -> Kinds] /\ present \in [Objects -> BOOLEAN]
      /\ count \in [Objects -> Nat] /\ initial \in [Objects -> Nat]
      /\ older \in [Objects -> Nat]
      /\ open \in [Objects -> Seq(Entry)] /\ real \in [Objects -> Seq(Hold)]
      /\ shifted \subseteq Objects
      /\ orphaned \subseteq Objects /\ heldDeleted \subseteq Objects
      /\ log \in [Objects -> Seq(Event)]
  BY DEF TypeOK
<1> DEFINE SystemOK ==
              /\ present \in [Objects -> BOOLEAN]
              /\ count \in [Objects -> Nat] /\ initial \in [Objects -> Nat]
              /\ older \in [Objects -> Nat] /\ open \in [Objects -> Seq(Entry)]
              /\ real \in [Objects -> Seq(Hold)]
              /\ shifted \subseteq Objects
              /\ orphaned \subseteq Objects /\ heldDeleted \subseteq Objects
<1>2. ASSUME NEW c \in Cores, NEW o \in Objects, NEW acts,
             \/ acts \in {<<a>> : a \in Actions}
             \/ acts = <<"create", "give">>,
             Hooked(c, o, acts), SystemOK'
      PROVE  TypeOK'
  <2>1. /\ UNCHANGED <<now, running, since, closed, kind>>
        /\ log' \in [Objects -> Seq(Event)]
    BY <1>2, HookedAny
  <2> QED
    BY <1>1, <1>2, <2>1 DEF TypeOK
<1>3. ASSUME NEW c \in Cores, NEW o \in Objects, NEW a \in Actions,
             Hooked(c, o, <<a>>), SystemOK'
      PROVE  TypeOK'
  <2> HIDE DEF SystemOK
  <2> QED
    BY <1>2, <1>3
<1>4. ASSUME NEW c \in Cores, Separate(c)
      PROVE  Held(c) \in Entry /\ running[c] \in Tasks
  BY <1>1, <1>4 DEF Held, Entry, Separate, Someone
<1>5. ASSUME NEW c \in Cores, NEW o \in Objects, NEW a \in Actions, Hooked(c, o, <<a>>)
      PROVE  Held(c) \in Entry /\ running[c] \in Tasks
  BY <1>4, <1>5, HookedOne
<1>6. ASSUME NEW o \in Objects, NEW r \in Entry, Over(o, r)
      PROVE  real' \in [Objects -> Seq(Hold)]
  <2>1. [start |-> r.time, stop |-> now, holder |-> r.task] \in Hold
    BY <1>1 DEF Hold, Someone, Entry
  <2> DEFINE h == [start |-> r.time, stop |-> now, holder |-> r.task]
  <2>2. real' = [real EXCEPT ![o] = Append(@, h)]
    BY <1>6 DEF Over
  <2>3. Append(real[o], h) \in Seq(Hold)
    <3> HIDE DEF h
    <3> QED
      BY <1>1, <2>1 DEF h
  <2> HIDE DEF h
  <2> QED
    BY <1>1, <2>2, <2>3
<1>7. CASE Advance
  BY <1>1, <1>7 DEF Advance, system, TypeOK
<1>8. ASSUME NEW c \in Cores, NEW t \in Tasks \cup {Nobody}, Switch(c, t) PROVE TypeOK'
  <2> DEFINE s == [task |-> running[c], start |-> since[c], end |-> now]
  <2>1. s \in Segment
    BY <1>1 DEF Segment
  <2>2. closed' = [closed EXCEPT ![c] = Append(@, s)]
    BY <1>8 DEF Switch
  <2>3. Append(closed[c], s) \in Seq(Segment)
    <3> HIDE DEF s
    <3> QED
      BY <1>1, <2>1
  <2>4. closed' \in [Cores -> Seq(Segment)]
    <3> HIDE DEF s
    <3> QED
      BY <1>1, <2>2, <2>3
  <2> QED
    BY <1>1, <1>8, <2>4 DEF Switch, system, TypeOK, Someone
<1>9. ASSUME NEW c \in Cores, NEW o \in Objects, CreateObject(c, o) PROVE TypeOK'
  <2>1. PICK n \in IF kind[o] = "sem" THEN 0..Capacity ELSE {0} :
            count' = [count EXCEPT ![o] = n] /\ initial' = [initial EXCEPT ![o] = n]
    BY <1>9 DEF CreateObject
  <2>2. n \in Nat
    BY <2>1, SyncAssumption
  <2>3. SystemOK'
    BY <1>1, <1>9, <2>1, <2>2 DEF CreateObject
  <2>4. PICK acts : /\ Hooked(c, o, acts)
                    /\ acts \in {<<"create">>, <<"create", "give">>}
    BY <1>9 DEF CreateObject
  <2>5. \/ acts \in {<<a>> : a \in Actions}
        \/ acts = <<"create", "give">>
    BY <2>4 DEF Actions
  <2> HIDE DEF SystemOK
  <2> QED
    BY <1>2, <2>3, <2>4, <2>5
<1>10. ASSUME NEW c \in Cores, NEW o \in Objects, DeleteObject(c, o) PROVE TypeOK'
  <2>1. SystemOK'
    BY <1>1, <1>10 DEF DeleteObject
  <2>2. Hooked(c, o, <<"delete">>) /\ "delete" \in Actions
    BY <1>10 DEF DeleteObject, Actions
  <2> HIDE DEF SystemOK
  <2> QED
    BY <1>3, <2>1, <2>2
<1>11. ASSUME NEW c \in Cores, NEW o \in Objects, TakeMutex(c, o) PROVE TypeOK'
  <2>2. Hooked(c, o, <<"take">>) /\ "take" \in Actions
    BY <1>11 DEF TakeMutex, Actions
  <2>3. Held(c) \in Entry
    BY <1>5, <2>2
  <2>1. SystemOK'
    BY <1>1, <1>11, <2>3 DEF TakeMutex
  <2> HIDE DEF SystemOK
  <2> QED
    BY <1>3, <2>1, <2>2
<1>12. ASSUME NEW c \in Cores, NEW o \in Objects, GiveMutex(c, o) PROVE TypeOK'
  <2>2. Hooked(c, o, <<"give">>) /\ "give" \in Actions
    BY <1>12 DEF GiveMutex, Actions
  <2>3. open[o][1] \in Entry
    BY <1>1, <1>12 DEF GiveMutex
  <2>4. real' \in [Objects -> Seq(Hold)]
    BY <1>1, <1>6, <1>12, <2>3 DEF GiveMutex
  <2>5. orphaned' \in {orphaned, orphaned \cup {o}}
    BY <1>12 DEF GiveMutex
  <2>6. open' \in [Objects -> Seq(Entry)] /\ UNCHANGED <<present, count, initial, older, shifted, heldDeleted>>
    BY <1>1, <1>12 DEF GiveMutex
  <2>1. SystemOK'
    BY <1>1, <2>4, <2>5, <2>6
  <2> HIDE DEF SystemOK
  <2> QED
    BY <1>3, <2>1, <2>2
<1>13. ASSUME NEW c \in Cores, NEW o \in Objects, TakeSem(c, o) PROVE TypeOK'
  <2>2. Hooked(c, o, <<"take">>) /\ "take" \in Actions
    BY <1>13 DEF TakeSem, Actions
  <2>1. SystemOK'
    BY <1>1, <1>13 DEF TakeSem
  <2> HIDE DEF SystemOK
  <2> QED
    BY <1>3, <2>1, <2>2
<1>14. ASSUME NEW c \in Cores, NEW o \in Objects, GiveSem(c, o) PROVE TypeOK'
  <2>2. Hooked(c, o, <<"give">>) /\ "give" \in Actions
    BY <1>14 DEF GiveSem, Actions
  <2>1. SystemOK'
    BY <1>1, <1>14 DEF GiveSem
  <2> HIDE DEF SystemOK
  <2> QED
    BY <1>3, <2>1, <2>2
<1>15. ASSUME NEW c \in Cores, NEW o \in Objects, Send(c, o) PROVE TypeOK'
  <2>2. Hooked(c, o, <<"send">>) /\ "send" \in Actions
    BY <1>15 DEF Send, Actions
  <2>3. Held(c) \in Entry
    BY <1>5, <2>2
  <2>1. SystemOK'
    BY <1>1, <1>15, <2>3 DEF Send
  <2> HIDE DEF SystemOK
  <2> QED
    BY <1>3, <2>1, <2>2
<1>16. ASSUME NEW c \in Cores, NEW o \in Objects, Receive(c, o) PROVE TypeOK'
  <2>2. Hooked(c, o, <<"recv">>) /\ "recv" \in Actions
    BY <1>16 DEF Receive, Actions
  <2>3. ASSUME older[o] > 0 PROVE SystemOK'
    <3>1. /\ older' = [older EXCEPT ![o] = @ - 1]
          /\ shifted' = shifted \cup {p \in {o} : open[p] # <<>>}
          /\ UNCHANGED <<present, count, initial, open, real, orphaned, heldDeleted>>
      BY <1>16, <2>3 DEF Receive
    <3>2. older[o] - 1 \in Nat
      BY <1>1, <2>3
    <3>3. older' \in [Objects -> Nat]
      BY <1>1, <3>1, <3>2
    <3>4. shifted' \subseteq Objects
      BY <1>1, <3>1
    <3> QED
      BY <1>1, <3>1, <3>3, <3>4
  <2>4. ASSUME ~(older[o] > 0) PROVE SystemOK'
    <3>1. Head(open[o]) \in Entry /\ Tail(open[o]) \in Seq(Entry)
      BY <1>1, <1>16, <2>4 DEF Receive
    <3>2. real' \in [Objects -> Seq(Hold)]
      BY <1>6, <1>16, <2>4, <3>1 DEF Receive
    <3> QED
      BY <1>1, <1>16, <2>4, <3>1, <3>2 DEF Receive
  <2>1. SystemOK'
    BY <2>3, <2>4
  <2> HIDE DEF SystemOK
  <2> QED
    BY <1>3, <2>1, <2>2
<1>17. ASSUME NEW c \in Cores, NEW o \in Objects, IntervalStart(c, o) PROVE TypeOK'
  <2>2. Hooked(c, o, <<"start">>) /\ "start" \in Actions
    BY <1>17 DEF IntervalStart, Actions
  <2>3. Held(c) \in Entry
    BY <1>5, <2>2
  <2>1. SystemOK'
    BY <1>1, <1>17, <2>3 DEF IntervalStart
  <2> HIDE DEF SystemOK
  <2> QED
    BY <1>3, <2>1, <2>2
<1>18. ASSUME NEW c \in Cores, NEW o \in Objects, IntervalStop(c, o) PROVE TypeOK'
  <2>2. Hooked(c, o, <<"stop">>) /\ "stop" \in Actions
    BY <1>18 DEF IntervalStop, Actions
  <2>3. ASSUME open[o] # <<>> PROVE SystemOK'
    <3>1. Last(open[o]) \in Entry /\ Front(open[o]) \in Seq(Entry)
      BY <1>1, <2>3 DEF Last, Front
    <3>2. real' \in [Objects -> Seq(Hold)]
      BY <1>1, <1>6, <1>18, <2>3, <3>1 DEF IntervalStop
    <3> QED
      BY <1>1, <1>18, <2>3, <3>1, <3>2 DEF IntervalStop
  <2>4. ASSUME open[o] = <<>> PROVE SystemOK'
    <3>1. /\ older' = [older EXCEPT ![o] = @ - 1] /\ older[o] > 0
          /\ UNCHANGED <<present, count, initial, open, real, shifted, orphaned, heldDeleted>>
      BY <1>18, <2>4 DEF IntervalStop
    <3>2. older[o] - 1 \in Nat
      BY <1>1, <3>1
    <3>3. older' \in [Objects -> Nat]
      BY <1>1, <3>1, <3>2
    <3> QED
      BY <1>1, <3>1, <3>3
  <2>1. SystemOK'
    BY <2>3, <2>4
  <2> HIDE DEF SystemOK
  <2> QED
    BY <1>3, <2>1, <2>2
<1> QED
  BY <1>7, <1>8, <1>9, <1>10, <1>11, <1>12, <1>13, <1>14, <1>15, <1>16, <1>17, <1>18 DEF Next

\* One more event, not earlier than those before it.
LEMMA OrderKept ==
  ASSUME NEW evs \in Seq(Event), InFileOrder(evs), NEW e \in Event,
         \A i \in DOMAIN evs :
            /\ evs[i].time <= e.time
            /\ evs[i].time = e.time => Rank[evs[i].action] <= Rank[e.action]
  PROVE  InFileOrder(Append(evs, e))
<1> DEFINE more == Append(evs, e)
           n == Len(evs)
<1>1. /\ n \in Nat /\ DOMAIN evs = 1..n /\ DOMAIN more = 1..n + 1
      /\ more[n + 1] = e /\ \A i \in 1..n : more[i] = evs[i]
  OBVIOUS
<1>2. \A i \in 1..n : evs[i].time \in Nat
  <2>1. \A i \in 1..n : evs[i] \in Event
    BY <1>1
  <2> QED
    BY <2>1 DEF Event
<1>3. e.time \in Nat
  BY DEF Event
<1>4. ASSUME NEW i \in DOMAIN more, NEW j \in DOMAIN more, i < j
      PROVE  \/ more[i].time < more[j].time
             \/ more[i].time = more[j].time /\ Rank[more[i].action] <= Rank[more[j].action]
  <2> HIDE DEF more
  <2>1. i \in 1..n
    BY <1>1, <1>4
  <2>2. CASE j \in 1..n
    BY <1>1, <1>4, <2>1, <2>2 DEF InFileOrder
  <2>3. CASE j = n + 1
    BY <1>1, <1>2, <1>3, <2>1, <2>3
  <2> QED
    BY <1>1, <2>2, <2>3
<1> QED
  BY <1>4 DEF InFileOrder

\* An event of now that can be attributed keeps the log in file order.
LEMMA KnownAppend ==
  ASSUME NEW segs, NEW t \in Nat, NEW evs \in Seq(Event), Known(segs, evs, t),
         NEW e \in Event, e.time = t, Covered(segs, e),
         \A i \in DOMAIN evs :
            evs[i].time = t => Rank[evs[i].action] <= Rank[e.action]
  PROVE  Known(segs, Append(evs, e), t)
<1>1. InFileOrder(Append(evs, e))
  BY OrderKept DEF Known
<1>2. ASSUME NEW i \in DOMAIN Append(evs, e)
      PROVE  Append(evs, e)[i].time <= t /\ Covered(segs, Append(evs, e)[i])
  <2>1. CASE i \in DOMAIN evs
    <3>1. Append(evs, e)[i] = evs[i]
      BY <2>1
    <3> QED
      BY <2>1, <3>1 DEF Known
  <2>2. CASE i = Len(evs) + 1
    <3>1. Append(evs, e)[i] = e
      BY <2>2
    <3> QED
      BY <3>1
  <2> QED
    BY <2>1, <2>2
<1> QED
  BY <1>1, <1>2 DEF Known

\* The events of an object as the parser sees them.
RecordsOf(segs, evs) == [i \in DOMAIN evs |-> Record(segs, evs[i])]

\* One more event is one more record, and the others are as they were.
LEMMA RecordsAppend ==
  ASSUME NEW segs, NEW evs \in Seq(Event), NEW e \in Event
  PROVE  /\ RecordsOf(segs, Append(evs, e)) = Append(RecordsOf(segs, evs), Record(segs, e))
         /\ RecordsOf(segs, evs) \in Seq({Record(segs, f) : f \in Event})
         /\ Record(segs, e) \in {Record(segs, f) : f \in Event}
<1> DEFINE R == {Record(segs, f) : f \in Event}
           old == RecordsOf(segs, evs)
           new == RecordsOf(segs, Append(evs, e))
           n == Len(evs)
<1>1. /\ n \in Nat /\ DOMAIN evs = 1..n /\ DOMAIN Append(evs, e) = 1..n + 1
      /\ Append(evs, e)[n + 1] = e /\ \A i \in 1..n : Append(evs, e)[i] = evs[i]
      /\ \A i \in 1..n : evs[i] \in Event
  OBVIOUS
<1>2. /\ old = [i \in 1..n |-> Record(segs, evs[i])]
      /\ new = [i \in 1..n + 1 |-> Record(segs, Append(evs, e)[i])]
  BY <1>1 DEF RecordsOf
<1>3. old \in Seq(R)
  BY <1>1, <1>2
<1>4. Record(segs, e) \in R
  OBVIOUS
<1>5. new = Append(old, Record(segs, e))
  <2>1. /\ Append(old, Record(segs, e)) \in Seq(R)
        /\ Len(old) = n
        /\ DOMAIN Append(old, Record(segs, e)) = 1..n + 1
        /\ Append(old, Record(segs, e))[n + 1] = Record(segs, e)
        /\ \A i \in 1..n : Append(old, Record(segs, e))[i] = old[i]
    <3>1. Len(old) = n
      BY <1>1, <1>2
    <3> HIDE DEF old, R
    <3> QED
      BY <1>1, <1>3, <1>4, <3>1
  <2>2. \A i \in 1..n : old[i] = Record(segs, evs[i])
    BY <1>2
  <2>3. Append(old, Record(segs, e)) =
            [i \in 1..n + 1 |-> Append(old, Record(segs, e))[i]]
    <3> DEFINE x == Append(old, Record(segs, e))
    <3>1. x \in Seq(R) /\ DOMAIN x = 1..n + 1
      BY <2>1
    <3> HIDE DEF x, R
    <3>2. x \in [1..Len(x) -> R] /\ DOMAIN x = 1..Len(x)
      BY <3>1
    <3>3. x = [i \in DOMAIN x |-> x[i]]
      BY <3>2
    <3>4. x = [i \in 1..n + 1 |-> x[i]]
      BY <3>1, <3>3
    <3> QED
      BY <3>4 DEF x
  <2>4. \A i \in 1..n + 1 :
            Append(old, Record(segs, e))[i] = Record(segs, Append(evs, e)[i])
    <3> HIDE DEF old, R
    <3> QED
      BY <1>1, <2>1, <2>2
  <2> HIDE DEF old, new
  <2> QED
    BY <1>2, <2>3, <2>4
<1> QED
  BY <1>3, <1>4, <1>5

\* Events already known are read as before.
LEMMA RecordsStay ==
  ASSUME TypeOK, TypeOK', SegmentsOrdered, TraceStep,
         NEW evs \in Seq(Event), Known(core_segs, evs, now)
  PROVE  /\ RecordsOf(core_segs', evs) = RecordsOf(core_segs, evs)
         /\ Known(core_segs', evs, now')
<1>1. \A i \in DOMAIN evs : evs[i] \in Event /\ evs[i].time \in Nat
  <2>1. \A i \in DOMAIN evs : evs[i] \in Event
    OBVIOUS
  <2> QED
    BY <2>1 DEF Event
<1>2. \A i \in DOMAIN evs : /\ Covered(core_segs', evs[i])
                            /\ Record(core_segs', evs[i]) = Record(core_segs, evs[i])
  BY <1>1, RecordKept DEF Known
<1>3. now \in Nat /\ now' \in Nat /\ now <= now'
  <2>1. now \in Nat /\ now' \in Nat
    BY DEF TypeOK
  <2>2. now' \in {now, now + 1}
    BY DEF TraceStep, Advance, Switch
  <2> QED
    BY <2>1, <2>2
<1> QED
  BY <1>1, <1>2, <1>3 DEF Known, RecordsOf

\* The sort in front of the loop changes nothing in a log in file order.
LEMMA RecordsAre ==
  ASSUME NEW evs \in Seq(Event), NEW segs, InFileOrder(evs)
  PROVE  [i \in DOMAIN InOrder(evs) |-> Record(segs, InOrder(evs)[i])] = RecordsOf(segs, evs)
  BY SortKeepsOrder DEF RecordsOf

\* An object without a new event looks as it did.
LEMMA ParsedStays ==
  ASSUME TypeOK, TypeOK', SegmentsOrdered, LogInv, TraceStep, kind' = kind,
         NEW o \in Objects, log'[o] = log[o]
  PROVE  /\ Parsed(o)' = Parsed(o) /\ Intervals(o)' = Intervals(o)
         /\ Known(core_segs', log'[o], now')
<1>1. log[o] \in Seq(Event) /\ Known(core_segs, log[o], now)
  BY DEF TypeOK, LogInv
<1>2. Records(o) = RecordsOf(core_segs, log[o])
  BY <1>1, RecordsAre DEF Records, Known
<1>3. Records(o)' = RecordsOf(core_segs', log[o])
  <2>1. Records(o)' = [i \in DOMAIN InOrder(log[o]) |-> Record(core_segs', InOrder(log[o])[i])]
    BY DEF Records
  <2> QED
    BY <1>1, <2>1, RecordsAre DEF Known
<1>4. Records(o)' = Records(o) /\ Known(core_segs', log'[o], now')
  BY <1>1, <1>2, <1>3, RecordsStay
<1> QED
  BY <1>4 DEF Parsed, Intervals

\* A hook leaves the trace alone but for the log of its object.
LEMMA ParsedGrows ==
  ASSUME TypeOK, TypeOK', SegmentsOrdered, LogInv,
         NEW c \in Cores, NEW o \in Objects, NEW a \in Actions, Hooked(c, o, <<a>>)
  PROVE  /\ Parsed(o)' = OnEvent(Parsed(o), kind[o],
                            [time |-> now, core |-> c, action |-> a, task |-> running[c]])
         /\ Intervals(o)' = OnMarker(Intervals(o), Ev(c, a))
         /\ Known(core_segs', log'[o], now')
         /\ \A p \in Objects \ {o} :
                /\ Parsed(p)' = Parsed(p) /\ Intervals(p)' = Intervals(p)
                /\ Known(core_segs', log'[p], now')
<1>1. /\ Separate(c) /\ InRankOrder(o, a)
      /\ UNCHANGED <<now, running, since, closed, kind>>
      /\ Ev(c, a) \in Event
      /\ log' = [log EXCEPT ![o] = Append(@, Ev(c, a))]
  BY HookedOne
<1>2. log[o] \in Seq(Event) /\ Known(core_segs, log[o], now) /\ now \in Nat
  BY DEF TypeOK, LogInv
<1>3. log'[o] = Append(log[o], Ev(c, a)) /\ \A p \in Objects \ {o} : log'[p] = log[p]
  BY <1>1 DEF TypeOK
<1>4. core_segs' = core_segs
  BY <1>1 DEF core_segs
<1>5. Covered(core_segs, Ev(c, a)) /\
      Record(core_segs, Ev(c, a)) =
            [time |-> now, core |-> c, action |-> a, task |-> running[c]]
  BY <1>1, RecordNow DEF Ev
<1>6. Known(core_segs, Append(log[o], Ev(c, a)), now)
  BY <1>1, <1>2, <1>5, KnownAppend DEF InRankOrder, Ev
<1>7. Records(o) = RecordsOf(core_segs, log[o])
  BY <1>2, RecordsAre DEF Records, Known
<1>8. Records(o)' = RecordsOf(core_segs, Append(log[o], Ev(c, a)))
  <2> DEFINE more == Append(log[o], Ev(c, a))
  <2>1. Records(o)' = [i \in DOMAIN InOrder(more) |-> Record(core_segs, InOrder(more)[i])]
    BY <1>3, <1>4 DEF Records
  <2>2. more \in Seq(Event) /\ InFileOrder(more)
    BY <1>1, <1>2, <1>6 DEF Known
  <2> HIDE DEF more
  <2>3. Records(o)' = RecordsOf(core_segs, more)
    BY <2>1, <2>2, RecordsAre
  <2> QED
    BY <2>3 DEF more
<1>9. Parsed(o)' = OnEvent(Parsed(o), kind[o], Record(core_segs, Ev(c, a)))
  <2>1. /\ Records(o)' = Append(Records(o), Record(core_segs, Ev(c, a)))
        /\ Records(o) \in Seq({Record(core_segs, f) : f \in Event})
        /\ Record(core_segs, Ev(c, a)) \in {Record(core_segs, f) : f \in Event}
    BY <1>1, <1>2, <1>7, <1>8, RecordsAppend
  <2>2. Replayed(kind[o], Append(Records(o), Record(core_segs, Ev(c, a)))) =
            OnEvent(Replayed(kind[o], Records(o)), kind[o], Record(core_segs, Ev(c, a)))
    BY <2>1, ReplayedAppend
  <2> QED
    BY <1>1, <2>1, <2>2 DEF Parsed
<1>10. Intervals(o)' = OnMarker(Intervals(o), Ev(c, a))
  <2>1. InOrder(log[o]) = log[o]
    BY <1>2, SortKeepsOrder DEF Known
  <2>2. InOrder(log'[o]) = log'[o]
    <3>1. log'[o] \in Seq(Event) /\ InFileOrder(log'[o])
      BY <1>1, <1>2, <1>3, <1>6 DEF Known
    <3> QED
      BY <3>1, SortKeepsOrder
  <2>3. Intervals(o)' = Paired(Append(log[o], Ev(c, a)))
    BY <1>3, <2>2 DEF Intervals
  <2> QED
    BY <1>1, <1>2, <2>1, <2>3, PairedAppend DEF Intervals
<1>11. ASSUME NEW p \in Objects \ {o}
       PROVE  /\ Parsed(p)' = Parsed(p) /\ Intervals(p)' = Intervals(p)
              /\ Known(core_segs', log'[p], now')
  BY <1>1, <1>3, ParsedStays DEF TraceStep
<1> QED
  BY <1>1, <1>3, <1>4, <1>5, <1>6, <1>9, <1>10, <1>11
------------------------------------------------------------------------------
(* What each branch of the loop does to an object *)

\* An object that is new, and one whose creation was seen.
LEMMA NewObj ==
  ASSUME NEW t \in Nat
  PROVE  LET x == [_empty_obj EXCEPT !.create_ns = {t}] IN
         /\ _empty_obj \in Obj /\ x \in Obj
         /\ _empty_obj.takes = <<>> /\ _empty_obj.gives = <<>> /\ _empty_obj.holds = <<>>
         /\ _empty_obj.issues = {} /\ _empty_obj.create_ns = {}
         /\ x.takes = <<>> /\ x.gives = <<>> /\ x.holds = <<>> /\ x.issues = {}
         /\ x.create_ns = {t}
<1>1. <<>> \in Seq(Hold) /\ <<>> \in Seq(Rec)
  OBVIOUS
<1> QED
  BY <1>1 DEF _empty_obj, Obj

\* An issue is a report.
LEMMA IssueType ==
  ASSUME NEW rec \in Rec, NEW k \in IssueKinds
  PROVE  Issue(k, rec) \in Report
  BY DEF Issue, Report, Rec

\* A take that is not paired yet.
LEMMA TakeOpens ==
  ASSUME NEW obj \in Obj, NEW rec \in Rec, NEW k, k \notin {"sem", "queue"} \/ obj.gives = <<>>
  PROVE  LET x == OnTake(obj, k, rec) IN
         /\ x \in Obj /\ x.takes = Append(obj.takes, rec) /\ x.gives = obj.gives
         /\ x.holds = obj.holds /\ x.issues = obj.issues /\ x.create_ns = obj.create_ns
<1> DEFINE nest == Len(obj.takes) + 1
           w == IF obj.takes # <<>> /\ rec.task \notin {Nobody, Last(obj.takes).task}
                THEN obj.waiters \cup {rec.task} ELSE obj.waiters
           m == IF nest > obj.max_nest THEN nest ELSE obj.max_nest
           ts == Append(obj.takes, rec)
<1>1. OnTake(obj, k, rec) = [obj EXCEPT !.waiters = w, !.takes = ts, !.max_nest = m]
  BY DEF OnTake
<1>2. w \in SUBSET Someone /\ m \in Nat /\ ts \in Seq(Rec)
  BY DEF Obj, Rec
<1> HIDE DEF w, m, ts
<1>3. /\ [obj EXCEPT !.waiters = w, !.takes = ts, !.max_nest = m] \in Obj
      /\ [obj EXCEPT !.waiters = w, !.takes = ts, !.max_nest = m].takes = ts
  BY <1>2 DEF Obj
<1> QED
  BY <1>1, <1>3 DEF Obj, ts

\* A take that ends the wait of the oldest give.
LEMMA TakePairs ==
  ASSUME NEW obj \in Obj, NEW rec \in Rec, NEW k \in {"sem", "queue"}, obj.gives # <<>>
  PROVE  LET x == OnTake(obj, k, rec) IN
         /\ x \in Obj /\ x.takes = obj.takes /\ x.gives = Tail(obj.gives)
         /\ x.issues = obj.issues /\ x.create_ns = obj.create_ns
         /\ k = "queue" => x.holds = Append(obj.holds,
                [start |-> obj.gives[1].time, stop |-> rec.time, holder |-> obj.gives[1].task])
<1>1. obj.gives \in Seq(Rec) /\ obj.holds \in Seq(Hold) /\ obj.gives[1] \in Rec
      /\ Tail(obj.gives) \in Seq(Rec) /\ Head(obj.gives) = obj.gives[1]
  BY DEF Obj
<1> DEFINE h == IF k = "sem"
                THEN [start |-> obj.gives[1].time, stop |-> rec.time, holder |-> rec.task]
                ELSE [start |-> obj.gives[1].time, stop |-> rec.time, holder |-> obj.gives[1].task]
           gs == Tail(obj.gives)
           hs == Append(obj.holds, h)
<1>2. h \in Hold
  BY <1>1 DEF Rec, Hold
<1>3. OnTake(obj, k, rec) = [obj EXCEPT !.gives = gs, !.holds = hs]
  BY <1>1 DEF OnTake, _record_hold, Obj
<1>4. gs \in Seq(Rec) /\ hs \in Seq(Hold)
  <2> HIDE DEF h
  <2> QED
    BY <1>1, <1>2
<1>5. k = "queue" => hs = Append(obj.holds,
        [start |-> obj.gives[1].time, stop |-> rec.time, holder |-> obj.gives[1].task])
  OBVIOUS
<1> HIDE DEF gs, hs
<1> QED
  BY <1>3, <1>4, <1>5 DEF Obj, gs

\* A give without a take.
LEMMA GiveWaits ==
  ASSUME NEW obj \in Obj, NEW rec \in Rec, NEW k, k # "mutex", k # "sem" \/ obj.takes = <<>>
  PROVE  LET x == OnGive(obj, k, rec) IN
         /\ x \in Obj /\ x.takes = obj.takes /\ x.gives = Append(obj.gives, rec)
         /\ x.holds = obj.holds /\ x.issues = obj.issues /\ x.create_ns = obj.create_ns
<1> DEFINE gs == Append(obj.gives, rec)
<1>1. OnGive(obj, k, rec) = [obj EXCEPT !.gives = gs]
  BY DEF OnGive
<1>2. gs \in Seq(Rec)
  BY DEF Obj
<1> HIDE DEF gs
<1> QED
  BY <1>1, <1>2 DEF Obj, gs

\* A semaphore given back.
LEMMA GivePairs ==
  ASSUME NEW obj \in Obj, NEW rec \in Rec, obj.takes # <<>>
  PROVE  LET x == OnGive(obj, "sem", rec) IN
         /\ x \in Obj /\ x.takes = Tail(obj.takes) /\ x.gives = obj.gives
         /\ x.create_ns = obj.create_ns
<1>1. obj.takes \in Seq(Rec) /\ obj.holds \in Seq(Hold) /\ Head(obj.takes) \in Rec
      /\ Tail(obj.takes) \in Seq(Rec)
  BY DEF Obj
<1> DEFINE h == [start |-> Head(obj.takes).time, stop |-> rec.time, holder |-> Head(obj.takes).task]
           ts == Tail(obj.takes)
           hs == Append(obj.holds, h)
<1>2. h \in Hold
  BY <1>1 DEF Rec, Hold
<1>3. OnGive(obj, "sem", rec) = [obj EXCEPT !.takes = ts, !.holds = hs]
  BY DEF OnGive, _record_hold, Obj
<1>4. ts \in Seq(Rec) /\ hs \in Seq(Hold)
  <2> HIDE DEF h
  <2> QED
    BY <1>1, <1>2
<1> HIDE DEF ts, hs
<1> QED
  BY <1>3, <1>4 DEF Obj, ts

\* A mutex given that nobody took.
LEMMA GiveOrphan ==
  ASSUME NEW obj \in Obj, NEW rec \in Rec, obj.takes = <<>>
  PROVE  LET x == OnGive(obj, "mutex", rec) IN
         /\ x \in Obj /\ x.takes = obj.takes /\ x.gives = obj.gives /\ x.holds = obj.holds
         /\ x.create_ns = obj.create_ns
         /\ x.issues = obj.issues \cup {Issue("orphan_give", rec)}
<1> DEFINE is == obj.issues \cup {Issue("orphan_give", rec)}
<1>1. OnGive(obj, "mutex", rec) = [obj EXCEPT !.issues = is]
  BY DEF OnGive, MutexGive
<1>2. is \in SUBSET Report
  BY IssueType DEF Obj, IssueKinds
<1> HIDE DEF is
<1> QED
  BY <1>1, <1>2 DEF Obj, is

\* A mutex given back by the task that took it.
LEMMA GiveOwn ==
  ASSUME NEW obj \in Obj, NEW rec \in Rec, Len(obj.takes) = 1, obj.takes[1].task = rec.task
  PROVE  LET x == OnGive(obj, "mutex", rec) IN
         /\ x \in Obj /\ x.takes = <<>> /\ x.gives = obj.gives
         /\ x.create_ns = obj.create_ns
         /\ x.holds = Append(obj.holds,
                [start |-> obj.takes[1].time, stop |-> rec.time, holder |-> obj.takes[1].task])
         /\ x.issues \in {obj.issues,
                          obj.issues \cup {Issue("CORE_MIGRATION_WHILE_HELD", rec)}}
<1>1. /\ obj.takes \in Seq(Rec) /\ obj.holds \in Seq(Hold) /\ obj.takes[1] \in Rec
      /\ obj.takes # <<>> /\ Last(obj.takes) = obj.takes[1] /\ Front(obj.takes) = <<>>
  BY DEF Obj, Last, Front
<1> DEFINE h == [start |-> obj.takes[1].time, stop |-> rec.time, holder |-> obj.takes[1].task]
           hs == Append(obj.holds, h)
           moved == IF obj.takes[1].core # rec.core
                    THEN {Issue("CORE_MIGRATION_WHILE_HELD", rec)} ELSE {}
           is == obj.issues \cup {} \cup moved
<1>2. h \in Hold
  BY <1>1 DEF Rec, Hold
<1>3. OnGive(obj, "mutex", rec) = [obj EXCEPT !.takes = <<>>, !.issues = is, !.holds = hs]
  BY <1>1 DEF OnGive, MutexGive, _record_hold, Obj
<1>4. hs \in Seq(Hold) /\ <<>> \in Seq(Rec)
  <2> HIDE DEF h
  <2> QED
    BY <1>1, <1>2
<1>5. is \in SUBSET Report
  BY IssueType DEF Obj, IssueKinds
<1>6. is \in {obj.issues, obj.issues \cup {Issue("CORE_MIGRATION_WHILE_HELD", rec)}}
  OBVIOUS
<1> HIDE DEF is, hs
<1>7. LET x == [obj EXCEPT !.takes = <<>>, !.issues = is, !.holds = hs] IN
      /\ x \in Obj /\ x.takes = <<>> /\ x.gives = obj.gives
      /\ x.create_ns = obj.create_ns /\ x.holds = hs /\ x.issues = is
  BY <1>4, <1>5 DEF Obj
<1> QED
  BY <1>3, <1>6, <1>7 DEF hs

\* An object deleted.
LEMMA DeleteEnds ==
  ASSUME NEW obj \in Obj, NEW rec \in Rec
  PROVE  LET x == OnDelete(obj, rec) IN
         /\ x \in Obj /\ x.takes = <<>> /\ x.gives = <<>>
         /\ x.create_ns = obj.create_ns /\ x.holds = obj.holds
         /\ x.issues = obj.issues \cup
                (IF obj.takes # <<>> THEN {Issue("delete_while_held", rec)} ELSE {})
<1> DEFINE is == obj.issues \cup
                (IF obj.takes # <<>> THEN {Issue("delete_while_held", rec)} ELSE {})
<1>1. OnDelete(obj, rec) = [obj EXCEPT !.issues = is, !.takes = <<>>, !.gives = <<>>]
  BY DEF OnDelete
<1>2. is \in SUBSET Report
  BY IssueType DEF Obj, IssueKinds
<1>3. <<>> \in Seq(Rec)
  OBVIOUS
<1> HIDE DEF is
<1> QED
  BY <1>1, <1>2, <1>3 DEF Obj, is

\* Which branch an event takes.
LEMMA Branches ==
  ASSUME NEW obj, NEW k, NEW rec
  PROVE  /\ rec.action = "create" => OnEvent(obj, k, rec) = [_empty_obj EXCEPT !.create_ns = {rec.time}]
         /\ rec.action \in {"take", "recv"} => OnEvent(obj, k, rec) = OnTake(obj, k, rec)
         /\ rec.action = "send" => OnEvent(obj, k, rec) = OnGive(obj, k, rec)
         /\ rec.action = "give" /\ _is_post_create_kernel_give(obj, rec.time) =>
                OnEvent(obj, k, rec) = obj
         /\ rec.action = "give" /\ ~_is_post_create_kernel_give(obj, rec.time) =>
                OnEvent(obj, k, rec) = OnGive(obj, k, rec)
         /\ rec.action = "delete" => OnEvent(obj, k, rec) = OnDelete(obj, rec)
  BY DEF OnEvent

\* The last give that could be the kernel's own is past.
LEMMA NotTheKernels ==
  ASSUME TypeOK, NEW o \in Objects, NEW obj, CreationLogged(log[o], obj), PastCreation(o)
  PROVE  ~_is_post_create_kernel_give(obj, now)
<1> SUFFICES ASSUME NEW t \in obj.create_ns, now - t <= PostCreateMax PROVE FALSE
  BY DEF _is_post_create_kernel_give
<1>1. PICK i \in DOMAIN log[o] : log[o][i].action = "create" /\ log[o][i].time = t
  BY DEF CreationLogged
<1>2. now - log[o][i].time > PostCreateMax
  BY <1>1 DEF PastCreation
<1>3. log[o][i] \in Event
  BY <1>1 DEF TypeOK
<1>4. now \in Nat /\ t \in Nat /\ PostCreateMax \in Nat
  BY <1>1, <1>3, SyncAssumption DEF TypeOK, Event
<1> QED
  BY <1>1, <1>2, <1>4

\* A creation that is in the log stays there.
LEMMA CreationKept ==
  ASSUME NEW evs \in Seq(Event), NEW e \in Event, NEW obj, NEW x,
         CreationLogged(evs, obj), x.create_ns = obj.create_ns
  PROVE  CreationLogged(Append(evs, e), x)
<1> SUFFICES ASSUME NEW t \in x.create_ns
             PROVE  \E i \in DOMAIN Append(evs, e) :
                        Append(evs, e)[i].action = "create" /\ Append(evs, e)[i].time = t
  BY DEF CreationLogged
<1>1. PICK i \in DOMAIN evs : evs[i].action = "create" /\ evs[i].time = t
  BY DEF CreationLogged
<1>2. i \in DOMAIN Append(evs, e) /\ Append(evs, e)[i] = evs[i]
  BY <1>1
<1> QED
  BY <1>1, <1>2

\* The kernel's give of a new mutex leaves it new.
LEMMA ParsedCreated ==
  ASSUME TypeOK, TypeOK', SegmentsOrdered, LogInv,
         NEW c \in Cores, NEW o \in Objects, Hooked(c, o, <<"create", "give">>)
  PROVE  /\ Parsed(o)' = [_empty_obj EXCEPT !.create_ns = {now}]
         /\ log'[o] = Append(Append(log[o], Ev(c, "create")), Ev(c, "give"))
         /\ Known(core_segs', log'[o], now')
         /\ \A p \in Objects \ {o} :
                /\ Parsed(p)' = Parsed(p) /\ Intervals(p)' = Intervals(p)
                /\ Known(core_segs', log'[p], now')
<1> DEFINE e1 == Ev(c, "create")
           e2 == Ev(c, "give")
           one == Append(log[o], e1)
           two == Append(one, e2)
<1>1. /\ Separate(c) /\ InRankOrder(o, "create")
      /\ UNCHANGED <<now, running, since, closed, kind>>
      /\ e1 \in Event /\ e2 \in Event
      /\ log' = [log EXCEPT ![o] = Append(Append(@, e1), e2)]
  BY HookedTwo
<1>2. log[o] \in Seq(Event) /\ Known(core_segs, log[o], now) /\ now \in Nat
  BY DEF TypeOK, LogInv
<1>3. log'[o] = two /\ \A p \in Objects \ {o} : log'[p] = log[p]
  BY <1>1 DEF TypeOK
<1>4. core_segs' = core_segs
  BY <1>1 DEF core_segs
<1>5. Covered(core_segs, e1) /\ Covered(core_segs, e2)
  <2>1. "create" \in Actions /\ "give" \in Actions
    BY DEF Actions
  <2> QED
    BY <1>1, <2>1, RecordNow DEF Ev
<1>6. Known(core_segs, one, now)
  BY <1>1, <1>2, <1>5, KnownAppend DEF InRankOrder, Ev
<1>7. \A i \in DOMAIN one : one[i].time = now => Rank[one[i].action] <= Rank["give"]
  <2> SUFFICES ASSUME NEW i \in DOMAIN one, one[i].time = now
               PROVE  Rank[one[i].action] <= Rank["give"]
    OBVIOUS
  <2>1. Rank["create"] = 1 /\ Rank["give"] = 3
    BY DEF Rank
  <2>2. CASE i \in DOMAIN log[o]
    <3>1. one[i] = log[o][i] /\ log[o][i] \in Event
      BY <1>2, <2>2
    <3>2. Rank[log[o][i].action] <= Rank["create"]
      BY <2>2, <3>1, <1>1 DEF InRankOrder
    <3>3. Rank[log[o][i].action] \in Nat
      BY <3>1, RankType DEF Event
    <3> QED
      BY <2>1, <3>1, <3>2, <3>3
  <2>3. CASE i = Len(log[o]) + 1
    <3>1. one[i] = e1
      BY <1>1, <1>2, <2>3
    <3> QED
      BY <2>1, <3>1 DEF Ev
  <2> QED
    BY <1>1, <1>2, <2>2, <2>3
<1>8. one \in Seq(Event) /\ two \in Seq(Event)
  <2>1. one \in Seq(Event)
    BY <1>1, <1>2
  <2> HIDE DEF one
  <2> QED
    BY <1>1, <2>1
<1>9. Known(core_segs, two, now)
  <2>1. e2.time = now /\ e2.action = "give"
    BY DEF Ev
  <2> HIDE DEF one, e2
  <2> QED
    BY <1>1, <1>2, <1>5, <1>6, <1>7, <1>8, <2>1, KnownAppend
<1>10. Records(o) = RecordsOf(core_segs, log[o])
  BY <1>2, RecordsAre DEF Records, Known
<1>11. Records(o)' = RecordsOf(core_segs, two)
  <2>1. Records(o)' = [i \in DOMAIN InOrder(two) |-> Record(core_segs, InOrder(two)[i])]
    BY <1>3, <1>4 DEF Records
  <2> HIDE DEF two
  <2> QED
    BY <1>8, <1>9, <2>1, RecordsAre DEF Known
<1> DEFINE r1 == Record(core_segs, e1)
           r2 == Record(core_segs, e2)
           R == {Record(core_segs, f) : f \in Event}
<1>12. Records(o)' = Append(Append(Records(o), r1), r2) /\ r1 \in R /\ r2 \in R
       /\ Records(o) \in Seq(R) /\ Append(Records(o), r1) \in Seq(R)
  <2>1. /\ RecordsOf(core_segs, one) = Append(Records(o), r1)
        /\ Records(o) \in Seq(R) /\ r1 \in R
    BY <1>1, <1>2, <1>10, RecordsAppend
  <2>2. /\ RecordsOf(core_segs, two) = Append(RecordsOf(core_segs, one), r2)
        /\ r2 \in R /\ RecordsOf(core_segs, one) \in Seq(R)
    <3> HIDE DEF one
    <3> QED
      BY <1>1, <1>8, RecordsAppend
  <2> QED
    BY <1>11, <2>1, <2>2
<1>13. /\ r1.action = "create" /\ r1.time = now /\ r2.action = "give" /\ r2.time = now
  BY DEF Record, Ev
<1>14. Parsed(o)' = OnEvent(OnEvent(Parsed(o), kind[o], r1), kind[o], r2)
  <2> HIDE DEF r1, r2, R
  <2>1. Replayed(kind[o], Append(Append(Records(o), r1), r2)) =
            OnEvent(Replayed(kind[o], Append(Records(o), r1)), kind[o], r2)
    BY <1>12, ReplayedAppend
  <2>2. Replayed(kind[o], Append(Records(o), r1)) =
            OnEvent(Replayed(kind[o], Records(o)), kind[o], r1)
    BY <1>12, ReplayedAppend
  <2> QED
    BY <1>1, <1>12, <2>1, <2>2 DEF Parsed
<1> DEFINE new == [_empty_obj EXCEPT !.create_ns = {now}]
<1>15. OnEvent(Parsed(o), kind[o], r1) = new
  BY <1>13, Branches
<1>16. _is_post_create_kernel_give(new, now)
  <2>1. new.create_ns = {now}
    BY <1>2, NewObj
  <2>2. PostCreateMax \in Nat /\ now - now = 0
    BY <1>2, SyncAssumption
  <2> HIDE DEF new
  <2> QED
    BY <2>1, <2>2 DEF _is_post_create_kernel_give
<1>17. OnEvent(new, kind[o], r2) = new
  <2> HIDE DEF new, r2
  <2> QED
    BY <1>13, <1>16, Branches
<1>18. ASSUME NEW p \in Objects \ {o}
       PROVE  /\ Parsed(p)' = Parsed(p) /\ Intervals(p)' = Intervals(p)
              /\ Known(core_segs', log'[p], now')
  BY <1>1, <1>3, ParsedStays DEF TraceStep
<1> QED
  BY <1>1, <1>3, <1>4, <1>9, <1>14, <1>15, <1>17, <1>18

\* An object nobody touched.
Untouched(p) ==
    /\ Parsed(p)' = Parsed(p) /\ Intervals(p)' = Intervals(p)
    /\ log'[p] = log[p] /\ kind' = kind
    /\ present'[p] = present[p] /\ count'[p] = count[p] /\ initial'[p] = initial[p]
    /\ open'[p] = open[p] /\ real'[p] = real[p]
    /\ (p \in shifted') <=> (p \in shifted)
    /\ (p \in orphaned') <=> (p \in orphaned)
    /\ (p \in heldDeleted') <=> (p \in heldDeleted)

\* The invariant of an object nobody touched.
LEMMA UntouchedKeeps ==
  ASSUME NEW p \in Objects, ObjectInv(p), Untouched(p)
  PROVE  ObjectInv(p)'
<1>1. MutexLike(p, Parsed(p))' <=> MutexLike(p, Parsed(p))
  BY DEF Untouched, MutexLike
<1>2. SemLike(p, Parsed(p))' <=> SemLike(p, Parsed(p))
  BY DEF Untouched, SemLike
<1>3. QueueLike(p, Parsed(p))' <=> QueueLike(p, Parsed(p))
  BY DEF Untouched, QueueLike
<1>4. IntervalLike(p, Intervals(p))' <=> IntervalLike(p, Intervals(p))
  BY DEF Untouched, IntervalLike
<1>5. CreationLogged(log[p], Parsed(p))' <=> CreationLogged(log[p], Parsed(p))
  BY DEF Untouched, CreationLogged
<1> QED
  BY <1>1, <1>2, <1>3, <1>4, <1>5 DEF Untouched, ObjectInv
------------------------------------------------------------------------------
(* What each action does to its object *)

Rcd(c, a) == [time |-> now, core |-> c, action |-> a, task |-> running[c]]

\* One event of an object that has its like in the parser.
LEMMA OneEvent ==
  ASSUME IInv, TypeOK', NEW c \in Cores, NEW o \in Objects, NEW a \in Actions,
         Hooked(c, o, <<a>>)
  PROVE  /\ Rcd(c, a) \in Rec /\ running[c] \in Tasks /\ running[c] # Nobody
         /\ now \in Nat /\ now' = now /\ kind' = kind
         /\ Ev(c, a) \in Event /\ log[o] \in Seq(Event)
         /\ log'[o] = Append(log[o], Ev(c, a))
         /\ \A p \in Objects \ {o} : log'[p] = log[p]
         /\ Parsed(o)' = OnEvent(Parsed(o), kind[o], Rcd(c, a))
         /\ Intervals(o)' = OnMarker(Intervals(o), Ev(c, a))
         /\ \A p \in Objects : Known(core_segs', log'[p], now')
         /\ \A p \in Objects \ {o} : Parsed(p)' = Parsed(p) /\ Intervals(p)' = Intervals(p)
         /\ ObjectInv(o)
<1>1. TypeOK /\ SegmentsOrdered /\ LogInv /\ ObjectInv(o)
  BY DEF IInv
<1>2. /\ Separate(c) /\ UNCHANGED <<now, running, since, closed, kind>>
      /\ Ev(c, a) \in Event
      /\ log' = [log EXCEPT ![o] = Append(@, Ev(c, a))]
  BY <1>1, HookedOne
<1>3. running[c] \in Tasks /\ running[c] # Nobody /\ now \in Nat /\ log[o] \in Seq(Event)
  BY <1>1, <1>2 DEF Separate, TypeOK, Someone
<1>4. Rcd(c, a) \in Rec
  BY <1>3 DEF Rcd, Rec, Someone
<1>5. /\ log'[o] = Append(log[o], Ev(c, a))
      /\ \A p \in Objects \ {o} : log'[p] = log[p]
  BY <1>1, <1>2 DEF TypeOK
<1>6. /\ Parsed(o)' = OnEvent(Parsed(o), kind[o], Rcd(c, a))
      /\ Intervals(o)' = OnMarker(Intervals(o), Ev(c, a))
      /\ Known(core_segs', log'[o], now')
      /\ \A p \in Objects \ {o} : /\ Parsed(p)' = Parsed(p) /\ Intervals(p)' = Intervals(p)
                                  /\ Known(core_segs', log'[p], now')
  BY <1>1, ParsedGrows DEF Rcd
<1> QED
  BY <1>1, <1>2, <1>3, <1>4, <1>5, <1>6

\* A mutex is taken: the parser has one take that is open.
LEMMA TakeMutexKeeps ==
  ASSUME IInv, TypeOK', NEW c \in Cores, NEW o \in Objects, TakeMutex(c, o)
  PROVE  ObjectInv(o)'
<1> DEFINE P == Parsed(o)
           rec == Rcd(c, "take")
<1>1. /\ kind[o] = "mutex" /\ open[o] = <<>> /\ Hooked(c, o, <<"take">>) /\ "take" \in Actions
      /\ open'[o] = <<Held(c)>> /\ present'[o] = present[o] /\ present[o] /\ real'[o] = real[o]
      /\ orphaned' = orphaned /\ heldDeleted' = heldDeleted
  BY DEF TakeMutex, Actions, IInv, TypeOK
<1>2. /\ rec \in Rec /\ now \in Nat /\ kind' = kind /\ ObjectInv(o)
      /\ Ev(c, "take") \in Event /\ log[o] \in Seq(Event)
      /\ log'[o] = Append(log[o], Ev(c, "take"))
      /\ P' = OnEvent(P, "mutex", rec)
  BY <1>1, OneEvent
<1>3. P \in Obj /\ CreationLogged(log[o], P) /\ MutexLike(o, P)
  BY <1>1, <1>2 DEF ObjectInv, Shared
<1>4. P' = OnTake(P, "mutex", rec)
  <2>1. rec.action = "take"
    BY DEF Rcd
  <2> HIDE DEF P, rec
  <2> QED
    BY <1>2, <2>1, Branches
<1> HIDE DEF P
<1>5. /\ P' \in Obj /\ P'.takes = Append(P.takes, rec) /\ P'.gives = P.gives
      /\ P'.holds = P.holds /\ P'.issues = P.issues /\ P'.create_ns = P.create_ns
  BY <1>2, <1>3, <1>4, TakeOpens
<1>6. CreationLogged(log'[o], P')
  BY <1>2, <1>3, <1>5, CreationKept
<1>7. P.takes = <<>>
  BY <1>1, <1>3 DEF MutexLike
<1>8. Len(P'.takes) = 1 /\ P'.takes[1] = rec
  <2> HIDE DEF rec
  <2>1. Append(<<>>, rec) = <<rec>>
    OBVIOUS
  <2> QED
    BY <1>5, <1>7, <2>1
<1>9. /\ Len(open'[o]) = 1 /\ open'[o][1] = Held(c) /\ open'[o] # <<>>
      /\ Held(c).time = now /\ Held(c).task = running[c] /\ now # Before
      /\ rec.time = now /\ rec.task = running[c]
  BY <1>1, <1>2 DEF Held, Before, Rcd
<1>10. MutexLike(o, P)'
  BY <1>1, <1>3, <1>5, <1>8, <1>9 DEF MutexLike
<1> QED
  BY <1>1, <1>2, <1>5, <1>6, <1>10 DEF ObjectInv, Shared, P

\* A mutex is given: the take becomes a hold, or the give is an orphan of a take
\* before the trace.
LEMMA GiveMutexKeeps ==
  ASSUME IInv, TypeOK', NEW c \in Cores, NEW o \in Objects, GiveMutex(c, o)
  PROVE  ObjectInv(o)'
<1> DEFINE P == Parsed(o)
           rec == Rcd(c, "give")
           b == open[o][1]
<1>1. /\ kind[o] = "mutex" /\ open[o] # <<>> /\ b.task = running[c]
      /\ Hooked(c, o, <<"give">>) /\ "give" \in Actions
      /\ open'[o] = <<>> /\ present'[o] = present[o] /\ present[o] /\ PastCreation(o)
      /\ heldDeleted' = heldDeleted
      /\ TypeOK
      /\ IF b.time = Before
         THEN orphaned' = orphaned \cup {o} /\ real'[o] = real[o]
         ELSE /\ real'[o] = Append(real[o], [start |-> b.time, stop |-> now, holder |-> b.task])
              /\ orphaned' = orphaned
  BY DEF GiveMutex, Actions, IInv, TypeOK, Over
<1>2. /\ rec \in Rec /\ now \in Nat /\ kind' = kind /\ ObjectInv(o)
      /\ Ev(c, "give") \in Event /\ log[o] \in Seq(Event)
      /\ log'[o] = Append(log[o], Ev(c, "give"))
      /\ P' = OnEvent(P, "mutex", rec)
  BY <1>1, OneEvent
<1>3. P \in Obj /\ CreationLogged(log[o], P) /\ MutexLike(o, P)
  BY <1>1, <1>2 DEF ObjectInv, Shared
<1>4. P' = OnGive(P, "mutex", rec)
  <2>1. rec.action = "give" /\ rec.time = now
    BY DEF Rcd
  <2>2. ~_is_post_create_kernel_give(P, now)
    BY <1>1, <1>3, NotTheKernels
  <2> HIDE DEF P, rec
  <2> QED
    BY <1>2, <2>1, <2>2, Branches
<1>5. rec.time = now /\ rec.task = running[c]
  BY DEF Rcd
<1> HIDE DEF P, rec
<1>6. CASE b.time = Before
  <2>1. P.takes = <<>>
    BY <1>3, <1>6 DEF MutexLike
  <2>2. /\ P' \in Obj /\ P'.takes = P.takes /\ P'.gives = P.gives /\ P'.holds = P.holds
        /\ P'.create_ns = P.create_ns
        /\ P'.issues = P.issues \cup {Issue("orphan_give", rec)}
    BY <1>2, <1>3, <1>4, <2>1, GiveOrphan
  <2>3. Issue("orphan_give", rec).kind = "orphan_give"
    BY DEF Issue
  <2>4. CreationLogged(log'[o], P')
    BY <1>2, <1>3, <2>2, CreationKept
  <2>5. MutexLike(o, P)'
    BY <1>1, <1>3, <1>6, <2>1, <2>2, <2>3 DEF MutexLike
  <2> QED
    BY <1>1, <1>2, <2>2, <2>4, <2>5 DEF ObjectInv, Shared, P
<1>7. CASE b.time # Before
  <2>1. Len(P.takes) = 1 /\ P.takes[1].time = b.time /\ P.takes[1].task = b.task
    BY <1>1, <1>3, <1>7 DEF MutexLike
  <2>2. /\ P' \in Obj /\ P'.takes = <<>> /\ P'.gives = P.gives
        /\ P'.create_ns = P.create_ns
        /\ P'.holds = Append(P.holds,
                [start |-> P.takes[1].time, stop |-> rec.time, holder |-> P.takes[1].task])
        /\ P'.issues \in {P.issues, P.issues \cup {Issue("CORE_MIGRATION_WHILE_HELD", rec)}}
    BY <1>1, <1>2, <1>3, <1>4, <1>5, <2>1, GiveOwn
  <2>3. Issue("CORE_MIGRATION_WHILE_HELD", rec).kind = "CORE_MIGRATION_WHILE_HELD"
    BY DEF Issue
  <2>4. CreationLogged(log'[o], P')
    BY <1>2, <1>3, <2>2, CreationKept
  <2>5. P'.holds = real'[o]
    BY <1>1, <1>3, <1>5, <1>7, <2>1, <2>2 DEF MutexLike
  <2>6. MutexLike(o, P)'
    BY <1>1, <1>3, <1>7, <2>2, <2>3, <2>5 DEF MutexLike
  <2> QED
    BY <1>1, <1>2, <2>2, <2>4, <2>6 DEF ObjectInv, Shared, P
<1> QED
  BY <1>6, <1>7

\* A semaphore is taken: the oldest give is used up, or the take is left over.
LEMMA TakeSemKeeps ==
  ASSUME IInv, TypeOK', NEW c \in Cores, NEW o \in Objects, TakeSem(c, o)
  PROVE  ObjectInv(o)'
<1> DEFINE P == Parsed(o)
           rec == Rcd(c, "take")
<1>1. /\ kind[o] = "sem" /\ Hooked(c, o, <<"take">>) /\ "take" \in Actions
      /\ present'[o] = present[o] /\ present[o]
      /\ count'[o] = count[o] - 1 /\ initial'[o] = initial[o]
      /\ count[o] \in Nat /\ initial[o] \in Nat
  BY DEF TakeSem, Actions, IInv, TypeOK
<1>2. /\ rec \in Rec /\ now \in Nat /\ kind' = kind /\ ObjectInv(o)
      /\ Ev(c, "take") \in Event /\ log[o] \in Seq(Event)
      /\ log'[o] = Append(log[o], Ev(c, "take"))
      /\ P' = OnEvent(P, "sem", rec)
  BY <1>1, OneEvent
<1>3. P \in Obj /\ CreationLogged(log[o], P) /\ SemLike(o, P)
  BY <1>1, <1>2 DEF ObjectInv, Shared
<1>4. P' = OnTake(P, "sem", rec)
  <2>1. rec.action = "take"
    BY DEF Rcd
  <2> HIDE DEF P, rec
  <2> QED
    BY <1>2, <2>1, Branches
<1>5. P.takes \in Seq(Rec) /\ P.gives \in Seq(Rec)
  BY <1>3 DEF Obj
<1>6. /\ P.takes = <<>> \/ P.gives = <<>>
      /\ Len(P.gives) - Len(P.takes) = count[o] - initial[o]
  BY <1>1, <1>3 DEF SemLike
<1> HIDE DEF P, rec
<1>7. /\ P' \in Obj /\ P'.create_ns = P.create_ns
      /\ P'.takes = <<>> \/ P'.gives = <<>>
      /\ Len(P'.gives) - Len(P'.takes) = (count[o] - initial[o]) - 1
  <2>1. CASE P.gives = <<>>
    <3>1. P' \in Obj /\ P'.takes = Append(P.takes, rec) /\ P'.gives = P.gives
          /\ P'.create_ns = P.create_ns
      BY <1>2, <1>3, <1>4, <2>1, TakeOpens
    <3>2. Len(P'.takes) = Len(P.takes) + 1 /\ Len(P.takes) \in Nat /\ Len(P.gives) \in Nat
      BY <1>2, <1>5, <3>1
    <3> QED
      BY <1>1, <1>6, <2>1, <3>1, <3>2
  <2>2. CASE P.gives # <<>>
    <3>1. P' \in Obj /\ P'.takes = P.takes /\ P'.gives = Tail(P.gives)
          /\ P'.create_ns = P.create_ns
      <4>1. "sem" \in {"sem", "queue"}
        OBVIOUS
      <4> DEFINE x == OnTake(P, "sem", rec)
      <4>2. P \in Obj /\ rec \in Rec /\ P.gives # <<>>
        BY <1>2, <1>3, <2>2
      <4>3. x \in Obj /\ x.takes = P.takes /\ x.gives = Tail(P.gives)
            /\ x.create_ns = P.create_ns
        BY <4>1, <4>2, TakePairs, Zenon
      <4> QED
        BY <1>4, <4>3
    <3>2. /\ Len(P'.gives) = Len(P.gives) - 1 /\ Len(P.takes) \in Nat /\ Len(P.gives) \in Nat
          /\ P.takes = <<>>
      BY <1>5, <1>6, <2>2, <3>1
    <3> QED
      BY <1>1, <1>6, <3>1, <3>2
  <2> QED
    BY <2>1, <2>2
<1>8. CreationLogged(log'[o], P')
  BY <1>2, <1>3, <1>7, CreationKept
<1>9. SemLike(o, P)'
  <2> DEFINE n == count[o]
             i == initial[o]
  <2>0. n \in Nat /\ i \in Nat /\ count'[o] = n - 1 /\ initial'[o] = i
    BY <1>1
  <2>1. Len(P'.gives) - Len(P'.takes) = count'[o] - initial'[o]
    <3>1. (n - i) - 1 = (n - 1) - i
      <4> HIDE DEF n, i
      <4> QED
        BY <2>0
    <3> QED
      BY <1>7, <2>0, <3>1
  <2> QED
    BY <1>7, <2>1 DEF SemLike
<1> QED
  BY <1>1, <1>2, <1>7, <1>8, <1>9 DEF ObjectInv, Shared, P

\* A semaphore is given: the oldest take is given back, or the give is left over.
LEMMA GiveSemKeeps ==
  ASSUME IInv, TypeOK', NEW c \in Cores, NEW o \in Objects, GiveSem(c, o)
  PROVE  ObjectInv(o)'
<1> DEFINE P == Parsed(o)
           rec == Rcd(c, "give")
<1>1. /\ kind[o] = "sem" /\ Hooked(c, o, <<"give">>) /\ "give" \in Actions
      /\ present'[o] = present[o] /\ present[o] /\ PastCreation(o) /\ TypeOK
      /\ count'[o] = count[o] + 1 /\ initial'[o] = initial[o]
      /\ count[o] \in Nat /\ initial[o] \in Nat
  BY DEF GiveSem, Actions, IInv, TypeOK
<1>2. /\ rec \in Rec /\ now \in Nat /\ kind' = kind /\ ObjectInv(o)
      /\ Ev(c, "give") \in Event /\ log[o] \in Seq(Event)
      /\ log'[o] = Append(log[o], Ev(c, "give"))
      /\ P' = OnEvent(P, "sem", rec)
  BY <1>1, OneEvent
<1>3. P \in Obj /\ CreationLogged(log[o], P) /\ SemLike(o, P)
  BY <1>1, <1>2 DEF ObjectInv, Shared
<1>4. P' = OnGive(P, "sem", rec)
  <2>1. rec.action = "give" /\ rec.time = now
    BY DEF Rcd
  <2>2. ~_is_post_create_kernel_give(P, now)
    BY <1>1, <1>3, NotTheKernels
  <2> HIDE DEF P, rec
  <2> QED
    BY <1>2, <2>1, <2>2, Branches
<1>5. P.takes \in Seq(Rec) /\ P.gives \in Seq(Rec)
  BY <1>3 DEF Obj
<1>6. /\ P.takes = <<>> \/ P.gives = <<>>
      /\ Len(P.gives) - Len(P.takes) = count[o] - initial[o]
  BY <1>1, <1>3 DEF SemLike
<1> HIDE DEF P, rec
<1>7. /\ P' \in Obj /\ P'.create_ns = P.create_ns
      /\ P'.takes = <<>> \/ P'.gives = <<>>
      /\ Len(P'.gives) - Len(P'.takes) = (count[o] - initial[o]) + 1
  <2>1. CASE P.takes = <<>>
    <3>1. P' \in Obj /\ P'.takes = P.takes /\ P'.gives = Append(P.gives, rec)
          /\ P'.create_ns = P.create_ns
      BY <1>2, <1>3, <1>4, <2>1, GiveWaits
    <3>2. Len(P'.gives) = Len(P.gives) + 1 /\ Len(P.takes) \in Nat /\ Len(P.gives) \in Nat
      BY <1>2, <1>5, <3>1
    <3> QED
      BY <1>1, <1>6, <2>1, <3>1, <3>2
  <2>2. CASE P.takes # <<>>
    <3>1. P' \in Obj /\ P'.takes = Tail(P.takes) /\ P'.gives = P.gives
          /\ P'.create_ns = P.create_ns
      BY <1>2, <1>3, <1>4, <2>2, GivePairs
    <3>2. /\ Len(P'.takes) = Len(P.takes) - 1 /\ Len(P.takes) \in Nat /\ Len(P.gives) \in Nat
          /\ P.gives = <<>>
      BY <1>5, <1>6, <2>2, <3>1
    <3> QED
      BY <1>1, <1>6, <3>1, <3>2
  <2> QED
    BY <2>1, <2>2
<1>8. CreationLogged(log'[o], P')
  BY <1>2, <1>3, <1>7, CreationKept
<1>9. SemLike(o, P)'
  <2> DEFINE n == count[o]
             i == initial[o]
  <2>0. n \in Nat /\ i \in Nat /\ count'[o] = n + 1 /\ initial'[o] = i
    BY <1>1
  <2>1. Len(P'.gives) - Len(P'.takes) = count'[o] - initial'[o]
    <3>1. (n - i) + 1 = (n + 1) - i
      <4> HIDE DEF n, i
      <4> QED
        BY <2>0
    <3> QED
      BY <1>7, <2>0, <3>1
  <2> QED
    BY <1>7, <2>1 DEF SemLike
<1> QED
  BY <1>1, <1>2, <1>7, <1>8, <1>9 DEF ObjectInv, Shared, P

\* A message is sent: the parser has one more that waits.
LEMMA SendKeeps ==
  ASSUME IInv, TypeOK', NEW c \in Cores, NEW o \in Objects, Send(c, o)
  PROVE  ObjectInv(o)'
<1> DEFINE P == Parsed(o)
           rec == Rcd(c, "send")
           n == Len(open[o])
<1>1. /\ kind[o] = "queue" /\ Hooked(c, o, <<"send">>) /\ "send" \in Actions
      /\ present'[o] = present[o] /\ present[o] /\ real'[o] = real[o]
      /\ open'[o] = Append(open[o], Held(c)) /\ open[o] \in Seq(Entry)
      /\ shifted' = shifted
  BY DEF Send, Actions, IInv, TypeOK
<1>2. /\ rec \in Rec /\ now \in Nat /\ kind' = kind /\ ObjectInv(o)
      /\ Ev(c, "send") \in Event /\ log[o] \in Seq(Event)
      /\ log'[o] = Append(log[o], Ev(c, "send"))
      /\ P' = OnEvent(P, "queue", rec) /\ running[c] \in Tasks
  BY <1>1, OneEvent
<1>3. P \in Obj /\ CreationLogged(log[o], P) /\ QueueLike(o, P)
  BY <1>1, <1>2 DEF ObjectInv, Shared
<1>4. P' = OnGive(P, "queue", rec)
  <2>1. rec.action = "send"
    BY DEF Rcd
  <2> HIDE DEF P, rec
  <2> QED
    BY <1>2, <2>1, Branches
<1>5. /\ rec.time = Held(c).time /\ rec.task = Held(c).task /\ Held(c) \in Entry
  BY <1>2 DEF Rcd, Held, Entry
<1>6. P.gives \in Seq(Rec)
  BY <1>3 DEF Obj
<1> HIDE DEF P, rec
<1>7. /\ P' \in Obj /\ P'.takes = P.takes /\ P'.gives = Append(P.gives, rec)
      /\ P'.holds = P.holds /\ P'.create_ns = P.create_ns
  BY <1>2, <1>3, <1>4, GiveWaits
<1>8. CreationLogged(log'[o], P')
  BY <1>2, <1>3, <1>7, CreationKept
<1>9. QueueLike(o, P)'
  <2> SUFFICES ASSUME o \notin shifted PROVE QueueLike(o, P)'
    BY <1>1 DEF QueueLike
  <2>1. /\ Len(P.gives) = n /\ n \in Nat /\ P.holds = real[o]
        /\ \A i \in 1..n : P.gives[i].time = open[o][i].time
                          /\ P.gives[i].task = open[o][i].task
    BY <1>1, <1>3 DEF QueueLike
  <2>2. /\ Len(P'.gives) = n + 1 /\ P'.gives[n + 1] = rec
        /\ \A i \in 1..n : P'.gives[i] = P.gives[i]
    BY <1>2, <1>6, <1>7, <2>1
  <2>3. /\ Len(open'[o]) = n + 1 /\ open'[o][n + 1] = Held(c) /\ DOMAIN open'[o] = 1..n + 1
        /\ \A i \in 1..n : open'[o][i] = open[o][i]
    BY <1>1, <1>5, <2>1
  <2>4. ASSUME NEW i \in 1..n + 1
        PROVE  P'.gives[i].time = open'[o][i].time /\ P'.gives[i].task = open'[o][i].task
    <3>1. CASE i \in 1..n
      BY <2>1, <2>2, <2>3, <3>1
    <3>2. CASE i = n + 1
      BY <1>5, <2>2, <2>3, <3>2
    <3> QED
      BY <2>1, <3>1, <3>2
  <2> QED
    BY <1>1, <1>7, <2>1, <2>2, <2>3, <2>4 DEF QueueLike
<1> QED
  BY <1>1, <1>2, <1>7, <1>8, <1>9 DEF ObjectInv, Shared, P

\* A message is received: the oldest.
LEMMA ReceiveKeeps ==
  ASSUME IInv, TypeOK', NEW c \in Cores, NEW o \in Objects, Receive(c, o)
  PROVE  ObjectInv(o)'
<1> DEFINE P == Parsed(o)
           rec == Rcd(c, "recv")
           n == Len(open[o])
<1>1. /\ kind[o] = "queue" /\ Hooked(c, o, <<"recv">>) /\ "recv" \in Actions
      /\ present'[o] = present[o] /\ present[o]
      /\ open[o] \in Seq(Entry)
      /\ o \in shifted => o \in shifted'
      /\ \/ /\ real'[o] = real[o] /\ open'[o] = open[o]
            /\ open[o] = <<>> \/ o \in shifted'
         \/ /\ open[o] # <<>> /\ open'[o] = Tail(open[o])
            /\ real'[o] = Append(real[o], [start |-> Head(open[o]).time, stop |-> now,
                                           holder |-> Head(open[o]).task])
  BY DEF Receive, Actions, IInv, TypeOK, Over
<1>2. /\ rec \in Rec /\ now \in Nat /\ kind' = kind /\ ObjectInv(o)
      /\ Ev(c, "recv") \in Event /\ log[o] \in Seq(Event)
      /\ log'[o] = Append(log[o], Ev(c, "recv"))
      /\ P' = OnEvent(P, "queue", rec)
  BY <1>1, OneEvent
<1>3. P \in Obj /\ CreationLogged(log[o], P) /\ QueueLike(o, P)
  BY <1>1, <1>2 DEF ObjectInv, Shared
<1>4. P' = OnTake(P, "queue", rec)
  <2>1. rec.action = "recv"
    BY DEF Rcd
  <2> HIDE DEF P, rec
  <2> QED
    BY <1>2, <2>1, Branches
<1>5. rec.time = now
  BY DEF Rcd
<1>6. P.gives \in Seq(Rec)
  BY <1>3 DEF Obj
<1> HIDE DEF P, rec
<1>7. P.gives = <<>> =>
        P' \in Obj /\ P'.gives = <<>> /\ P'.holds = P.holds /\ P'.create_ns = P.create_ns
  BY <1>2, <1>3, <1>4, TakeOpens
<1>8. P.gives # <<>> =>
        /\ P' \in Obj /\ P'.gives = Tail(P.gives) /\ P'.create_ns = P.create_ns
        /\ P'.holds = Append(P.holds,
              [start |-> P.gives[1].time, stop |-> rec.time, holder |-> P.gives[1].task])
  <2> DEFINE x == OnTake(P, "queue", rec)
  <2> SUFFICES ASSUME P.gives # <<>>
               PROVE  /\ x \in Obj /\ x.gives = Tail(P.gives) /\ x.create_ns = P.create_ns
                      /\ x.holds = Append(P.holds,
                            [start |-> P.gives[1].time, stop |-> rec.time,
                             holder |-> P.gives[1].task])
    BY <1>4
  <2>1. "queue" \in {"sem", "queue"}
    OBVIOUS
  <2> QED
    BY <1>2, <1>3, <2>1, TakePairs, Zenon
<1>9. P' \in Obj /\ CreationLogged(log'[o], P')
  BY <1>2, <1>3, <1>7, <1>8, CreationKept
<1>10. QueueLike(o, P)'
  <2> SUFFICES ASSUME o \notin shifted' PROVE QueueLike(o, P)'
    BY DEF QueueLike
  <2>1. /\ Len(P.gives) = n /\ n \in Nat /\ P.holds = real[o]
        /\ \A i \in 1..n : P.gives[i].time = open[o][i].time
                          /\ P.gives[i].task = open[o][i].task
    <3>1. o \notin shifted /\ DOMAIN open[o] = 1..n /\ n \in Nat
      BY <1>1
    <3> QED
      BY <1>3, <3>1 DEF QueueLike
  <2>2. CASE open[o] = <<>>
    <3>1. P.gives = <<>> /\ open'[o] = <<>> /\ real'[o] = real[o]
      BY <1>1, <1>6, <2>1, <2>2
    <3>2. Len(P'.gives) = 0 /\ Len(open'[o]) = 0 /\ DOMAIN open'[o] = {}
      BY <1>7, <3>1
    <3> QED
      BY <1>7, <2>1, <3>1, <3>2 DEF QueueLike
  <2>3. CASE open[o] # <<>>
    <3>1. /\ n > 0 /\ P.gives # <<>> /\ open'[o] = Tail(open[o])
          /\ real'[o] = Append(real[o], [start |-> Head(open[o]).time, stop |-> now,
                                         holder |-> Head(open[o]).task])
      BY <1>1, <1>6, <2>1, <2>3
    <3>2. Head(open[o]) = open[o][1] /\ 1 \in 1..n
      BY <1>1, <2>1, <3>1
    <3>3. P'.holds = real'[o]
      BY <1>5, <1>8, <2>1, <3>1, <3>2
    <3>4. /\ Len(P'.gives) = n - 1 /\ \A i \in 1..n - 1 : P'.gives[i] = P.gives[i + 1]
      <4>1. P'.gives = Tail(P.gives) /\ Len(P.gives) = n /\ n > 0
        BY <1>8, <2>1, <3>1
      <4>2. /\ Len(Tail(P.gives)) = n - 1
            /\ \A i \in 1..n - 1 : Tail(P.gives)[i] = P.gives[i + 1]
        BY <1>6, <2>1, <4>1
      <4> QED
        BY <4>1, <4>2
    <3>5. /\ Len(open'[o]) = n - 1 /\ DOMAIN open'[o] = 1..n - 1
          /\ \A i \in 1..n - 1 : open'[o][i] = open[o][i + 1]
      BY <1>1, <2>1, <3>1
    <3>6. \A i \in 1..n - 1 : i + 1 \in 1..n
      BY <2>1
    <3>7. \A i \in 1..n - 1 : /\ P'.gives[i].time = open'[o][i].time
                             /\ P'.gives[i].task = open'[o][i].task
      BY <2>1, <3>4, <3>5, <3>6
    <3> QED
      BY <3>3, <3>4, <3>5, <3>7 DEF QueueLike
  <2> QED
    BY <2>2, <2>3
<1> QED
  BY <1>1, <1>2, <1>9, <1>10 DEF ObjectInv, Shared, P

\* The stack of starts follows the intervals that are open.
LEMMA TimesOf ==
  ASSUME NEW s \in Seq(Entry)
  PROVE  /\ Times(s) \in Seq(Int)
         /\ Times(s) = <<>> <=> s = <<>>
         /\ \A x \in Entry : Times(Append(s, x)) = Append(Times(s), x.time)
         /\ s # <<>> => Last(Times(s)) = Last(s).time /\ Times(Front(s)) = Front(Times(s))
<1> DEFINE n == Len(s)
<1>1. n \in Nat /\ DOMAIN s = 1..n /\ \A i \in 1..n : s[i] \in Entry /\ s[i].time \in Int
  <2>1. n \in Nat /\ DOMAIN s = 1..n /\ \A i \in 1..n : s[i] \in Entry
    OBVIOUS
  <2> QED
    BY <2>1 DEF Entry
<1>2. Times(s) = [i \in 1..n |-> s[i].time]
  BY <1>1 DEF Times
<1>3. Times(s) \in Seq(Int) /\ Len(Times(s)) = n
  BY <1>1, <1>2
<1>4. Times(s) = <<>> <=> s = <<>>
  BY <1>1, <1>3
<1>5. ASSUME NEW x \in Entry PROVE Times(Append(s, x)) = Append(Times(s), x.time)
  <2>1. x.time \in Int
    BY DEF Entry
  <2>2. /\ DOMAIN Append(s, x) = 1..n + 1 /\ Append(s, x)[n + 1] = x
        /\ \A i \in 1..n : Append(s, x)[i] = s[i]
    BY <1>1
  <2>3. Times(Append(s, x)) = [i \in 1..n + 1 |-> Append(s, x)[i].time]
    BY <2>2 DEF Times
  <2> DEFINE t == Times(s)
  <2>4. /\ Append(t, x.time) = [i \in 1..n + 1 |-> IF i <= n THEN t[i] ELSE x.time]
    <3> HIDE DEF t
    <3> QED
      BY <1>1, <1>3, <2>1 DEF t
  <2>5. \A i \in 1..n + 1 : Append(s, x)[i].time = IF i <= n THEN t[i] ELSE x.time
    BY <1>1, <1>2, <2>2
  <2> HIDE DEF t
  <2> QED
    BY <2>3, <2>4, <2>5 DEF t
<1>6. ASSUME s # <<>>
      PROVE  Last(Times(s)) = Last(s).time /\ Times(Front(s)) = Front(Times(s))
  <2>1. n > 0
    BY <1>1, <1>6
  <2>2. Last(Times(s)) = Last(s).time
    BY <1>1, <1>2, <1>3, <2>1 DEF Last
  <2>3. Front(s) = [i \in 1..n - 1 |-> s[i]]
    BY <1>1, <2>1 DEF Front
  <2>4. Front(Times(s)) = [i \in 1..n - 1 |-> Times(s)[i]]
    BY <1>1, <1>3, <2>1 DEF Front
  <2>5. Times(Front(s)) = [i \in 1..n - 1 |-> s[i].time]
    BY <2>3 DEF Times
  <2>6. \A i \in 1..n - 1 : Times(s)[i] = s[i].time
    BY <1>1, <1>2
  <2> QED
    BY <2>2, <2>4, <2>5, <2>6
<1> QED
  BY <1>3, <1>4, <1>5, <1>6

\* A sequence with one more element, as a function.
LEMMA AppendIs ==
  ASSUME NEW T, NEW t \in Seq(T), NEW y \in T
  PROVE  Append(t, y) = [i \in 1..Len(t) + 1 |-> IF i <= Len(t) THEN t[i] ELSE y]
<1> DEFINE x == Append(t, y)
           n == Len(t)
<1>1. /\ x \in Seq(T) /\ n \in Nat /\ Len(x) = n + 1 /\ x[n + 1] = y
      /\ \A i \in 1..n : x[i] = t[i]
  OBVIOUS
<1> HIDE DEF x, n
<1>2. x \in [1..Len(x) -> T]
  BY <1>1
<1>3. x = [i \in 1..n + 1 |-> x[i]]
  BY <1>1, <1>2
<1>4. \A i \in 1..n + 1 : x[i] = IF i <= n THEN t[i] ELSE y
  BY <1>1
<1>5. x = [i \in 1..n + 1 |-> IF i <= n THEN t[i] ELSE y]
  BY <1>3, <1>4
<1> QED
  BY <1>5 DEF x, n

\* One more interval is one more span.
LEMMA SpansOf ==
  ASSUME NEW s \in Seq(Hold), NEW h \in Hold
  PROVE  Spans(Append(s, h)) = Append(Spans(s), [start |-> h.start, stop |-> h.stop])
<1> DEFINE n == Len(s)
           T == [start : Int, stop : Nat]
           y == [start |-> h.start, stop |-> h.stop]
           t == Spans(s)
<1>1. n \in Nat /\ DOMAIN s = 1..n /\ \A i \in 1..n : s[i] \in Hold
  OBVIOUS
<1>2. t = [i \in 1..n |-> [start |-> s[i].start, stop |-> s[i].stop]]
  BY <1>1 DEF Spans
<1>3. y \in T /\ \A i \in 1..n : [start |-> s[i].start, stop |-> s[i].stop] \in T
  BY <1>1 DEF Hold
<1>4. t \in Seq(T) /\ Len(t) = n
  <2> HIDE DEF T
  <2> QED
    BY <1>1, <1>2, <1>3
<1>5. /\ DOMAIN Append(s, h) = 1..n + 1 /\ Append(s, h)[n + 1] = h
      /\ \A i \in 1..n : Append(s, h)[i] = s[i]
  BY <1>1
<1> DEFINE u == Append(s, h)
<1>6. Spans(u) = [i \in 1..n + 1 |-> [start |-> u[i].start, stop |-> u[i].stop]]
  BY <1>5 DEF Spans
<1>7. Append(t, y) = [i \in 1..n + 1 |-> IF i <= n THEN t[i] ELSE y]
  <2> HIDE DEF t, y, T, u, n
  <2> QED
    BY <1>3, <1>4, AppendIs
<1>8. \A i \in 1..n + 1 : [start |-> u[i].start, stop |-> u[i].stop] =
                             IF i <= n THEN t[i] ELSE y
  BY <1>1, <1>2, <1>5
<1> HIDE DEF t, y, u
<1> QED
  BY <1>6, <1>7, <1>8 DEF t, y, u

\* An interval starts.
LEMMA IntervalStartKeeps ==
  ASSUME IInv, TypeOK', NEW c \in Cores, NEW o \in Objects, IntervalStart(c, o)
  PROVE  ObjectInv(o)'
<1> DEFINE Q == Intervals(o)
<1>1. /\ kind[o] = "interval" /\ Hooked(c, o, <<"start">>) /\ "start" \in Actions
      /\ present'[o] = present[o] /\ real'[o] = real[o]
      /\ open'[o] = Append(open[o], Held(c)) /\ open[o] \in Seq(Entry)
  BY DEF IntervalStart, Actions, IInv, TypeOK
<1>2. /\ now \in Nat /\ kind' = kind /\ ObjectInv(o) /\ running[c] \in Tasks
      /\ Q' = OnMarker(Q, Ev(c, "start"))
  BY <1>1, OneEvent
<1>3. Q = [stack |-> Times(open[o]), spans |-> Spans(real[o])] /\ present[o]
  BY <1>1, <1>2 DEF ObjectInv, IntervalLike
<1>4. Held(c) \in Entry /\ Held(c).time = now
  BY <1>2 DEF Held, Entry
<1>5. Times(open'[o]) = Append(Times(open[o]), now)
  BY <1>1, <1>4, TimesOf
<1>6. Ev(c, "start").action = "start" /\ Ev(c, "start").time = now
  BY DEF Ev
<1> HIDE DEF Q
<1>7. Q' = [Q EXCEPT !.stack = Append(@, now)]
  BY <1>2, <1>6 DEF OnMarker
<1>8. Q' = [stack |-> Times(open'[o]), spans |-> Spans(real'[o])]
  BY <1>1, <1>3, <1>5, <1>7
<1>9. IntervalLike(o, Q)'
  BY <1>8 DEF IntervalLike
<1> QED
  BY <1>1, <1>2, <1>3, <1>9 DEF ObjectInv, Shared, Q

\* An interval stops: the last one that started, shown if it has a length.
LEMMA IntervalStopKeeps ==
  ASSUME IInv, TypeOK', NEW c \in Cores, NEW o \in Objects, IntervalStop(c, o)
  PROVE  ObjectInv(o)'
<1> DEFINE Q == Intervals(o)
           b == Last(open[o])
<1>1. /\ kind[o] = "interval" /\ Hooked(c, o, <<"stop">>) /\ "stop" \in Actions
      /\ present'[o] = present[o]
      /\ open[o] # <<>> =>
            /\ IF b.time < now
               THEN real'[o] = Append(real[o], [start |-> b.time, stop |-> now,
                                                holder |-> b.task])
               ELSE real'[o] = real[o]
            /\ open'[o] = Front(open[o])
      /\ open[o] = <<>> => open'[o] = <<>> /\ real'[o] = real[o]
      /\ open[o] \in Seq(Entry) /\ real[o] \in Seq(Hold)
  BY DEF IntervalStop, Actions, IInv, TypeOK, Over
<1>2. /\ now \in Nat /\ kind' = kind /\ ObjectInv(o)
      /\ Q' = OnMarker(Q, Ev(c, "stop"))
  BY <1>1, OneEvent
<1>3. Q = [stack |-> Times(open[o]), spans |-> Spans(real[o])] /\ present[o]
  BY <1>1, <1>2 DEF ObjectInv, IntervalLike
<1>4. Ev(c, "stop").action = "stop" /\ Ev(c, "stop").time = now
  BY DEF Ev
<1>5. Q.stack = Times(open[o]) /\ Q.spans = Spans(real[o])
  BY <1>3
<1> HIDE DEF Q
<1>6. ASSUME open[o] # <<>>
      PROVE  Q' = [stack |-> Times(open'[o]), spans |-> Spans(real'[o])]
  <2>1. b \in Entry /\ b.time \in Int /\ b.task \in Tasks
    <3>1. b \in Entry
      BY <1>1, <1>6 DEF Last
    <3> QED
      BY <3>1 DEF Entry
  <2>2. /\ Times(open'[o]) = Front(Times(open[o])) /\ Last(Times(open[o])) = b.time
        /\ Times(open[o]) # <<>>
    BY <1>1, <1>6, TimesOf
  <2>3. Q' = [stack |-> Front(Q.stack),
              spans |-> IF now > Last(Q.stack)
                        THEN Append(Q.spans, [start |-> Last(Q.stack), stop |-> now])
                        ELSE Q.spans]
    BY <1>2, <1>4, <1>5, <2>2 DEF OnMarker
  <2>4. Spans(real'[o]) = IF now > b.time
                          THEN Append(Spans(real[o]), [start |-> b.time, stop |-> now])
                          ELSE Spans(real[o])
    <3> DEFINE h == [start |-> b.time, stop |-> now, holder |-> b.task]
    <3>1. h \in Hold /\ h.start = b.time /\ h.stop = now
      BY <1>2, <2>1 DEF Hold, Someone
    <3>2. Spans(Append(real[o], h)) = Append(Spans(real[o]), [start |-> b.time, stop |-> now])
      <4> HIDE DEF h
      <4> QED
        BY <1>1, <3>1, SpansOf
    <3>3. (now > b.time) <=> (b.time < now)
      BY <1>2, <2>1
    <3> HIDE DEF b
    <3> QED
      BY <1>1, <1>6, <3>2, <3>3
  <2>5. Q' = [stack |-> Times(open'[o]), spans |-> Spans(real'[o])]
    BY <1>5, <2>2, <2>3, <2>4
  <2> QED
    BY <2>5
<1>7. ASSUME open[o] = <<>>
      PROVE  Q' = [stack |-> Times(open'[o]), spans |-> Spans(real'[o])]
  <2>1. Times(<<>>) = <<>>
    BY DEF Times
  <2>2. Q' = Q
    BY <1>2, <1>4, <1>5, <1>7, <2>1 DEF OnMarker
  <2> QED
    BY <1>1, <1>3, <1>7, <2>2
<1>8. IntervalLike(o, Q)'
  BY <1>6, <1>7 DEF IntervalLike
<1> QED
  BY <1>1, <1>2, <1>3, <1>8 DEF ObjectInv, Shared, Q

\* A semaphore or a queue that is new.
LEMMA NewSharedKeeps ==
  ASSUME IInv, TypeOK', NEW c \in Cores, NEW o \in Objects, kind[o] \in {"sem", "queue"},
         CreateObject(c, o)
  PROVE  ObjectInv(o)'
<1> DEFINE P == Parsed(o)
           rec == Rcd(c, "create")
           new == [_empty_obj EXCEPT !.create_ns = {now}]
<1>1. /\ Hooked(c, o, <<"create">>) /\ "create" \in Actions
      /\ open' = open /\ present'[o] /\ real'[o] = <<>> /\ ~present[o]
      /\ count'[o] = initial'[o] /\ count'[o] \in Nat
  BY DEF CreateObject, Actions, IInv, TypeOK
<1>2. /\ now \in Nat /\ kind' = kind /\ ObjectInv(o)
      /\ Ev(c, "create") \in Event /\ log[o] \in Seq(Event)
      /\ log'[o] = Append(log[o], Ev(c, "create"))
      /\ P' = OnEvent(P, kind[o], rec)
  BY <1>1, OneEvent
<1>3. P' = new
  <2>1. rec.action = "create" /\ rec.time = now
    BY DEF Rcd
  <2>2. OnEvent(P, kind[o], rec) = [_empty_obj EXCEPT !.create_ns = {rec.time}]
    <3> HIDE DEF P, rec
    <3> QED
      BY <2>1, Branches
  <2> QED
    BY <1>2, <2>1, <2>2
<1>4. open'[o] = <<>>
  BY <1>1, <1>2 DEF ObjectInv
<1>5. /\ new \in Obj /\ new.takes = <<>> /\ new.gives = <<>> /\ new.holds = <<>>
      /\ new.create_ns = {now}
  BY <1>2, NewObj
<1>6. CreationLogged(log'[o], new)
  <2>1. /\ Len(log[o]) + 1 \in DOMAIN log'[o] /\ log'[o][Len(log[o]) + 1] = Ev(c, "create")
    BY <1>2
  <2>2. Ev(c, "create").action = "create" /\ Ev(c, "create").time = now
    BY DEF Ev
  <2> HIDE DEF new
  <2> QED
    BY <1>5, <2>1, <2>2 DEF CreationLogged
<1> HIDE DEF P, new
<1>7. SemLike(o, P)'
  <2>1. Len(P'.gives) - Len(P'.takes) = 0
    BY <1>3, <1>5
  <2>2. count'[o] - initial'[o] = 0
    BY <1>1
  <2> QED
    BY <1>3, <1>5, <2>1, <2>2 DEF SemLike
<1>8. QueueLike(o, P)'
  <2>1. Len(P'.gives) = 0 /\ Len(open'[o]) = 0 /\ DOMAIN open'[o] = {}
    BY <1>3, <1>4, <1>5
  <2> QED
    BY <1>1, <1>3, <1>5, <2>1 DEF QueueLike
<1> QED
  BY <1>1, <1>2, <1>3, <1>5, <1>6, <1>7, <1>8 DEF ObjectInv, Shared, P

\* A mutex that is new, and given once by the kernel.
LEMMA NewMutexKeeps ==
  ASSUME IInv, TypeOK', NEW c \in Cores, NEW o \in Objects, kind[o] = "mutex",
         CreateObject(c, o)
  PROVE  ObjectInv(o)'
<1> DEFINE P == Parsed(o)
           new == [_empty_obj EXCEPT !.create_ns = {now}]
<1>1. /\ Hooked(c, o, <<"create", "give">>)
      /\ open' = open /\ present'[o] /\ real'[o] = <<>> /\ ~present[o]
      /\ o \notin orphaned' /\ o \notin heldDeleted'
  BY DEF CreateObject, IInv, TypeOK
<1>2. /\ TypeOK /\ SegmentsOrdered /\ LogInv /\ ObjectInv(o) /\ now \in Nat
      /\ log[o] \in Seq(Event)
  BY DEF IInv, TypeOK
<1>3. /\ kind' = kind /\ Ev(c, "create") \in Event /\ Ev(c, "give") \in Event
  BY <1>1, <1>2, HookedTwo
<1>4. P' = new /\ log'[o] = Append(Append(log[o], Ev(c, "create")), Ev(c, "give"))
  BY <1>1, <1>2, ParsedCreated
<1>5. open'[o] = <<>>
  BY <1>1, <1>2 DEF ObjectInv
<1>6. /\ new \in Obj /\ new.takes = <<>> /\ new.gives = <<>> /\ new.holds = <<>>
      /\ new.issues = {} /\ new.create_ns = {now}
  BY <1>2, NewObj
<1>7. CreationLogged(log'[o], new)
  <2> DEFINE one == Append(log[o], Ev(c, "create"))
             k == Len(log[o]) + 1
  <2>1. one \in Seq(Event) /\ k \in DOMAIN one /\ one[k] = Ev(c, "create")
    BY <1>2, <1>3
  <2> HIDE DEF one, k
  <2>2. k \in DOMAIN Append(one, Ev(c, "give")) /\ Append(one, Ev(c, "give"))[k] = one[k]
    BY <1>3, <2>1
  <2>3. log'[o] = Append(one, Ev(c, "give"))
    BY <1>4 DEF one
  <2>4. Ev(c, "create").action = "create" /\ Ev(c, "create").time = now
    BY DEF Ev
  <2> HIDE DEF new
  <2> QED
    BY <1>6, <2>1, <2>2, <2>3, <2>4 DEF CreationLogged
<1> HIDE DEF P, new
<1>8. MutexLike(o, P)'
  <2>1. Len(open'[o]) = 0
    BY <1>5
  <2> QED
    BY <1>1, <1>4, <1>5, <1>6, <2>1 DEF MutexLike
<1> QED
  BY <1>1, <1>3, <1>4, <1>6, <1>7, <1>8 DEF ObjectInv, Shared, P

\* An object is created, at an address that may have been used before.
LEMMA CreateObjectKeeps ==
  ASSUME IInv, TypeOK', NEW c \in Cores, NEW o \in Objects, CreateObject(c, o)
  PROVE  ObjectInv(o)'
<1>1. kind[o] \in {"mutex", "sem", "queue"}
  <2>1. kind[o] \in Kinds /\ ObjectInv(o)
    BY DEF IInv, TypeOK
  <2> QED
    BY <2>1 DEF Kinds, ObjectInv, CreateObject
<1> QED
  BY <1>1, NewSharedKeeps, NewMutexKeeps

\* An object is deleted: what is open is forgotten, and reported of a mutex.
LEMMA DeleteObjectKeeps ==
  ASSUME IInv, TypeOK', NEW c \in Cores, NEW o \in Objects, DeleteObject(c, o)
  PROVE  ObjectInv(o)'
<1> DEFINE P == Parsed(o)
           rec == Rcd(c, "delete")
           b == open[o]
           held == b # <<>> /\ b[1].time # Before
<1>1. /\ Hooked(c, o, <<"delete">>) /\ "delete" \in Actions /\ kind[o] # "interval"
      /\ open'[o] = <<>> /\ ~present'[o] /\ real'[o] = real[o]
      /\ shifted' = shifted /\ orphaned' = orphaned
      /\ (o \in heldDeleted') <=> (o \in heldDeleted \/ held)
  BY DEF DeleteObject, Actions, IInv, TypeOK
<1>2. /\ rec \in Rec /\ now \in Nat /\ kind' = kind /\ ObjectInv(o)
      /\ Ev(c, "delete") \in Event /\ log[o] \in Seq(Event)
      /\ log'[o] = Append(log[o], Ev(c, "delete"))
      /\ P' = OnEvent(P, kind[o], rec)
  BY <1>1, OneEvent
<1>3. P' = OnDelete(P, rec)
  <2>1. rec.action = "delete"
    BY DEF Rcd
  <2> HIDE DEF P, rec
  <2> QED
    BY <1>2, <2>1, Branches
<1> HIDE DEF P, rec
<1>4. CASE kind[o] \in Shared
  <2>1. P \in Obj /\ CreationLogged(log[o], P)
    BY <1>2, <1>4 DEF ObjectInv, P
  <2>2. /\ P' \in Obj /\ P'.takes = <<>> /\ P'.gives = <<>>
        /\ P'.create_ns = P.create_ns /\ P'.holds = P.holds
        /\ P'.issues = P.issues \cup
                (IF P.takes # <<>> THEN {Issue("delete_while_held", rec)} ELSE {})
    BY <1>2, <1>3, <2>1, DeleteEnds
  <2>3. CreationLogged(log'[o], P')
    BY <1>2, <2>1, <2>2, CreationKept
  <2>4. Len(open'[o]) = 0 /\ DOMAIN open'[o] = {} /\ Len(P'.gives) = 0
    BY <1>1, <2>2
  <2>5. kind[o] = "mutex" => MutexLike(o, P)'
    <3> SUFFICES ASSUME kind[o] = "mutex" PROVE MutexLike(o, P)'
      OBVIOUS
    <3>1. MutexLike(o, P)
      BY <1>2 DEF ObjectInv, P
    <3>2. P.takes # <<>> <=> held
      BY <3>1 DEF MutexLike
    <3>3. Issue("delete_while_held", rec).kind = "delete_while_held"
      BY DEF Issue
    <3> HIDE DEF held
    <3>4. (\E i \in P'.issues : i.kind = "delete_while_held") <=> (o \in heldDeleted')
      BY <1>1, <2>2, <3>1, <3>2, <3>3 DEF MutexLike
    <3>5. (\E i \in P'.issues : i.kind = "orphan_give") <=> (o \in orphaned')
      BY <1>1, <2>2, <3>1, <3>3 DEF MutexLike
    <3>6. \A i \in P'.issues :
            i.kind \in {"orphan_give", "delete_while_held", "CORE_MIGRATION_WHILE_HELD"}
      BY <2>2, <3>1, <3>3 DEF MutexLike
    <3>7. P'.holds = real'[o]
      BY <1>1, <2>2, <3>1 DEF MutexLike
    <3> QED
      BY <1>1, <2>2, <2>4, <3>4, <3>5, <3>6, <3>7 DEF MutexLike
  <2>6. SemLike(o, P)'
    BY <1>1, <2>2 DEF SemLike
  <2>7. kind[o] = "queue" => QueueLike(o, P)'
    <3> SUFFICES ASSUME kind[o] = "queue" PROVE QueueLike(o, P)'
      OBVIOUS
    <3>1. o \notin shifted => P.holds = real[o]
      BY <1>2 DEF ObjectInv, QueueLike, P
    <3> QED
      BY <1>1, <2>2, <2>4, <3>1 DEF QueueLike
  <2> QED
    BY <1>1, <1>2, <2>2, <2>3, <2>5, <2>6, <2>7 DEF ObjectInv, P
<1>5. CASE kind[o] \notin Shared
  BY <1>1, <1>2, <1>5 DEF ObjectInv, Shared
<1> QED
  BY <1>4, <1>5
------------------------------------------------------------------------------
(* The invariant *)

\* At first no object has an event.
LEMMA InitInv == Init => IInv
<1> SUFFICES ASSUME Init PROVE IInv
  OBVIOUS
<1>1. TypeOK
  BY TypeInit
<1>2. SegmentsOrdered
  <2> SUFFICES ASSUME NEW c \in Cores PROVE InTurn(core_segs[c])
    BY DEF SegmentsOrdered
  <2> DEFINE s == [task |-> running[c], start |-> since[c], end |-> now]
  <2>1. core_segs[c] = Append(<<>>, s) /\ s.start = 0 /\ s.end = 0
    BY DEF core_segs, Init
  <2> HIDE DEF s
  <2>2. Append(<<>>, s) = <<s>>
    OBVIOUS
  <2> QED
    BY <2>1, <2>2 DEF InTurn
<1>3. ASSUME NEW o \in Objects
      PROVE  /\ log[o] = <<>> /\ Parsed(o) = _empty_obj /\ Intervals(o) = NoMarkers
             /\ Known(core_segs, log[o], now)
  <2>1. log[o] = <<>> /\ <<>> \in Seq(Event)
    BY DEF Init
  <2>2. InFileOrder(<<>>)
    BY DEF InFileOrder
  <2>3. InOrder(<<>>) = <<>>
    BY <2>1, <2>2, SortKeepsOrder
  <2>4. Records(o) = <<>>
    BY <2>1, <2>3 DEF Records
  <2>5. Known(core_segs, <<>>, now)
    BY <2>2 DEF Known
  <2> QED
    BY <2>1, <2>3, <2>4, <2>5, ReplayedNone, PairedNone DEF Parsed, Intervals
<1>4. ASSUME NEW o \in Objects PROVE ObjectInv(o)
  <2>1. /\ log[o] = <<>> /\ Parsed(o) = _empty_obj /\ Intervals(o) = NoMarkers
    BY <1>3
  <2>2. /\ _empty_obj \in Obj
        /\ _empty_obj.takes = <<>> /\ _empty_obj.gives = <<>> /\ _empty_obj.holds = <<>>
        /\ _empty_obj.issues = {} /\ _empty_obj.create_ns = {}
    BY NewObj
  <2>3. /\ real[o] = <<>> /\ o \notin orphaned /\ o \notin heldDeleted /\ count = initial
        /\ kind[o] = "interval" => present[o]
        /\ kind[o] # "mutex" \/ ~present[o] => open[o] = <<>>
        /\ kind[o] # "sem" \/ ~present[o] => initial[o] = 0
        /\ initial[o] \in Nat
    BY <1>1 DEF Init, TypeOK
  <2>4. open[o] = <<>> \/ \E t \in Tasks : open[o] = <<[time |-> Before, task |-> t]>>
    <3>1. open[o] \in {<<>>} \cup {<<[time |-> Before, task |-> t]>> : t \in Tasks}
      BY DEF Init
    <3> QED
      BY <3>1
  <2>5. Len(open[o]) <= 1 /\ (open[o] = <<>> \/ open[o][1].time = Before)
    <3>1. ASSUME NEW t \in Tasks, open[o] = <<[time |-> Before, task |-> t]>>
          PROVE  Len(open[o]) <= 1 /\ open[o][1].time = Before
      <4> DEFINE e == [time |-> Before, task |-> t]
      <4>1. open[o] = <<e>> /\ e.time = Before
        BY <3>1
      <4> HIDE DEF e
      <4> QED
        BY <4>1
    <3>2. CASE open[o] = <<>>
      BY <3>2
    <3> QED
      BY <2>4, <3>1, <3>2, Zenon
  <2>6. CreationLogged(log[o], _empty_obj)
    BY <2>2 DEF CreationLogged
  <2>7. MutexLike(o, _empty_obj)
    BY <2>2, <2>3, <2>5 DEF MutexLike
  <2>8. SemLike(o, _empty_obj)
    <3>1. Len(_empty_obj.gives) - Len(_empty_obj.takes) = 0 /\ count[o] - initial[o] = 0
      BY <2>2, <2>3
    <3> QED
      BY <2>2, <3>1 DEF SemLike
  <2>9. open[o] = <<>> => QueueLike(o, _empty_obj) /\ IntervalLike(o, NoMarkers)
    <3> SUFFICES ASSUME open[o] = <<>>
                 PROVE  QueueLike(o, _empty_obj) /\ IntervalLike(o, NoMarkers)
      OBVIOUS
    <3>1. Times(<<>>) = <<>> /\ Spans(<<>>) = <<>>
      BY DEF Times, Spans
    <3>2. Len(<<>>) = 0 /\ DOMAIN open[o] = {}
      OBVIOUS
    <3> QED
      BY <2>2, <2>3, <3>1, <3>2 DEF QueueLike, IntervalLike, NoMarkers
  <2> QED
    BY <2>1, <2>2, <2>3, <2>6, <2>7, <2>8, <2>9 DEF ObjectInv
<1> QED
  BY <1>1, <1>2, <1>3, <1>4 DEF IInv, LogInv

\* Every step is one of the trace.
LEMMA NextIsTraceStep ==
  ASSUME TypeOK, [Next]_vars
  PROVE  TraceStep /\ kind' = kind
<1>1. ASSUME NEW c \in Cores, NEW o \in Objects, NEW acts, Hooked(c, o, acts)
      PROVE  TraceStep /\ kind' = kind
  BY <1>1 DEF Hooked, TraceStep
<1>2. CASE Advance
  BY <1>2 DEF Advance, TraceStep, system
<1>3. ASSUME NEW c \in Cores, NEW t \in Tasks \cup {Nobody}, Switch(c, t)
      PROVE  TraceStep /\ kind' = kind
  BY <1>3 DEF Switch, TraceStep, system, Someone
<1>4. CASE UNCHANGED vars
  BY <1>4 DEF vars, trace, system, TraceStep
<1>5. ASSUME NEW c \in Cores, NEW o \in Objects,
             \/ CreateObject(c, o) \/ DeleteObject(c, o)
             \/ TakeMutex(c, o) \/ GiveMutex(c, o) \/ TakeSem(c, o) \/ GiveSem(c, o)
             \/ Send(c, o) \/ Receive(c, o) \/ IntervalStart(c, o) \/ IntervalStop(c, o)
      PROVE  \E acts : Hooked(c, o, acts)
  BY <1>5, Zenon DEF CreateObject, DeleteObject, TakeMutex, GiveMutex, TakeSem, GiveSem, Send,
               Receive, IntervalStart, IntervalStop
<1> QED
  BY <1>1, <1>2, <1>3, <1>4, <1>5 DEF Next

\* The truth about the object p is as it was.
SystemKept(p) ==
    /\ present'[p] = present[p] /\ count'[p] = count[p] /\ initial'[p] = initial[p]
    /\ open'[p] = open[p] /\ real'[p] = real[p]
    /\ (p \in shifted') <=> (p \in shifted)
    /\ (p \in orphaned') <=> (p \in orphaned)
    /\ (p \in heldDeleted') <=> (p \in heldDeleted)

\* A step that leaves no event of the object p, nor changes it.
LEMMA QuietKeeps ==
  ASSUME IInv, TypeOK', TraceStep, kind' = kind,
         NEW p \in Objects, log'[p] = log[p], SystemKept(p)
  PROVE  ObjectInv(p)' /\ Known(core_segs', log'[p], now')
<1>1. TypeOK /\ SegmentsOrdered /\ LogInv /\ ObjectInv(p)
  BY DEF IInv
<1>2. Parsed(p)' = Parsed(p) /\ Intervals(p)' = Intervals(p) /\ Known(core_segs', log'[p], now')
  BY <1>1, ParsedStays
<1>3. Untouched(p)
  BY <1>2 DEF Untouched, SystemKept
<1> QED
  BY <1>1, <1>2, <1>3, UntouchedKeeps

\* A hook of the object o.
LEMMA HookKeeps ==
  ASSUME IInv, TypeOK', NEW c \in Cores, NEW o \in Objects, NEW acts,
         \/ acts \in {<<a>> : a \in Actions}
         \/ acts = <<"create", "give">>,
         Hooked(c, o, acts), ObjectInv(o)', \A p \in Objects \ {o} : SystemKept(p)
  PROVE  IInv'
<1>1. TypeOK /\ SegmentsOrdered /\ LogInv
  BY DEF IInv
<1>2. UNCHANGED <<now, running, since, closed, kind>>
  BY <1>1, HookedAny
<1>3. TraceStep
  BY <1>2 DEF TraceStep
<1>4. \A p \in Objects \ {o} : log'[p] = log[p]
  BY <1>1 DEF Hooked, TypeOK
<1>5. Known(core_segs', log'[o], now')
  <2>1. ASSUME NEW a \in Actions, acts = <<a>> PROVE Known(core_segs', log'[o], now')
    <3>1. Hooked(c, o, <<a>>)
      BY <2>1
    <3> QED
      BY <1>1, <3>1, ParsedGrows
  <2>2. ASSUME acts = <<"create", "give">> PROVE Known(core_segs', log'[o], now')
    <3>1. Hooked(c, o, <<"create", "give">>)
      BY <2>2
    <3> QED
      BY <1>1, <3>1, ParsedCreated
  <2> QED
    BY <2>1, <2>2
<1>6. \A p \in Objects \ {o} : ObjectInv(p)' /\ Known(core_segs', log'[p], now')
  BY <1>2, <1>3, <1>4, QuietKeeps
<1>7. SegmentsOrdered'
  BY <1>1, <1>3, SegmentsGrow DEF SegmentsOrdered
<1>8. LogInv'
  BY <1>5, <1>6 DEF LogInv
<1>9. \A p \in Objects : ObjectInv(p)'
  BY <1>6
<1> QED
  BY <1>7, <1>8, <1>9 DEF IInv

\* A step without a hook.
LEMMA QuietStepKeeps ==
  ASSUME IInv, TypeOK', TraceStep, UNCHANGED <<log, system>>
  PROVE  IInv'
<1>1. TypeOK /\ SegmentsOrdered /\ LogInv
  BY DEF IInv
<1>2. kind' = kind /\ \A p \in Objects : log'[p] = log[p] /\ SystemKept(p)
  BY DEF system, SystemKept
<1>3. \A p \in Objects : ObjectInv(p)' /\ Known(core_segs', log'[p], now')
  BY <1>2, QuietKeeps
<1>4. SegmentsOrdered'
  BY <1>1, SegmentsGrow DEF SegmentsOrdered
<1> QED
  BY <1>3, <1>4 DEF IInv, LogInv

\* The invariant is kept by every step.
LEMMA StepInv ==
  ASSUME IInv, [Next]_vars
  PROVE  IInv'
<1>1. TypeOK
  BY DEF IInv
<1>2. TypeOK'
  <2>1. CASE UNCHANGED vars
    BY <1>1, <2>1 DEF vars, trace, system, TypeOK
  <2> QED
    BY <1>1, <2>1, TypeStep
<1>3. TraceStep
  BY <1>1, NextIsTraceStep
<1>4. ASSUME NEW c \in Cores, NEW o \in Objects, NEW a \in Actions, Hooked(c, o, <<a>>),
             ObjectInv(o)', \A p \in Objects \ {o} : SystemKept(p)
      PROVE  IInv'
  BY <1>2, <1>4, HookKeeps
<1>5. CASE Advance
  BY <1>2, <1>3, <1>5, QuietStepKeeps DEF Advance
<1>6. ASSUME NEW c \in Cores, NEW t \in Tasks \cup {Nobody}, Switch(c, t) PROVE IInv'
  BY <1>2, <1>3, <1>6, QuietStepKeeps DEF Switch
<1>7. CASE UNCHANGED vars
  BY <1>2, <1>3, <1>7, QuietStepKeeps DEF vars, trace
<1>8. ASSUME NEW c \in Cores, NEW o \in Objects, CreateObject(c, o) PROVE IInv'
  <2>1. ObjectInv(o)'
    BY <1>2, <1>8, CreateObjectKeeps
  <2>2. \A p \in Objects \ {o} : SystemKept(p)
    BY <1>1, <1>8 DEF CreateObject, SystemKept, TypeOK
  <2>3. PICK acts : /\ Hooked(c, o, acts)
                    /\ acts \in {<<"create">>, <<"create", "give">>}
    BY <1>8 DEF CreateObject
  <2>4. \/ acts \in {<<a>> : a \in Actions}
        \/ acts = <<"create", "give">>
    BY <2>3 DEF Actions
  <2> QED
    BY <1>2, <2>1, <2>2, <2>3, <2>4, HookKeeps
<1>9. ASSUME NEW c \in Cores, NEW o \in Objects, DeleteObject(c, o) PROVE IInv'
  <2>1. ObjectInv(o)' /\ Hooked(c, o, <<"delete">>) /\ "delete" \in Actions
    BY <1>2, <1>9, DeleteObjectKeeps DEF DeleteObject, Actions
  <2>2. \A p \in Objects \ {o} : SystemKept(p)
    BY <1>1, <1>9 DEF DeleteObject, SystemKept, TypeOK
  <2> QED
    BY <1>4, <2>1, <2>2
<1>10. ASSUME NEW c \in Cores, NEW o \in Objects, TakeMutex(c, o) PROVE IInv'
  <2>1. ObjectInv(o)' /\ Hooked(c, o, <<"take">>) /\ "take" \in Actions
    BY <1>2, <1>10, TakeMutexKeeps DEF TakeMutex, Actions
  <2>2. \A p \in Objects \ {o} : SystemKept(p)
    BY <1>1, <1>10 DEF TakeMutex, SystemKept, TypeOK
  <2> QED
    BY <1>4, <2>1, <2>2
<1>11. ASSUME NEW c \in Cores, NEW o \in Objects, GiveMutex(c, o) PROVE IInv'
  <2>1. ObjectInv(o)' /\ Hooked(c, o, <<"give">>) /\ "give" \in Actions
    BY <1>2, <1>11, GiveMutexKeeps DEF GiveMutex, Actions
  <2>2. \A p \in Objects \ {o} : SystemKept(p)
    BY <1>1, <1>11 DEF GiveMutex, Over, SystemKept, TypeOK
  <2> QED
    BY <1>4, <2>1, <2>2
<1>12. ASSUME NEW c \in Cores, NEW o \in Objects, TakeSem(c, o) PROVE IInv'
  <2>1. ObjectInv(o)' /\ Hooked(c, o, <<"take">>) /\ "take" \in Actions
    BY <1>2, <1>12, TakeSemKeeps DEF TakeSem, Actions
  <2>2. \A p \in Objects \ {o} : SystemKept(p)
    BY <1>1, <1>12 DEF TakeSem, SystemKept, TypeOK
  <2> QED
    BY <1>4, <2>1, <2>2
<1>13. ASSUME NEW c \in Cores, NEW o \in Objects, GiveSem(c, o) PROVE IInv'
  <2>1. ObjectInv(o)' /\ Hooked(c, o, <<"give">>) /\ "give" \in Actions
    BY <1>2, <1>13, GiveSemKeeps DEF GiveSem, Actions
  <2>2. \A p \in Objects \ {o} : SystemKept(p)
    BY <1>1, <1>13 DEF GiveSem, SystemKept, TypeOK
  <2> QED
    BY <1>4, <2>1, <2>2
<1>14. ASSUME NEW c \in Cores, NEW o \in Objects, Send(c, o) PROVE IInv'
  <2>1. ObjectInv(o)' /\ Hooked(c, o, <<"send">>) /\ "send" \in Actions
    BY <1>2, <1>14, SendKeeps DEF Send, Actions
  <2>2. \A p \in Objects \ {o} : SystemKept(p)
    BY <1>1, <1>14 DEF Send, SystemKept, TypeOK
  <2> QED
    BY <1>4, <2>1, <2>2
<1>15. ASSUME NEW c \in Cores, NEW o \in Objects, Receive(c, o) PROVE IInv'
  <2>1. ObjectInv(o)' /\ Hooked(c, o, <<"recv">>) /\ "recv" \in Actions
    BY <1>2, <1>15, ReceiveKeeps DEF Receive, Actions
  <2>2. \A p \in Objects \ {o} : SystemKept(p)
    BY <1>1, <1>15 DEF Receive, Over, SystemKept, TypeOK
  <2> QED
    BY <1>4, <2>1, <2>2
<1>16. ASSUME NEW c \in Cores, NEW o \in Objects, IntervalStart(c, o) PROVE IInv'
  <2>1. ObjectInv(o)' /\ Hooked(c, o, <<"start">>) /\ "start" \in Actions
    BY <1>2, <1>16, IntervalStartKeeps DEF IntervalStart, Actions
  <2>2. \A p \in Objects \ {o} : SystemKept(p)
    BY <1>1, <1>16 DEF IntervalStart, SystemKept, TypeOK
  <2> QED
    BY <1>4, <2>1, <2>2
<1>17. ASSUME NEW c \in Cores, NEW o \in Objects, IntervalStop(c, o) PROVE IInv'
  <2>1. ObjectInv(o)' /\ Hooked(c, o, <<"stop">>) /\ "stop" \in Actions
    BY <1>2, <1>17, IntervalStopKeeps DEF IntervalStop, Actions
  <2>2. \A p \in Objects \ {o} : SystemKept(p)
    BY <1>1, <1>17 DEF IntervalStop, Over, SystemKept, TypeOK
  <2> QED
    BY <1>4, <2>1, <2>2
<1> QED
  BY <1>5, <1>6, <1>7, <1>8, <1>9, <1>10, <1>11, <1>12, <1>13, <1>14, <1>15, <1>16, <1>17
     DEF Next

\* The invariant of the traced system and of what the parser makes of its trace.
THEOREM Invariance == Spec => []IInv
<1>1. IInv /\ [Next]_vars => IInv'
  BY StepInv
<1> QED
  BY <1>1, InitInv, PTL DEF Spec
------------------------------------------------------------------------------
(* What the parser shows *)

\* A mutex is held, and was taken since the trace began.
HeldSince(o) == open[o] # <<>> /\ open[o][1].time # Before

\* The takes of a mutex without a give, and who they are of.
LEMMA MutexTakes ==
  ASSUME IInv, NEW o \in OfKind("mutex")
  PROVE  /\ o \in Objects /\ MutexLike(o, Parsed(o))
         /\ Parsed(o).takes = <<>> <=> ~HeldSince(o)
         /\ HeldSince(o) => /\ ToSet(Parsed(o).takes) = {Parsed(o).takes[1]}
                            /\ Parsed(o).takes[1].task = open[o][1].task
                            /\ open[o][1].task \in Tasks
<1> DEFINE P == Parsed(o)
<1>1. o \in Objects /\ kind[o] = "mutex" /\ ObjectInv(o) /\ TypeOK
  BY DEF OfKind, IInv
<1>2. MutexLike(o, P) /\ P \in Obj
  BY <1>1 DEF ObjectInv, Shared
<1>3. P.takes \in Seq(Rec) /\ open[o] \in Seq(Entry)
  BY <1>1, <1>2 DEF Obj, TypeOK
<1> HIDE DEF P
<1>4. P.takes = <<>> <=> ~HeldSince(o)
  BY <1>2 DEF MutexLike, HeldSince
<1>5. ASSUME HeldSince(o)
      PROVE  /\ ToSet(P.takes) = {P.takes[1]}
             /\ P.takes[1].task = open[o][1].task
             /\ open[o][1].task \in Tasks
  <2>1. Len(P.takes) = 1 /\ P.takes[1].task = open[o][1].task
    BY <1>2, <1>5 DEF MutexLike, HeldSince
  <2>2. DOMAIN P.takes = {1}
    BY <1>3, <2>1
  <2>3. open[o][1] \in Entry
    BY <1>3, <1>5 DEF HeldSince
  <2> QED
    BY <2>1, <2>2, <2>3 DEF ToSet, Entry
<1> QED
  BY <1>1, <1>2, <1>4, <1>5 DEF P

\* The holds shown of a mutex and the messages shown of a queue are the real ones:
\* of a queue until a message older than the trace is received while one sent
\* since is waiting.
THEOREM HoldsRealHolds == Spec => []HoldsReal
<1>1. IInv => HoldsReal
  BY DEF IInv, HoldsReal, OfKind, ObjectInv, MutexLike, QueueLike
<1> QED
  BY <1>1, Invariance, PTL

\* An issue is reported of a mutex when there is reason to, and only then.
THEOREM IssuesRealHolds == Spec => []IssuesReal
<1>1. ASSUME IInv, NEW o \in OfKind("mutex")
      PROVE  LET kinds == {i.kind : i \in Issues(o)} IN
             /\ "cross_task_give" \notin kinds
             /\ "orphan_give" \in kinds <=> o \in orphaned
             /\ "delete_while_held" \in kinds <=> o \in heldDeleted
             /\ "unmatched_take" \in kinds <=> open[o] # <<>> /\ open[o][1].time # Before
  <2> DEFINE P == Parsed(o)
             ends == {Issue("unmatched_take", r) : r \in ToSet(P.takes)}
  <2>1. MutexLike(o, P)
    BY <1>1, MutexTakes
  <2>2. P.gives = <<>>
    BY <2>1 DEF MutexLike
  <2>3. Issues(o) = P.issues \cup ends
    BY <2>2 DEF Issues, ToSet
  <2>4. \A i \in ends : i.kind = "unmatched_take"
    BY DEF Issue
  <2>5. (\E i \in ends : TRUE) <=> HeldSince(o)
    <3>1. CASE HeldSince(o)
      <4>1. P.takes[1] \in ToSet(P.takes)
        BY <1>1, <3>1, MutexTakes
      <4>2. Issue("unmatched_take", P.takes[1]) \in ends
        BY <4>1
      <4> QED
        BY <3>1, <4>2
    <3>2. CASE ~HeldSince(o)
      <4>1. P.takes = <<>>
        BY <1>1, <3>2, MutexTakes
      <4> QED
        BY <3>2, <4>1 DEF ToSet
    <3> QED
      BY <3>1, <3>2
  <2>6. /\ \A i \in P.issues :
              i.kind \in {"orphan_give", "delete_while_held", "CORE_MIGRATION_WHILE_HELD"}
        /\ (\E i \in P.issues : i.kind = "orphan_give") <=> (o \in orphaned)
        /\ (\E i \in P.issues : i.kind = "delete_while_held") <=> (o \in heldDeleted)
    BY <2>1 DEF MutexLike
  <2> HIDE DEF P, ends
  <2> QED
    BY <2>3, <2>4, <2>5, <2>6 DEF HeldSince
<1>2. IInv => IssuesReal
  BY <1>1 DEF IssuesReal
<1> QED
  BY <1>2, Invariance, PTL

\* A set of two elements or more.
LEMMA TwoElements ==
  ASSUME NEW S, IsFiniteSet(S)
  PROVE  Cardinality(S) >= 2 <=> \E x, y \in S : x # y
<1>1. Cardinality(S) \in Nat
  BY FS_CardinalityType
<1>2. ASSUME NEW x \in S, NEW y \in S, x # y PROVE Cardinality(S) >= 2
  <2>1. /\ IsFiniteSet(S \ {x}) /\ Cardinality(S \ {x}) = Cardinality(S) - 1
    BY FS_RemoveElement
  <2>2. y \in S \ {x}
    BY <1>2
  <2>3. Cardinality(S \ {x}) # 0 /\ Cardinality(S \ {x}) \in Nat
    <3>1. Cardinality(S \ {x}) \in Nat
      BY <2>1, FS_CardinalityType
    <3>2. Cardinality(S \ {x}) = 0 <=> S \ {x} = {}
      BY <2>1, FS_EmptySet
    <3> QED
      BY <2>2, <3>1, <3>2
  <2> QED
    BY <1>1, <2>1, <2>3
<1>3. ASSUME Cardinality(S) >= 2 PROVE \E x, y \in S : x # y
  <2>1. S # {}
    BY <1>3, FS_EmptySet
  <2>2. PICK x \in S : TRUE
    BY <2>1
  <2>3. S # {x}
    BY <1>3, FS_Singleton
  <2> QED
    BY <2>2, <2>3
<1> QED
  BY <1>2, <1>3

\* What the elements of a finite set are mapped to is finite.
LEMMA FiniteRange ==
  ASSUME NEW S, IsFiniteSet(S), NEW f, DOMAIN f = S, f = [x \in S |-> f[x]],
         NEW T, T \subseteq {f[x] : x \in S}
  PROVE  IsFiniteSet(T)
<1> DEFINE R == {f[x] : x \in S}
<1>1. f \in Surjection(S, R)
  BY DEF Surjection
<1>2. IsFiniteSet(R)
  <2> HIDE DEF R
  <2> QED
    BY <1>1, FS_Surjection
<1> QED
  BY <1>2, FS_Subset

\* The risk of a deadlock is reported when two tasks hold a mutex each.
THEOREM DeadlockRiskRealHolds == Spec => []DeadlockRiskReal
<1>1. ASSUME IInv PROVE DeadlockRiskReal
  <2> DEFINE M == OfKind("mutex")
             P(o) == Parsed(o)
             ends == UNION {{[obj |-> o, rec |-> r] : r \in ToSet(P(o).takes)} : o \in M}
             owners == {e.rec.task : e \in ends} \ {Nobody}
             end == [o \in Objects |-> [obj |-> o, rec |-> P(o).takes[1]]]
             owner == [o \in Objects |-> P(o).takes[1].task]
  <2>1. ends = {end[o] : o \in {p \in M : HeldSince(p)}}
    <3>1. ASSUME NEW o \in M, HeldSince(o)
          PROVE  {[obj |-> o, rec |-> r] : r \in ToSet(P(o).takes)} = {end[o]}
      BY <1>1, <3>1, MutexTakes
    <3>2. ASSUME NEW o \in M, ~HeldSince(o)
          PROVE  {[obj |-> o, rec |-> r] : r \in ToSet(P(o).takes)} = {}
      <4>1. ToSet(P(o).takes) = {}
        BY <1>1, <3>2, MutexTakes DEF ToSet
      <4> QED
        BY <4>1
    <3> HIDE DEF end, P, M
    <3> QED
      BY <3>1, <3>2
  <2>2. M \subseteq Objects /\ IsFiniteSet(Objects) /\ Nobody \notin Tasks
    BY SyncAssumption DEF OfKind
  <2>3. \A o \in M : /\ end[o].rec.task = owner[o] /\ end[o].obj = o
                     /\ HeldSince(o) => owner[o] = open[o][1].task /\ owner[o] \in Tasks
    BY <1>1, <2>2, MutexTakes
  <2>4. owners = {owner[o] : o \in {p \in M : HeldSince(p)}}
    <3> HIDE DEF end, owner, M, ends
    <3> QED
      BY <2>1, <2>2, <2>3
  <2>5. IsFiniteSet(ends) /\ IsFiniteSet(owners)
    <3>1. /\ DOMAIN end = Objects /\ end = [o \in Objects |-> end[o]]
          /\ DOMAIN owner = Objects /\ owner = [o \in Objects |-> owner[o]]
      OBVIOUS
    <3>2. ends \subseteq {end[o] : o \in Objects} /\ owners \subseteq {owner[o] : o \in Objects}
      <4> HIDE DEF end, owner, M, ends, owners
      <4> QED
        BY <2>1, <2>2, <2>4
    <3> HIDE DEF end, owner, ends, owners
    <3> QED
      BY <2>2, <3>1, <3>2, FiniteRange
  <2>6. deadlock_risk <=> Cardinality(ends) >= 2 /\ Cardinality(owners) >= 2
    BY DEF deadlock_risk
  <2>7. deadlock_risk <=> (\E d, e \in ends : d # e) /\ (\E t, u \in owners : t # u)
    <3> HIDE DEF ends, owners
    <3> QED
      BY <2>5, <2>6, TwoElements
  <2>8. (\E t, u \in owners : t # u) <=>
            \E o, p \in M : HeldSince(o) /\ HeldSince(p) /\ open[o][1].task # open[p][1].task
    <3> DEFINE L == {p \in M : HeldSince(p)}
    <3>1. \A o \in L : owner[o] = open[o][1].task
      BY <2>3
    <3> HIDE DEF owner, owners
    <3>2. (\E t, u \in owners : t # u) <=> \E o, p \in L : owner[o] # owner[p]
      <4> HIDE DEF L
      <4> QED
        BY <2>4 DEF L
    <3>3. (\E o, p \in L : owner[o] # owner[p]) <=>
            \E o, p \in L : open[o][1].task # open[p][1].task
      <4> HIDE DEF L
      <4> QED
        BY <3>1
    <3>4. (\E o, p \in L : open[o][1].task # open[p][1].task) <=>
            \E o, p \in M : HeldSince(o) /\ HeldSince(p) /\ open[o][1].task # open[p][1].task
      <4> HIDE DEF M
      <4> QED
        BY Zenon
    <3> QED
      BY <3>2, <3>3, <3>4
  <2>9. (\E t, u \in owners : t # u) => \E d, e \in ends : d # e
    <3> HIDE DEF ends
    <3> QED
      OBVIOUS
  <2>10. DeadlockRiskReal <=> (deadlock_risk <=>
            \E o, p \in M : HeldSince(o) /\ HeldSince(p) /\ open[o][1].task # open[p][1].task)
    BY DEF DeadlockRiskReal, HeldSince
  <2> HIDE DEF M, ends, owners
  <2> QED
    BY <2>7, <2>8, <2>9, <2>10
<1> QED
  BY <1>1, Invariance, PTL

\* Takes and gives of a semaphore are paired off as far as they go.
THEOREM SemBalanceHolds == Spec => []SemBalance
<1>1. IInv => SemBalance
  BY DEF IInv, SemBalance, OfKind, ObjectInv, SemLike
<1> QED
  BY <1>1, Invariance, PTL

\* Nested intervals of one key are shown as they were.
THEOREM IntervalsRealHolds == Spec => []IntervalsReal
<1>1. ASSUME IInv, NEW o \in OfKind("interval")
      PROVE  /\ Intervals(o).spans = [i \in DOMAIN real[o] |->
                                        [start |-> real[o][i].start, stop |-> real[o][i].stop]]
             /\ Len(Intervals(o).stack) = Len(open[o])
  <2>1. IntervalLike(o, Intervals(o)) /\ open[o] \in Seq(Entry)
    BY <1>1 DEF IInv, OfKind, ObjectInv, TypeOK
  <2>2. Intervals(o).stack = Times(open[o]) /\ Intervals(o).spans = Spans(real[o])
    BY <2>1 DEF IntervalLike
  <2>3. Len(Times(open[o])) = Len(open[o])
    BY <2>1 DEF Times
  <2> QED
    BY <2>2, <2>3 DEF Spans
<1>2. IInv => IntervalsReal
  BY <1>1 DEF IntervalsReal
<1> QED
  BY <1>2, Invariance, PTL
==============================================================================
