----------------------------- MODULE AiChat_proof -----------------------------
(***************************************************************************)
(* Proofs about the conversation, for any number of tool rounds, questions *)
(* and clears.                                                             *)
(***************************************************************************)
EXTENDS AiChat, FiniteSetTheorems, TLAPS

------------------------------------------------------------------------------
(* The queue of signals *)

NoRepeats(s) == \A i, j \in DOMAIN s : s[i] = s[j] => i = j

\* What is in a queue is its head or waits behind it, and only once if it came
\* once.
LEMMA QueueTail ==
    ASSUME NEW S, NEW s \in Seq(S), s # << >>
    PROVE  /\ Head(s) \in S /\ Head(s) \in ToSet(s)
           /\ Tail(s) \in Seq(S)
           /\ ToSet(Tail(s)) \subseteq ToSet(s)
           /\ ToSet(s) \subseteq ToSet(Tail(s)) \cup {Head(s)}
           /\ NoRepeats(s) => NoRepeats(Tail(s)) /\ Head(s) \notin ToSet(Tail(s))
<1>1. /\ Len(s) \in Nat /\ DOMAIN s = 1..Len(s) /\ Len(s) > 0
      /\ Head(s) = s[1] /\ \A i \in 1..Len(s) : s[i] \in S
  OBVIOUS
<1>2. /\ Tail(s) \in Seq(S) /\ DOMAIN Tail(s) = 1..(Len(s) - 1)
      /\ \A i \in 1..(Len(s) - 1) : Tail(s)[i] = s[i + 1]
  BY <1>1
<1>3. ToSet(s) = {s[i] : i \in 1..Len(s)} /\ ToSet(Tail(s)) = {Tail(s)[i] : i \in 1..(Len(s) - 1)}
  BY <1>1, <1>2 DEF ToSet
<1>4. ToSet(Tail(s)) \subseteq ToSet(s)
  BY <1>1, <1>2, <1>3
<1>5. ASSUME NEW w \in ToSet(s), w # Head(s) PROVE w \in ToSet(Tail(s))
  <2>1. PICK i \in 1..Len(s) : w = s[i]
    BY <1>3
  <2>2. i - 1 \in 1..(Len(s) - 1) /\ Tail(s)[i - 1] = s[i]
    BY <2>1, <1>1, <1>2, <1>5
  <2> QED
    BY <2>1, <2>2, <1>3
<1>6. ASSUME NoRepeats(s) PROVE NoRepeats(Tail(s)) /\ Head(s) \notin ToSet(Tail(s))
  <2>1. NoRepeats(Tail(s))
    BY <1>1, <1>2, <1>6 DEF NoRepeats
  <2>2. ASSUME NEW i \in 1..(Len(s) - 1) PROVE Tail(s)[i] # Head(s)
    BY <1>1, <1>2, <1>6 DEF NoRepeats
  <2> QED
    BY <2>1, <2>2, <1>3
<1> QED
  BY <1>1, <1>2, <1>3, <1>4, <1>5, <1>6

\* A signal that is queued joins the end.
LEMMA QueueAppend ==
    ASSUME NEW S, NEW s \in Seq(S), NEW w \in S
    PROVE  /\ Append(s, w) \in Seq(S)
           /\ ToSet(Append(s, w)) = ToSet(s) \cup {w}
           /\ NoRepeats(s) /\ w \notin ToSet(s) => NoRepeats(Append(s, w))
<1>1. /\ Len(s) \in Nat /\ DOMAIN s = 1..Len(s) /\ Append(s, w) \in Seq(S)
      /\ DOMAIN Append(s, w) = 1..(Len(s) + 1) /\ Append(s, w)[Len(s) + 1] = w
      /\ \A i \in 1..Len(s) : Append(s, w)[i] = s[i]
  OBVIOUS
<1>2. /\ ToSet(s) = {s[i] : i \in 1..Len(s)}
      /\ ToSet(Append(s, w)) = {Append(s, w)[i] : i \in 1..(Len(s) + 1)}
  BY <1>1 DEF ToSet
<1>3. 1..(Len(s) + 1) = 1..Len(s) \cup {Len(s) + 1}
  BY <1>1
<1>4. ToSet(Append(s, w)) = ToSet(s) \cup {w}
  BY <1>1, <1>2, <1>3
<1>5. ASSUME NoRepeats(s), w \notin ToSet(s) PROVE NoRepeats(Append(s, w))
  BY <1>1, <1>2, <1>3, <1>5 DEF NoRepeats
<1> QED
  BY <1>1, <1>4, <1>5
------------------------------------------------------------------------------
(* Types *)

WorkerType == [cancel : BOOLEAN, connected : BOOLEAN, result : Results \cup {"none", "gone"}]
EntryType == [role : {"user", "assistant", "calls", "results", "part"}, of : Nat \ {0}]

WorkerTypes ==
    /\ workers \in Seq(WorkerType)
    /\ worker \in 0..Len(workers)
    /\ signals \in Seq(1..Len(workers))
Counts ==
    /\ tool_round \in 0..MaxRounds
    /\ queries \in 0..MaxQueries
    /\ clears \in 0..MaxClears
Flags == busy \in BOOLEAN /\ stopped \in BOOLEAN /\ calm \in BOOLEAN
Talk == chat_messages \in Seq(EntryType)
Types == WorkerTypes /\ Counts /\ Flags /\ Talk

\* One worker changes, the others stay.
LEMMA OneWorker ==
    ASSUME NEW s \in Seq(WorkerType), NEW i \in 1..Len(s), NEW v \in WorkerType
    PROVE  LET t == [s EXCEPT ![i] = v]
           IN  /\ t \in Seq(WorkerType) /\ Len(t) = Len(s) /\ t[i] = v
               /\ \A w \in 1..Len(s) : w # i => t[w] = s[w]
OBVIOUS

\* A worker that is told to stop keeps everything else.
LEMMA CancelledEffect ==
    ASSUME WorkerTypes, worker # 0
    PROVE  /\ Cancelled \in Seq(WorkerType) /\ Len(Cancelled) = Len(workers)
           /\ Cancelled[worker].cancel
           /\ \A w \in 1..Len(workers) :
                /\ Cancelled[w].result = workers[w].result
                /\ Cancelled[w].connected = workers[w].connected
                /\ workers[w].cancel => Cancelled[w].cancel
<1>1. worker \in 1..Len(workers) /\ Len(workers) \in Nat
  BY DEF WorkerTypes
<1> DEFINE old == workers[worker]
           v == [cancel |-> TRUE, connected |-> old.connected, result |-> old.result]
<1>2. old \in WorkerType
  BY <1>1 DEF WorkerTypes
<1>3. v \in WorkerType /\ v.cancel /\ v.connected = old.connected /\ v.result = old.result
  BY <1>2 DEF WorkerType
<1>4. Cancelled = [workers EXCEPT ![worker] = v]
  BY DEF Cancelled
<1>5. /\ Cancelled \in Seq(WorkerType) /\ Len(Cancelled) = Len(workers)
      /\ Cancelled[worker] = v
      /\ \A w \in 1..Len(workers) : w # worker => Cancelled[w] = workers[w]
  <2> HIDE DEF v
  <2> QED
    BY <1>1, <1>3, <1>4, OneWorker DEF WorkerTypes
<1> HIDE DEF v
<1> QED
  BY <1>1, <1>3, <1>5

\* The worker whose signal is handled is gone, the current one is told to stop.
LEMMA RetiredEffect ==
    ASSUME WorkerTypes, signals # << >>
    PROVE  /\ Retired \in Seq(WorkerType) /\ Len(Retired) = Len(workers)
           /\ Head(signals) \in 1..Len(workers)
           /\ Retired[Head(signals)].result = "gone"
           /\ \A w \in 1..Len(workers) :
                w # Head(signals) => Retired[w].result = workers[w].result
<1>1. Head(signals) \in 1..Len(workers) /\ Len(workers) \in Nat
  BY QueueTail DEF WorkerTypes
<1> DEFINE handled == [workers EXCEPT ![Head(signals)] = Gone]
<1>2. Gone \in WorkerType /\ Gone.result = "gone"
  BY DEF Gone, WorkerType
<1>3. /\ handled \in Seq(WorkerType) /\ Len(handled) = Len(workers)
      /\ handled[Head(signals)] = Gone
      /\ \A w \in 1..Len(workers) : w # Head(signals) => handled[w] = workers[w]
  BY <1>1, <1>2, OneWorker DEF WorkerTypes
<1>4. CASE worker = 0
  BY <1>1, <1>2, <1>3, <1>4 DEF Retired
<1>5. CASE worker # 0
  <2> DEFINE v == [cancel |-> TRUE, connected |-> FALSE, result |-> handled[worker].result]
  <2>1. Retired = [handled EXCEPT ![worker] = v]
    BY <1>5 DEF Retired
  <2>2. worker \in 1..Len(workers)
    BY <1>5 DEF WorkerTypes
  <2>3. v \in WorkerType /\ v.result = handled[worker].result
    <3>1. handled[worker] \in WorkerType
      BY <2>2, <1>3
    <3> QED
      BY <3>1 DEF WorkerType
  <2> HIDE DEF handled, v
  <2>4. /\ Retired \in Seq(WorkerType) /\ Len(Retired) = Len(workers)
        /\ \A w \in 1..Len(workers) : Retired[w].result = handled[w].result
    BY <2>1, <2>2, <2>3, <1>3, OneWorker
  <2> QED
    BY <2>4, <1>1, <1>2, <1>3
<1> QED
  BY <1>4, <1>5
------------------------------------------------------------------------------
(* What a step does to the workers *)

SignalsOnce ==
    /\ NoRepeats(signals)
    /\ \A w \in ToSet(signals) : workers[w].result \in Results

WorkerInv == WorkerTypes /\ BusyHasWorker /\ SignalsOnce

\* What waits is a worker.
LEMMA PendingWorkers ==
    ASSUME WorkerTypes
    PROVE  /\ Len(workers) \in Nat
           /\ Pending = {w \in 1..Len(workers) : workers[w].result # "gone"}
           /\ ToSet(signals) \subseteq 1..Len(workers)
<1>1. Len(workers) \in Nat /\ DOMAIN workers = 1..Len(workers)
  BY DEF WorkerTypes
<1>2. \A w \in ToSet(signals) : w \in 1..Len(workers)
  BY DEF WorkerTypes, ToSet
<1> QED
  BY <1>1, <1>2 DEF Pending

\* A question, while nothing else is done.
LEMMA AskEffect ==
    ASSUME WorkerInv, StartWorker(workers), UNCHANGED signals
    PROVE  /\ WorkerInv'
           /\ Len(workers') = Len(workers) + 1
           /\ Pending' = Pending \cup {worker'}
<1> USE DEF WorkerInv
<1>1. NewWorker \in WorkerType /\ NewWorker.result = "none" /\ NewWorker.connected
  BY DEF NewWorker, WorkerType, Results, AnswerKinds
<1>2. /\ workers' \in Seq(WorkerType) /\ Len(workers') = Len(workers) + 1
      /\ workers'[Len(workers) + 1] = NewWorker
      /\ \A w \in 1..Len(workers) : workers'[w] = workers[w]
  BY <1>1 DEF StartWorker, WorkerTypes
<1>3. worker' = Len(workers) + 1 /\ busy' = TRUE
  BY DEF StartWorker
<1>4. WorkerTypes'
  <2>1. Len(workers) \in Nat
    BY DEF WorkerTypes
  <2>2. signals \in Seq(1..Len(workers'))
    BY <1>2, <2>1 DEF WorkerTypes
  <2> QED
    BY <1>2, <1>3, <2>1, <2>2 DEF WorkerTypes
<1>5. Pending' = Pending \cup {worker'}
  <2>1. Len(workers) \in Nat /\ 1..(Len(workers) + 1) = 1..Len(workers) \cup {worker'}
    BY <1>3, PendingWorkers
  <2>2. Pending' = {w \in 1..(Len(workers) + 1) : workers'[w].result # "gone"}
    BY <1>2, <2>1 DEF Pending
  <2>3. {w \in 1..(Len(workers) + 1) : workers'[w].result # "gone"}
          = {w \in 1..Len(workers) : workers[w].result # "gone"} \cup {worker'}
    BY <1>1, <1>2, <1>3, <2>1
  <2> QED
    BY <2>2, <2>3, PendingWorkers
<1>6. SignalsOnce'
  BY <1>2, PendingWorkers DEF SignalsOnce
<1>7. BusyHasWorker'
  BY <1>1, <1>2, <1>3, <1>5, PendingWorkers DEF BusyHasWorker
<1> QED
  BY <1>2, <1>4, <1>5, <1>6, <1>7

\* Stop, or a clear while a request is running.
LEMMA StopEffect ==
    ASSUME WorkerInv, worker # 0, workers' = Cancelled, UNCHANGED <<signals, worker, busy>>
    PROVE  /\ WorkerInv'
           /\ Len(workers') = Len(workers)
           /\ Pending' = Pending
           /\ workers'[worker].cancel
           /\ \A w \in Pending : /\ workers'[w].result = workers[w].result
                                 /\ workers[w].cancel => workers'[w].cancel
<1> USE DEF WorkerInv
<1>1. /\ workers' \in Seq(WorkerType) /\ Len(workers') = Len(workers)
      /\ workers'[worker].cancel
      /\ \A w \in 1..Len(workers) :
           /\ workers'[w].result = workers[w].result
           /\ workers'[w].connected = workers[w].connected
           /\ workers[w].cancel => workers'[w].cancel
  BY CancelledEffect
<1>2. WorkerTypes'
  BY <1>1 DEF WorkerTypes
<1>3. Pending' = Pending
  <2>1. Pending' = {w \in 1..Len(workers) : workers'[w].result # "gone"}
    BY <1>1 DEF Pending
  <2> QED
    BY <2>1, <1>1, PendingWorkers
<1>4. SignalsOnce'
  BY <1>1, PendingWorkers DEF SignalsOnce
<1>5. BusyHasWorker'
  BY <1>1, <1>3, PendingWorkers DEF BusyHasWorker
<1> QED
  BY <1>1, <1>2, <1>3, <1>4, <1>5, PendingWorkers

\* A request ends, and its worker knows how.
LEMMA RunEffect ==
    ASSUME WorkerInv, NEW w \in DOMAIN workers, NEW result \in Results, Run(w, result)
    PROVE  /\ WorkerInv'
           /\ Len(workers') = Len(workers)
           /\ Pending' = Pending
           /\ w \in Pending /\ workers'[w].result = result
           /\ workers'[w].cancel = workers[w].cancel
           /\ \A v \in Pending : v # w => workers'[v] = workers[v]
<1> USE DEF WorkerInv
<1>1. w \in 1..Len(workers) /\ Len(workers) \in Nat
  BY PendingWorkers DEF WorkerTypes
<1> DEFINE new == [cancel |-> workers[w].cancel, connected |-> workers[w].connected,
                   result |-> result]
<1>2. /\ new \in WorkerType /\ new.result = result
      /\ new.cancel = workers[w].cancel /\ new.connected = workers[w].connected
  <2>1. workers[w] \in WorkerType
    BY <1>1 DEF WorkerTypes
  <2> QED
    BY <2>1 DEF WorkerType
<1>3. /\ workers' = [workers EXCEPT ![w] = new] /\ signals' = signals
      /\ workers[w].result = "none" /\ worker' = worker /\ busy' = busy
  BY DEF Run, Ended
<1> HIDE DEF new
<1>4. /\ workers' \in Seq(WorkerType) /\ Len(workers') = Len(workers) /\ workers'[w] = new
      /\ \A v \in 1..Len(workers) : v # w => workers'[v] = workers[v]
  BY <1>1, <1>2, <1>3, OneWorker DEF WorkerTypes
<1>5. result # "gone"
  BY DEF Results, AnswerKinds
<1>6. WorkerTypes'
  BY <1>3, <1>4 DEF WorkerTypes
<1>7. Pending' = Pending
  <2>1. Pending' = {v \in 1..Len(workers) : workers'[v].result # "gone"}
    BY <1>1, <1>4 DEF Pending
  <2>2. {v \in 1..Len(workers) : workers'[v].result # "gone"}
          = {v \in 1..Len(workers) : workers[v].result # "gone"}
    BY <1>1, <1>2, <1>3, <1>4, <1>5
  <2> QED
    BY <2>1, <2>2, PendingWorkers
<1>8. SignalsOnce'
  BY <1>2, <1>3, <1>4, PendingWorkers DEF SignalsOnce
<1>9. BusyHasWorker'
  BY <1>2, <1>3, <1>4, <1>7, PendingWorkers DEF BusyHasWorker
<1> QED
  BY <1>1, <1>2, <1>3, <1>4, <1>6, <1>7, <1>8, <1>9, PendingWorkers

\* A signal is queued.
LEMMA EmitEffect ==
    ASSUME WorkerInv, NEW w \in DOMAIN workers, workers[w].result \in Results,
           w \notin ToSet(signals), signals' = Append(signals, w),
           UNCHANGED <<worker, busy, workers>>
    PROVE  WorkerInv' /\ Pending' = Pending
<1> USE DEF WorkerInv
<1>1. w \in 1..Len(workers)
  BY DEF WorkerTypes
<1>2. /\ signals' \in Seq(1..Len(workers)) /\ ToSet(signals') = ToSet(signals) \cup {w}
      /\ NoRepeats(signals')
  BY <1>1, QueueAppend DEF WorkerTypes, SignalsOnce
<1> QED
  BY <1>2 DEF WorkerTypes, SignalsOnce, BusyHasWorker, Pending

\* A disconnected worker has nobody to signal.
LEMMA LostEffect ==
    ASSUME WorkerInv, NEW w \in DOMAIN workers, ~workers[w].connected,
           w \notin ToSet(signals), workers' = [workers EXCEPT ![w] = Gone],
           UNCHANGED <<worker, busy, signals>>
    PROVE  /\ WorkerInv'
           /\ Len(workers') = Len(workers)
           /\ Pending' \subseteq Pending
           /\ \A v \in Pending' : workers'[v] = workers[v]
<1> USE DEF WorkerInv
<1>1. w \in 1..Len(workers)
  BY DEF WorkerTypes
<1>2. Gone \in WorkerType /\ Gone.result = "gone"
  BY DEF Gone, WorkerType
<1>3. /\ workers' \in Seq(WorkerType) /\ Len(workers') = Len(workers)
      /\ workers'[w] = Gone
      /\ \A v \in 1..Len(workers) : v # w => workers'[v] = workers[v]
  BY <1>1, <1>2, OneWorker DEF WorkerTypes
<1>4. Pending' = Pending \ {w}
  BY <1>1, <1>2, <1>3, PendingWorkers DEF Pending
<1>5. WorkerTypes' /\ SignalsOnce'
  BY <1>3, PendingWorkers DEF WorkerTypes, SignalsOnce
<1>6. BusyHasWorker'
  BY <1>3, <1>4, PendingWorkers DEF BusyHasWorker
<1> QED
  BY <1>2, <1>3, <1>4, <1>5, <1>6, PendingWorkers

\* A signal is handled, and its worker waits no longer.
LEMMA HandledEffect ==
    ASSUME WorkerInv, signals # << >>,
           NEW ws \in Seq(WorkerType), Len(ws) = Len(workers),
           ws[Head(signals)].result = "gone",
           \A w \in 1..Len(workers) : w # Head(signals) => ws[w].result = workers[w].result
    PROVE  /\ Head(signals) \in Pending
           /\ Head(signals) \notin ToSet(Tail(signals))
           /\ NoRepeats(Tail(signals)) /\ Tail(signals) \in Seq(1..Len(workers))
           /\ \A w \in ToSet(Tail(signals)) : ws[w].result \in Results
           /\ {w \in DOMAIN ws : ws[w].result # "gone"} = Pending \ {Head(signals)}
<1> USE DEF WorkerInv
<1>1. /\ Head(signals) \in 1..Len(workers) /\ Head(signals) \in ToSet(signals)
      /\ Tail(signals) \in Seq(1..Len(workers))
      /\ ToSet(Tail(signals)) \subseteq ToSet(signals)
      /\ ToSet(signals) \subseteq ToSet(Tail(signals)) \cup {Head(signals)}
      /\ NoRepeats(Tail(signals)) /\ Head(signals) \notin ToSet(Tail(signals))
  BY QueueTail DEF WorkerTypes, SignalsOnce
<1>2. DOMAIN ws = 1..Len(workers)
  OBVIOUS
<1>3. \A w \in ToSet(Tail(signals)) : ws[w].result \in Results
  BY <1>1, PendingWorkers DEF SignalsOnce
<1>4. {w \in DOMAIN ws : ws[w].result # "gone"}
        = {w \in 1..Len(workers) : workers[w].result # "gone"} \ {Head(signals)}
  BY <1>1, <1>2
<1>5. Head(signals) \in Pending
  BY <1>1, PendingWorkers DEF SignalsOnce, Results, AnswerKinds
<1> QED
  BY <1>1, <1>3, <1>4, <1>5, PendingWorkers

\* The answer was the last of its question.
LEMMA EndEffect ==
    ASSUME WorkerInv, signals # << >>, signals' = Tail(signals), _cleanup_worker
    PROVE  /\ WorkerInv'
           /\ Len(workers') = Len(workers)
           /\ Head(signals) \in Pending
           /\ Pending' = Pending \ {Head(signals)}
           /\ worker' = 0 /\ busy' = FALSE
<1> USE DEF WorkerInv
<1>1. workers' = Retired /\ worker' = 0 /\ busy' = FALSE
  BY DEF _cleanup_worker
<1>2. /\ workers' \in Seq(WorkerType) /\ Len(workers') = Len(workers)
      /\ workers'[Head(signals)].result = "gone"
      /\ \A w \in 1..Len(workers) :
           w # Head(signals) => workers'[w].result = workers[w].result
  BY <1>1, RetiredEffect
<1>3. /\ Head(signals) \in Pending
      /\ NoRepeats(Tail(signals)) /\ Tail(signals) \in Seq(1..Len(workers))
      /\ \A w \in ToSet(Tail(signals)) : workers'[w].result \in Results
      /\ {w \in DOMAIN workers' : workers'[w].result # "gone"} = Pending \ {Head(signals)}
  BY <1>2, HandledEffect
<1>4. Pending' = Pending \ {Head(signals)}
  BY <1>3 DEF Pending
<1>5. WorkerTypes' /\ SignalsOnce' /\ BusyHasWorker'
  BY <1>1, <1>2, <1>3, PendingWorkers DEF WorkerTypes, SignalsOnce, BusyHasWorker
<1> QED
  BY <1>1, <1>2, <1>3, <1>4, <1>5

\* The answer called tools: the next round is asked.
LEMMA GoOnEffect ==
    ASSUME WorkerInv, signals # << >>, signals' = Tail(signals), StartWorker(Retired)
    PROVE  /\ WorkerInv'
           /\ Len(workers') = Len(workers) + 1
           /\ Head(signals) \in Pending
           /\ Pending' = (Pending \ {Head(signals)}) \cup {worker'}
<1> USE DEF WorkerInv
<1>1. /\ Retired \in Seq(WorkerType) /\ Len(Retired) = Len(workers)
      /\ Retired[Head(signals)].result = "gone"
      /\ \A w \in 1..Len(workers) :
           w # Head(signals) => Retired[w].result = workers[w].result
  BY RetiredEffect
<1>2. /\ Head(signals) \in Pending
      /\ NoRepeats(Tail(signals)) /\ Tail(signals) \in Seq(1..Len(workers))
      /\ \A w \in ToSet(Tail(signals)) : Retired[w].result \in Results
      /\ {w \in DOMAIN Retired : Retired[w].result # "gone"} = Pending \ {Head(signals)}
  BY <1>1, HandledEffect
<1>3. NewWorker \in WorkerType /\ NewWorker.result = "none" /\ NewWorker.connected
  BY DEF NewWorker, WorkerType, Results, AnswerKinds
<1> DEFINE n == Len(workers) + 1
<1>4. worker' = n /\ busy' = TRUE /\ workers' = Append(Retired, NewWorker)
  BY <1>1 DEF StartWorker
<1>5. Len(workers) \in Nat /\ DOMAIN Retired = 1..Len(workers)
  BY <1>1, PendingWorkers
<1>6. /\ workers' \in Seq(WorkerType) /\ Len(workers') = n /\ DOMAIN workers' = 1..n
      /\ workers'[n] = NewWorker
      /\ \A w \in 1..Len(workers) : workers'[w] = Retired[w]
  BY <1>1, <1>3, <1>4, <1>5
<1>7. Pending' = (Pending \ {Head(signals)}) \cup {n}
  <2>1. {w \in 1..n : workers'[w].result # "gone"}
          = {w \in 1..Len(workers) : Retired[w].result # "gone"} \cup {n}
    BY <1>3, <1>5, <1>6
  <2>2. Pending' = {w \in 1..n : workers'[w].result # "gone"}
    BY <1>6 DEF Pending
  <2> QED
    BY <2>1, <2>2, <1>2, <1>5
<1>8. WorkerTypes'
  <2>1. Tail(signals) \in Seq(1..n)
    BY <1>2, <1>5
  <2> QED
    BY <2>1, <1>4, <1>5, <1>6 DEF WorkerTypes
<1>9. \A w \in ToSet(Tail(signals)) : w \in 1..Len(workers)
  BY QueueTail, PendingWorkers DEF WorkerTypes
<1>10. SignalsOnce'
  BY <1>2, <1>6, <1>9 DEF SignalsOnce
<1>11. BusyHasWorker'
  BY <1>3, <1>4, <1>5, <1>6, <1>7 DEF BusyHasWorker
<1> QED
  BY <1>2, <1>4, <1>6, <1>7, <1>8, <1>10, <1>11

\* A signal of a disconnected worker is lost with its connection.
LEMMA PurgeEffect ==
    ASSUME WorkerInv, Purge
    PROVE  /\ WorkerInv'
           /\ Len(workers') = Len(workers)
           /\ Pending' \subseteq Pending
           /\ \A w \in Pending' : workers'[w] = workers[w]
<1> USE DEF WorkerInv
<1>1. /\ signals # << >> /\ ~workers[Head(signals)].connected /\ signals' = Tail(signals)
      /\ workers' = [workers EXCEPT ![Head(signals)] = Gone]
      /\ worker' = worker /\ busy' = busy
  BY DEF Purge
<1>2. Gone \in WorkerType /\ Gone.result = "gone"
  BY DEF Gone, WorkerType
<1>3. Head(signals) \in 1..Len(workers)
  BY <1>1, QueueTail DEF WorkerTypes
<1>4. /\ workers' \in Seq(WorkerType) /\ Len(workers') = Len(workers)
      /\ workers'[Head(signals)] = Gone
      /\ \A w \in 1..Len(workers) : w # Head(signals) => workers'[w] = workers[w]
  BY <1>1, <1>2, <1>3, OneWorker DEF WorkerTypes
<1>5. /\ NoRepeats(Tail(signals)) /\ Tail(signals) \in Seq(1..Len(workers))
      /\ \A w \in ToSet(Tail(signals)) : workers'[w].result \in Results
      /\ {w \in DOMAIN workers' : workers'[w].result # "gone"} = Pending \ {Head(signals)}
  BY <1>1, <1>2, <1>4, HandledEffect
<1>6. Pending' = Pending \ {Head(signals)}
  BY <1>1, <1>5 DEF Pending
<1>7. WorkerTypes' /\ SignalsOnce'
  BY <1>1, <1>4, <1>5 DEF WorkerTypes, SignalsOnce
<1>8. BusyHasWorker'
  BY <1>1, <1>4, <1>6, PendingWorkers DEF BusyHasWorker
<1> QED
  BY <1>4, <1>6, <1>7, <1>8, PendingWorkers
------------------------------------------------------------------------------
(* The budget of requests *)

Budget(n) == n * (MaxRounds + 1)

\* One question or one clear more is one request and its rounds more.
LEMMA BudgetGrows ==
    ASSUME NEW a \in Nat, NEW b \in Nat
    PROVE  /\ Budget(a + b) \in Nat
           /\ Budget((a + 1) + b) = Budget(a + b) + (MaxRounds + 1)
           /\ Budget(a + (b + 1)) = Budget(a + b) + (MaxRounds + 1)
<1>1. MaxRounds + 1 \in Nat
  BY ChatAssumption
<1>2. ASSUME NEW m \in Nat, NEW n \in Nat PROVE n * m \in Nat /\ (n + 1) * m = n * m + m
  OBVIOUS
<1>3. Budget(a + b) \in Nat /\ Budget((a + b) + 1) = Budget(a + b) + (MaxRounds + 1)
  BY <1>1, <1>2 DEF Budget
<1>4. (a + 1) + b = (a + b) + 1 /\ a + (b + 1) = (a + b) + 1
  OBVIOUS
<1> QED
  BY <1>3, <1>4

\* The requests made and the rounds still to come stay within the budget.
Budgeted ==
    Len(workers) > 0 =>
        Len(workers) + (MaxRounds - tool_round) <= Budget(queries + clears)
------------------------------------------------------------------------------
(* The conversation *)

\* The entries the slots make.
LEMMA EntryTypes ==
    ASSUME NEW n \in Nat \ {0}
    PROVE  \A role \in {"user", "assistant", "calls", "results", "part"} :
             Entry(role, n) \in EntryType /\ Entry(role, n).role = role /\ Entry(role, n).of = n
BY DEF Entry, EntryType

\* A question and what follows it is well formed if the whole conversation is.
LEMMA SuffixWellFormed ==
    ASSUME NEW m \in Seq(EntryType), WellFormed(m), NEW i \in 1..Len(m), m[i].role = "user"
    PROVE  SubSeq(m, i, Len(m)) \in Seq(EntryType) /\ WellFormed(SubSeq(m, i, Len(m)))
<1> DEFINE s == SubSeq(m, i, Len(m))
           d == i - 1
<1>1. /\ Len(m) \in Nat /\ DOMAIN m = 1..Len(m) /\ d \in Nat /\ d < Len(m)
      /\ s \in Seq(EntryType) /\ Len(s) = Len(m) - d /\ DOMAIN s = 1..(Len(m) - d)
      /\ \A j \in 1..(Len(m) - d) : s[j] = m[j + d]
  OBVIOUS
<1> HIDE DEF s
<1>2. s # << >> /\ s[1].role = "user"
  BY <1>1
<1>3. ASSUME NEW j \in 1..(Len(m) - d), s[j].role = "calls"
      PROVE  j < Len(s) /\ s[j + 1] = Entry("results", s[j].of)
  <2>1. j + d \in 1..Len(m) /\ s[j] = m[j + d]
    BY <1>1
  <2>2. j + d < Len(m) /\ m[(j + d) + 1] = Entry("results", m[j + d].of)
    BY <2>1, <1>1, <1>3 DEF WellFormed
  <2>3. j + 1 \in 1..(Len(m) - d) /\ (j + 1) + d = (j + d) + 1
    BY <2>2, <1>1
  <2> QED
    BY <2>1, <2>2, <2>3, <1>1
<1>4. ASSUME NEW j \in 1..(Len(m) - d), s[j].role = "results"
      PROVE  s[j - 1] = Entry("calls", s[j].of)
  <2>1. j + d \in 1..Len(m) /\ s[j] = m[j + d] /\ j # 1
    BY <1>1, <1>2, <1>4
  <2>2. m[(j + d) - 1] = Entry("calls", m[j + d].of)
    BY <2>1, <1>1, <1>4 DEF WellFormed
  <2>3. j - 1 \in 1..(Len(m) - d) /\ (j - 1) + d = (j + d) - 1
    BY <2>1, <1>1
  <2> QED
    BY <2>1, <2>2, <2>3, <1>1
<1>5. WellFormed(s)
  BY <1>1, <1>2, <1>3, <1>4 DEF WellFormed
<1> QED
  BY <1>1, <1>5 DEF s

\* Shortening the history cuts it before a question.
LEMMA CompactWellFormed ==
    ASSUME NEW m \in Seq(EntryType)
    PROVE  /\ compact_chat_history(m) \in Seq(EntryType)
           /\ WellFormed(m) => WellFormed(compact_chat_history(m))
<1> DEFINE asked == {i \in DOMAIN m : m[i].role = "user"}
           kept == {i \in asked : Cardinality({j \in asked : j >= i}) = KeepTurns}
           c == CHOOSE i \in kept : TRUE
<1>1. CASE kept = {}
  BY <1>1 DEF compact_chat_history
<1>2. CASE kept # {}
  <2>1. c \in kept
    BY <1>2
  <2>2. c \in 1..Len(m) /\ m[c].role = "user"
    BY <2>1
  <2>3. compact_chat_history(m) = SubSeq(m, c, Len(m))
    BY <1>2 DEF compact_chat_history
  <2> HIDE DEF c
  <2>4. SubSeq(m, c, Len(m)) \in Seq(EntryType)
    BY <2>2
  <2> QED
    BY <2>2, <2>3, <2>4, SuffixWellFormed
<1> QED
  BY <1>1, <1>2

\* A question, an answer, or calls with their results may follow.
LEMMA OneMore ==
    ASSUME NEW m \in Seq(EntryType), NEW e \in EntryType, e.role \in {"user", "assistant"},
           (m = << >> /\ e.role = "user") \/ WellFormed(m)
    PROVE  Append(m, e) \in Seq(EntryType) /\ WellFormed(Append(m, e))
<1> DEFINE s == Append(m, e)
           n == Len(m)
<1>1. /\ n \in Nat /\ DOMAIN m = 1..n
      /\ s \in Seq(EntryType) /\ Len(s) = n + 1 /\ DOMAIN s = 1..(n + 1) /\ s[n + 1] = e
      /\ \A j \in 1..n : s[j] = m[j]
  OBVIOUS
<1> HIDE DEF s, n
<1>2. s # << >> /\ s[1].role = "user"
  BY <1>1 DEF WellFormed, n
<1>3. ASSUME NEW j \in 1..(n + 1)
      PROVE  /\ s[j].role = "calls" =>
                  j < Len(s) /\ s[j + 1] = Entry("results", s[j].of)
             /\ s[j].role = "results" => s[j - 1] = Entry("calls", s[j].of)
  <2>1. CASE j = n + 1
    BY <2>1, <1>1
  <2>2. CASE j # n + 1
    <3>1. j \in 1..n /\ WellFormed(m)
      BY <2>2, <1>1 DEF n
    <3>2. s[j].role = "results" => j # 1
      BY <1>2
    <3> QED
      BY <3>1, <3>2, <1>1 DEF WellFormed, n
  <2> QED
    BY <2>1, <2>2
<1>4. WellFormed(s)
  BY <1>1, <1>2, <1>3 DEF WellFormed
<1> QED
  BY <1>1, <1>4 DEF s

\* Calls with their results keep the conversation well formed.
LEMMA CallsAndResults ==
    ASSUME NEW m \in Seq(EntryType), WellFormed(m), NEW of \in Nat \ {0}
    PROVE  LET s == m \o <<Entry("calls", of), Entry("results", of)>>
           IN  s \in Seq(EntryType) /\ WellFormed(s)
<1> DEFINE a == Entry("calls", of)
           b == Entry("results", of)
           s == m \o <<a, b>>
           n == Len(m)
<1>1. /\ a \in EntryType /\ a.role = "calls" /\ a.of = of
      /\ b \in EntryType /\ b.role = "results" /\ b.of = of
  BY EntryTypes
<1>2. b = Entry("results", a.of) /\ a = Entry("calls", b.of)
  BY <1>1
<1> HIDE DEF a, b
<1>3. /\ n \in Nat /\ DOMAIN m = 1..n
      /\ s \in Seq(EntryType) /\ Len(s) = n + 2 /\ DOMAIN s = 1..(n + 2)
      /\ s[n + 1] = a /\ s[n + 2] = b
      /\ \A j \in 1..n : s[j] = m[j]
  BY <1>1
<1> HIDE DEF s
<1>4. s # << >> /\ s[1].role = "user"
  BY <1>3 DEF WellFormed
<1>5. ASSUME NEW j \in 1..(n + 2)
      PROVE  /\ s[j].role = "calls" =>
                  j < Len(s) /\ s[j + 1] = Entry("results", s[j].of)
             /\ s[j].role = "results" => s[j - 1] = Entry("calls", s[j].of)
  <2>1. CASE j = n + 1
    BY <2>1, <1>1, <1>2, <1>3
  <2>2. CASE j = n + 2
    BY <2>2, <1>1, <1>2, <1>3
  <2>3. CASE j \in 1..n
    <3>1. s[j].role = "results" => j # 1
      BY <1>4
    <3> QED
      BY <2>3, <3>1, <1>3 DEF WellFormed
  <2> QED
    BY <2>1, <2>2, <2>3, <1>3
<1>6. WellFormed(s)
  BY <1>3, <1>4, <1>5 DEF WellFormed
<1> QED
  BY <1>3, <1>6 DEF s, a, b
------------------------------------------------------------------------------
(* The invariant *)

\* The current worker is the only one that waits ...
Alone == Pending \subseteq (IF worker = 0 THEN {} ELSE {worker})
\* ... and was told in time, if it was told to stop.
Told ==
    stopped => \A w \in Pending :
        workers[w].cancel /\ workers[w].result \in {"none", "cancelled"}
Spoken ==
    /\ chat_messages = << >> \/ WellFormed(chat_messages)
    /\ busy => chat_messages # << >>

Inv ==
    /\ WorkerInv
    /\ Counts /\ Flags /\ Talk
    /\ Budgeted
    /\ calm => Alone /\ Told /\ Spoken

\* What the properties about steps say of one step.
FormStep == requests' # requests /\ calm' => WellFormed(chat_messages')
StopStep == stopped /\ stopped' /\ calm' => requests' = requests

\* The panel begins empty and idle.
LEMMA InitInv == Init => Inv
<1> SUFFICES ASSUME Init PROVE Inv
  OBVIOUS
<1> USE DEF Init
<1>1. WorkerTypes /\ Counts /\ Flags /\ Talk
  <2>1. workers \in Seq(WorkerType) /\ Len(workers) = 0 /\ signals \in Seq(1..Len(workers))
    OBVIOUS
  <2>2. Talk
    BY DEF Talk
  <2>3. WorkerTypes
    BY <2>1 DEF WorkerTypes
  <2>4. Counts
    BY ChatAssumption DEF Counts
  <2>5. Flags
    BY DEF Flags
  <2> QED
    BY <2>2, <2>3, <2>4, <2>5
<1>2. DOMAIN workers = {} /\ ToSet(signals) = {} /\ Pending = {}
  BY DEF ToSet, Pending
<1>3. WorkerInv
  BY <1>1, <1>2 DEF WorkerInv, BusyHasWorker, SignalsOnce, NoRepeats
<1>4. Budgeted /\ Alone /\ Told /\ Spoken
  BY <1>2 DEF Budgeted, Alone, Told, Spoken
<1> QED
  BY <1>1, <1>3, <1>4 DEF Inv

\* A question, from the composer or from Trace Compare.
LEMMA AskStep ==
    ASSUME Inv, _send_query, calm' = (calm /\ ~busy)
    PROVE  Inv' /\ FormStep /\ StopStep
<1> USE DEF Inv
<1>1. /\ queries < MaxQueries /\ queries' = queries + 1 /\ clears' = clears
      /\ tool_round' = 0 /\ stopped' = FALSE /\ StartWorker(workers) /\ signals' = signals
      /\ chat_messages' =
           compact_chat_history(Append(chat_messages, Entry("user", queries + 1)))
  BY DEF _send_query
<1>2. /\ WorkerInv' /\ Len(workers') = Len(workers) + 1
      /\ Pending' = Pending \cup {worker'}
  BY <1>1, AskEffect
<1>3. Len(workers) \in Nat /\ queries \in Nat /\ clears \in Nat /\ MaxRounds \in Nat
  BY PendingWorkers, ChatAssumption DEF WorkerInv, Counts
<1>4. Counts'
  BY <1>1, <1>3, ChatAssumption DEF Counts
<1>5. Flags'
  BY <1>1 DEF Flags, StartWorker
<1> DEFINE m == Append(chat_messages, Entry("user", queries + 1))
<1>6. m \in Seq(EntryType) /\ (chat_messages = << >> \/ WellFormed(chat_messages) => WellFormed(m))
  <2> DEFINE e == Entry("user", queries + 1)
  <2>1. e \in EntryType /\ e.role = "user"
    BY <1>3, EntryTypes
  <2> HIDE DEF e
  <2>2. Append(chat_messages, e) \in Seq(EntryType)
    BY <2>1 DEF Talk
  <2>3. ASSUME chat_messages = << >> \/ WellFormed(chat_messages)
        PROVE  WellFormed(Append(chat_messages, e))
    BY <2>1, <2>3, OneMore DEF Talk
  <2> QED
    BY <2>2, <2>3 DEF e
<1> HIDE DEF m
<1>7. Talk' /\ (calm => WellFormed(chat_messages'))
  BY <1>1, <1>6, CompactWellFormed DEF Talk, Spoken, m
<1>8. Budgeted'
  <2>1. /\ Budget(queries + clears) \in Nat
        /\ Budget((queries + 1) + clears) = Budget(queries + clears) + (MaxRounds + 1)
    BY <1>3, BudgetGrows
  <2>2. tool_round \in Nat /\ tool_round <= MaxRounds
    BY <1>3 DEF Counts
  <2>3. Len(workers) <= Budget(queries + clears)
    BY <1>3, <2>1, <2>2 DEF Budgeted
  <2> QED
    BY <1>1, <1>2, <1>3, <2>1, <2>3 DEF Budgeted
<1>9. ASSUME calm' PROVE Alone' /\ Told' /\ Spoken'
  <2>1. calm /\ ~busy /\ worker = 0
    BY <1>9 DEF WorkerInv, BusyHasWorker
  <2>2. Pending = {}
    BY <2>1 DEF Alone
  <2>3. worker' # 0
    BY <1>1, <1>3 DEF StartWorker
  <2> QED
    BY <1>1, <1>2, <1>7, <2>1, <2>2, <2>3 DEF Alone, Told, Spoken, WellFormed
<1> QED
  BY <1>1, <1>2, <1>4, <1>5, <1>7, <1>8, <1>9 DEF FormStep, StopStep, requests

\* Stop: the only worker that waits is the one that is told.
LEMMA StopQueryStep ==
    ASSUME Inv, stop_query
    PROVE  Inv' /\ FormStep /\ StopStep
<1> USE DEF Inv
<1>1. /\ busy /\ workers' = Cancelled
      /\ stopped' = (stopped \/ workers[worker].result = "none")
      /\ UNCHANGED <<chat_messages, tool_round, busy, worker, signals, queries, clears, calm>>
  BY DEF stop_query, user
<1>2. worker # 0
  BY <1>1 DEF WorkerInv, BusyHasWorker
<1>3. /\ WorkerInv' /\ Len(workers') = Len(workers)
      /\ Pending' = Pending /\ workers'[worker].cancel
      /\ \A w \in Pending : /\ workers'[w].result = workers[w].result
                            /\ workers[w].cancel => workers'[w].cancel
  BY <1>1, <1>2, StopEffect
<1>4. Counts' /\ Flags' /\ Talk' /\ Budgeted'
  BY <1>1, <1>3 DEF Counts, Flags, Talk, Budgeted
<1>5. ASSUME calm' PROVE Alone' /\ Told' /\ Spoken'
  <2>1. Alone' /\ Spoken' /\ \A w \in Pending : w = worker
    BY <1>1, <1>2, <1>3, <1>5 DEF Alone, Spoken
  <2>2. Told'
    BY <1>1, <1>3, <1>5, <2>1 DEF Told
  <2> QED
    BY <2>1, <2>2
<1> QED
  BY <1>1, <1>3, <1>4, <1>5 DEF FormStep, StopStep, requests

\* A clear; while a request is running the panel is calm no longer.
LEMMA ClearStep ==
    ASSUME Inv, clear_conversation
    PROVE  Inv' /\ FormStep /\ StopStep
<1> USE DEF Inv
<1>1. /\ clears < MaxClears /\ clears' = clears + 1
      /\ workers' = IF busy THEN Cancelled ELSE workers
      /\ calm' = (calm /\ ~busy) /\ chat_messages' = << >> /\ tool_round' = 0
      /\ UNCHANGED <<busy, worker, signals, queries, stopped>>
  BY DEF clear_conversation
<1>2. WorkerInv' /\ Len(workers') = Len(workers)
  <2>1. CASE busy
    <3>1. worker # 0 /\ workers' = Cancelled
      BY <1>1, <2>1 DEF WorkerInv, BusyHasWorker
    <3> QED
      BY <1>1, <3>1, StopEffect
  <2>2. CASE ~busy
    BY <1>1, <2>2 DEF WorkerInv, WorkerTypes, BusyHasWorker, SignalsOnce, Pending
  <2> QED
    BY <2>1, <2>2
<1>3. Len(workers) \in Nat /\ queries \in Nat /\ clears \in Nat /\ MaxRounds \in Nat
  BY PendingWorkers, ChatAssumption DEF WorkerInv, Counts
<1>4. Counts' /\ Flags' /\ Talk'
  BY <1>1, <1>3, ChatAssumption DEF Counts, Flags, Talk
<1>5. Budgeted'
  <2>1. /\ Budget(queries + clears) \in Nat
        /\ Budget(queries + (clears + 1)) = Budget(queries + clears) + (MaxRounds + 1)
    BY <1>3, BudgetGrows
  <2>2. tool_round \in Nat /\ tool_round <= MaxRounds
    BY <1>3 DEF Counts
  <2> QED
    BY <1>1, <1>2, <1>3, <2>1, <2>2 DEF Budgeted
<1>6. ASSUME calm' PROVE Alone' /\ Told' /\ Spoken'
  <2>1. ~busy /\ calm /\ workers' = workers
    BY <1>1, <1>6
  <2> QED
    BY <1>1, <2>1 DEF Alone, Told, Spoken, Pending
<1> QED
  BY <1>1, <1>2, <1>4, <1>5, <1>6 DEF FormStep, StopStep, requests

\* The end of a request: a worker that was told to stop says so.
LEMMA RunStep ==
    ASSUME Inv, NEW w \in DOMAIN workers, NEW result \in Results, Run(w, result)
    PROVE  Inv' /\ FormStep /\ StopStep
<1> USE DEF Inv
<1>1. /\ workers[w].cancel <=> result = "cancelled"
      /\ UNCHANGED <<chat_messages, tool_round, busy, worker, queries, clears, stopped, calm>>
  BY DEF Run, user
<1>2. /\ WorkerInv' /\ Len(workers') = Len(workers) /\ Pending' = Pending
      /\ w \in Pending /\ workers'[w].result = result
      /\ workers'[w].cancel = workers[w].cancel
      /\ \A v \in Pending : v # w => workers'[v] = workers[v]
  BY RunEffect
<1>3. Counts' /\ Flags' /\ Talk' /\ Budgeted'
  BY <1>1, <1>2 DEF Counts, Flags, Talk, Budgeted
<1>4. ASSUME calm' PROVE Alone' /\ Told' /\ Spoken'
  BY <1>1, <1>2, <1>4 DEF Alone, Told, Spoken
<1> QED
  BY <1>1, <1>2, <1>3, <1>4 DEF FormStep, StopStep, requests

\* The signal of a worker is queued, or lost.
LEMMA EmitStep ==
    ASSUME Inv, NEW w \in DOMAIN workers, Emit(w)
    PROVE  Inv' /\ FormStep /\ StopStep
<1> USE DEF Inv
<1>1. /\ workers[w].result \in Results /\ w \notin ToSet(signals)
      /\ UNCHANGED <<chat_messages, tool_round, busy, worker, queries, clears, stopped, calm>>
  BY DEF Emit, user
<1>2. /\ WorkerInv' /\ Len(workers') = Len(workers) /\ Pending' \subseteq Pending
      /\ \A v \in Pending' : workers'[v] = workers[v]
  <2>1. CASE workers[w].connected /\ signals' = Append(signals, w) /\ UNCHANGED workers
    BY <1>1, <2>1, EmitEffect
  <2>2. CASE ~workers[w].connected /\ workers' = [workers EXCEPT ![w] = Gone]
             /\ UNCHANGED signals
    BY <1>1, <2>2, LostEffect
  <2> QED
    BY <2>1, <2>2 DEF Emit
<1>3. Counts' /\ Flags' /\ Talk' /\ Budgeted'
  BY <1>1, <1>2 DEF Counts, Flags, Talk, Budgeted
<1>4. ASSUME calm' PROVE Alone' /\ Told' /\ Spoken'
  BY <1>1, <1>2, <1>4 DEF Alone, Told, Spoken
<1> QED
  BY <1>1, <1>2, <1>3, <1>4 DEF FormStep, StopStep, requests

\* A signal that is lost with its connection.
LEMMA PurgeStep ==
    ASSUME Inv, Purge
    PROVE  Inv' /\ FormStep /\ StopStep
<1> USE DEF Inv
<1>1. UNCHANGED <<chat_messages, tool_round, busy, worker, queries, clears, stopped, calm>>
  BY DEF Purge, user
<1>2. /\ WorkerInv' /\ Len(workers') = Len(workers) /\ Pending' \subseteq Pending
      /\ \A w \in Pending' : workers'[w] = workers[w]
  BY PurgeEffect
<1>3. Counts' /\ Flags' /\ Talk' /\ Budgeted'
  BY <1>1, <1>2 DEF Counts, Flags, Talk, Budgeted
<1>4. ASSUME calm' PROVE Alone' /\ Told' /\ Spoken'
  BY <1>1, <1>2, <1>4 DEF Alone, Told, Spoken
<1> QED
  BY <1>1, <1>2, <1>3, <1>4 DEF FormStep, StopStep, requests

\* A slot that ends the question, with what it adds to the conversation.
LEMMA EndStep ==
    ASSUME Inv, signals # << >>, signals' = Tail(signals), _cleanup_worker,
           UNCHANGED <<tool_round, queries, clears, stopped>>,
           calm' \in BOOLEAN, calm' => calm,
           chat_messages' \in Seq(EntryType),
           calm' /\ WellFormed(chat_messages) =>
             chat_messages' = << >> \/ WellFormed(chat_messages')
    PROVE  Inv' /\ FormStep /\ StopStep
<1> USE DEF Inv
<1>1. /\ WorkerInv' /\ Len(workers') = Len(workers) /\ Head(signals) \in Pending
      /\ Pending' = Pending \ {Head(signals)} /\ worker' = 0 /\ busy' = FALSE
  BY EndEffect
<1>2. Counts' /\ Flags' /\ Talk' /\ Budgeted'
  BY <1>1 DEF Counts, Flags, Talk, Budgeted
<1>3. ASSUME calm' PROVE Alone' /\ Told' /\ Spoken'
  <2>1. worker # 0 /\ Pending' = {}
    BY <1>1, <1>3 DEF Alone
  <2>2. WellFormed(chat_messages)
    BY <1>3, <2>1 DEF Spoken, WorkerInv, BusyHasWorker
  <2> QED
    BY <1>1, <1>3, <2>1, <2>2 DEF Alone, Told, Spoken
<1> QED
  BY <1>1, <1>2, <1>3 DEF FormStep, StopStep, requests, Talk

\* A slot that asks the next round, with the calls and their results.
LEMMA GoOnStep ==
    ASSUME Inv, signals # << >>, signals' = Tail(signals), StartWorker(Retired),
           tool_round < MaxRounds, tool_round' = tool_round + 1,
           workers[Head(signals)].result \in AnswerKinds,
           UNCHANGED <<queries, clears, stopped>>,
           calm' \in BOOLEAN, calm' => calm,
           chat_messages' \in Seq(EntryType),
           calm' /\ WellFormed(chat_messages) => WellFormed(chat_messages')
    PROVE  Inv' /\ FormStep /\ StopStep
<1> USE DEF Inv
<1>1. /\ WorkerInv' /\ Len(workers') = Len(workers) + 1 /\ Head(signals) \in Pending
      /\ Pending' = (Pending \ {Head(signals)}) \cup {worker'}
  BY GoOnEffect
<1>2. busy' = TRUE
  BY DEF StartWorker
<1>3. Len(workers) \in Nat /\ queries \in Nat /\ clears \in Nat /\ MaxRounds \in Nat
  BY PendingWorkers, ChatAssumption DEF WorkerInv, Counts
<1>4. Counts' /\ Flags' /\ Talk'
  BY <1>2, <1>3 DEF Counts, Flags, Talk
<1>5. Budgeted'
  <2>1. Budget(queries + clears) \in Nat
    BY <1>3, BudgetGrows
  <2>2. Len(workers) > 0 /\ tool_round \in Nat
    BY <1>1, <1>3, PendingWorkers DEF WorkerInv, Counts
  <2> QED
    BY <1>1, <1>3, <2>1, <2>2 DEF Budgeted
<1>6. ASSUME calm' PROVE Alone' /\ Told' /\ Spoken' /\ ~stopped /\ WellFormed(chat_messages')
  <2>1. worker # 0 /\ Pending = {Head(signals)} /\ busy
    BY <1>1, <1>6 DEF Alone, WorkerInv, BusyHasWorker
  <2>2. ~stopped
    BY <1>6, <2>1 DEF Told, AnswerKinds
  <2>3. WellFormed(chat_messages')
    BY <1>6, <2>1 DEF Spoken
  <2>4. worker' # 0
    BY <1>1, <1>2 DEF WorkerInv, BusyHasWorker
  <2> QED
    BY <1>1, <2>1, <2>2, <2>3, <2>4 DEF Alone, Told, Spoken, WellFormed
<1> QED
  BY <1>1, <1>4, <1>5, <1>6 DEF FormStep, StopStep, requests

\* Every step of the panel.
LEMMA NextStep ==
    ASSUME Inv, Next
    PROVE  Inv' /\ FormStep /\ StopStep
<1>1. Flags /\ Talk /\ WorkerTypes /\ tool_round \in 0..MaxRounds
  BY DEF Inv, WorkerInv, Counts
<1>2. ASSUME signals # << >> PROVE Head(signals) \in Nat \ {0}
  BY <1>1, <1>2, QueueTail, PendingWorkers DEF WorkerTypes
<1>3. CASE send_current
  BY <1>1, <1>3, AskStep DEF send_current, Flags
<1>4. CASE _run_compare_template
  BY <1>4, AskStep DEF _run_compare_template
<1>5. CASE stop_query
  BY <1>5, StopQueryStep
<1>6. CASE clear_conversation
  BY <1>6, ClearStep
<1>7. CASE \E w \in DOMAIN workers, result \in Results : Run(w, result)
  BY <1>7, RunStep
<1>17. CASE \E w \in DOMAIN workers : Emit(w)
  BY <1>17, EmitStep
<1>8. CASE Purge
  BY <1>8, PurgeStep
<1>9. CASE OnText
  <2> DEFINE e == Entry("assistant", Head(signals))
  <2>1. /\ signals # << >> /\ signals' = Tail(signals) /\ _cleanup_worker
        /\ UNCHANGED <<tool_round, queries, clears, stopped, calm>>
        /\ chat_messages' = chat_messages \o <<e>>
    BY <1>9 DEF OnText, Delivered, user, Says
  <2>2. e \in EntryType /\ e.role = "assistant"
    BY <1>2, <2>1, EntryTypes
  <2> HIDE DEF e
  <2>3. chat_messages' = Append(chat_messages, e)
    BY <1>1, <2>1, <2>2 DEF Talk
  <2>4. chat_messages' \in Seq(EntryType)
    BY <1>1, <2>2, <2>3 DEF Talk
  <2>5. WellFormed(chat_messages) => WellFormed(chat_messages')
    BY <1>1, <2>2, <2>3, OneMore DEF Talk
  <2> QED
    BY <1>1, <2>1, <2>4, <2>5, EndStep DEF Flags
<1>10. CASE OnEmpty
  BY <1>1, <1>10, EndStep DEF OnEmpty, Delivered, user, Talk, Flags
<1>11. CASE OnProseTools
  <2> DEFINE e == Entry("calls", Head(signals))
  <2>1. /\ signals # << >> /\ signals' = Tail(signals) /\ _cleanup_worker
        /\ UNCHANGED <<tool_round, queries, clears, stopped>> /\ calm' = FALSE
        /\ chat_messages' = chat_messages \o <<e>>
    BY <1>11 DEF OnProseTools, Delivered, user, Says
  <2>2. e \in EntryType
    BY <1>2, <2>1, EntryTypes
  <2> HIDE DEF e
  <2>3. chat_messages' \in Seq(EntryType)
    BY <1>1, <2>1, <2>2 DEF Talk
  <2> QED
    BY <2>1, <2>3, EndStep
<1>12. ASSUME signals # << >>, signals' = Tail(signals),
              workers[Head(signals)].result \in AnswerKinds, NextRound,
              UNCHANGED <<queries, clears, stopped>>,
              calm' \in BOOLEAN, calm' => calm,
              chat_messages' \in Seq(EntryType),
              calm' /\ WellFormed(chat_messages) => WellFormed(chat_messages')
       PROVE  Inv' /\ FormStep /\ StopStep
  <2>1. CASE tool_round >= MaxRounds
    BY <1>12, <2>1, EndStep DEF NextRound
  <2>2. CASE ~(tool_round >= MaxRounds)
    <3>1. tool_round < MaxRounds
      BY <1>1, <2>2, ChatAssumption
    <3> QED
      BY <1>12, <2>2, <3>1, GoOnStep DEF NextRound
  <2> QED
    BY <2>1, <2>2
<1>13. CASE OnTools
  <2>1. /\ signals # << >> /\ signals' = Tail(signals) /\ NextRound
        /\ workers[Head(signals)].result \in AnswerKinds
        /\ UNCHANGED <<queries, clears, stopped, calm>>
        /\ chat_messages' = chat_messages
             \o <<Entry("calls", Head(signals)), Entry("results", Head(signals))>>
    BY <1>13 DEF OnTools, Delivered, user, Says, AnswerKinds
  <2>2. WellFormed(chat_messages) => WellFormed(chat_messages')
    BY <1>1, <1>2, <2>1, CallsAndResults DEF Talk
  <2>3. chat_messages' \in Seq(EntryType)
    <3>1. /\ Entry("calls", Head(signals)) \in EntryType
          /\ Entry("results", Head(signals)) \in EntryType
      BY <1>2, <2>1, EntryTypes
    <3> QED
      BY <1>1, <2>1, <3>1 DEF Talk
  <2> QED
    BY <1>1, <1>12, <2>1, <2>2, <2>3 DEF Flags
<1>14. CASE OnSomeTools
  <2>1. /\ signals # << >> /\ signals' = Tail(signals) /\ NextRound
        /\ workers[Head(signals)].result \in AnswerKinds
        /\ UNCHANGED <<queries, clears, stopped>> /\ calm' = FALSE
        /\ chat_messages' = chat_messages
             \o <<Entry("calls", Head(signals)), Entry("part", Head(signals))>>
    BY <1>14 DEF OnSomeTools, Delivered, user, Says, AnswerKinds
  <2>2. chat_messages' \in Seq(EntryType)
    <3>1. /\ Entry("calls", Head(signals)) \in EntryType
          /\ Entry("part", Head(signals)) \in EntryType
      BY <1>2, <2>1, EntryTypes
    <3> QED
      BY <1>1, <2>1, <3>1 DEF Talk
  <2> QED
    BY <1>12, <2>1, <2>2
<1>15. CASE _on_err
  BY <1>1, <1>15, EndStep DEF _on_err, Delivered, user, Talk, Flags
<1>16. CASE _on_cancelled
  BY <1>1, <1>16, EndStep DEF _on_cancelled, Delivered, user, Talk, Flags
<1> QED
  BY <1>3, <1>4, <1>5, <1>6, <1>7, <1>8, <1>9, <1>10, <1>11, <1>13, <1>14, <1>15, <1>16,
     <1>17 DEF Next, Slot

\* Nothing happens.
LEMMA StutterStep ==
    ASSUME Inv, UNCHANGED vars
    PROVE  Inv' /\ FormStep /\ StopStep
<1>1. UNCHANGED <<chat_messages, tool_round, busy, worker, workers, signals, queries,
                  clears, stopped, calm>>
  BY DEF vars, user
<1>2. Pending' = Pending
  BY <1>1 DEF Pending
<1>3. WorkerInv'
  BY <1>1, <1>2 DEF Inv, WorkerInv, WorkerTypes, BusyHasWorker, SignalsOnce
<1>4. Counts' /\ Flags' /\ Talk' /\ Budgeted'
  BY <1>1 DEF Inv, Counts, Flags, Talk, Budgeted
<1>5. calm' => Alone' /\ Told' /\ Spoken'
  BY <1>1, <1>2 DEF Inv, Alone, Told, Spoken
<1> QED
  BY <1>1, <1>3, <1>4, <1>5 DEF Inv, FormStep, StopStep, requests

\* Initialisation, steps and stuttering together.
LEMMA AlwaysInv == Spec => []Inv
<1>1. Inv /\ [Next]_vars => Inv'
  BY NextStep, StutterStep
<1> QED
  BY <1>1, InitInv, PTL DEF Spec

------------------------------------------------------------------------------
(* Theorems *)

\* The variables keep their types.
THEOREM TypeCorrect == Spec => []TypeOK
<1>1. Inv => TypeOK
  BY DEF Inv, WorkerInv, WorkerTypes, Counts, Flags, Talk, TypeOK, WorkerType, EntryType,
         requests
<1> QED
  BY <1>1, AlwaysInv, PTL

\* The panel is busy exactly while the signal of a current, connected worker is
\* still to come, whatever the order of questions, stops, clears and signals.
THEOREM BusyHasWorkerHolds == Spec => []BusyHasWorker
<1>1. Inv => BusyHasWorker
  BY DEF Inv, WorkerInv
<1> QED
  BY <1>1, AlwaysInv, PTL

\* Without overlapping questions one request is under way at a time.
THEOREM SingleFlightHolds == Spec => []SingleFlight
<1>1. Inv => SingleFlight
  <2> SUFFICES ASSUME Inv, calm PROVE Cardinality(Pending) <= (IF busy THEN 1 ELSE 0)
    BY DEF SingleFlight
  <2>1. Pending \subseteq (IF worker = 0 THEN {} ELSE {worker}) /\ (busy <=> worker # 0)
    BY DEF Inv, Alone, WorkerInv, BusyHasWorker
  <2>2. CASE busy
    <3>1. Pending \subseteq {worker}
      BY <2>1, <2>2
    <3>2. IsFiniteSet({worker}) /\ Cardinality({worker}) = 1
      BY FS_Singleton
    <3>3. Cardinality(Pending) <= 1
      BY <3>1, <3>2, FS_Subset
    <3> QED
      BY <3>3, <2>2
  <2>3. CASE ~busy
    <3>1. Pending = {}
      BY <2>1, <2>3
    <3> QED
      BY <3>1, <2>3, FS_EmptySet
  <2> QED
    BY <2>2, <2>3
<1> QED
  BY <1>1, AlwaysInv, PTL

\* A question costs at most one request and one for each tool round.
THEOREM RequestsBoundedHolds == Spec => []RequestsBounded
<1>1. Inv => RequestsBounded
  <2> SUFFICES ASSUME Inv PROVE Len(workers) <= Budget(queries + clears)
    BY DEF RequestsBounded, requests, Budget
  <2>1. /\ Len(workers) \in Nat /\ queries \in Nat /\ clears \in Nat
        /\ MaxRounds \in Nat /\ tool_round \in Nat /\ tool_round <= MaxRounds
    BY PendingWorkers, ChatAssumption DEF Inv, WorkerInv, Counts
  <2>2. Budget(queries + clears) \in Nat
    BY <2>1, BudgetGrows
  <2> QED
    BY <2>1, <2>2 DEF Inv, Budgeted
<1> QED
  BY <1>1, AlwaysInv, PTL

\* A request carries a conversation that begins with a question and in which
\* every call has its results, however long it is and however it was shortened.
THEOREM RequestsWellFormedHolds == Spec => RequestsWellFormed
<1>1. Inv /\ [Next]_vars => [requests' # requests /\ calm' => WellFormed(chat_messages')]_vars
  BY NextStep, StutterStep DEF FormStep
<1> QED
  BY <1>1, AlwaysInv, PTL DEF Spec, RequestsWellFormed

\* A question stopped before its worker's last look at the cancel event asks
\* nothing more.
THEOREM StopAbortsHolds == Spec => StopAborts
<1>1. Inv /\ [Next]_vars => [stopped /\ stopped' /\ calm' => requests' = requests]_vars
  BY NextStep, StutterStep DEF StopStep
<1> QED
  BY <1>1, AlwaysInv, PTL DEF Spec, StopAborts
==============================================================================
