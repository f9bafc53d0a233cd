------------------------------- MODULE AiChat -------------------------------
(***************************************************************************)
(* The conversation of the AI assistant panel (AiAssistantPanel of         *)
(* btf_viewer_pkg/ai_assistant.py) with its request workers.               *)
(*                                                                         *)
(* A question starts a worker: a thread that makes one HTTP request and    *)
(* queues one signal to the GUI thread.  The slot of the signal appends    *)
(* the answer to _chat_messages; tool calls are executed at once and the   *)
(* next worker carries their results, up to max_tool_rounds.  Stop and     *)
(* clear only set the cancel event of the current worker, which reads it   *)
(* once more when the request is over and then emits: Stop may come        *)
(* between the two.                                                        *)
(*                                                                         *)
(* An answer is text, empty, tool calls, or tool calls some or all of      *)
(* which are "nextstep:" prose that the panel drops.  Whether a slot still *)
(* runs for a signal that was queued before its disconnection depends on   *)
(* the Qt binding: both happen.                                            *)
(***************************************************************************)
EXTENDS Naturals, SequencesExt

CONSTANTS
    MaxRounds,      \* max_tool_rounds
    KeepTurns,      \* history_user_turns of the context mode
    MaxQueries,     \* bound: questions asked
    MaxClears       \* bound: times the conversation is cleared

ASSUME ChatAssumption ==
    /\ MaxRounds \in Nat \ {0}
    /\ KeepTurns \in Nat \ {0}
    /\ MaxQueries \in Nat
    /\ MaxClears \in Nat

VARIABLES
    chat_messages,  \* [role, of]: a question, or an answer and what came of it
    tool_round,
    busy,
    worker,         \* the current worker; 0 for None
    workers,        \* all workers, in the order they started
    signals,        \* queued for the GUI thread: workers that have emitted
    queries, clears,  \* history: questions asked, conversations cleared
    stopped,        \* history: Stop came before the worker read the cancel event
                    \* for the last time, nothing asked since
    calm            \* history: no overlapping question, no clear of a running
                    \* request, no dropped tool call

user == <<queries, clears>>
vars == <<chat_messages, tool_round, busy, worker, workers, signals, user, stopped,
          calm>>

AnswerKinds == {"text", "empty", "tools", "some tools", "prose tools"}
Results == AnswerKinds \cup {"failed", "cancelled"}

\* How many requests were made.
requests == Len(workers)

Init ==
    /\ chat_messages = << >>
    /\ tool_round = 0
    /\ busy = FALSE
    /\ worker = 0
    /\ workers = << >>
    /\ signals = << >>
    /\ queries = 0
    /\ clears = 0
    /\ stopped = FALSE
    /\ calm = TRUE
------------------------------------------------------------------------------
(* Requests *)

Entry(role, of) == [role |-> role, of |-> of]

\* Mutant: the oldest entries are dropped, whatever they belong to.
compact_chat_history_by_length(messages) ==
    IF Len(messages) <= 2 * KeepTurns THEN messages
    ELSE SubSeq(messages, Len(messages) - 2 * KeepTurns + 1, Len(messages))

\* The last questions and what followed them; what is omitted is summarised.
compact_chat_history(messages) ==
    LET asked == {i \in DOMAIN messages : messages[i].role = "user"}
        kept == {i \in asked : Cardinality({j \in asked : j >= i}) = KeepTurns}
    IN  IF kept = {} THEN messages
        ELSE SubSeq(messages, CHOOSE i \in kept : TRUE, Len(messages))

NewWorker == [cancel |-> FALSE, connected |-> TRUE, result |-> "none"]

\* A worker whose signal was handled or lost.
Gone == [cancel |-> TRUE, connected |-> FALSE, result |-> "gone"]

\* The current worker is told to stop and its signals are disconnected.
Retired ==
    LET handled == [workers EXCEPT ![Head(signals)] = Gone]
    IN  IF worker = 0 THEN handled
        ELSE [handled EXCEPT ![worker] =
                [cancel |-> TRUE, connected |-> FALSE, result |-> @.result]]

\* Mutant: the panel does not keep the new worker.
StartWorkerForgotten(others) ==
    /\ workers' = Append(others, NewWorker)
    /\ busy' = TRUE
    /\ UNCHANGED worker

StartWorker(others) ==
    /\ workers' = Append(others, NewWorker)
    /\ worker' = Len(others) + 1
    /\ busy' = TRUE

_cleanup_worker ==
    /\ workers' = Retired
    /\ worker' = 0
    /\ busy' = FALSE

_send_query ==
    /\ queries < MaxQueries
    /\ queries' = queries + 1
    /\ chat_messages' =
         compact_chat_history(Append(chat_messages, Entry("user", queries + 1)))
    /\ tool_round' = 0
    /\ stopped' = FALSE
    /\ StartWorker(workers)
    /\ UNCHANGED <<signals, clears>>

\* Mutant: a template may be started at any time.
send_current_unguarded == _send_query /\ UNCHANGED calm

\* The composer and the templates; neither does anything while busy.
send_current ==
    /\ ~busy
    /\ _send_query
    /\ UNCHANGED calm

\* Trace Compare asks whether or not a request is running.
_run_compare_template ==
    /\ _send_query
    /\ calm' = (calm /\ ~busy)

Cancelled ==
    [workers EXCEPT ![worker] =
        [cancel |-> TRUE, connected |-> @.connected, result |-> @.result]]

stop_query ==
    /\ busy
    /\ workers' = Cancelled
    /\ stopped' = (stopped \/ workers[worker].result = "none")
    /\ UNCHANGED <<chat_messages, tool_round, busy, worker, signals, user, calm>>

clear_conversation ==
    /\ clears < MaxClears
    /\ clears' = clears + 1
    /\ workers' = IF busy THEN Cancelled ELSE workers
    /\ calm' = (calm /\ ~busy)
    /\ chat_messages' = << >>
    /\ tool_round' = 0
    /\ UNCHANGED <<busy, worker, signals, queries, stopped>>
------------------------------------------------------------------------------
(* _OllamaWorker._run *)

Ended(w, result) ==
    [workers EXCEPT ![w] =
        [cancel |-> @.cancel, connected |-> @.connected, result |-> result]]

\* Mutant: the cancel event is not read once the response is there.
RunUnchecked(w, result) ==
    /\ workers[w].result = "none"
    /\ workers[w].cancel \/ result # "cancelled"
    /\ workers' = Ended(w, result)
    /\ UNCHANGED <<chat_messages, tool_round, busy, worker, signals, user, stopped, calm>>

\* The request is over, and the cancel event is read for the last time.
Run(w, result) ==
    /\ workers[w].result = "none"
    /\ workers[w].cancel <=> result = "cancelled"
    /\ workers' = Ended(w, result)
    /\ UNCHANGED <<chat_messages, tool_round, busy, worker, signals, user, stopped, calm>>

\* The signal of that outcome, with the answer turned to JSON.  It is queued if
\* it is still connected, else there is nobody to queue it for.
Emit(w) ==
    /\ workers[w].result \in Results /\ w \notin ToSet(signals)
    /\ \/ /\ workers[w].connected
          /\ signals' = Append(signals, w)
          /\ UNCHANGED workers
       \/ /\ ~workers[w].connected
          /\ workers' = [workers EXCEPT ![w] = Gone]
          /\ UNCHANGED signals
    /\ UNCHANGED <<chat_messages, tool_round, busy, worker, user, stopped, calm>>
------------------------------------------------------------------------------
(* The slots *)

\* The signal at the head of the queue, with its result.
Delivered(result) ==
    /\ signals # << >>
    /\ workers[Head(signals)].result = result
    /\ signals' = Tail(signals)

\* With the connection goes, in some bindings, what is queued on it.
Purge ==
    /\ signals # << >> /\ ~workers[Head(signals)].connected
    /\ signals' = Tail(signals)
    /\ workers' = [workers EXCEPT ![Head(signals)] = Gone]
    /\ UNCHANGED <<chat_messages, tool_round, busy, worker, user, stopped, calm>>

Says(entries) == chat_messages' = chat_messages \o entries

\* A final answer; an empty one is shown from the evidence, and not sent back.
OnText ==
    /\ Delivered("text")
    /\ Says(<<Entry("assistant", Head(signals))>>)
    /\ _cleanup_worker
    /\ UNCHANGED <<tool_round, user, stopped, calm>>

OnEmpty ==
    /\ Delivered("empty")
    /\ _cleanup_worker
    /\ UNCHANGED <<chat_messages, tool_round, user, stopped, calm>>

\* Every call was prose: it stays in the conversation without a result.
OnProseTools ==
    /\ Delivered("prose tools")
    /\ Says(<<Entry("calls", Head(signals))>>)
    /\ _cleanup_worker
    /\ calm' = FALSE
    /\ UNCHANGED <<tool_round, user, stopped>>

\* Mutant: the limit is tested after the round was counted in.
NextRoundLate ==
    IF tool_round > MaxRounds
    THEN _cleanup_worker /\ UNCHANGED tool_round
    ELSE tool_round' = tool_round + 1 /\ StartWorker(Retired)

\* _apply_tool_batch and _continue_with_messages; the request of the last round
\* offers no tools, but nothing keeps the model from calling one.
NextRound ==
    IF tool_round >= MaxRounds
    THEN _cleanup_worker /\ UNCHANGED tool_round
    ELSE tool_round' = tool_round + 1 /\ StartWorker(Retired)

OnTools ==
    /\ Delivered("tools")
    /\ Says(<<Entry("calls", Head(signals)), Entry("results", Head(signals))>>)
    /\ NextRound
    /\ UNCHANGED <<user, stopped, calm>>

\* Only the calls that were not dropped have results.
OnSomeTools ==
    /\ Delivered("some tools")
    /\ Says(<<Entry("calls", Head(signals)), Entry("part", Head(signals))>>)
    /\ NextRound
    /\ calm' = FALSE
    /\ UNCHANGED <<user, stopped>>

\* Mutant: the error is shown and the request stays the current one.
_on_err_kept ==
    /\ Delivered("failed")
    /\ workers' = [workers EXCEPT ![Head(signals)] = Gone]
    /\ UNCHANGED <<chat_messages, tool_round, busy, worker, user, stopped, calm>>

_on_err ==
    /\ Delivered("failed")
    /\ _cleanup_worker
    /\ UNCHANGED <<chat_messages, tool_round, user, stopped, calm>>

_on_cancelled ==
    /\ Delivered("cancelled")
    /\ _cleanup_worker
    /\ UNCHANGED <<chat_messages, tool_round, user, stopped, calm>>

Slot ==
    \/ OnText \/ OnEmpty \/ OnTools \/ OnSomeTools \/ OnProseTools
    \/ _on_err \/ _on_cancelled

Next ==
    \/ send_current
    \/ _run_compare_template
    \/ stop_query
    \/ clear_conversation
    \/ \E w \in DOMAIN workers, result \in Results : Run(w, result)
    \/ \E w \in DOMAIN workers : Emit(w)
    \/ Slot
    \/ Purge

Spec == Init /\ [][Next]_vars

\* A request ends, by its timeout if not before, and the event loop goes on.
FairSpec ==
    /\ Spec
    /\ \A w \in 1..(MaxQueries + MaxClears) * (MaxRounds + 1) :
         WF_vars(w \in DOMAIN workers /\ (Emit(w) \/ \E result \in Results : Run(w, result)))
    /\ WF_vars(Slot)
------------------------------------------------------------------------------
TypeOK ==
    /\ chat_messages \in Seq([role : {"user", "assistant", "calls", "results", "part"},
                              of : Nat \ {0}])
    /\ tool_round \in 0..MaxRounds
    /\ busy \in BOOLEAN
    /\ workers \in Seq([cancel : BOOLEAN, connected : BOOLEAN,
                        result : Results \cup {"none", "gone"}])
    /\ worker \in 0..requests
    /\ signals \in Seq(1..requests)
    /\ queries \in 0..MaxQueries
    /\ clears \in 0..MaxClears
    /\ stopped \in BOOLEAN
    /\ calm \in BOOLEAN

\* The workers whose signal was neither handled nor lost.
Pending == {w \in DOMAIN workers : workers[w].result # "gone"}

\* The panel is busy exactly while it has a current worker, and that worker's
\* signal is still to come: no slot of another worker's signal, and none that
\* runs after its disconnection, leaves it waiting for nobody.
BusyHasWorker ==
    /\ busy <=> worker # 0
    /\ worker # 0 => worker \in Pending /\ workers[worker].connected

\* Without overlapping questions one request is under way at a time, so an
\* answer always meets the conversation it was asked in.
SingleFlight == calm => Cardinality(Pending) <= (IF busy THEN 1 ELSE 0)

\* However questions overlap and are stopped, a question is good for one request
\* and one more for each tool round, and so is each clear that comes too late to
\* stop the running one.
RequestsBounded == requests <= (queries + clears) * (MaxRounds + 1)

\* Every call is followed by its results, and the conversation begins with a
\* question: what the chat completions protocol asks of a request.
WellFormed(messages) ==
    /\ messages # << >>
    /\ messages[1].role = "user"
    /\ \A i \in DOMAIN messages :
         /\ messages[i].role = "calls" =>
              i < Len(messages) /\ messages[i + 1] = Entry("results", messages[i].of)
         /\ messages[i].role = "results" =>
              messages[i - 1] = Entry("calls", messages[i].of)

\* While nothing overlaps and no call is dropped, every request is well formed,
\* also after a stop, a failure, a round limit and a shortened history.
RequestsWellFormed ==
    [][requests' # requests /\ calm' => WellFormed(chat_messages')]_vars

\* Whatever happens to a request, the panel becomes ready again.
ReadyAgain == busy ~> ~busy

\* A question stopped before its worker read the cancel event for the last time
\* makes no other request, in whatever round it is.  A Stop that comes later,
\* even before the signal is emitted, finds the answer on its way to _on_ok,
\* which executes its calls and goes on.
StopAborts ==
    [][stopped /\ stopped' /\ calm' => requests' = requests]_vars
=============================================================================
