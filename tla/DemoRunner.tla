----------------------------- MODULE DemoRunner -----------------------------
(***************************************************************************)
(* The guided demo of the desktop viewer: InAppDemoRunner of               *)
(* btf_viewer_pkg/demo_inapp.py.                                           *)
(*                                                                         *)
(* run() is a thread of its own.  It touches the window only through       *)
(* DemoApiBridge, whose calls block until the GUI thread is between two    *)
(* handlers and has run them.  The handlers of Previous, Next, language,   *)
(* pause and Stop run on the GUI thread, write the flags the runner reads  *)
(* one after the other and never wait for the runner.                      *)
(*                                                                         *)
(* Each step of the runner reads or writes one flag.  A wait may end at    *)
(* any moment, so _skip_gate, which cuts waits short, and the length of    *)
(* pauses are left out.  Clips are played by QMediaPlayer, which is kept   *)
(* when its clip has ended, or by a subprocess with a waiter thread, which *)
(* sets _audio_done when its process is gone, whether it ended or was      *)
(* stopped.                                                                *)
(***************************************************************************)
EXTENDS Integers, Sequences

CONSTANTS
    Script,     \* the steps: sequences of "api", "clip" and "clip, wait"
    MaxOps      \* bound: what the user does during the demo

ASSUME ScriptAssumption ==
    /\ Script \in Seq(Seq({"api", "clip", "clip, wait"}))
    /\ MaxOps \in Nat

VARIABLES       \* the runner thread
    pc, step,   \* step: i of run(), from 1
    action,     \* the next child of the step
    after,      \* where _check returns to
    err         \* direction of the DemoSkip raised last, then the one taken

VARIABLES       \* shared
    skip_dir, skip_restart, paused, abort,
    audio_done,
    clip,       \* "none", "playing", "suspended" or "ended"
    stale       \* waiter threads of stopped subprocesses

VARIABLES       \* the GUI thread
    handler,    \* [next, dir]: what is left of the handler in progress
    player      \* QMediaPlayer is installed

VARIABLES       \* history
    ops,
    heard,      \* the clip started last has come to its end
    asked,      \* directions asked for since the step began
    spoken,     \* a clip was started in this step
    inPause,    \* actions begun since the demo was paused
    afterStop   \* actions begun since Stop

runner == <<pc, step, action, after, err>>
flags == <<skip_dir, skip_restart, paused, abort>>
audio == <<audio_done, clip, stale, heard>>
gui == <<handler, player>>
history == <<ops, asked, spoken, inPause, afterStop>>
vars == <<runner, flags, audio, gui, history>>

Idle == [next |-> "idle", dir |-> 0]

Init ==
    /\ pc = "top" /\ step = 1 /\ action = 1 /\ after = "do" /\ err = 0
    /\ skip_dir = 0 /\ skip_restart = FALSE
    /\ paused = FALSE /\ abort = FALSE
    /\ audio_done = TRUE /\ clip = "none" /\ stale = 0 /\ heard = FALSE
    /\ handler = Idle
    /\ player \in BOOLEAN
    /\ ops = 0 /\ asked = {} /\ spoken = FALSE
    /\ inPause = 0 /\ afterStop = 0
------------------------------------------------------------------------------
(* Audio *)

\* Mutant: nobody is told that the clip is gone.
_stop_audio_silent ==
    /\ clip' = "none"
    /\ stale' = IF clip = "none" \/ player THEN stale ELSE stale + 1
    /\ UNCHANGED <<audio_done, heard>>

\* The clip is stopped and whoever waits for it goes on.
_stop_audio ==
    /\ audio_done' = TRUE
    /\ clip' = "none"
    /\ stale' = IF clip = "none" \/ player THEN stale ELSE stale + 1
    /\ UNCHANGED heard

\* _done, or the waiter of the process.  The player is kept.
ClipEnds ==
    /\ clip = "playing"
    /\ clip' = IF player THEN "ended" ELSE "none"
    /\ audio_done' = TRUE
    /\ heard' = TRUE
    /\ UNCHANGED <<runner, flags, stale, gui, history>>

\* The waiter of a stopped process wakes up, perhaps when the next one plays.
StaleWaiter ==
    /\ stale > 0
    /\ stale' = stale - 1
    /\ audio_done' = TRUE
    /\ UNCHANGED <<runner, flags, clip, heard, gui, history>>
------------------------------------------------------------------------------
(* Handlers of the GUI thread *)

GuiFree == handler = Idle
UserOp == GuiFree /\ ~abort /\ pc # "done" /\ ops < MaxOps /\ ops' = ops + 1

\* _request_skip: the restart is withdrawn, then the direction is written.
Skip(dir) ==
    /\ UserOp
    /\ skip_restart' = FALSE
    /\ handler' = [next |-> "direction", dir |-> dir]
    /\ asked' = asked \cup {dir}
    /\ UNCHANGED <<runner, skip_dir, paused, abort, audio, player, spoken, inPause,
                   afterStop>>

\* Another language restarts the step.
set_voice_lang ==
    /\ UserOp
    /\ skip_restart' = TRUE
    /\ handler' = [next |-> "direction", dir |-> 0]
    /\ asked' = asked \cup {0}
    /\ UNCHANGED <<runner, skip_dir, paused, abort, audio, player, spoken, inPause,
                   afterStop>>

stop ==
    /\ UserOp
    /\ abort' = TRUE
    /\ paused' = FALSE
    /\ handler' = [next |-> "audio", dir |-> 0]
    /\ UNCHANGED <<runner, skip_dir, skip_restart, audio, player, asked, spoken,
                   inPause, afterStop>>

\* A clip that plays is suspended with the demo, and goes on with it.  play() is
\* called on a player whose clip has ended as well, and plays it again.
toggle_pause ==
    /\ UserOp
    /\ paused' = ~paused
    /\ inPause' = 0
    /\ clip' = CASE clip = "playing" /\ ~paused -> "suspended"
                 [] clip \in {"suspended", "ended"} /\ paused -> "playing"
                 [] OTHER -> clip
    /\ UNCHANGED <<runner, skip_dir, skip_restart, abort, audio_done, stale, heard,
                   gui, asked, spoken, afterStop>>

\* Mutant: the test of the direction is the wrong way round.
WriteDirectionSwapped ==
    /\ handler.next = "direction"
    /\ skip_dir' = 0 - handler.dir
    /\ handler' = [handler EXCEPT !.next = "audio"]
    /\ UNCHANGED <<runner, skip_restart, paused, abort, audio, player, history>>

\* Between the two writes the runner may read the flags.
WriteDirection ==
    /\ handler.next = "direction"
    /\ skip_dir' = handler.dir
    /\ handler' = [handler EXCEPT !.next = "audio"]
    /\ UNCHANGED <<runner, skip_restart, paused, abort, audio, player, history>>

HandlerStopsAudio ==
    /\ handler.next = "audio"
    /\ _stop_audio
    /\ handler' = [handler EXCEPT !.next = "unpause"]
    /\ UNCHANGED <<runner, flags, player, history>>

HandlerUnpauses ==
    /\ handler.next = "unpause"
    /\ paused' = FALSE
    /\ handler' = Idle
    /\ UNCHANGED <<runner, skip_dir, skip_restart, abort, audio, player, history>>
------------------------------------------------------------------------------
(* run *)

Asked == skip_restart \/ skip_dir # 0

\* Mutant: a paused demo is held wherever it is, except before an action.
HeldInWaits == paused /\ ~abort /\ ~Asked /\ pc # "gate"

Held == paused /\ ~abort /\ ~Asked

\* _check is called.
Check(there) == pc' = "check" /\ after' = there

\* Mutant: Stop is seen when the next step begins.
ReadAbortLater ==
    /\ pc = "check"
    /\ pc' = "check_restart"
    /\ UNCHANGED <<step, action, after, err, flags, audio, gui, history>>

\* The exception DemoAborted.
ReadAbort ==
    /\ pc = "check"
    /\ pc' = IF abort THEN "cleanup" ELSE "check_restart"
    /\ UNCHANGED <<step, action, after, err, flags, audio, gui, history>>

\* The exception DemoSkip, to play the step again.
ReadRestart ==
    /\ pc = "check_restart"
    /\ pc' = IF skip_restart THEN "skipped" ELSE "check_dir"
    /\ err' = IF skip_restart THEN 0 ELSE err
    /\ UNCHANGED <<step, action, after, flags, audio, gui, history>>

ReadDir ==
    /\ pc = "check_dir"
    /\ pc' = IF skip_dir # 0 THEN "raise" ELSE after
    /\ UNCHANGED <<step, action, after, err, flags, audio, gui, history>>

\* The direction is read again for the exception.
RaiseSkip ==
    /\ pc = "raise"
    /\ pc' = "skipped"
    /\ err' = skip_dir
    /\ UNCHANGED <<step, action, after, flags, audio, gui, history>>

Top ==
    /\ pc = "top"
    /\ pc' = IF abort \/ step > Len(Script) THEN "cleanup" ELSE "reset_dir"
    /\ UNCHANGED <<step, action, after, err, flags, audio, gui, history>>

\* _reset_skip forgets the requests made so far: also one whose handler is not
\* finished, and of one that comes between the two writes the restart only.
ResetDir ==
    /\ pc = "reset_dir"
    /\ pc' = "reset_restart"
    /\ skip_dir' = 0
    /\ asked' = IF GuiFree THEN {} ELSE {handler.dir}
    /\ spoken' = FALSE
    /\ UNCHANGED <<step, action, after, err, skip_restart, paused, abort, audio, gui, ops,
                   inPause, afterStop>>

ResetRestart ==
    /\ pc = "reset_restart"
    /\ pc' = "nav"
    /\ skip_restart' = FALSE
    /\ UNCHANGED <<step, action, after, err, skip_dir, paused, abort, audio, gui, history>>

\* The status line and the navigation bar.
ShowStep ==
    /\ pc = "nav" /\ GuiFree
    /\ pc' = "gate"
    /\ action' = 1
    /\ UNCHANGED <<step, after, err, flags, audio, gui, history>>

\* The top of _run_action.
Gate ==
    /\ pc = "gate" /\ action <= Len(Script[step]) /\ ~Held
    /\ Check("do")
    /\ UNCHANGED <<step, action, err, flags, audio, gui, history>>

StepPlayed ==
    /\ pc = "gate" /\ action > Len(Script[step])
    /\ pc' = "end"
    /\ UNCHANGED <<step, action, after, err, flags, audio, gui, history>>

Kind == Script[step][action]
Begun ==
    /\ inPause' = IF paused THEN inPause + 1 ELSE 0
    /\ afterStop' = IF abort THEN afterStop + 1 ELSE 0
    /\ spoken' = (spoken \/ pc = "start")
    /\ UNCHANGED <<ops, asked>>

DoApi ==
    /\ pc = "do" /\ Kind = "api" /\ GuiFree
    /\ pc' \in {"settle", "next"}
    /\ Begun
    /\ UNCHANGED <<step, action, after, err, flags, audio, gui>>

\* The window reports an error: the demo is over.
ApiFails ==
    /\ pc = "do" /\ Kind = "api" /\ GuiFree
    /\ pc' = "cleanup"
    /\ Begun
    /\ UNCHANGED <<step, action, after, err, flags, audio, gui>>

\* _play_audio: stop what plays, clear the event, start.
PlayStops ==
    /\ pc = "do" /\ Kind # "api" /\ GuiFree
    /\ _stop_audio
    /\ pc' = "clear"
    /\ UNCHANGED <<step, action, after, err, flags, gui, history>>

\* Mutant: the event is left as the stop has set it.
ClearDoneMissing ==
    /\ pc = "clear"
    /\ pc' = "start"
    /\ UNCHANGED <<step, action, after, err, flags, audio, gui, history>>

ClearDone ==
    /\ pc = "clear"
    /\ audio_done' = FALSE
    /\ pc' = "start"
    /\ UNCHANGED <<step, action, after, err, flags, clip, stale, heard, gui, history>>

StartClip ==
    /\ pc = "start" /\ GuiFree
    /\ clip' = "playing"
    /\ heard' = FALSE
    /\ pc' = IF Kind = "clip" THEN "next" ELSE "listen"
    /\ Begun
    /\ UNCHANGED <<step, action, after, err, flags, audio_done, stale, gui>>

\* No player, or it cannot be started.
StartFails ==
    /\ pc = "start" /\ GuiFree
    /\ audio_done' = TRUE
    /\ pc' = "next"
    /\ Begun
    /\ UNCHANGED <<step, action, after, err, flags, clip, stale, heard, gui>>

\* _wait_audio: the event is looked at first, then the requests.
Listen(here, there) ==
    /\ pc = here
    /\ Check(IF audio_done THEN there ELSE here)
    /\ UNCHANGED <<step, action, err, flags, audio, gui, history>>

\* _wait_interruptible
Settle ==
    /\ pc = "settle" /\ ~Held
    /\ Check("next")
    /\ UNCHANGED <<step, action, err, flags, audio, gui, history>>

NextAction ==
    /\ pc = "next"
    /\ action' = action + 1
    /\ pc' = "gate"
    /\ UNCHANGED <<step, after, err, flags, audio, gui, history>>

\* The pause after a step.
StepPause ==
    /\ pc = "pause" /\ ~Held
    /\ Check("advance")
    /\ UNCHANGED <<step, action, err, flags, audio, gui, history>>

Advance ==
    /\ pc = "advance"
    /\ step' = step + 1
    /\ pc' = "top"
    /\ UNCHANGED <<action, after, err, flags, audio, gui, history>>

\* DemoSkip was raised: clear_message.
ClearMessage ==
    /\ pc = "skipped" /\ GuiFree
    /\ pc' = "redirect"
    /\ UNCHANGED <<step, action, after, err, flags, audio, gui, history>>

\* The flags are read again: the last request counts.  Between the two writes of
\* a handler that withdraws a restart there is none to read, and the direction
\* is the one that was raised, or forward.
RedirectRestart ==
    /\ pc = "redirect"
    /\ pc' = IF skip_restart THEN "forget_dir" ELSE "redirect_dir"
    /\ err' = IF skip_restart THEN 0 ELSE err
    /\ UNCHANGED <<step, action, after, flags, audio, gui, history>>

RedirectDir ==
    /\ pc = "redirect_dir"
    /\ pc' = "forget_dir"
    /\ err' = CASE skip_dir # 0 -> skip_dir
                [] skip_dir = 0 /\ err # 0 -> err
                [] skip_dir = 0 /\ err = 0 -> 1
    /\ UNCHANGED <<step, action, after, flags, audio, gui, history>>

\* _reset_skip
ForgetDir ==
    /\ pc = "forget_dir"
    /\ pc' = "forget_restart"
    /\ skip_dir' = 0
    /\ UNCHANGED <<step, action, after, err, skip_restart, paused, abort, audio, gui, history>>

Redirect ==
    /\ pc = "forget_restart"
    /\ pc' = "top"
    /\ skip_restart' = FALSE
    /\ step' = IF err < 0 /\ step = 1 THEN 1 ELSE step + err
    /\ UNCHANGED <<action, after, err, skip_dir, paused, abort, audio, gui, history>>

Cleanup ==
    /\ pc = "cleanup" /\ GuiFree
    /\ _stop_audio
    /\ pc' = "done"
    /\ UNCHANGED <<step, action, after, err, flags, gui, history>>
------------------------------------------------------------------------------
RunnerStep ==
    \/ ReadAbort \/ ReadRestart \/ ReadDir \/ RaiseSkip
    \/ Top \/ ResetDir \/ ResetRestart \/ ShowStep \/ Gate \/ StepPlayed \/ DoApi \/ ApiFails
    \/ PlayStops \/ ClearDone \/ StartClip \/ StartFails
    \/ Listen("listen", "next") \/ Listen("end", "pause")
    \/ Settle \/ NextAction \/ StepPause \/ Advance
    \/ ClearMessage \/ RedirectRestart \/ RedirectDir \/ ForgetDir \/ Redirect
    \/ Cleanup

HandlerStep == WriteDirection \/ HandlerStopsAudio \/ HandlerUnpauses

UserStep == Skip(-1) \/ Skip(1) \/ set_voice_lang \/ stop \/ toggle_pause

Next == RunnerStep \/ HandlerStep \/ UserStep \/ ClipEnds \/ StaleWaiter

Spec == Init /\ [][Next]_vars

\* Both threads run and a clip that plays comes to its end; nobody has to touch
\* the demo, and one that is paused may stay so.
FairSpec ==
    /\ Spec
    /\ WF_vars(RunnerStep)
    /\ WF_vars(HandlerStep)
    /\ WF_vars(ClipEnds)
------------------------------------------------------------------------------
(* Properties *)

\* The variables have their types, and only a step of the script is played.
TypeOK ==
    /\ step \in 1..(Len(Script) + 1)
    /\ step > Len(Script) => pc \in {"top", "cleanup", "done"}
    /\ err \in {-1, 0, 1} /\ skip_dir \in {-1, 0, 1}
    /\ {skip_restart, paused, abort, audio_done, player, heard, spoken} \subseteq BOOLEAN
    /\ clip \in {"none", "playing", "suspended", "ended"}
    /\ stale \in Nat
    /\ handler.next \in {"idle", "direction", "audio", "unpause"}
    /\ asked \subseteq {-1, 0, 1}

\* Stop: the action in hand may still be done, no other one is begun (the
\* checks of _run_action and of the waits).
StopWins == afterStop <= 1

\* Pause: the action in hand may still be done, whatever kind it is and however
\* it waits; the next one is begun only after the demo goes on or is skipped.
PauseHolds == inPause <= 1

\* The clip started last in a step is heard to its end before the next step is
\* shown, unless the user asked to leave the step (_wait_audio at the end of a
\* step, the event set by the ends of several clips).  To its end once: Resume
\* plays a clip that had ended again, and nothing waits for that.  With a
\* subprocess for a player this does not hold: the waiter of an older clip sets
\* the event.
ClipHeard ==
    [][ Advance /\ player /\ spoken /\ asked = {} => clip = "none" \/ heard ]_vars

\* The demo goes back only when Previous was pressed in this step, and leaves a
\* step early or repeats it only on a request made since it was shown.
StepsInOrder ==
    [][ /\ step' < step => -1 \in asked
        /\ Redirect /\ step' > step => asked \cap {-1, 1} # {}
        /\ Redirect /\ step' = step => asked \cap {-1, 0} # {} ]_vars

\* The demo comes to an end unless it is left paused: no wait for a clip, for
\* the pause to end or for the window holds the runner forever.
DemoEnds == <>(pc = "done") \/ <>[]paused
==============================================================================
