-------------------------- MODULE DemoRunner_proof --------------------------
(***************************************************************************)
(* Proofs about the demo runner, for every script and any number of        *)
(* requests of the user.                                                   *)
(***************************************************************************)
EXTENDS DemoRunner, TLAPS

Locations ==
    {"top", "reset_dir", "reset_restart", "nav", "gate", "check", "check_restart",
     "check_dir", "raise", "do", "clear", "start", "listen", "settle", "next", "end",
     "pause", "advance", "skipped", "redirect", "redirect_dir", "forget_dir",
     "forget_restart", "cleanup", "done"}

\* Where no step is shown any more.
Outside == {"top", "cleanup", "done"}

\* In _check, which raises nothing or returns to one of these places.
Checking == {"check", "check_restart", "check_dir"}
Returns == {"do", "next", "listen", "end", "pause", "advance"}

PlaceType ==
    /\ pc \in Locations
    /\ after \in Returns
    /\ step \in 1..(Len(Script) + 1)
    /\ step > Len(Script) => pc \in Outside
    /\ err \in {-1, 0, 1}
FlagTypes ==
    /\ skip_restart \in BOOLEAN /\ paused \in BOOLEAN /\ abort \in BOOLEAN
    /\ player \in BOOLEAN /\ spoken \in BOOLEAN /\ audio_done \in BOOLEAN
    /\ heard \in BOOLEAN
AudioType ==
    /\ clip \in {"none", "playing", "suspended", "ended"}
    /\ stale \in Nat
HandlerType ==
    /\ skip_dir \in {-1, 0, 1}
    /\ handler \in [next : {"idle", "direction", "audio", "unpause"}, dir : {-1, 0, 1}]
    /\ asked \in SUBSET {-1, 0, 1}
Types == PlaceType /\ FlagTypes /\ AudioType /\ HandlerType

\* A script has a length.
LEMMA ScriptLength == Len(Script) \in Nat
  <1> DEFINE Steps == Seq({"api", "clip", "clip, wait"})
  <1>1. Script \in Seq(Steps)
    BY ScriptAssumption
  <1> HIDE DEF Steps
  <1> QED
    BY <1>1

\* The types, split from the rest because every other part needs them.
THEOREM TypesInvariant == Spec => []Types
<1>1. Init => Types
  <2>1. Init => PlaceType /\ AudioType /\ HandlerType
    BY ScriptLength DEF Init, PlaceType, AudioType, HandlerType, Locations, Outside, Returns, Idle
  <2>2. Init => FlagTypes
    BY DEF Init, FlagTypes
  <2> QED
    BY <2>1, <2>2 DEF Types
<1>2. Types /\ [Next]_vars => Types'
  <2> SUFFICES ASSUME Types, [Next]_vars PROVE Types'
    OBVIOUS
  <2> USE ScriptLength
  <2> USE DEF Types, PlaceType, FlagTypes, AudioType, HandlerType, Locations, Outside, Returns, runner, flags, audio, gui, history, vars, Idle
  <2>1. CASE Top \/ ReadAbort \/ ReadRestart \/ ReadDir \/ RaiseSkip
    <3>1. PlaceType'
      BY <2>1 DEF Top, ReadAbort, ReadRestart, ReadDir, RaiseSkip
    <3>2. AudioType' /\ HandlerType'
      BY <2>1 DEF Top, ReadAbort, ReadRestart, ReadDir, RaiseSkip
    <3>3. FlagTypes'
      BY <2>1 DEF Top, ReadAbort, ReadRestart, ReadDir, RaiseSkip
    <3> QED
      BY <3>1, <3>2, <3>3
  <2>29. CASE ResetDir
    <3>1. PlaceType' /\ AudioType' /\ HandlerType'
      BY <2>29 DEF ResetDir, GuiFree
    <3>2. FlagTypes'
      BY <2>29 DEF ResetDir, GuiFree
    <3> QED
      BY <3>1, <3>2
  <2>30. CASE ResetRestart \/ ForgetDir
    <3>1. PlaceType' /\ AudioType' /\ HandlerType'
      BY <2>30 DEF ResetRestart, ForgetDir
    <3>2. FlagTypes'
      BY <2>30 DEF ResetRestart, ForgetDir
    <3> QED
      BY <3>1, <3>2
  <2>31. CASE RedirectRestart \/ RedirectDir
    <3>1. PlaceType'
      BY <2>31 DEF RedirectRestart, RedirectDir
    <3>2. AudioType' /\ HandlerType' /\ FlagTypes'
      BY <2>31 DEF RedirectRestart, RedirectDir
    <3> QED
      BY <3>1, <3>2
  <2>2. CASE ShowStep
    BY <2>2 DEF ShowStep
  <2>3. CASE Gate
    BY <2>3 DEF Gate, Check
  <2>4. CASE StepPlayed
    BY <2>4 DEF StepPlayed
  <2>5. CASE DoApi
    BY <2>5 DEF DoApi, Begun
  <2>6. CASE ApiFails
    BY <2>6 DEF ApiFails, Begun
  <2>7. CASE PlayStops
    BY <2>7 DEF PlayStops, _stop_audio
  <2>8. CASE ClearDone
    <3>1. PlaceType' /\ AudioType' /\ HandlerType'
      BY <2>8 DEF ClearDone
    <3>2. FlagTypes'
      BY <2>8 DEF ClearDone
    <3> QED
      BY <3>1, <3>2
  <2>9. CASE StartClip
    <3>1. PlaceType' /\ AudioType' /\ HandlerType'
      BY <2>9 DEF StartClip, Begun
    <3>2. FlagTypes'
      BY <2>9 DEF StartClip, Begun
    <3> QED
      BY <3>1, <3>2
  <2>10. CASE StartFails
    BY <2>10 DEF StartFails, Begun
  <2>11. CASE Listen("listen", "next")
    BY <2>11 DEF Listen, Check
  <2>12. CASE Listen("end", "pause")
    BY <2>12 DEF Listen, Check
  <2>13. CASE Settle
    BY <2>13 DEF Settle, Check
  <2>14. CASE NextAction
    BY <2>14 DEF NextAction
  <2>15. CASE StepPause
    BY <2>15 DEF StepPause, Check
  <2>16. CASE Advance
    BY <2>16 DEF Advance
  <2>17. CASE ClearMessage
    BY <2>17 DEF ClearMessage
  <2>18. CASE Redirect
    <3>1. step \in 1..Len(Script)
      BY <2>18 DEF Redirect
    <3>2. step' \in 1..(Len(Script) + 1)
      BY <2>18, <3>1 DEF Redirect
    <3>3. PlaceType'
      BY <2>18, <3>2 DEF Redirect
    <3>4. AudioType' /\ HandlerType'
      BY <2>18 DEF Redirect
    <3>5. FlagTypes'
      BY <2>18 DEF Redirect
    <3> QED
      BY <3>3, <3>4, <3>5
  <2>19. CASE Cleanup
    BY <2>19 DEF Cleanup, _stop_audio
  <2>20. CASE WriteDirection
    BY <2>20 DEF WriteDirection
  <2>21. CASE HandlerStopsAudio
    BY <2>21 DEF HandlerStopsAudio, _stop_audio
  <2>22. CASE HandlerUnpauses
    <3>1. PlaceType' /\ AudioType' /\ HandlerType'
      BY <2>22 DEF HandlerUnpauses
    <3>2. FlagTypes'
      BY <2>22 DEF HandlerUnpauses
    <3> QED
      BY <3>1, <3>2
  <2>23. CASE \E dir \in {-1, 1} : Skip(dir)
    <3>1. PlaceType' /\ AudioType' /\ HandlerType'
      BY <2>23 DEF Skip, UserOp
    <3>2. FlagTypes'
      BY <2>23 DEF Skip, UserOp
    <3> QED
      BY <3>1, <3>2
  <2>24. CASE set_voice_lang
    BY <2>24 DEF set_voice_lang, UserOp
  <2>25. CASE stop
    <3>1. PlaceType' /\ AudioType' /\ HandlerType'
      BY <2>25 DEF stop, UserOp
    <3>2. FlagTypes'
      BY <2>25 DEF stop, UserOp
    <3> QED
      BY <3>1, <3>2
  <2>26. CASE toggle_pause
    BY <2>26 DEF toggle_pause, UserOp
  <2>27. CASE ClipEnds \/ StaleWaiter
    <3>1. PlaceType'
      BY <2>27 DEF ClipEnds, StaleWaiter
    <3>2. AudioType'
      BY <2>27 DEF ClipEnds, StaleWaiter
    <3>3. HandlerType'
      BY <2>27 DEF ClipEnds, StaleWaiter
    <3>4. FlagTypes'
      BY <2>27 DEF ClipEnds, StaleWaiter
    <3> QED
      BY <3>1, <3>2, <3>3, <3>4
  <2>28. CASE UNCHANGED vars
    BY <2>28
  <2> QED
    BY <2>1, <2>2, <2>3, <2>4, <2>5, <2>6, <2>7, <2>8, <2>9, <2>10, <2>11, <2>12,
       <2>13, <2>14, <2>15, <2>16, <2>17, <2>18, <2>19, <2>20, <2>21, <2>22, <2>23,
       <2>24, <2>25, <2>26, <2>27, <2>28, <2>29, <2>30, <2>31
       DEF Next, RunnerStep, HandlerStep, UserStep
<1> QED
  BY <1>1, <1>2, PTL DEF Spec

\* TypeOK says the same as Types, with fewer words.
THEOREM TypeCorrect == Spec => []TypeOK
<1>1. Types => TypeOK
  <2> SUFFICES ASSUME Types PROVE TypeOK
    OBVIOUS
  <2>1. step \in 1..(Len(Script) + 1) /\ (step > Len(Script) => pc \in {"top", "cleanup", "done"})
    BY DEF Types, PlaceType, Outside
  <2>2. {skip_restart, paused, abort, audio_done, player, heard, spoken} \subseteq BOOLEAN
    BY DEF Types, FlagTypes
  <2>3. err \in {-1, 0, 1} /\ clip \in {"none", "playing", "suspended", "ended"} /\ stale \in Nat
    BY DEF Types, PlaceType, AudioType
  <2>4. /\ skip_dir \in {-1, 0, 1} /\ asked \subseteq {-1, 0, 1}
        /\ handler.next \in {"idle", "direction", "audio", "unpause"}
    BY DEF Types, HandlerType
  <2> QED
    BY <2>1, <2>2, <2>3, <2>4 DEF TypeOK
<1> QED
  BY <1>1, TypesInvariant, PTL
------------------------------------------------------------------------------
(* Stop and pause *)

\* The runner has passed the checks of _run_action and not begun the action.
Acting == {"do", "clear", "start"}

\* StopWins and PauseHolds count actions, and a count says nothing of where the
\* runner is: an action that is past its check has not been counted yet.  When a
\* paused demo is in a check after an action of this pause, the check will find
\* a request, unless a handler takes it back, and that one ends the pause.
Again == after = "do" /\ paused /\ GuiFree /\ inPause # 0
Counts ==
    /\ afterStop \in {0, 1} /\ inPause \in {0, 1}
    /\ ~abort => afterStop = 0
    /\ pc \in Acting \/ (pc \in {"check_restart", "check_dir"} /\ after = "do")
            => afterStop = 0
    /\ pc \in Acting /\ paused /\ GuiFree => inPause = 0
    /\ Again /\ pc = "check" => abort \/ Asked
    /\ Again /\ pc = "check_restart" => Asked
    /\ Again /\ pc = "check_dir" => skip_dir # 0

LEMMA CountsKept == Types /\ Counts /\ [Next]_vars => Counts'
<1> SUFFICES ASSUME Types, Counts, [Next]_vars PROVE Counts'
  OBVIOUS
<1>0. /\ paused \in BOOLEAN /\ abort \in BOOLEAN /\ pc \in Locations
      /\ skip_dir \in {-1, 0, 1} /\ skip_restart \in BOOLEAN
  BY DEF Types, PlaceType, FlagTypes, HandlerType
<1> USE <1>0 DEF Counts, Again, Acting, GuiFree, Asked
<1>1. CASE Top
  <2>1. pc = "top" /\ pc' \in {"cleanup", "reset_dir"} /\ UNCHANGED <<flags, gui, after, history>>
    BY <1>1 DEF Top
  <2> QED
    BY <2>1 DEF flags, gui, history
<1>17. CASE ResetDir \/ ResetRestart
  BY <1>17 DEF ResetDir, ResetRestart, gui, history
<1>2. CASE ShowStep \/ StepPlayed \/ NextAction \/ Advance \/ ClearMessage
  BY <1>2 DEF ShowStep, StepPlayed, NextAction, Advance, ClearMessage, flags, gui, history
<1>3. CASE RedirectRestart \/ RedirectDir \/ ForgetDir \/ Redirect
  BY <1>3 DEF RedirectRestart, RedirectDir, ForgetDir, Redirect, flags, gui, history
<1>4. CASE Gate
  BY <1>4 DEF Gate, Check, Held, flags, gui, history
<1>5. CASE ReadAbort \/ ReadRestart \/ ReadDir \/ RaiseSkip
  BY <1>5 DEF ReadAbort, ReadRestart, ReadDir, RaiseSkip, flags, gui, history, Types,
              PlaceType, Returns
<1>6. CASE DoApi \/ ApiFails
  BY <1>6 DEF DoApi, ApiFails, Begun, flags, gui
<1>7. CASE PlayStops \/ ClearDone \/ Cleanup
  BY <1>7 DEF PlayStops, ClearDone, Cleanup, flags, gui, history
<1>8. CASE StartClip \/ StartFails
  BY <1>8 DEF StartClip, StartFails, Begun, flags, gui
<1>9. CASE Listen("listen", "next") \/ Listen("end", "pause")
  BY <1>9 DEF Listen, Check, flags, gui, history
<1>10. CASE Settle \/ StepPause
  BY <1>10 DEF Settle, StepPause, Check, flags, gui, history
<1>11. CASE WriteDirection \/ HandlerStopsAudio
  BY <1>11 DEF WriteDirection, HandlerStopsAudio, runner, flags, history, Idle
<1>12. CASE HandlerUnpauses
  BY <1>12 DEF HandlerUnpauses, runner, history
<1>13. CASE (\E dir \in {-1, 1} : Skip(dir)) \/ set_voice_lang
  BY <1>13 DEF Skip, set_voice_lang, UserOp, runner, Idle
<1>14. CASE stop
  BY <1>14 DEF stop, UserOp, runner, Idle
<1>15. CASE toggle_pause
  BY <1>15 DEF toggle_pause, UserOp, runner, gui
<1>16. CASE ClipEnds \/ StaleWaiter \/ UNCHANGED vars
  BY <1>16 DEF ClipEnds, StaleWaiter, vars, runner, flags, gui, history
<1> QED
  BY <1>1, <1>2, <1>3, <1>4, <1>5, <1>6, <1>7, <1>8, <1>9, <1>10, <1>11, <1>12, <1>13, <1>14,
     <1>15, <1>16, <1>17 DEF Next, RunnerStep, HandlerStep, UserStep

\* At most the action in hand is done after Stop.
THEOREM StopWinsHolds == Spec => []StopWins
<1>1. Init => Counts
  BY DEF Init, Counts, Again, Acting
<1>2. Counts => StopWins
  BY DEF Counts, StopWins
<1> QED
  BY <1>1, <1>2, CountsKept, TypesInvariant, PTL DEF Spec

\* At most the action in hand is done while the demo is paused.
THEOREM PauseHoldsHolds == Spec => []PauseHolds
<1>1. Init => Counts
  BY DEF Init, Counts, Again, Acting
<1>2. Counts => PauseHolds
  BY DEF Counts, PauseHolds
<1> QED
  BY <1>1, <1>2, CountsKept, TypesInvariant, PTL DEF Spec
------------------------------------------------------------------------------
(* The order of the steps *)

\* What the flags, the handler in progress and the exception raised say was asked
\* for in this step.  A restart is withdrawn before the direction is written:
\* in between, the request is in the handler only.  A restart may be forgotten
\* before its handler is finished.
Forgetful == Outside \cup {"reset_dir", "reset_restart", "nav"}
Requests ==
    /\ skip_dir # 0 /\ pc # "reset_dir" => skip_dir \in asked
    /\ skip_restart /\ pc \notin {"reset_dir", "reset_restart"} => 0 \in asked
    /\ handler.next = "direction" => handler.dir \in asked
    /\ handler.next = "direction" /\ handler.dir = 0 => skip_restart \/ pc \in Forgetful
    /\ pc \in {"raise", "skipped", "redirect", "redirect_dir"} =>
            \/ skip_restart \/ skip_dir # 0
            \/ handler.next = "direction" /\ handler.dir # 0
    /\ pc = "raise" => skip_dir # 0 \/ 0 \in asked
    /\ pc \in {"skipped", "redirect", "redirect_dir"} => err \in asked
    /\ pc = "redirect_dir" => asked \cap {-1, 1} # {}
    /\ pc \in {"forget_dir", "forget_restart"} =>
            err \in asked \/ (err = 1 /\ asked \cap {-1, 1} # {})

LEMMA RequestsKept == Types /\ Requests /\ [Next]_vars => Requests'
<1> SUFFICES ASSUME Types, Requests, [Next]_vars PROVE Requests'
  OBVIOUS
<1>0. /\ abort \in BOOLEAN /\ pc \in Locations /\ err \in {-1, 0, 1}
      /\ skip_dir \in {-1, 0, 1} /\ skip_restart \in BOOLEAN
      /\ handler \in [next : {"idle", "direction", "audio", "unpause"}, dir : {-1, 0, 1}]
      /\ asked \in SUBSET {-1, 0, 1}
  BY DEF Types, PlaceType, FlagTypes, HandlerType
<1> USE <1>0 DEF Requests, Outside, Forgetful
<1>1. CASE Top
  <2>1. pc = "top" /\ pc' \in {"cleanup", "reset_dir"} /\ UNCHANGED <<flags, gui, after, history>>
    BY <1>1 DEF Top
  <2> QED
    BY <2>1 DEF flags, gui, history
<1>2. CASE ResetDir \/ ResetRestart
  BY <1>2 DEF ResetDir, ResetRestart, GuiFree, Idle, gui, history
<1>3. CASE ShowStep \/ StepPlayed \/ NextAction \/ Advance \/ ClearMessage
  BY <1>3 DEF ShowStep, StepPlayed, NextAction, Advance, ClearMessage, flags, gui,
              history, GuiFree, Idle
<1>4. CASE ReadAbort
  <2>1. pc = "check" /\ pc' \in {"cleanup", "check_restart"} /\ UNCHANGED <<flags, gui, history>>
    BY <1>4 DEF ReadAbort
  <2> QED
    BY <2>1 DEF flags, gui, history
<1>23. CASE ReadRestart
  BY <1>23 DEF ReadRestart, flags, gui, history
<1>5. CASE ReadDir
  <2>1. after \in Returns
    BY DEF Types, PlaceType
  <2> QED
    BY <1>5, <2>1 DEF ReadDir, Returns, flags, gui, history
<1>6. CASE RaiseSkip
  BY <1>6 DEF RaiseSkip, flags, gui, history
<1>7. CASE RedirectRestart
  BY <1>7 DEF RedirectRestart, flags, gui, history
<1>8. CASE RedirectDir
  BY <1>8 DEF RedirectDir, flags, gui, history
<1>9. CASE ForgetDir \/ Redirect
  BY <1>9 DEF ForgetDir, Redirect, gui, history
<1>10. CASE Gate
  BY <1>10 DEF Gate, Check, flags, gui, history
<1>11. CASE DoApi \/ ApiFails \/ StartClip \/ StartFails
  BY <1>11 DEF DoApi, ApiFails, StartClip, StartFails, Begun, flags, gui
<1>12. CASE PlayStops \/ ClearDone \/ Cleanup
  BY <1>12 DEF PlayStops, ClearDone, Cleanup, flags, gui, history
<1>13. CASE Listen("listen", "next") \/ Listen("end", "pause")
  BY <1>13 DEF Listen, Check, flags, gui, history
<1>14. CASE Settle \/ StepPause
  BY <1>14 DEF Settle, StepPause, Check, flags, gui, history
<1>15. CASE WriteDirection
  BY <1>15 DEF WriteDirection, runner, history
<1>16. CASE HandlerStopsAudio
  BY <1>16 DEF HandlerStopsAudio, runner, flags, history
<1>17. CASE HandlerUnpauses
  BY <1>17 DEF HandlerUnpauses, runner, history, Idle
<1>18. CASE \E dir \in {-1, 1} : Skip(dir)
  BY <1>18 DEF Skip, UserOp, runner
<1>19. CASE set_voice_lang
  BY <1>19 DEF set_voice_lang, UserOp, runner
<1>20. CASE stop
  BY <1>20 DEF stop, UserOp, GuiFree, Idle, runner
<1>21. CASE toggle_pause
  BY <1>21 DEF toggle_pause, UserOp, runner, gui
<1>22. CASE ClipEnds \/ StaleWaiter \/ UNCHANGED vars
  BY <1>22 DEF ClipEnds, StaleWaiter, vars, runner, flags, gui, history
<1> QED
  BY <1>1, <1>2, <1>3, <1>4, <1>5, <1>6, <1>7, <1>8, <1>9, <1>10, <1>11, <1>12, <1>13,
     <1>14, <1>15, <1>16, <1>17, <1>18, <1>19, <1>20, <1>21, <1>22, <1>23
     DEF Next, RunnerStep, HandlerStep, UserStep

\* Only Redirect and Advance change the step.
LEMMA StepChange == [Next]_vars => Redirect \/ Advance \/ UNCHANGED step
BY DEF Next, RunnerStep, HandlerStep, UserStep, Top, ResetDir, ResetRestart, ReadAbort,
       ReadRestart, ReadDir, RaiseSkip, RedirectRestart, RedirectDir, ForgetDir, ShowStep, Gate, StepPlayed, DoApi,
       ApiFails, PlayStops, ClearDone, StartClip, StartFails, Listen, Settle, NextAction,
       StepPause, ClearMessage, Cleanup, WriteDirection, HandlerStopsAudio,
       HandlerUnpauses, Skip, set_voice_lang, stop, toggle_pause, ClipEnds, StaleWaiter,
       vars, runner

\* The demo goes back, repeats a step or leaves it early only when asked to.
THEOREM StepsInOrderHolds == Spec => StepsInOrder
<1> DEFINE Ordered ==
      /\ step' < step => -1 \in asked
      /\ Redirect /\ step' > step => asked \cap {-1, 1} # {}
      /\ Redirect /\ step' = step => asked \cap {-1, 0} # {}
<1>1. Init => Requests
  BY DEF Init, Requests, Idle
<1>2. Types /\ Requests /\ [Next]_vars => [Ordered]_vars
  <2> SUFFICES ASSUME Types, Requests, [Next]_vars PROVE Ordered
    OBVIOUS
  <2>0. /\ step \in Nat /\ err \in {-1, 0, 1} /\ skip_dir \in {-1, 0, 1}
        /\ skip_restart \in BOOLEAN /\ handler.dir \in {-1, 0, 1}
    BY ScriptLength DEF Types, PlaceType, FlagTypes, HandlerType
  <2>1. CASE Redirect
    <3>1. /\ step' = IF err < 0 /\ step = 1 THEN 1 ELSE step + err
          /\ err \in asked \/ (err = 1 /\ asked \cap {-1, 1} # {})
      BY <2>1 DEF Redirect, Requests
    <3>2. CASE err = -1
      BY <2>0, <3>1, <3>2
    <3>3. CASE err = 0
      BY <2>0, <3>1, <3>3
    <3>4. CASE err = 1
      BY <2>0, <3>1, <3>4
    <3> QED
      BY <2>0, <3>2, <3>3, <3>4
  <2>2. CASE Advance
    <3>1. step' = step + 1 /\ ~Redirect
      BY <2>2 DEF Advance, Redirect
    <3> QED
      BY <2>0, <3>1
  <2>3. CASE UNCHANGED step /\ ~Redirect
    BY <2>0, <2>3
  <2> QED
    BY <2>1, <2>2, <2>3, StepChange
<1> QED
  BY <1>1, <1>2, RequestsKept, TypesInvariant, PTL DEF Spec, StepsInOrder
------------------------------------------------------------------------------
(* Clips are heard *)

\* The user has asked for nothing in this step and not stopped the demo.
Undisturbed == player /\ asked = {} /\ ~abort

\* Nothing plays, or what plays has been heard already.
Quiet == clip = "none" \/ heard

\* The event is set only when the clip of this step is over, from the moment it
\* is started; before, it is cleared, and nothing sets it then.
Heard ==
    /\ player => stale = 0
    /\ handler.next # "idle" => abort \/ asked # {}
    /\ pc \in {"clear", "start"} => clip = "none"
    /\ Undisturbed /\ pc = "start" => ~audio_done
    /\ Undisturbed /\ spoken /\ audio_done /\ pc \notin {"clear", "start"} => Quiet
    /\ Undisturbed /\ spoken /\ pc = "check" /\ after = "pause" => Quiet
    /\ player /\ asked = {} /\ spoken /\ pc \in {"check_restart", "check_dir"}
            /\ after = "pause" => Quiet
    /\ player /\ asked = {} /\ spoken /\ pc \in Checking /\ after = "advance" => Quiet
    /\ player /\ asked = {} /\ spoken /\ pc \in {"pause", "advance"} => Quiet

LEMMA HeardKept == Types /\ Heard /\ [Next]_vars => Heard'
<1> SUFFICES ASSUME Types, Heard, [Next]_vars PROVE Heard'
  OBVIOUS
<1>0. /\ abort \in BOOLEAN /\ pc \in Locations /\ audio_done \in BOOLEAN
      /\ player \in BOOLEAN /\ spoken \in BOOLEAN /\ heard \in BOOLEAN /\ stale \in Nat
      /\ after \in Returns /\ clip \in {"none", "playing", "suspended", "ended"}
      /\ handler \in [next : {"idle", "direction", "audio", "unpause"}, dir : {-1, 0, 1}]
  BY DEF Types, PlaceType, FlagTypes, HandlerType, AudioType
<1> USE <1>0 DEF Heard, Undisturbed, Quiet, Checking, Returns
<1>1. CASE Top
  <2>1. pc = "top" /\ pc' \in {"cleanup", "reset_dir"} /\ UNCHANGED <<flags, gui, after, history, audio>>
    BY <1>1 DEF Top
  <2> QED
    BY <2>1 DEF flags, gui, history, audio
<1>26. CASE ResetRestart
  BY <1>26 DEF ResetRestart, gui, audio, history
<1>2. CASE ResetDir
  BY <1>2 DEF ResetDir, GuiFree, Idle, gui, audio
<1>3. CASE ShowStep \/ StepPlayed \/ NextAction \/ Advance \/ ClearMessage
  BY <1>3 DEF ShowStep, StepPlayed, NextAction, Advance, ClearMessage, flags, gui,
              history, audio
<1>4. CASE RedirectRestart \/ RedirectDir \/ ForgetDir \/ Redirect
  BY <1>4 DEF RedirectRestart, RedirectDir, ForgetDir, Redirect, flags, gui, history, audio
<1>5. CASE ReadAbort
  BY <1>5 DEF ReadAbort, flags, gui, history, audio
<1>6. CASE ReadRestart \/ RaiseSkip
  BY <1>6 DEF ReadRestart, RaiseSkip, flags, gui, history, audio
<1>7. CASE ReadDir
  BY <1>7 DEF ReadDir, flags, gui, history, audio
<1>8. CASE Gate
  BY <1>8 DEF Gate, Check, flags, gui, history, audio
<1>9. CASE DoApi \/ ApiFails
  BY <1>9 DEF DoApi, ApiFails, Begun, flags, gui, audio
<1>10. CASE PlayStops \/ Cleanup
  BY <1>10 DEF PlayStops, Cleanup, _stop_audio, flags, gui, history
<1>11. CASE ClearDone
  BY <1>11 DEF ClearDone, flags, gui, history
<1>12. CASE StartClip
  BY <1>12 DEF StartClip, Begun, flags, gui
<1>13. CASE StartFails
  BY <1>13 DEF StartFails, Begun, flags, gui
<1>14. CASE Listen("listen", "next")
  BY <1>14 DEF Listen, Check, flags, gui, history, audio
<1>15. CASE Listen("end", "pause")
  BY <1>15 DEF Listen, Check, flags, gui, history, audio
<1>16. CASE Settle \/ StepPause
  BY <1>16 DEF Settle, StepPause, Check, flags, gui, history, audio
<1>17. CASE WriteDirection
  BY <1>17 DEF WriteDirection, runner, history, audio
<1>18. CASE HandlerStopsAudio
  BY <1>18 DEF HandlerStopsAudio, _stop_audio, runner, flags, history
<1>19. CASE HandlerUnpauses
  BY <1>19 DEF HandlerUnpauses, runner, history, audio, Idle
<1>20. CASE (\E dir \in {-1, 1} : Skip(dir)) \/ set_voice_lang
  BY <1>20 DEF Skip, set_voice_lang, UserOp, runner, audio
<1>21. CASE stop
  BY <1>21 DEF stop, UserOp, runner, audio
<1>22. CASE toggle_pause
  BY <1>22 DEF toggle_pause, UserOp, runner, gui
<1>23. CASE ClipEnds
  BY <1>23 DEF ClipEnds, runner, flags, gui, history
<1>24. CASE StaleWaiter
  BY <1>24 DEF StaleWaiter, runner, flags, gui, history
<1>25. CASE UNCHANGED vars
  BY <1>25 DEF vars, runner, flags, gui, history, audio
<1> QED
  BY <1>1, <1>2, <1>3, <1>4, <1>5, <1>6, <1>7, <1>8, <1>9, <1>10, <1>11, <1>12, <1>13,
     <1>14, <1>15, <1>16, <1>17, <1>18, <1>19, <1>20, <1>21, <1>22, <1>23, <1>24, <1>25, <1>26
     DEF Next, RunnerStep, HandlerStep, UserStep

\* Nobody misses the end of a clip of the step he watches undisturbed.
THEOREM ClipHeardHolds == Spec => ClipHeard
<1>1. Init => Heard
  BY DEF Init, Heard, Undisturbed, Quiet, Checking, Idle
<1>2. Heard => (Advance /\ player /\ spoken /\ asked = {} => clip = "none" \/ heard)
  BY DEF Heard, Quiet, Advance
<1> QED
  BY <1>1, <1>2, HeardKept, TypesInvariant, PTL DEF Spec, ClipHeard
==============================================================================
