----------------------------- MODULE EventWindow -----------------------------
(***************************************************************************)
(* What the trace recorder promises, without the ring: while capture is on *)
(* every event is accepted, the newest Capacity events of the session are  *)
(* retained in the order they were recorded, and each event pushed out is  *)
(* counted as lost.  A new session forgets the previous one.               *)
(***************************************************************************)
EXTENDS Naturals, Sequences

CONSTANTS
    Capacity,   \* how many events a session retains, at least one
    Event       \* the set of events

VARIABLES
    enabled,    \* capture is on
    window,     \* the retained events, oldest first
    lost        \* how many events of this session were pushed out

wvars == <<enabled, window, lost>>

Init ==
    /\ enabled = FALSE
    /\ window = << >>
    /\ lost = 0

Begin ==
    /\ enabled' = TRUE
    /\ window' = << >>
    /\ lost' = 0

Stop ==
    /\ enabled' = FALSE
    /\ UNCHANGED <<window, lost>>

\* Room is left: nothing is pushed out.
Keep(e) ==
    /\ Len(window) < Capacity
    /\ window' = Append(window, e)
    /\ lost' = lost

\* The window is full: the oldest event makes room.
PushOut(e) ==
    /\ Len(window) = Capacity
    /\ window' = Append(Tail(window), e)
    /\ lost' = lost + 1

\* The event recorded is the newest one of the new window.
Record ==
    /\ enabled
    /\ window' # << >>
    /\ LET e == window'[Len(window')] IN e \in Event /\ (Keep(e) \/ PushOut(e))
    /\ enabled' = enabled

Next == Begin \/ Stop \/ Record

Spec == Init /\ [][Next]_wvars
==============================================================================
