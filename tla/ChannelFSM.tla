----------------------------- MODULE ChannelFSM -----------------------------
(***************************************************************************)
(* The life-cycle state machine of one radio channel                       *)
(* (internal/channel/fsm.go).  Every method of the Go type runs under the  *)
(* machine's own mutex, so each is an operator from the record the machine *)
(* is in to the record it leaves; the components that own a machine apply  *)
(* them inside their own steps.  The reason strings and lastFault are      *)
(* wording and are left out, and so are the listeners: only a test adds    *)
(* one.                                                                    *)
(***************************************************************************)

State == {"disconnected", "connecting", "connected",
          "transmitting", "receiving", "fault"}

ChannelFSM == [state : State, pttActive : BOOLEAN, squActive : BOOLEAN]

NewChannelFSM ==
    [state |-> "disconnected", pttActive |-> FALSE, squActive |-> FALSE]

\* (Definitions named Mut_ are broken variants; the mutation checks put each in
\* the place of the definition below it.)
\* A connect that is accepted while receiving.
Mut_CanConnect(f) == f.state \in {"disconnected", "fault", "receiving"}

\* The two states the machine may leave for "connecting".
CanConnect(f) == f.state \in {"disconnected", "fault"}

\* The two states in which the PTT key is accepted.
CanKey(f) == f.state \in {"connected", "receiving"}

\* Entering a state that clears both flags.
Cleared(s) == [state |-> s, pttActive |-> FALSE, squActive |-> FALSE]

TransitionToConnecting(f) ==
    IF CanConnect(f) THEN [f EXCEPT !.state = "connecting"] ELSE f

\* A disconnect that keeps the flags.
Mut_TransitionToDisconnected(f) == [f EXCEPT !.state = "disconnected"]

TransitionToConnected(f)    == Cleared("connected")
TransitionToDisconnected(f) == Cleared("disconnected")
TransitionToFault(f)        == Cleared("fault")

PTTDown(f) ==
    IF CanKey(f)
    THEN [f EXCEPT !.state = "transmitting", !.pttActive = TRUE]
    ELSE f

\* A release into the state the requirements call IDLE.
Mut_Unkeyed(f) == IF f.squActive THEN "receiving" ELSE "idle"

\* The state the key leaves when it is released: squelch first, whatever the
\* state; otherwise only a transmission falls back to "connected".
Unkeyed(f) ==
    IF f.squActive THEN "receiving"
    ELSE IF f.state = "transmitting" THEN "connected" ELSE f.state

PTTUp(f) ==
    IF f.pttActive
    THEN [f EXCEPT !.pttActive = FALSE, !.state = Unkeyed(f)]
    ELSE f

SquelchOn(f) ==
    [f EXCEPT !.squActive = TRUE,
              !.state = IF f.state = "connected" THEN "receiving" ELSE @]

\* Carrier loss that ignores the state: a transmission falls back too.
Mut_SquelchOff(f) == [f EXCEPT !.squActive = FALSE, !.state = "connected"]

\* Carrier loss that forgets the state.
Mut_SquelchOffFlag(f) == [f EXCEPT !.squActive = FALSE]

SquelchOff(f) ==
    [f EXCEPT !.squActive = FALSE,
              !.state = IF f.state = "receiving" THEN "connected" ELSE @]
=============================================================================
