------------------------------ MODULE VoiceLink ------------------------------
(***************************************************************************)
(* What a radio channel promises its controller, with none of its          *)
(* machinery: a link that is down, being dialled or up; a carrier that is  *)
(* on the air only while the link is up; and a tape that runs exactly      *)
(* while the carrier is on the air.  RadioChannel implements this with     *)
(* three separately stored facts: the state machine, the transmit flag of  *)
(* the RTP session and the recorder's table of open recordings.            *)
(***************************************************************************)

VARIABLES link,     \* "down", "dialing" or "up"
          onAir,    \* the transmitter is keyed
          taped     \* a transmit recording is running

vars == <<link, onAir, taped>>

TypeOK == /\ link \in {"down", "dialing", "up"}
          /\ onAir \in BOOLEAN
          /\ taped \in BOOLEAN

Init == link = "down" /\ onAir = FALSE /\ taped = FALSE

Dial == link = "down" /\ link' = "dialing" /\ UNCHANGED <<onAir, taped>>

Answered == link = "dialing" /\ link' = "up" /\ UNCHANGED <<onAir, taped>>

Refused == link = "dialing" /\ link' = "down" /\ UNCHANGED <<onAir, taped>>

Key == /\ link = "up" /\ ~onAir
       /\ onAir' = TRUE /\ taped' = TRUE
       /\ UNCHANGED link

Unkey == /\ onAir
         /\ onAir' = FALSE /\ taped' = FALSE
         /\ UNCHANGED link

\* Releasing the link takes the carrier down and ends the tape with it.
Release == /\ link = "up" /\ link' = "down"
           /\ onAir' = FALSE /\ taped' = FALSE

Next == Dial \/ Answered \/ Refused \/ Key \/ Unkey \/ Release

Spec == Init /\ [][Next]_vars
=============================================================================
