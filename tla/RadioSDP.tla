------------------------------ MODULE RadioSDP ------------------------------
(***************************************************************************)
(* What two ends tell each other about their voice (internal/sip/sdp.go),  *)
(* and what the RTP session (internal/media/rtp_session.go) and the        *)
(* station's configuration (internal/config/config.go) make of a packet    *)
(* time.  There are two packet times, 10 and 20 milliseconds; a number in  *)
(* a configuration may be any, and is corrected in each of these places.   *)
(***************************************************************************)
EXTENDS Naturals

PacketTimes == {10, 20}

\* (Definitions named Mut_ are broken variants; the mutation checks put each in
\* the place of the definition below it.)
\* Broken variant: the packet time is offered as it was configured.
Mut_BuildRadioSDP(address, ptime) == [address |-> address, ptime |-> ptime]

\* An offer or an answer: where voice is to be sent and how much of it in a packet.
\* The payload type is A-law at both ends, and nobody looks at the other's.
BuildRadioSDP(address, ptime) ==
    [address |-> address, ptime |-> IF ptime \in PacketTimes THEN ptime ELSE 10]

\* A packet time that is missing or zero is taken for 10.
ParseRadioSDP(sdp) == [sdp EXCEPT !.ptime = IF @ > 0 THEN @ ELSE 10]

\* NewRTPSession and SetPtime.
SessionPtime(ptime)  == IF ptime \in PacketTimes THEN ptime ELSE 10
SetPtime(old, ptime) == IF ptime \in PacketTimes THEN ptime ELSE old

\* LoadGRSConfig; the VCS does not correct the packet time of a channel.
StationPtime(configured) == IF configured = 0 THEN 10 ELSE configured
=============================================================================
