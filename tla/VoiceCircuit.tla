---------------------------- MODULE VoiceCircuit ----------------------------
(***************************************************************************)
(* The circuit of a radio channel: the VCS end (internal/vcs/service.go),  *)
(* the ground station (GrsService) and the network between them.           *)
(*                                                                         *)
(* The VCS end keeps of RadioChannel what the station can notice: the      *)
(* link, the key, the squelch lamp and the disconnect that still has to    *)
(* close the old session and send its BYE.  The state machine and the      *)
(* recordings are RadioChannel's matter.  The telephone of the VCS is a    *)
(* second peer of the station whose details are in PhoneCall.              *)
(*                                                                         *)
(* SIP requests are answered or lost.  Packets of the station are lost and *)
(* overtake each other; those on their way are kept as a set of kinds, so  *)
(* equal ones are not told apart.  Packets of the VCS are lost or arrive   *)
(* at once.  Every session of the channel has an RTP port of its own: when *)
(* the station hears of a new one, what is on its way to the old one is    *)
(* dropped here (RadioChannel lets it arrive).                             *)
(***************************************************************************)
EXTENDS GrsService

CONSTANT ChannelPtime   \* the channel's ptime in the configuration, any number

ASSUME VoiceCircuitAssumption == ChannelPtime \in Nat

VARIABLES
    link,  \* "down", "dialing", "up"
    asked, \* the station has handled the INVITE the channel is waiting for
    key,   \* the current RTP session transmits
    lastSQU, \* ch.lastSQU, the squelch lamp
    tail,  \* the disconnect past its unlock: [pc, key], key of the old session;
           \* "deaf" is "media" once the station sends to another port
    phone, \* the telephone: "idle", "up"
    down   \* packets on their way to the channel, by their squelch bit

radioEnd == <<link, asked, key, lastSQU, tail>>
vars == <<station, radioEnd, phone, down>>

NoTail == [pc |-> "none", key |-> FALSE]

\* The VCS end and the network.
EndTypeOK ==
    /\ link \in {"down", "dialing", "up"} /\ asked \in BOOLEAN
    /\ asked => link = "dialing"
    /\ key \in BOOLEAN /\ lastSQU \in BOOLEAN
    /\ tail \in [pc : {"none", "media", "deaf", "bye"}, key : BOOLEAN]
    /\ phone \in {"idle", "up"}
    /\ down \in SUBSET BOOLEAN

TypeOK == GrsTypeOK /\ EndTypeOK

Init ==
    /\ GrsInit
    /\ link = "down" /\ asked = FALSE /\ key = FALSE
    /\ lastSQU = FALSE /\ tail = NoTail /\ phone = "idle"
    /\ down = {}

\* A BYE reaches the station, or the network loses it and all its repetitions.
Bye == handleSIPBye \/ UNCHANGED station

-----------------------------------------------------------------------------
(* Connecting: the INVITE reaches the station, the answer the channel.     *)

ConnectChannel ==
    /\ link = "down" /\ link' = "dialing"
    /\ UNCHANGED <<station, asked, key, lastSQU, tail, phone, down>>

StationAnswers ==
    /\ link = "dialing" /\ ~asked /\ asked' = TRUE
    /\ handleSIPInvite("radio", BuildRadioSDP("radio", ChannelPtime))
    /\ tail' = [tail EXCEPT !.pc = IF @ = "media" THEN "deaf" ELSE @]
    /\ down' = {}
    /\ UNCHANGED <<link, key, lastSQU, phone>>

ConnectEstablished ==
    /\ asked /\ asked' = FALSE
    /\ link' = "up"
    /\ UNCHANGED <<station, key, lastSQU, tail, phone, down>>

\* (Definitions named Mut_ are broken variants; the mutation checks put each in
\* the place of the definition below it.)
\* Broken variant: an answer that comes too late is taken for the next INVITE's.
Mut_InviteFailed ==
    /\ link = "dialing" /\ link' = "down"
    /\ UNCHANGED <<station, asked, key, lastSQU, tail, phone, down>>

\* No answer within five seconds, also when only the answer was lost, or when the
\* ACK cannot be sent: the station may have taken the call.
InviteFailed ==
    /\ link = "dialing" /\ link' = "down" /\ asked' = FALSE
    /\ UNCHANGED <<station, key, lastSQU, tail, phone, down>>

\* Answered, but unusable here: BYE.
ConnectAborted ==
    /\ asked /\ asked' = FALSE /\ link' = "down"
    /\ Bye
    /\ UNCHANGED <<key, lastSQU, tail, phone, down>>

-----------------------------------------------------------------------------
(* Disconnecting.  A second disconnect waits for the first here.           *)

DisconnectChannel ==
    /\ link = "up" /\ tail = NoTail
    /\ link' = "down" /\ key' = FALSE
    /\ tail' = [pc |-> "media", key |-> key]
    /\ UNCHANGED <<station, asked, lastSQU, phone, down>>

CloseMedia ==
    /\ tail.pc \in {"media", "deaf"} /\ tail' = [pc |-> "bye", key |-> FALSE]
    /\ UNCHANGED <<station, link, asked, key, lastSQU, phone, down>>

Hangup ==
    /\ tail.pc = "bye" /\ tail' = NoTail
    /\ Bye
    /\ UNCHANGED <<link, asked, key, lastSQU, phone, down>>

-----------------------------------------------------------------------------
(* The key and the squelch lamp.                                           *)

StartPTT ==
    /\ link = "up" /\ ~key /\ key' = TRUE
    /\ UNCHANGED <<station, link, asked, lastSQU, tail, phone, down>>

\* The session stops sending; no packet says that the key was released.
StopPTT ==
    /\ key /\ key' = FALSE
    /\ UNCHANGED <<station, link, asked, lastSQU, tail, phone, down>>

\* ConnectChannel keeps ch.mu while it waits for the answer.
Unlocked == link # "dialing"

\* A session is open: the current one, or one a disconnect is about to close.
Listening == link = "up" \/ tail.pc = "media"

handleRadioRx(squ) ==
    /\ Unlocked
    /\ squ \in down /\ down' = down \ {squ}
    /\ lastSQU' = IF Listening THEN squ ELSE lastSQU
    /\ UNCHANGED <<station, link, asked, key, tail, phone>>

\* Broken variant: the watchdog looks at connected channels only.
Mut_checkSquelchTimeouts ==
    /\ link = "up" /\ lastSQU /\ lastSQU' = FALSE
    /\ UNCHANGED <<station, link, asked, key, tail, phone, down>>

\* The lamp is on and the last packet is more than 80 ms old.  A stream may pause that
\* long at any time; Fairness says when it must.
checkSquelchTimeouts ==
    /\ Unlocked /\ lastSQU /\ lastSQU' = FALSE
    /\ UNCHANGED <<station, link, asked, key, tail, phone, down>>

-----------------------------------------------------------------------------
(* The telephone of the VCS.                                               *)

DialURI ==
    /\ phone = "idle" /\ phone' \in {"up", "idle"}
    /\ handleSIPInvite("phone", BuildRadioSDP("phone", 20))
    /\ UNCHANGED <<radioEnd, down>>

HangupPhone ==
    /\ phone = "up" /\ phone' = "idle"
    /\ Bye
    /\ UNCHANGED <<radioEnd, down>>

-----------------------------------------------------------------------------
(* The network.                                                            *)

Keyed == key \/ tail.key

\* A packet with PTT on reaches the station.
UplinkArrives ==
    /\ Keyed \/ phone = "up"
    /\ handleRTPPacket
    /\ UNCHANGED <<radioEnd, phone, down>>

\* Broken variant: the station sends only to a channel that is keyed.
Mut_Sends == loops # {} /\ isTransmitting /\ rxPTTActive

\* A send loop has something to send.
Sends == loops # {} /\ isTransmitting

DownlinkSends ==
    /\ Sends /\ remote = "radio"
    /\ down' = down \cup {currentSQU}
    /\ UNCHANGED <<station, radioEnd, phone>>

Lose(squ) ==
    /\ squ \in down /\ down' = down \ {squ}
    /\ UNCHANGED <<station, radioEnd, phone>>

-----------------------------------------------------------------------------
Station == /\ \/ AutoAnswers \/ Operator
              \/ \E p \in PacketTimes : LoopEnds(p)
              \/ \E c \in Calls : TimerEnds(c)
           /\ UNCHANGED <<radioEnd, phone, down>>

\* The console's requests for the channel.
Controller == ConnectChannel \/ DisconnectChannel \/ StartPTT \/ StopPTT

RadioEnd == \/ Controller
            \/ StationAnswers \/ ConnectEstablished \/ InviteFailed \/ ConnectAborted
            \/ CloseMedia \/ Hangup
            \/ \E squ \in BOOLEAN : handleRadioRx(squ)
            \/ checkSquelchTimeouts

Phone == DialURI \/ HangupPhone

Network == \/ UplinkArrives \/ DownlinkSends
           \/ \E squ \in BOOLEAN : Lose(squ)

Next == Station \/ RadioEnd \/ Phone \/ Network

Spec == Init /\ [][Next]_vars

\* The station sends with the squelch open, to the channel.
Carrier == loops # {} /\ isTransmitting /\ currentSQU /\ remote = "radio"

(***************************************************************************)
(* Fairness.  A send loop of a session that transmits sends; an INVITE     *)
(* ends with an answer or its context; the watchdog looks, after waiting   *)
(* for ch.mu, which is handed over to a waiter that starves.  Of a stream  *)
(* that goes on, a packet with the squelch open arrives in the end.  When  *)
(* no such packet is sent any more and none is on its way, 80 ms pass      *)
(* without one.  Nothing is assumed of users, of the station's timers, or  *)
(* of a gap in a stream that goes on.                                      *)
(***************************************************************************)
Fairness ==
    /\ WF_vars(ConnectEstablished \/ InviteFailed \/ ConnectAborted)
    /\ WF_vars(DownlinkSends)
    /\ SF_vars(handleRadioRx(TRUE))
    /\ <>[](~Carrier /\ TRUE \notin down) => SF_vars(checkSquelchTimeouts)

FairSpec == Spec /\ Fairness
-----------------------------------------------------------------------------
(* Properties.                                                             *)

\* The station never radiates a squelch its operator has closed, whatever calls
\* come in, are answered by themselves and end meanwhile.
SquelchIsOperators == isTransmitting /\ currentSQU => txSQUActive

\* The packet time of the VCS's session with each peer.
PeerPtime(peer) == IF peer = "radio" THEN SessionPtime(ChannelPtime) ELSE 20

\* Whatever the configurations say and whatever calls came before, a send loop that
\* the station starts has the packet time of the session it sends to, although nobody
\* checks the other's answer: what one end corrects the other end corrects to the
\* same.  (A loop that runs when the session is redirected keeps its own:
\* SendsAsAgreed.)
PtimeAgreed ==
    [][ \A p \in loops' \ loops : remote # "none" => p = PeerPtime(remote) ]_vars

\* A carrier on a connected channel is heard there, without the key being
\* pressed first, as long as it lasts and the channel stays connected.
CarrierHeard ==
    (Carrier /\ link = "up") ~> (lastSQU \/ ~(Carrier /\ link = "up"))

\* When the carrier goes the lamp of the channel goes too, also when the channel
\* was disconnected or dialled again in between, although no packet says so.
SilenceHeard == (lastSQU /\ ~Carrier) ~> (~lastSQU \/ Carrier)

-----------------------------------------------------------------------------
(* What the console shows and the code does not do.                        *)

\* The indicator "shows the PTT state that arrives from the VCS" (docs/manual.ja.md):
\* on a connected channel and without a telephone call, it is on only while the key
\* is down.
LampIsCurrent == rxPTTActive /\ link = "up" /\ phone = "idle" => Keyed

\* "SQUELCH: ON (Transmitting)".
SquelchOnSends == txSQUActive => Sends /\ currentSQU

\* "STANDBY (No SIP Call)".
StandbyHasNoCall == ~isSessionConnected => link # "up" /\ phone # "up" /\ out = {}

\* "SetPtime updates packetization time (10ms or 20ms)" (rtp_session.go): the station
\* sends at the packet time of the session it sends to.
SendsAsAgreed ==
    Sends /\ remote # "none" => \A p \in loops : p = PeerPtime(remote)
=============================================================================
