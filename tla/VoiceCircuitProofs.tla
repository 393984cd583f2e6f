------------------------- MODULE VoiceCircuitProofs -------------------------
(***************************************************************************)
(* The circuit between a radio channel and its ground station for any      *)
(* configured packet times, any calls of the station and any number of     *)
(* auto-answers: its types, that the squelch the station sends is its      *)
(* operator's, and that both ends agree on the packet time.                *)
(***************************************************************************)
EXTENDS VoiceCircuit, TLAPS

-----------------------------------------------------------------------------
(* Packet times (RadioSDP).                                                *)

\* Whatever is configured, what is offered is one of the two packet times, and the
\* other end takes it over as it is (sdp.go, rtp_session.go).
LEMMA OfferTakenOver ==
    ASSUME NEW address, NEW configured \in Nat, NEW old \in PacketTimes
    PROVE  LET offer == ParseRadioSDP(BuildRadioSDP(address, configured))
           IN  /\ offer.address = address
               /\ offer.ptime \in PacketTimes /\ offer.ptime \in Nat
               /\ SetPtime(old, offer.ptime) = offer.ptime
               /\ offer.ptime = SessionPtime(configured)
<1>1. BuildRadioSDP(address, configured)
        = [address |-> address, ptime |-> SessionPtime(configured)]
  BY DEF BuildRadioSDP, SessionPtime
<1>2. SessionPtime(configured) \in PacketTimes
  BY DEF SessionPtime, PacketTimes
<1>3. PacketTimes \subseteq Nat /\ \A p \in PacketTimes : p > 0
  BY DEF PacketTimes
<1> DEFINE p == SessionPtime(configured)
<1> HIDE DEF p
<1>4. ParseRadioSDP([address |-> address, ptime |-> p]) = [address |-> address, ptime |-> p]
  BY <1>2, <1>3 DEF ParseRadioSDP, p
<1>5. SetPtime(old, p) = p
  BY <1>2 DEF SetPtime, p
<1>6. ParseRadioSDP(BuildRadioSDP(address, configured)) = [address |-> address, ptime |-> p]
  BY <1>1, <1>4 DEF p
<1>7. p \in PacketTimes /\ p \in Nat /\ p = SessionPtime(configured)
  BY <1>2, <1>3 DEF p
<1>8. QED
  BY <1>5, <1>6, <1>7

\* The packet time the station's session starts with is one of the two.
LEMMA SessionPtimeTypes ==
    \A p \in Nat : SessionPtime(p) \in PacketTimes /\ StationPtime(p) \in Nat
  BY DEF SessionPtime, StationPtime, PacketTimes

-----------------------------------------------------------------------------
(* The station (GrsService).                                               *)

\* What the station promises whoever calls it: its types, and its operator's squelch.
GrsInv == GrsTypeOK /\ SquelchIsOperators

\* An INVITE redirects the session and leaves the squelch alone.
LEMMA InviteKeepsGrs ==
    ASSUME GrsInv, NEW peer \in Peers, NEW p \in Nat,
           handleSIPInvite(peer, BuildRadioSDP(peer, p))
    PROVE  GrsInv' /\ remote' = peer /\ sendPtime' = SessionPtime(p)
<1> USE DEF GrsInv, GrsTypeOK, handleSIPInvite, calls
<1>1. /\ ParseRadioSDP(BuildRadioSDP(peer, p)).address = peer
      /\ ParseRadioSDP(BuildRadioSDP(peer, p)).ptime \in PacketTimes
      /\ ParseRadioSDP(BuildRadioSDP(peer, p)).ptime \in Nat
      /\ SetPtime(sendPtime, ParseRadioSDP(BuildRadioSDP(peer, p)).ptime)
           = ParseRadioSDP(BuildRadioSDP(peer, p)).ptime
      /\ ParseRadioSDP(BuildRadioSDP(peer, p)).ptime = SessionPtime(p)
  BY OfferTakenOver
<1>2. remote' = peer /\ sendPtime' = SessionPtime(p) /\ sendPtime' \in PacketTimes
      /\ ptime' \in Nat
  BY <1>1
<1>3. answers' \in 0..MaxAnswers
  BY GrsAssumption DEF Answered, GrsAssumption
<1>4. GrsTypeOK'
  BY <1>2, <1>3
<1>5. QED
  BY <1>2, <1>4 DEF SquelchIsOperators

\* A BYE, whoever sends it, stops the session.
LEMMA ByeKeepsGrs ==
    ASSUME GrsInv, Bye
    PROVE  GrsInv' /\ UNCHANGED <<remote, sendPtime>>
<1>1. CASE handleSIPBye
  BY <1>1 DEF handleSIPBye, StopTx, GrsInv, GrsTypeOK, SquelchIsOperators, calls, rate
<1>2. CASE UNCHANGED station
  BY <1>2 DEF GrsInv, GrsTypeOK, SquelchIsOperators, station, lamps, session, calls, rate
<1>3. QED
  BY <1>1, <1>2 DEF Bye

\* The operator's button starts a transmission with the squelch open, and ends it.
LEMMA SquelchKeepsGrs ==
    ASSUME GrsInv, NEW on \in BOOLEAN, SetSquelch(on)
    PROVE  GrsInv' /\ UNCHANGED <<remote, sendPtime>>
<1>1. UNCHANGED <<isSessionConnected, rxPTTActive, answers, calls, remote, rate>>
      /\ txSQUActive' = on
  BY DEF SetSquelch, StartTx, StopTx
<1>2. CASE on
  <2>1. isTransmitting' = TRUE /\ currentSQU' = TRUE /\ loops' = loops \cup {sendPtime}
    BY <1>2 DEF SetSquelch, StartTx, StartsLoop
  <2>2. QED
    BY <1>1, <1>2, <2>1 DEF GrsInv, GrsTypeOK, SquelchIsOperators, calls, rate
<1>3. CASE ~on
  <2>1. isTransmitting' = FALSE /\ UNCHANGED <<currentSQU, loops>>
    BY <1>3 DEF SetSquelch, StopTx
  <2>2. QED
    BY <1>1, <1>3, <2>1 DEF GrsInv, GrsTypeOK, SquelchIsOperators, calls, rate
<1>4. QED
  BY <1>2, <1>3

\* An automatic answer transmits with the squelch closed.
LEMMA AutoAnswerKeepsGrs ==
    ASSUME GrsInv, AutoAnswers
    PROVE  GrsInv' /\ UNCHANGED <<remote, sendPtime>>
<1>1. answers' \in 0..MaxAnswers
  BY GrsAssumption DEF AutoAnswers, GrsInv, GrsTypeOK, GrsAssumption
<1>2. UNCHANGED <<lamps, calls, remote, rate>>
      /\ isTransmitting' = TRUE /\ currentSQU' = FALSE /\ loops' = loops \cup {sendPtime}
  BY DEF AutoAnswers, StartTx, StartsLoop
<1>3. QED
  BY <1>1, <1>2 DEF GrsInv, GrsTypeOK, SquelchIsOperators, lamps, calls, rate

\* The station's own calls, the end of a loop and the packets it receives change no squelch.
LEMMA OthersKeepGrs ==
    ASSUME GrsInv,
           \/ EndPhoneCall \/ handleRTPPacket \/ \E p \in PacketTimes : LoopEnds(p)
           \/ \E c \in Calls : CallVCS(c) \/ TimerEnds(c)
    PROVE  GrsInv' /\ UNCHANGED <<remote, sendPtime>>
<1>1. UNCHANGED <<isTransmitting, currentSQU, remote, rate, answers, txSQUActive>>
  BY DEF LoopEnds, EndPhoneCall, handleRTPPacket, CallVCS, TimerEnds, lamps, session
<1>2. isSessionConnected' \in BOOLEAN /\ rxPTTActive' \in BOOLEAN /\ loops' \in SUBSET PacketTimes
  BY DEF LoopEnds, EndPhoneCall, handleRTPPacket, CallVCS, TimerEnds, lamps, session,
         GrsInv, GrsTypeOK
<1>3. /\ activePhoneCall' \in Calls \cup {NoCall}
      /\ out' \in SUBSET Calls /\ asleep' \in SUBSET Calls
  BY DEF LoopEnds, EndPhoneCall, handleRTPPacket, CallVCS, TimerEnds, calls,
         GrsInv, GrsTypeOK
<1>4. QED
  BY <1>1, <1>2, <1>3 DEF GrsInv, GrsTypeOK, SquelchIsOperators, rate

\* Every step of the station's own.
LEMMA StationKeepsGrs ==
    ASSUME GrsInv, Station
    PROVE  GrsInv' /\ UNCHANGED <<remote, sendPtime, radioEnd, phone, down>>
  BY SquelchKeepsGrs, AutoAnswerKeepsGrs, OthersKeepGrs
  DEF Station, Operator, handleSquelch, handleCall

-----------------------------------------------------------------------------
(* The circuit.                                                            *)

\* The loops the station starts take the packet time of the session they send to.
SendPtimeAgreed == remote # "none" => sendPtime = PeerPtime(remote)

\* The inductive invariant.
Inv == GrsInv /\ EndTypeOK /\ SendPtimeAgreed

\* The invariant holds at the beginning.
LEMMA InvInit == Init => Inv
<1> SUFFICES ASSUME Init PROVE Inv
  OBVIOUS
<1> USE DEF Init, GrsInit
<1>1. answers \in 0..MaxAnswers
  BY GrsAssumption DEF GrsAssumption
<1>2. ptime \in Nat /\ sendPtime \in PacketTimes
  BY SessionPtimeTypes, GrsAssumption DEF GrsAssumption
<1>3. GrsInv
  BY <1>1, <1>2 DEF GrsInv, GrsTypeOK, SquelchIsOperators
<1>4. EndTypeOK /\ SendPtimeAgreed
  BY DEF EndTypeOK, NoTail, SendPtimeAgreed
<1>5. QED
  BY <1>3, <1>4 DEF Inv

\* What the station does by itself, or a request to it, keeps the packet times agreed.
LEMMA SameRemote ==
    ASSUME SendPtimeAgreed, UNCHANGED <<remote, sendPtime>>
    PROVE  SendPtimeAgreed'
  BY DEF SendPtimeAgreed, PeerPtime

\* The two INVITEs, of the channel and of the telephone.
LEMMA InvitesKeepInv ==
    ASSUME Inv, StationAnswers \/ DialURI
    PROVE  Inv'
<1>1. CASE StationAnswers
  <2>1. GrsInv' /\ remote' = "radio" /\ sendPtime' = SessionPtime(ChannelPtime)
    BY <1>1, InviteKeepsGrs, VoiceCircuitAssumption
    DEF Inv, StationAnswers, Peers, VoiceCircuitAssumption
  <2>2. EndTypeOK'
    BY <1>1 DEF Inv, EndTypeOK, StationAnswers
  <2>3. SendPtimeAgreed'
    BY <2>1 DEF SendPtimeAgreed, PeerPtime
  <2>4. QED
    BY <2>1, <2>2, <2>3 DEF Inv
<1>2. CASE DialURI
  <2>1. GrsInv' /\ remote' = "phone" /\ sendPtime' = SessionPtime(20)
    BY <1>2, InviteKeepsGrs DEF Inv, DialURI, Peers
  <2>2. EndTypeOK'
    BY <1>2 DEF Inv, EndTypeOK, DialURI, radioEnd
  <2>3. SendPtimeAgreed'
    BY <2>1 DEF SendPtimeAgreed, PeerPtime, SessionPtime, PacketTimes
  <2>4. QED
    BY <2>1, <2>2, <2>3 DEF Inv
<1>3. QED
  BY <1>1, <1>2

\* The steps that may send the station a BYE.
LEMMA ByesKeepInv ==
    ASSUME Inv, ConnectAborted \/ Hangup \/ HangupPhone
    PROVE  Inv'
<1>1. Bye
  BY DEF ConnectAborted, Hangup, HangupPhone
<1>2. EndTypeOK'
  <2>1. CASE ConnectAborted
    BY <2>1 DEF Inv, EndTypeOK, ConnectAborted
  <2>2. CASE Hangup
    BY <2>2 DEF Inv, EndTypeOK, Hangup, NoTail
  <2>3. CASE HangupPhone
    BY <2>3 DEF Inv, EndTypeOK, HangupPhone, radioEnd
  <2>4. QED
    BY <2>1, <2>2, <2>3
<1>3. QED
  BY <1>1, <1>2, ByeKeepsGrs, SameRemote DEF Inv

\* What the VCS end and the network do without the station.
LEMMA EndKeepsInv ==
    ASSUME Inv, UNCHANGED station, EndTypeOK'
    PROVE  Inv'
  BY SameRemote
  DEF Inv, GrsInv, GrsTypeOK, SquelchIsOperators, station, lamps, session, calls, rate

\* Connecting, disconnecting and keying on the VCS end.
LEMMA ChannelKeepsInv ==
    ASSUME Inv, Controller \/ ConnectEstablished \/ InviteFailed \/ CloseMedia
    PROVE  Inv'
<1>1. UNCHANGED station
  BY DEF Controller, ConnectChannel, DisconnectChannel, StartPTT, StopPTT,
         ConnectEstablished, InviteFailed, CloseMedia
<1>2. EndTypeOK'
  <2>1. CASE ConnectChannel
    BY <2>1 DEF Inv, EndTypeOK, ConnectChannel
  <2>2. CASE DisconnectChannel
    BY <2>2 DEF Inv, EndTypeOK, DisconnectChannel
  <2>3. CASE StartPTT
    BY <2>3 DEF Inv, EndTypeOK, StartPTT
  <2>4. CASE StopPTT
    BY <2>4 DEF Inv, EndTypeOK, StopPTT
  <2>5. CASE ConnectEstablished
    BY <2>5 DEF Inv, EndTypeOK, ConnectEstablished
  <2>6. CASE InviteFailed
    BY <2>6 DEF Inv, EndTypeOK, InviteFailed
  <2>7. CASE CloseMedia
    BY <2>7 DEF Inv, EndTypeOK, CloseMedia
  <2>8. QED
    BY <2>1, <2>2, <2>3, <2>4, <2>5, <2>6, <2>7 DEF Controller
<1>3. QED
  BY <1>1, <1>2, EndKeepsInv

\* The squelch lamp, its watchdog and the packets on their way to the channel.
LEMMA DownlinkKeepsInv ==
    ASSUME Inv,
           \/ \E squ \in BOOLEAN : handleRadioRx(squ) \/ Lose(squ)
           \/ checkSquelchTimeouts \/ DownlinkSends
    PROVE  Inv'
<1>1. UNCHANGED station
  BY DEF handleRadioRx, Lose, checkSquelchTimeouts, DownlinkSends
<1>2. currentSQU \in BOOLEAN
  BY DEF Inv, GrsInv, GrsTypeOK
<1>3. EndTypeOK'
  <2>1. ASSUME NEW squ \in BOOLEAN, handleRadioRx(squ) PROVE EndTypeOK'
    BY <2>1 DEF Inv, EndTypeOK, handleRadioRx
  <2>2. ASSUME NEW squ \in BOOLEAN, Lose(squ) PROVE EndTypeOK'
    BY <2>2 DEF Inv, EndTypeOK, Lose, radioEnd
  <2>3. CASE checkSquelchTimeouts
    BY <2>3 DEF Inv, EndTypeOK, checkSquelchTimeouts
  <2>4. CASE DownlinkSends
    BY <1>2, <2>4 DEF Inv, EndTypeOK, DownlinkSends, radioEnd
  <2>5. QED
    BY <2>1, <2>2, <2>3, <2>4
<1>4. QED
  BY <1>1, <1>3, EndKeepsInv

\* The station's own steps, and the packets it receives.
LEMMA StationKeepsInv ==
    ASSUME Inv, Station \/ UplinkArrives
    PROVE  Inv'
<1>1. GrsInv' /\ UNCHANGED <<remote, sendPtime, radioEnd, phone, down>>
  BY StationKeepsGrs, OthersKeepGrs DEF Inv, UplinkArrives
<1>2. EndTypeOK'
  BY <1>1 DEF Inv, EndTypeOK, radioEnd
<1>3. QED
  BY <1>1, <1>2, SameRemote DEF Inv

\* The invariant holds in every run.
LEMMA Invariance == Spec => []Inv
<1>1. Inv /\ [Next]_vars => Inv'
  <2> SUFFICES ASSUME Inv, [Next]_vars PROVE Inv'
    OBVIOUS
  <2>1. CASE Station
    BY <2>1, StationKeepsInv
  <2>2. CASE RadioEnd
    BY <2>2, InvitesKeepInv, ByesKeepInv, ChannelKeepsInv, DownlinkKeepsInv DEF RadioEnd
  <2>3. CASE Phone
    BY <2>3, InvitesKeepInv, ByesKeepInv DEF Phone
  <2>4. CASE Network
    BY <2>4, StationKeepsInv, DownlinkKeepsInv DEF Network
  <2>5. CASE UNCHANGED vars
    BY <2>5, EndKeepsInv DEF vars, radioEnd, Inv, EndTypeOK
  <2>6. QED
    BY <2>1, <2>2, <2>3, <2>4, <2>5 DEF Next
<1>2. QED
  BY InvInit, <1>1, PTL DEF Spec

\* Type correctness of both ends of the circuit in every run.
THEOREM TypeCorrect == Spec => []TypeOK
<1>1. Inv => TypeOK
  BY DEF Inv, GrsInv, EndTypeOK, TypeOK
<1>2. QED
  BY Invariance, <1>1, PTL

\* The station never radiates a squelch its operator has closed (SetSquelch, the
\* automatic answer and handleSIPBye of grs/service.go), whatever calls come and go.
THEOREM SquelchOfOperator == Spec => []SquelchIsOperators
<1>1. Inv => SquelchIsOperators
  BY DEF Inv, GrsInv
<1>2. QED
  BY Invariance, <1>1, PTL

-----------------------------------------------------------------------------
(* The packet times of the send loops.                                     *)

\* Only the operator and an automatic answer start a loop, with the packet time the
\* session has then.
LEMMA LoopsStarted ==
    ASSUME [Next]_vars
    PROVE  /\ loops' \subseteq loops \cup {sendPtime}
           /\ ~(loops' \subseteq loops) => UNCHANGED <<remote, sendPtime>>
<1>1. CASE UNCHANGED station
  BY <1>1 DEF station, session
<1>2. ASSUME NEW peer, NEW offer, handleSIPInvite(peer, offer) PROVE loops' = loops
  BY <1>2 DEF handleSIPInvite
<1>3. CASE Bye
  BY <1>1, <1>3 DEF Bye, handleSIPBye, StopTx
<1>4. CASE handleRTPPacket
  BY <1>4 DEF handleRTPPacket, session
<1>5. CASE Station
  <2>1. CASE AutoAnswers
    BY <2>1 DEF AutoAnswers, StartTx, StartsLoop, rate
  <2>2. ASSUME NEW on \in BOOLEAN, SetSquelch(on)
        PROVE  loops' \subseteq loops \cup {sendPtime} /\ UNCHANGED <<remote, sendPtime>>
    BY <2>2 DEF SetSquelch, StartTx, StopTx, StartsLoop, rate
  <2>3. ASSUME EndPhoneCall \/ \E c \in Calls : CallVCS(c) \/ TimerEnds(c)
        PROVE  loops' = loops
    BY <2>3 DEF EndPhoneCall, CallVCS, TimerEnds, session
  <2>4. ASSUME NEW p \in PacketTimes, LoopEnds(p) PROVE loops' \subseteq loops
    BY <2>4 DEF LoopEnds
  <2>5. QED
    BY <1>5, <2>1, <2>2, <2>3, <2>4 DEF Station, Operator, handleSquelch, handleCall
<1>6. CASE RadioEnd
  <2>1. CASE StationAnswers
    BY <1>2, <2>1 DEF StationAnswers
  <2>2. CASE ConnectAborted \/ Hangup
    BY <1>3, <2>2 DEF ConnectAborted, Hangup
  <2>3. CASE ~(StationAnswers \/ ConnectAborted \/ Hangup)
    BY <1>1, <1>6, <2>3
    DEF RadioEnd, Controller, ConnectChannel, DisconnectChannel, StartPTT, StopPTT,
        ConnectEstablished, InviteFailed, CloseMedia, handleRadioRx, checkSquelchTimeouts
  <2>4. QED
    BY <2>1, <2>2, <2>3
<1>7. CASE Phone
  BY <1>2, <1>3, <1>7 DEF Phone, DialURI, HangupPhone
<1>8. CASE Network
  BY <1>1, <1>4, <1>8 DEF Network, UplinkArrives, DownlinkSends, Lose
<1>9. CASE UNCHANGED vars
  BY <1>1, <1>9 DEF vars
<1>10. QED
  BY <1>5, <1>6, <1>7, <1>8, <1>9 DEF Next

\* A send loop that the station starts has the packet time of the session it sends to
\* (sdp.go, rtp_session.go), whatever number the channel's configuration holds.
THEOREM PacketTimesAgree == Spec => PtimeAgreed
<1>1. Inv /\ [Next]_vars
        => [\A p \in loops' \ loops : remote # "none" => p = PeerPtime(remote)]_vars
  <2> SUFFICES ASSUME Inv, [Next]_vars, NEW p \in loops' \ loops, remote # "none"
               PROVE  p = PeerPtime(remote)
    OBVIOUS
  <2>1. p = sendPtime
    BY LoopsStarted
  <2>2. QED
    BY <2>1 DEF Inv, SendPtimeAgreed
<1>2. QED
  BY Invariance, <1>1, PTL DEF Spec, PtimeAgreed
=============================================================================
