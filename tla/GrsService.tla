----------------------------- MODULE GrsService -----------------------------
(***************************************************************************)
(* The ground radio station (internal/grs/service.go): one RTP session for *)
(* the radio and the telephone, the lamps of its console, the calls it     *)
(* makes itself, and the requests of its SIP node (internal/sip/dialog.go).*)
(*                                                                         *)
(* Every handler and operation holds s.mu for its whole body and is one    *)
(* step.  CallVCS takes s.mu once the call is answered, and its goroutine  *)
(* after it has hung up; nobody sees what lies between, so each of the two *)
(* is one step as well.  The station looks neither at who sends a BYE nor  *)
(* at which call it ends.  What is sent and heard, the audio source, the   *)
(* loopback queue, the injected impairment and the event ring are left out.*)
(*                                                                         *)
(* A peer is a kind of caller: the VCS's radio channel or its telephone,   *)
(* each with an RTP address of its own.                                    *)
(***************************************************************************)
EXTENDS RadioSDP

CONSTANTS Calls,      \* calls the station ever makes
          NoCall,     \* nil
          AutoAnswer, \* the configuration's telephone.auto_answer
          DefaultPtime, \* its default_ptime
          MaxAnswers  \* bound: auto-answers asleep at a time

ASSUME GrsAssumption ==
    /\ NoCall \notin Calls /\ AutoAnswer \in BOOLEAN
    /\ DefaultPtime \in Nat /\ MaxAnswers \in Nat

VARIABLES
    isSessionConnected, \* the console shows "VCS CONNECTED"
    rxPTTActive,        \* the console's PTT indicator
    txSQUActive,        \* the console's squelch button
    isTransmitting,     \* the flag of the RTP session
    currentSQU,         \* the squelch bit of what it sends
    loops,              \* its send loops, by the packet time each was started with
    remote,             \* its remote address: "none", "radio", "phone"
    ptime,              \* s.ptime, the packet time the console shows and it offers
    sendPtime,          \* that of the RTP session, for the loops it starts
    answers,            \* auto-answer goroutines asleep
    activePhoneCall,    \* the call EndPhoneCall would end
    out,                \* calls it knows of that got no BYE
    asleep              \* calls whose goroutine will end them

lamps   == <<isSessionConnected, rxPTTActive, txSQUActive>>
rate    == <<ptime, sendPtime>>
session == <<isTransmitting, currentSQU, loops, remote, rate>>
calls   == <<activePhoneCall, out, asleep>>
station == <<lamps, session, answers, calls>>

Peers == {"radio", "phone"}

GrsTypeOK ==
    /\ isSessionConnected \in BOOLEAN /\ rxPTTActive \in BOOLEAN
    /\ txSQUActive \in BOOLEAN /\ isTransmitting \in BOOLEAN
    /\ currentSQU \in BOOLEAN /\ loops \in SUBSET PacketTimes
    /\ remote \in Peers \cup {"none"}
    /\ ptime \in Nat /\ sendPtime \in PacketTimes
    /\ answers \in 0..MaxAnswers
    /\ activePhoneCall \in Calls \cup {NoCall}
    /\ out \in SUBSET Calls
    /\ asleep \in SUBSET Calls

GrsInit ==
    /\ isSessionConnected = FALSE /\ rxPTTActive = FALSE /\ txSQUActive = FALSE
    /\ isTransmitting = FALSE /\ currentSQU = FALSE /\ loops = {}
    /\ remote = "none"
    /\ ptime = StationPtime(DefaultPtime)
    /\ sendPtime = SessionPtime(StationPtime(DefaultPtime))
    /\ answers = 0
    /\ activePhoneCall = NoCall /\ out = {} /\ asleep = {}

-----------------------------------------------------------------------------
(* The RTP session; RtpSession has its details.                            *)

\* One more loop.  Its goroutine reads the packet time when it first runs: here at
\* once.
StartsLoop == loops' = loops \cup {sendPtime}

StartTx(squ) == /\ isTransmitting' = TRUE /\ currentSQU' = squ /\ StartsLoop
                /\ UNCHANGED <<remote, rate>>

StopTx == isTransmitting' = FALSE /\ UNCHANGED <<currentSQU, loops, remote, rate>>

\* A send loop ends at a tick that finds the flag down or nobody to send to;
\* nothing starts it again when an address arrives.
LoopEnds(p) ==
    /\ p \in loops /\ (~isTransmitting \/ remote = "none")
    /\ loops' = loops \ {p}
    /\ UNCHANGED <<lamps, isTransmitting, currentSQU, remote, rate, answers, calls>>

-----------------------------------------------------------------------------
(* The operator.                                                           *)

SetSquelch(on) ==
    /\ txSQUActive' = on
    /\ IF on THEN StartTx(TRUE) ELSE StopTx
    /\ UNCHANGED <<isSessionConnected, rxPTTActive, answers, calls>>

\* The call is answered: the VCS's SIP node answers every INVITE.  A call that
\* fails, also one whose ACK cannot be sent, leaves no trace in the station.
CallVCS(c) ==
    /\ c \notin out \cup asleep
    /\ out' = out \cup {c}
    /\ activePhoneCall' = c
    /\ asleep' = asleep \cup {c}
    /\ isSessionConnected' = TRUE
    /\ UNCHANGED <<rxPTTActive, txSQUActive, session, answers>>

EndPhoneCall ==
    /\ activePhoneCall # NoCall
    /\ out' = out \ {activePhoneCall}
    /\ activePhoneCall' = NoCall
    /\ UNCHANGED <<lamps, session, answers, asleep>>

\* Five seconds later: BYE, and what the console shows is cleared, whatever call
\* that is by now.
TimerEnds(c) ==
    /\ c \in asleep /\ asleep' = asleep \ {c}
    /\ out' = out \ {c}
    /\ activePhoneCall' = NoCall
    /\ isSessionConnected' = FALSE
    /\ UNCHANGED <<rxPTTActive, txSQUActive, session, answers>>

-----------------------------------------------------------------------------
(* Requests and packets of the VCS.                                        *)

\* Only a recipient whose URI says "radio" is not answered with voice.
Answered(peer) == IF peer = "phone" /\ AutoAnswer THEN 1 ELSE 0

\* The offer of a peer redirects the one session and sets the packet time of the
\* loops it will start; those that run keep their ticker.
handleSIPInvite(peer, offer) ==
    /\ answers + Answered(peer) <= MaxAnswers
    /\ isSessionConnected' = TRUE
    /\ remote' = ParseRadioSDP(offer).address
    /\ ptime' = ParseRadioSDP(offer).ptime
    /\ sendPtime' = SetPtime(sendPtime, ParseRadioSDP(offer).ptime)
    /\ answers' = answers + Answered(peer)
    /\ UNCHANGED <<rxPTTActive, txSQUActive, isTransmitting, currentSQU, loops, calls>>

\* (Definitions named Mut_ are broken variants; the mutation checks put each in
\* the place of the definition below it.)
\* Broken variant: the squelch bit is left as it was.
Mut_AutoAnswers ==
    /\ answers > 0 /\ answers' = answers - 1
    /\ isTransmitting' = TRUE /\ StartsLoop /\ UNCHANGED <<currentSQU, remote, rate>>
    /\ UNCHANGED <<lamps, calls>>

\* 100 ms after a telephone INVITE.
AutoAnswers ==
    /\ answers > 0 /\ answers' = answers - 1
    /\ StartTx(FALSE)
    /\ UNCHANGED <<lamps, calls>>

handleSIPBye ==
    /\ isSessionConnected' = FALSE /\ rxPTTActive' = FALSE
    /\ StopTx
    /\ UNCHANGED <<txSQUActive, answers, calls>>

\* The VCS sends ED-137 packets only while a key or a telephone call is on, all
\* with PTT on.
handleRTPPacket ==
    /\ rxPTTActive' = TRUE
    /\ UNCHANGED <<isSessionConnected, txSQUActive, session, answers, calls>>

-----------------------------------------------------------------------------
(* The console's requests.                                                 *)

handleSquelch == \E on \in BOOLEAN : SetSquelch(on)
handleCall    == \E c \in Calls : CallVCS(c)

\* EndPhoneCall is there for programs that use the service; the console has no button.
Operator == handleSquelch \/ handleCall \/ EndPhoneCall
=============================================================================
