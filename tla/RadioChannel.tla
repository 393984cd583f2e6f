---------------------------- MODULE RadioChannel ----------------------------
(***************************************************************************)
(* One radio channel of the VCS (internal/vcs/service.go): its state       *)
(* machine, its SIP call and RTP session, the recordings it opens in the   *)
(* recorder, and everybody who touches it: API requests, the receive loop  *)
(* of every RTP session still open, the squelch watchdog, the release      *)
(* timers of voice transmissions, and the service's Close.                 *)
(*                                                                         *)
(* A body that runs under the channel's mutex ch.mu is one step.  Two      *)
(* bodies are not: ConnectChannel keeps ch.mu for the whole INVITE, so     *)
(* conn says how far it is and every other holder of ch.mu waits for       *)
(* conn = "idle"; DisconnectChannel empties the channel under ch.mu and    *)
(* then closes what it took out after unlocking, so each call in that tail *)
(* is a record of cleanups, and packets of the old session, a new          *)
(* connection and other disconnects run in between.                        *)
(*                                                                         *)
(* The call and the RTP session of one connection are set and cleared      *)
(* together, so one number names both.  Recordings are numbered in the     *)
(* order they are opened: the code's ids carry a millisecond clock and a   *)
(* channel does not open two within one.                                   *)
(***************************************************************************)
EXTENDS Naturals, ChannelFSM

CONSTANTS MaxSessions,  \* bound: SIP dialogs ever established
          MaxRecs       \* bound: recordings ever opened

ASSUME BoundsAssumption == MaxSessions \in Nat /\ MaxRecs \in Nat

VARIABLES
    phase,       \* the service: "running", "stopping" (workers gone), "down"
    fsm,         \* ch.fsm
    conn,        \* ConnectChannel holding ch.mu: "idle", "inviting", "answered"
    rtpSession,  \* ch.rtpSession and ch.activeCall, NoId when nil
    rxRecID,     \* ch.rxRecID, NoId when ""
    txRecID,     \* ch.txRecID, NoId when ""
    lastSQU,     \* ch.lastSQU, the squelch lamp of the console
    fresh,       \* the last packet is at most 80 ms old
    nsess,       \* SIP dialogs established so far
    dialogs,     \* dialogs Hangup was not called for: no BYE was tried
    unacked,     \* history: those whose ACK failed, so that Call gave no handle out
    live,        \* RTP sessions whose socket and receive loop are open
    tx,          \* RTP sessions with isTransmitting set
    nrec,        \* recordings opened so far
    openTx,      \* transmit recordings in the recorder's activeRecord
    openRx,      \* receive recordings in the recorder's activeRecord
    cleanups,    \* DisconnectChannel calls past their unlock
    timers       \* sleeping release goroutines, by the recording they started

channel  == <<fsm, rtpSession, rxRecID, txRecID>>
carrier  == <<lastSQU, fresh>>
media    == <<nsess, dialogs, unacked, live, tx>>
recorder == <<nrec, openTx, openRx>>
vars == <<phase, conn, channel, carrier, media, recorder, cleanups, timers>>

NoId == 0
Sessions == 1..MaxSessions
Recs     == 1..MaxRecs

Cleanup == [sess : Sessions \cup {NoId}, tx : Recs \cup {NoId},
            rx : Recs \cup {NoId}, pc : {"media", "bye", "tapes"}]

TypeOK ==
    /\ phase \in {"running", "stopping", "down"}
    /\ fsm \in ChannelFSM
    /\ conn \in {"idle", "inviting", "answered"}
    /\ rtpSession \in Sessions \cup {NoId}
    /\ rxRecID \in Recs \cup {NoId}
    /\ txRecID \in Recs \cup {NoId}
    /\ lastSQU \in BOOLEAN /\ fresh \in BOOLEAN
    /\ nsess \in 0..MaxSessions
    /\ conn = "answered" => nsess \in Sessions
    /\ dialogs \in SUBSET Sessions
    /\ unacked \in SUBSET Sessions
    /\ live \in SUBSET Sessions
    /\ tx \in SUBSET Sessions
    /\ nrec \in 0..MaxRecs
    /\ openTx \in SUBSET Recs
    /\ openRx \in SUBSET Recs
    /\ cleanups \in SUBSET Cleanup
    /\ timers \in SUBSET Recs

Init ==
    /\ phase = "running" /\ conn = "idle" /\ fsm = NewChannelFSM
    /\ rtpSession = NoId /\ rxRecID = NoId /\ txRecID = NoId
    /\ lastSQU = FALSE /\ fresh = FALSE
    /\ nsess = 0 /\ dialogs = {} /\ unacked = {} /\ live = {} /\ tx = {}
    /\ nrec = 0 /\ openTx = {} /\ openRx = {}
    /\ cleanups = {} /\ timers = {}

\* ch.mu can be taken: no ConnectChannel is waiting for its INVITE.
Unlocked == conn = "idle"

\* The web server is closed before the service (cmd/vcs/main.go), so a request
\* may still be running while Close starts, but none comes after Close reached
\* this channel.
Served == phase # "down"

-----------------------------------------------------------------------------
(* ConnectChannel.  From any other state it returns without an effect.     *)

ConnectChannel ==
    /\ Served /\ Unlocked
    /\ CanConnect(fsm)
    /\ fsm' = TransitionToConnecting(fsm)
    /\ conn' = "inviting"
    /\ UNCHANGED <<phase, rtpSession, rxRecID, txRecID, carrier, media,
                   recorder, cleanups, timers>>

\* No SDP offer, no 200 OK within the request's five seconds, or a refusal.
InviteFailed ==
    /\ conn = "inviting"
    /\ conn' = "idle"
    /\ fsm' = TransitionToFault(fsm)
    /\ UNCHANGED <<phase, rtpSession, rxRecID, txRecID, carrier, media,
                   recorder, cleanups, timers>>

\* A 200 OK: from here on the station has a dialog.
Answered ==
    /\ conn = "inviting"
    /\ nsess < MaxSessions
    /\ nsess' = nsess + 1
    /\ dialogs' = dialogs \cup {nsess + 1}

InviteAnswered ==
    /\ Answered
    /\ conn' = "answered"
    /\ UNCHANGED <<phase, channel, carrier, unacked, live, tx, recorder, cleanups,
                   timers>>

\* The ACK cannot be sent: Call drops the dialog it has, without a BYE, and the
\* channel takes its error for an INVITE that failed.
AckFailed ==
    /\ Answered
    /\ conn' = "idle"
    /\ unacked' = unacked \cup {nsess + 1}
    /\ fsm' = TransitionToFault(fsm)
    /\ UNCHANGED <<phase, rtpSession, rxRecID, txRecID, carrier, live, tx, recorder,
                   cleanups, timers>>

\* A bad SDP answer or a port that cannot be bound: BYE, then fault.
ConnectAborted ==
    /\ conn = "answered"
    /\ conn' = "idle"
    /\ dialogs' = dialogs \ {nsess}
    /\ fsm' = TransitionToFault(fsm)
    /\ UNCHANGED <<phase, rtpSession, rxRecID, txRecID, carrier, nsess, unacked,
                   live, tx, recorder, cleanups, timers>>

ConnectEstablished ==
    /\ conn = "answered"
    /\ conn' = "idle"
    /\ rtpSession' = nsess
    /\ live' = live \cup {nsess}
    /\ fsm' = TransitionToConnected(fsm)
    /\ UNCHANGED <<phase, rxRecID, txRecID, carrier, nsess, dialogs, unacked, tx,
                   recorder, cleanups, timers>>

-----------------------------------------------------------------------------
(* DisconnectChannel: the part under ch.mu, then its tail.                 *)

\* Broken variants (Mut_): the session is forgotten, or its media is not closed.
Mut_HandlesNoSession(pc) ==
    [sess |-> NoId, tx |-> txRecID, rx |-> rxRecID, pc |-> pc]
Mut_HandlesNoMedia(pc) ==
    [sess |-> rtpSession, tx |-> txRecID, rx |-> rxRecID, pc |-> "bye"]

Handles(pc) == [sess |-> rtpSession, tx |-> txRecID, rx |-> rxRecID, pc |-> pc]

TakeHandles ==
    /\ cleanups' = IF rtpSession = NoId /\ txRecID = NoId /\ rxRecID = NoId
                   THEN cleanups ELSE cleanups \cup {Handles("media")}
    /\ rtpSession' = NoId /\ txRecID' = NoId /\ rxRecID' = NoId
    /\ fsm' = TransitionToDisconnected(fsm)
    /\ UNCHANGED <<conn, carrier, media, recorder, timers>>

DisconnectChannel == Served /\ Unlocked /\ TakeHandles /\ UNCHANGED phase

Advance(c, pc) == cleanups' = (cleanups \ {c}) \cup {[c EXCEPT !.pc = pc]}

\* rtpSess.StopTx and rtpSess.Close, which waits for the session's loops.
CloseMedia(c) ==
    /\ c.pc = "media"
    /\ Advance(c, "bye")
    /\ live' = live \ {c.sess}
    /\ tx' = tx \ {c.sess}
    /\ UNCHANGED <<phase, conn, channel, carrier, nsess, dialogs, unacked, recorder,
                   timers>>

Hangup(c) ==
    /\ c.pc = "bye"
    /\ Advance(c, "tapes")
    /\ dialogs' = dialogs \ {c.sess}
    /\ UNCHANGED <<phase, conn, channel, carrier, nsess, unacked, live, tx, recorder,
                   timers>>

StopTapes(c) ==
    /\ c.pc = "tapes"
    /\ cleanups' = cleanups \ {c}
    /\ openTx' = openTx \ {c.tx}
    /\ openRx' = openRx \ {c.rx}
    /\ UNCHANGED <<phase, conn, channel, carrier, media, nrec, timers>>

-----------------------------------------------------------------------------
(* The PTT key.                                                            *)

KeyDown ==
    /\ Served /\ Unlocked
    /\ rtpSession # NoId
    /\ CanKey(fsm)
    /\ nrec < MaxRecs
    /\ fsm' = PTTDown(fsm)
    /\ nrec' = nrec + 1
    /\ txRecID' = nrec + 1
    /\ openTx' = openTx \cup {nrec + 1}
    /\ tx' = tx \cup {rtpSession}
    /\ UNCHANGED <<phase, conn, rtpSession, rxRecID, carrier, nsess, dialogs,
                   unacked, live, openRx, cleanups>>

StartPTT == KeyDown /\ UNCHANGED timers

\* SendVoiceTransmission keys the channel and leaves a goroutine asleep that
\* will call StopPTT whatever happened to the channel meanwhile.
SendVoiceTransmission == KeyDown /\ timers' = timers \cup {nrec + 1}

KeyUp ==
    /\ Unlocked
    /\ tx' = tx \ {rtpSession}
    /\ openTx' = openTx \ {txRecID}
    /\ txRecID' = NoId
    /\ fsm' = PTTUp(fsm)
    /\ UNCHANGED <<phase, conn, rtpSession, rxRecID, carrier, nsess, dialogs,
                   unacked, live, nrec, openRx, cleanups>>

StopPTT == Served /\ KeyUp /\ UNCHANGED timers

\* Broken variant: a timer that gives up when it finds a carrier.
Mut_VoiceTimer(t) ==
    /\ t \in timers /\ timers' = timers \ {t}
    /\ IF ~lastSQU THEN KeyUp
       ELSE UNCHANGED <<phase, conn, channel, carrier, media, recorder, cleanups>>

VoiceTimer(t) == t \in timers /\ KeyUp /\ timers' = timers \ {t}

-----------------------------------------------------------------------------
(* The downlink: packets of any open session, and the watchdog.            *)

\* Broken variant: the recording is stopped, its id is kept.
Mut_StopRxRecording == openRx' = openRx \ {rxRecID} /\ UNCHANGED rxRecID

StopRxRecording == openRx' = openRx \ {rxRecID} /\ rxRecID' = NoId

\* Carrier detected in a state that is neither receiving nor transmitting. The
\* state may be one without a connection: the packet of a session being closed.
OpensSquelch(squ) == squ /\ fsm.state \notin {"receiving", "transmitting"}
ClosesSquelch(squ) == ~squ /\ fsm.state = "receiving"

handleRadioRx(n, squ) ==
    /\ n \in live /\ Unlocked
    /\ fresh' = TRUE /\ lastSQU' = squ
    /\ \/ /\ OpensSquelch(squ)
          /\ nrec < MaxRecs
          /\ fsm' = SquelchOn(fsm)
          /\ nrec' = nrec + 1
          /\ rxRecID' = nrec + 1
          /\ openRx' = openRx \cup {nrec + 1}
       \/ /\ ClosesSquelch(squ)
          /\ fsm' = SquelchOff(fsm)
          /\ StopRxRecording
          /\ UNCHANGED nrec
       \/ /\ ~OpensSquelch(squ) /\ ~ClosesSquelch(squ)
          /\ UNCHANGED <<fsm, rxRecID, nrec, openRx>>
    /\ UNCHANGED <<phase, conn, rtpSession, txRecID, media, openTx, cleanups,
                   timers>>

\* Eighty milliseconds without a packet.
PacketsStop ==
    /\ fresh /\ fresh' = FALSE
    /\ UNCHANGED <<phase, conn, channel, lastSQU, media, recorder, cleanups,
                   timers>>

ExpireSquelch ==
    /\ Unlocked
    /\ lastSQU /\ ~fresh
    /\ lastSQU' = FALSE
    /\ fsm' = SquelchOff(fsm)
    /\ StopRxRecording
    /\ UNCHANGED <<phase, conn, rtpSession, txRecID, fresh, media, nrec,
                   openTx, cleanups, timers>>

\* The watchdog's tick, every 40 ms until Close has stopped the workers.
checkSquelchTimeouts == phase = "running" /\ ExpireSquelch

\* The console's poll applies the same rule while it takes its snapshot.
ChannelSnapshots == Served /\ ExpireSquelch

-----------------------------------------------------------------------------
(* Close: stop the workers, then disconnect the channel.                   *)

StopWorkers ==
    /\ phase = "running"
    /\ phase' = "stopping"
    /\ UNCHANGED <<conn, channel, carrier, media, recorder, cleanups, timers>>

\* Broken variant: Close does not wait for a connect that holds ch.mu.
Mut_CloseDisconnects ==
    /\ phase = "stopping" /\ phase' = "down"
    /\ IF Unlocked THEN TakeHandles
       ELSE UNCHANGED <<conn, channel, carrier, media, recorder, cleanups, timers>>

CloseDisconnects ==
    /\ phase = "stopping" /\ Unlocked
    /\ TakeHandles
    /\ phase' = "down"

\* The process has nothing left to do for this channel.
Stopped == phase = "down" /\ cleanups = {} /\ UNCHANGED vars

-----------------------------------------------------------------------------
Connecting == \/ ConnectChannel \/ InviteFailed \/ InviteAnswered \/ AckFailed
              \/ ConnectAborted \/ ConnectEstablished

Closing == \E c \in cleanups : CloseMedia(c) \/ Hangup(c) \/ StopTapes(c)

Keying == \/ StartPTT \/ SendVoiceTransmission \/ StopPTT
          \/ \E t \in Recs : VoiceTimer(t)

Receiving == \/ \E n \in Sessions, squ \in BOOLEAN : handleRadioRx(n, squ)
             \/ PacketsStop \/ checkSquelchTimeouts \/ ChannelSnapshots

Next == \/ Connecting \/ DisconnectChannel \/ Closing \/ Keying \/ Receiving
        \/ StopWorkers \/ CloseDisconnects \/ Stopped

Spec == Init /\ [][Next]_vars

(***************************************************************************)
(* Fairness.  An INVITE ends: the request's context bounds it.  The tail   *)
(* of a disconnect runs on.  The watchdog, the timers and Close wait for   *)
(* ch.mu, which several ConnectChannel calls may take in turn; Go's mutex  *)
(* hands over to a waiter that starves, so they get strong fairness.       *)
(* Nothing is assumed of the users, of the network or of time.             *)
(***************************************************************************)
Fairness ==
    /\ WF_vars(InviteFailed \/ InviteAnswered \/ AckFailed)
    /\ WF_vars(ConnectAborted \/ ConnectEstablished)
    /\ WF_vars(Closing)
    /\ SF_vars(checkSquelchTimeouts)
    /\ \A t \in Recs : SF_vars(VoiceTimer(t))
    /\ SF_vars(CloseDisconnects)

FairSpec == Spec /\ Fairness
-----------------------------------------------------------------------------
(* Safety.                                                                 *)

OnAir == rtpSession # NoId /\ rtpSession \in tx

\* The key is down exactly in the state "transmitting", and exactly then the
\* current RTP session sends and a transmit recording of this channel is open:
\* four facts kept in four places by StartPTT, StopPTT, the timers, the
\* disconnects and the packets that arrive between them.
KeyedCoherent ==
    /\ fsm.pttActive <=> fsm.state = "transmitting"
    /\ fsm.pttActive <=> OnAir
    /\ fsm.pttActive <=> txRecID # NoId
    /\ txRecID # NoId => txRecID \in openTx

\* A carrier is only ever radiated by the session the key is down on, or by one
\* a disconnect is about to stop: no StopPTT, whoever calls it and whenever,
\* leaves a transmitter running that nobody will stop.
NoStrayCarrier ==
    \A n \in tx : \/ n = rtpSession /\ fsm.state = "transmitting"
                  \/ \E c \in cleanups : c.sess = n /\ c.pc = "media"

\* The state says there is a connection exactly when the channel has one.
Linked == fsm.state \in {"connected", "transmitting", "receiving"}

\* Somebody has the handle of dialog n and will hang it up: the channel, the
\* connect that sets it up, or a disconnect.
Held(n) == \/ n = rtpSession
           \/ conn = "answered" /\ n = nsess
           \/ \E c \in cleanups : c.sess = n /\ c.pc # "tapes"

\* Every open socket is the channel's or is waited for by exactly one
\* disconnect, and every dialog that is not hung up yet has somebody who will do
\* it, but for those whose ACK failed, which nobody has: connects and
\* disconnects in any overlap leak neither.
SessionsOwned ==
    /\ Linked <=> rtpSession # NoId
    /\ \A n \in Sessions : n \in live <=>
         n = rtpSession \/ \E c \in cleanups : c.sess = n /\ c.pc = "media"
    /\ \A n \in Sessions : n \in dialogs <=> (Held(n) \/ n \in unacked)

\* The channel never appends to a recording that is not open (AppendSamples
\* would drop the samples silently), no transmit recording is left open without
\* an owner, and "receiving" always has a receive recording running.
TapesRun ==
    /\ rxRecID # NoId => rxRecID \in openRx
    /\ \A r \in Recs : r \in openTx <=>
         r = txRecID \/ \E c \in cleanups : c.tx = r
    /\ fsm.state = "receiving" => rxRecID # NoId

\* No handle is in two hands: what a disconnect took out of the channel is
\* neither the channel's, nor another disconnect's, nor about to be given out
\* again; a dialog whose ACK failed is in no hand at all; and ch.mu is held by a
\* connect exactly while the state says so.
HandlesUnique ==
    /\ conn # "idle" <=> fsm.state = "connecting"
    /\ conn = "answered" => \A c \in cleanups : c.sess # nsess
    /\ \A n \in unacked : n <= nsess /\ ~Held(n)
    /\ \A c \in cleanups : c.sess \notin unacked
    /\ rtpSession <= nsess
    /\ rxRecID <= nrec /\ txRecID <= nrec
    /\ \A r \in openTx \cup openRx : r <= nrec
    /\ \A c \in cleanups :
         /\ c.sess <= nsess /\ c.tx <= nrec /\ c.rx <= nrec
         /\ c.sess # NoId => c.sess # rtpSession
         /\ c.tx # NoId => c.tx # txRecID
         /\ c.rx # NoId => c.rx # rxRecID
    /\ \A c, d \in cleanups :
         \/ c = d
         \/ /\ c.sess # d.sess \/ c.sess = NoId
            /\ c.tx # d.tx \/ c.tx = NoId
            /\ c.rx # d.rx \/ c.rx = NoId

\* On a connection the machine never hears a squelch the channel has no receive
\* recording for, so releasing the key always finds the recording to go on with.
SquelchHasTape == Linked /\ fsm.squActive => rxRecID # NoId

-----------------------------------------------------------------------------
(* Step properties and refinement.                                         *)

\* Packets, the watchdog and the console's poll never touch the key: a carrier
\* heard or lost during a transmission moves neither the state, the transmit
\* flag nor the transmit recording ("keep transmitting (PTT priority)").
PTTPriority ==
    [][ Receiving /\ fsm.state = "transmitting"
        => fsm'.state = "transmitting" /\ UNCHANGED <<tx, txRecID, openTx>> ]_vars

\* The link, the carrier and the transmit tape as VoiceLink sees them.
Link == IF Linked THEN "up"
        ELSE IF fsm.state = "connecting" THEN "dialing" ELSE "down"

Promise == INSTANCE VoiceLink
             WITH link <- Link, onAir <- OnAir, taped <- txRecID \in openTx

\* The channel implements VoiceLink: whatever the overlap of calls, packets and
\* timers, carrier and tape start together on an established link, stop
\* together, and never outlive it.
ImplementsVoiceLink == Promise!Spec

-----------------------------------------------------------------------------
(* Liveness.                                                               *)

\* A voice transmission is always taken off the air again, without any user.
VoiceReleased ==
    \A t \in Recs : (t \in timers /\ txRecID = t) ~> (txRecID # t)

\* When packets stop while the squelch is open, the watchdog closes everything
\* the carrier had opened, unless packets resume or the service stops.
CarrierLossHandled ==
    (lastSQU /\ ~fresh) ~>
        \/ fresh \/ phase # "running"
        \/ ~lastSQU /\ rxRecID = NoId /\ fsm.state # "receiving"

\* Close ends every connection of the channel, also the one that was being
\* dialled when it was called; what is left is what it has no handle for, the
\* dialogs whose ACK failed.
CloseEndsSessions ==
    (phase = "stopping") ~>
        (phase = "down" /\ live = {} /\ dialogs = unacked /\ tx = {})

-----------------------------------------------------------------------------
(* What the code, its comments and its documents say and the code does not *)
(* do.                                                                     *)

\* PTTUp enters "receiving" because "Squelch still active" (fsm.go): the carrier
\* is still there.
ReceivingHasCarrier == fsm.state = "receiving" => lastSQU

\* The console records every squelch reception: while a carrier is present on
\* the connected channel, a receive recording is running.
EverySquelchRecorded == lastSQU /\ rtpSession # NoId => rxRecID # NoId

\* "establishes SIP dialog" and "tears down the SIP call" (ConnectChannel,
\* DisconnectChannel): a dialog that is not hung up can still be hung up.
EveryDialogHeld == \A n \in dialogs : Held(n)

\* Every receive recording is completed: one that is open is the channel's or is
\* about to be stopped by a disconnect.
NoOrphanRecording ==
    \A r \in openRx : r = rxRecID \/ \E c \in cleanups : c.rx = r

\* The release goroutine of a voice transmission releases that transmission.
TimerReleasesItsOwn ==
    [][ \A t \in Recs : t \in timers /\ t \notin timers' /\ txRecID' # txRecID
                        => txRecID = t ]_vars
=============================================================================
