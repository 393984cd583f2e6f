----------------------------- MODULE PhoneCall -----------------------------
(***************************************************************************)
(* The telephone of the VCS (DialURI, HangupPhone, FeedMicAudio and the    *)
(* media callbacks of a call, internal/vcs/service.go).  There is one      *)
(* PhoneCallState; everything under its mutex phone.mu is one step, except *)
(* DialURI, which keeps the mutex through the INVITE and the set-up of the *)
(* media.  HangupPhone empties the state under the mutex and closes what   *)
(* it took out afterwards, so the media of an old call runs on, waiting    *)
(* for phone.mu, while the next call is dialled.                           *)
(*                                                                         *)
(* Calls are numbered as they are answered; dialog, RTP session and        *)
(* recording of a call have its number.  Voice is represented by where it  *)
(* comes from: a buffer is the set of calls it holds frames of.            *)
(***************************************************************************)
EXTENDS Naturals, FiniteSets

CONSTANT MaxCalls   \* bound: calls ever answered

ASSUME PhoneCallAssumption == MaxCalls \in Nat

VARIABLES
    dial,      \* DialURI holding phone.mu: "idle", "inviting", "answered", "taping"
    dialMode,  \* the mode DialURI was asked for
    active,    \* phone.active
    mode,      \* phone.mode
    call,      \* the call of phone.activeCall, rtpSession and recID, 0 when none
    ncalls,    \* calls answered so far
    dialogs,   \* dialogs Hangup was not called for: no BYE was tried
    unacked,   \* history: those whose ACK failed, so that Call gave no handle out
    live,      \* RTP sessions not closed: their loops call back
    open,      \* recordings in the recorder's activeRecord
    tails,     \* HangupPhone calls past their unlock: [call, pc]
    echo,      \* calls with a frame in phone.echoBuffer
    mic,       \* calls during which a frame in phone.micBuffer was fed
    sent,      \* history: <<kind, from, to>>, a frame of call from sent to call to
    taped      \* history: <<"rx" or "tx", from, to>>, a frame of from in recording to

state == <<active, mode, call>>
media == <<dialogs, unacked, live, open>>
heard == <<sent, taped>>
vars == <<dial, dialMode, state, ncalls, media, tails, echo, mic, heard>>

Calls == 1..MaxCalls
NoCall == 0
Modes == {"normal", "echo", "speech"}   \* "tone" behaves like "speech"

TypeOK ==
    /\ dial \in {"idle", "inviting", "answered", "taping"}
    /\ dialMode \in Modes /\ mode \in Modes
    /\ active \in BOOLEAN /\ call \in Calls \cup {NoCall}
    /\ ncalls \in 0..MaxCalls
    /\ dialogs \subseteq Calls /\ unacked \subseteq Calls
    /\ live \subseteq Calls /\ open \subseteq Calls
    /\ tails \subseteq [call : Calls, pc : {"media", "bye", "tape"}]
    /\ echo \subseteq Calls /\ mic \subseteq Calls
    /\ sent \subseteq {"echo", "mic"} \X Calls \X Calls
    /\ taped \subseteq {"rx", "tx"} \X Calls \X Calls

Init ==
    /\ dial = "idle" /\ dialMode = "normal"
    /\ active = FALSE /\ mode = "normal" /\ call = NoCall
    /\ ncalls = 0 /\ dialogs = {} /\ unacked = {} /\ live = {} /\ open = {}
    /\ tails = {} /\ echo = {} /\ mic = {} /\ sent = {} /\ taped = {}

Unlocked == dial = "idle"

-----------------------------------------------------------------------------
(* DialURI: an error while a call is active, otherwise the mutex is kept.  *)

DialURI(m) ==
    /\ Unlocked /\ ~active
    /\ dial' = "inviting" /\ dialMode' = m
    /\ UNCHANGED <<state, ncalls, media, tails, echo, mic, heard>>

DialFailed ==
    /\ dial = "inviting" /\ dial' = "idle"
    /\ UNCHANGED <<dialMode, state, ncalls, media, tails, echo, mic, heard>>

\* A 200 OK: from here on the far end has a dialog.
Answered ==
    /\ dial = "inviting" /\ ncalls < MaxCalls
    /\ ncalls' = ncalls + 1
    /\ dialogs' = dialogs \cup {ncalls + 1}

DialAnswered ==
    /\ Answered
    /\ dial' = "answered"
    /\ UNCHANGED <<dialMode, state, unacked, live, open, tails, echo, mic, heard>>

\* The ACK cannot be sent: Call drops the dialog it has, without a BYE, and
\* DialURI returns its error.
DialUnacked ==
    /\ Answered
    /\ dial' = "idle"
    /\ unacked' = unacked \cup {ncalls + 1}
    /\ UNCHANGED <<dialMode, state, live, open, tails, echo, mic, heard>>

AnswerRejected ==
    /\ dial = "answered" /\ dial' = "idle"
    /\ dialogs' = dialogs \ {ncalls}
    /\ UNCHANGED <<dialMode, state, ncalls, unacked, live, open, tails, echo, mic,
                   heard>>

StartTape ==
    /\ dial = "answered" /\ dial' = "taping"
    /\ open' = open \cup {ncalls}
    /\ UNCHANGED <<dialMode, state, ncalls, dialogs, unacked, live, tails, echo, mic,
                   heard>>

\* The port cannot be bound: BYE, and the recording stays where it is.
MediaFailed ==
    /\ dial = "taping" /\ dial' = "idle"
    /\ dialogs' = dialogs \ {ncalls}
    /\ UNCHANGED <<dialMode, state, ncalls, unacked, live, open, tails, echo, mic,
                   heard>>

\* The buffer of echoes is emptied; that of the microphone is not.
CallEstablished ==
    /\ dial = "taping" /\ dial' = "idle"
    /\ active' = TRUE /\ mode' = dialMode /\ call' = ncalls
    /\ live' = live \cup {ncalls}
    /\ echo' = {}
    /\ UNCHANGED <<dialMode, ncalls, dialogs, unacked, open, tails, mic, heard>>

-----------------------------------------------------------------------------
(* HangupPhone                                                             *)

\* (Definitions named Mut_ are broken variants; the mutation checks put each in
\* the place of the definition below it.)
\* Broken variant: phone.active is cleared and the session is not taken out.
Mut_HangupPhone ==
    /\ Unlocked /\ active
    /\ active' = FALSE /\ call' = NoCall
    /\ UNCHANGED <<dial, dialMode, mode, ncalls, media, tails, echo, mic, heard>>

\* Broken variant: no early return when no call is active.
Mut_HangupAnyway ==
    /\ Unlocked
    /\ active' = FALSE /\ call' = NoCall
    /\ tails' = tails \cup {[call |-> call, pc |-> "media"]}
    /\ UNCHANGED <<dial, dialMode, mode, ncalls, media, echo, mic, heard>>

HangupPhone ==
    /\ Unlocked /\ active
    /\ active' = FALSE /\ call' = NoCall
    /\ tails' = tails \cup {[call |-> call, pc |-> "media"]}
    /\ UNCHANGED <<dial, dialMode, mode, ncalls, media, echo, mic, heard>>

Advance(t, pc) == tails' = (tails \ {t}) \cup {[t EXCEPT !.pc = pc]}

\* rtpSess.StopTx and Close, which waits for the loops and so for callbacks
\* that wait for phone.mu: no DialURI may hold it when the last one ends.
CloseMedia(t) ==
    /\ t.pc = "media" /\ Advance(t, "bye")
    /\ live' = live \ {t.call}
    /\ UNCHANGED <<dial, dialMode, state, ncalls, dialogs, unacked, open, echo, mic,
                   heard>>

\* Broken variant: the hang-up ends with a BYE that fails.
Mut_Hangup(t) ==
    /\ t.pc = "bye" /\ tails' \in {tails \ {t}, (tails \ {t}) \cup {[t EXCEPT !.pc = "tape"]}}
    /\ dialogs' = dialogs \ {t.call}
    /\ UNCHANGED <<dial, dialMode, state, ncalls, unacked, live, open, echo, mic,
                   heard>>

Hangup(t) ==
    /\ t.pc = "bye" /\ Advance(t, "tape")
    /\ dialogs' = dialogs \ {t.call}
    /\ UNCHANGED <<dial, dialMode, state, ncalls, unacked, live, open, echo, mic,
                   heard>>

StopTape(t) ==
    /\ t.pc = "tape" /\ tails' = tails \ {t}
    /\ open' = open \ {t.call}
    /\ UNCHANGED <<dial, dialMode, state, ncalls, dialogs, unacked, live, echo, mic,
                   heard>>

Tail == \E t \in tails : CloseMedia(t) \/ Hangup(t) \/ StopTape(t)

-----------------------------------------------------------------------------
(* Callbacks: n is the call whose session calls, the state is the phone's. *)

\* Broken variant: the callback records into the phone's recording of the day.
Mut_Tape(way, from, to) ==
    taped' = IF call \in open THEN taped \cup {<<way, from, call>>} ELSE taped

\* recorder.AppendSamples: only an open recording takes samples.
Tape(way, from, to) ==
    taped' = IF to \in open THEN taped \cup {<<way, from, to>>} ELSE taped

\* A packet of the far end of call n.
PacketReceived(n) ==
    /\ n \in live /\ Unlocked
    /\ echo' = IF mode = "echo" THEN echo \cup {n} ELSE echo
    /\ Tape("rx", n, n)
    /\ UNCHANGED <<dial, dialMode, state, ncalls, media, tails, mic, sent>>

\* The audio source of call n takes a frame of a buffer; the buffer may have
\* more frames of the same call.
Plays(kind, buffer, n) ==
    \E from \in buffer :
      /\ sent' = sent \cup {<<kind, from, n>>}
      /\ Tape("tx", from, n)

EchoPlayed(n) ==
    /\ n \in live /\ Unlocked /\ mode = "echo"
    /\ Plays("echo", echo, n)
    /\ echo' \in {echo} \cup {echo \ {from} : from \in echo}
    /\ UNCHANGED <<dial, dialMode, state, ncalls, media, tails, mic>>

MicPlayed(n) ==
    /\ n \in live /\ Unlocked /\ mode = "normal"
    /\ Plays("mic", mic, n)
    /\ mic' \in {mic} \cup {mic \ {from} : from \in mic}
    /\ UNCHANGED <<dial, dialMode, state, ncalls, media, tails, echo>>

FeedMicAudio ==
    /\ Unlocked /\ active
    /\ mic' = mic \cup {call}
    /\ UNCHANGED <<dial, dialMode, state, ncalls, media, tails, echo, heard>>

-----------------------------------------------------------------------------
Dialling == \/ \E m \in Modes : DialURI(m)
            \/ DialFailed \/ DialAnswered \/ DialUnacked \/ AnswerRejected
            \/ StartTape \/ MediaFailed \/ CallEstablished

Voice == \/ \E n \in Calls : PacketReceived(n) \/ EchoPlayed(n) \/ MicPlayed(n)
         \/ FeedMicAudio

Next == Dialling \/ HangupPhone \/ Tail \/ Voice

Spec == Init /\ [][Next]_vars

\* An INVITE ends with its request's context, and a call's tail goes on.
FairSpec ==
    /\ Spec
    /\ WF_vars(DialFailed \/ DialAnswered \/ DialUnacked)
    /\ WF_vars(AnswerRejected \/ StartTape)
    /\ WF_vars(MediaFailed \/ CallEstablished)
    /\ WF_vars(Tail)

-----------------------------------------------------------------------------
\* Somebody has the handle of call n and will hang it up: the phone, the dialling
\* call or a hang-up.
Held(n) == \/ n = call
           \/ dial \in {"answered", "taping"} /\ n = ncalls
           \/ \E t \in tails : t.call = n /\ t.pc # "tape"

\* Every open socket is the phone's or some hang-up's, and every dialog that is
\* not hung up yet has somebody who will do it, but for those whose ACK failed,
\* which nobody has, however hang-ups and dialling overlap; and the phone is
\* active exactly when it has a call.
CallOwned ==
    /\ active <=> call # NoCall
    /\ \A n \in Calls : n \in live <=>
         n = call \/ \E t \in tails : t.call = n /\ t.pc = "media"
    /\ \A n \in Calls : n \in dialogs <=> (Held(n) \/ n \in unacked)

\* What is received in a call is recorded in that call's recording and in no
\* other, also when its packets come while the next call is running.
ReceivedTapedApart == \A f \in taped : f[1] = "rx" => f[2] = f[3]

\* A call that is not the phone's any more is ended completely: socket closed,
\* BYE sent and recording saved.
HangupCompletes ==
    \A n \in Calls : (call = n) ~> [](call = n) \/ (n \notin live \cup dialogs \cup open)

-----------------------------------------------------------------------------
(* What comments say and the code does not do.                             *)

\* "wait 300ms then send received audio back": to the call it was received in.
EchoGoesBack == \A f \in sent : f[1] = "echo" => f[2] = f[3]

\* "DialURI initiates a telephony call", "HangupPhone terminates the active
\* telephone call": a dialog that is not hung up can still be hung up.
EveryDialogHeld == \A n \in dialogs : Held(n)

\* "provides live microphone PCM samples to ... active phone call": what was
\* said during one call is not sent into another.
MicIsLive == \A f \in sent : f[1] = "mic" => f[2] = f[3]
=============================================================================
