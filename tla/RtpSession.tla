----------------------------- MODULE RtpSession -----------------------------
(***************************************************************************)
(* One RTP session (internal/media/rtp_session.go): the receive loop that  *)
(* NewRTPSession starts, a send loop for every StartTx, and Close, which   *)
(* waits for all of them.  StopTx only clears a flag that a send loop      *)
(* looks at once per packet interval.                                      *)
(*                                                                         *)
(* A send loop is a goroutine with a program counter: it waits in its      *)
(* select; on a tick it copies the session's state under the lock and      *)
(* exits, drops the packet, or goes on to call the audio source, to take   *)
(* the next sequence number under the lock again, and to write the packet. *)
(* The lock is not held in between: the source and the packet handler call *)
(* back into the owner of the session.  Signalling is a value of Signals;  *)
(* audio, codec and the packet's layout are left out, and so are injected  *)
(* loss and jitter, which make a tick do nothing or take longer.           *)
(***************************************************************************)
EXTENDS Naturals, FiniteSets

CONSTANTS
    Signals,     \* PTT type, PTT id and squelch, as one value
    Ptimes,      \* packet times in use, of 10 and 20 milliseconds
    MaxLoops,    \* bound: StartTx calls
    MaxSeq       \* bound: packets numbered; far below 2^16, no wrap-around

ASSUME RtpSessionAssumption ==
    /\ MaxLoops \in Nat /\ MaxSeq \in Nat
    /\ Signals # {} /\ Ptimes # {} /\ Ptimes \subseteq {10, 20}

VARIABLES
    isTransmitting, current,  \* the flag and the signalling StartTx set
    remote,      \* remoteAddr is not nil
    ptime,       \* 10 or 20 milliseconds
    seq,         \* s.seq
    loop,        \* the send loops
    rx,          \* the receive loop: "reading", "handling", "done"
    ctx,         \* the context: "live" or "cancelled"
    socket,      \* the UDP socket: "open" or "closed"
    closing,     \* Close: "no", "cancelled", "cleared", "waiting", "returned"
    wire         \* what was sent: pairs of sequence number and signalling

session == <<isTransmitting, current, remote, ptime>>
shut    == <<ctx, socket, closing>>
vars == <<session, seq, loop, rx, shut, wire>>

Loops == 1..MaxLoops
NoSignal == "none"

\* ptime is the interval of the loop's ticker, read once when it starts; late
\* says that StopTx was called since.
Loop == [pc : {"none", "waiting", "source", "number", "send", "done"},
         ptime : Ptimes, signal : Signals \cup {NoSignal},
         seq : 0..MaxSeq, late : BOOLEAN]

TypeOK ==
    /\ isTransmitting \in BOOLEAN /\ current \in Signals \cup {NoSignal}
    /\ remote \in BOOLEAN /\ ptime \in Ptimes
    /\ seq \in 0..MaxSeq
    /\ loop \in [Loops -> Loop]
    /\ rx \in {"reading", "handling", "done"}
    /\ ctx \in {"live", "cancelled"}
    /\ socket \in {"open", "closed"}
    /\ closing \in {"no", "cancelled", "cleared", "waiting", "returned"}
    /\ wire \subseteq (1..MaxSeq) \X Signals

Init ==
    /\ isTransmitting = FALSE /\ current = NoSignal
    /\ remote \in BOOLEAN /\ ptime \in Ptimes
    /\ seq = 0
    /\ loop = [i \in Loops |-> [pc |-> "none", ptime |-> ptime, signal |-> NoSignal,
                                seq |-> 0, late |-> FALSE]]
    /\ rx = "reading" /\ ctx = "live" /\ socket = "open" /\ closing = "no"
    /\ wire = {}

Running(i) == loop[i].pc \notin {"none", "done"}
Going == {i \in Loops : Running(i)}

-----------------------------------------------------------------------------
(* The owner's calls.                                                      *)

SetRemoteAddr ==
    /\ remote' = TRUE
    /\ UNCHANGED <<isTransmitting, current, ptime, seq, loop, rx, shut, wire>>

\* Broken variant: any packet time is taken over.
Mut_SetPtime(p) ==
    /\ ptime' = p
    /\ UNCHANGED <<isTransmitting, current, remote, seq, loop, rx, shut, wire>>

SetPtime(p) ==
    /\ ptime' = IF p \in {10, 20} THEN p ELSE ptime
    /\ UNCHANGED <<isTransmitting, current, remote, seq, loop, rx, shut, wire>>

UpdateTxSignaling(s) ==
    /\ current' = s
    /\ UNCHANGED <<isTransmitting, remote, ptime, seq, loop, rx, shut, wire>>

StartTx(i, s) ==
    /\ loop[i].pc = "none" /\ \A j \in Loops : j < i => loop[j].pc # "none"
    /\ isTransmitting' = TRUE /\ current' = s
    /\ loop' = [loop EXCEPT ![i].pc = "waiting", ![i].ptime = ptime]
    /\ UNCHANGED <<remote, ptime, seq, rx, shut, wire>>

StopTx ==
    /\ isTransmitting' = FALSE
    /\ loop' = [i \in Loops |-> [loop[i] EXCEPT !.late = Running(i)]]
    /\ UNCHANGED <<current, remote, ptime, seq, rx, shut, wire>>

-----------------------------------------------------------------------------
(* txLoop                                                                  *)

At(i, pc) == loop' = [loop EXCEPT ![i].pc = pc]

\* The select finds the context done.
LoopCancelled(i) ==
    /\ loop[i].pc = "waiting" /\ ctx = "cancelled"
    /\ At(i, "done")
    /\ UNCHANGED <<session, seq, rx, shut, wire>>

\* The tick finds the flag down or nobody to send to: the loop ends.
Quits == ~isTransmitting \/ ~remote

LoopQuits(i) ==
    /\ loop[i].pc = "waiting" /\ Quits
    /\ At(i, "done")
    /\ UNCHANGED <<session, seq, rx, shut, wire>>

\* The bound on packets: those taken up will find a number.
PacketsLeft ==
    seq + Cardinality({i \in Loops : loop[i].pc \in {"source", "number"}}) < MaxSeq

LoopCopies(i) ==
    /\ loop[i].pc = "waiting" /\ ~Quits
    /\ PacketsLeft
    /\ loop' = [loop EXCEPT ![i].pc = "source", ![i].signal = current]
    /\ UNCHANGED <<session, seq, rx, shut, wire>>

\* The audio source returns: it has waited for its owner's mutex.
SourceReturns(i) ==
    /\ loop[i].pc = "source"
    /\ At(i, "number")
    /\ UNCHANGED <<session, seq, rx, shut, wire>>

\* Broken variant: the number is read and advanced without the lock, so that
\* two loops may take the same one.
Mut_LoopNumbers(i) ==
    /\ loop[i].pc = "number"
    /\ seq' \in {seq, seq + 1} \cap 0..MaxSeq
    /\ loop' = [loop EXCEPT ![i].pc = "send", ![i].seq = seq + 1]
    /\ UNCHANGED <<session, rx, shut, wire>>

LoopNumbers(i) ==
    /\ loop[i].pc = "number"
    /\ seq' = seq + 1
    /\ loop' = [loop EXCEPT ![i].pc = "send", ![i].seq = seq + 1]
    /\ UNCHANGED <<session, rx, shut, wire>>

\* A write to a closed socket fails, and the failure is ignored.
LoopSends(i) ==
    /\ loop[i].pc = "send"
    /\ wire' = IF socket = "open"
               THEN wire \cup {<<loop[i].seq, loop[i].signal>>} ELSE wire
    /\ At(i, "waiting")
    /\ UNCHANGED <<session, seq, rx, shut>>

txLoop(i) == \/ LoopCancelled(i) \/ LoopQuits(i) \/ LoopCopies(i)
             \/ SourceReturns(i) \/ LoopNumbers(i) \/ LoopSends(i)

-----------------------------------------------------------------------------
(* rxLoop: a packet, or a deadline that passes, or the end.                *)

PacketArrives ==
    /\ rx = "reading" /\ socket = "open"
    /\ rx' = "handling"
    /\ UNCHANGED <<session, seq, loop, shut, wire>>

HandlerReturns ==
    /\ rx = "handling" /\ rx' = "reading"
    /\ UNCHANGED <<session, seq, loop, shut, wire>>

RxEnds ==
    /\ rx = "reading" /\ (ctx = "cancelled" \/ socket = "closed")
    /\ rx' = "done"
    /\ UNCHANGED <<session, seq, loop, shut, wire>>

-----------------------------------------------------------------------------
(* Close                                                                   *)

\* Broken variant: Close does not cancel the context.
Mut_Cancel ==
    /\ closing = "no" /\ closing' = "cancelled"
    /\ UNCHANGED <<session, seq, loop, rx, ctx, socket, wire>>

Cancel ==
    /\ closing = "no" /\ closing' = "cancelled" /\ ctx' = "cancelled"
    /\ UNCHANGED <<session, seq, loop, rx, socket, wire>>

ClearFlag ==
    /\ closing = "cancelled" /\ closing' = "cleared"
    /\ isTransmitting' = FALSE
    /\ UNCHANGED <<current, remote, ptime, seq, loop, rx, ctx, socket, wire>>

CloseSocket ==
    /\ closing = "cleared" /\ closing' = "waiting" /\ socket' = "closed"
    /\ UNCHANGED <<session, seq, loop, rx, ctx, wire>>

\* wg.Wait: every loop that was started has returned.
Waited == rx = "done" /\ Going = {}

CloseReturns ==
    /\ closing = "waiting" /\ Waited
    /\ closing' = "returned"
    /\ UNCHANGED <<session, seq, loop, rx, ctx, socket, wire>>

Close == Cancel \/ ClearFlag \/ CloseSocket \/ CloseReturns

Owner == \/ SetRemoteAddr \/ StopTx
         \/ \E p \in Ptimes \cup {0} : SetPtime(p)
         \/ \E s \in Signals : UpdateTxSignaling(s) \/ \E i \in Loops : StartTx(i, s)

Next == \/ Owner \/ Close
        \/ \E i \in Loops : txLoop(i)
        \/ PacketArrives \/ HandlerReturns \/ RxEnds

Spec == Init /\ [][Next]_vars

\* The ticker ticks, callbacks return, a read has a deadline, and Close goes on;
\* whether anybody calls Close is left open, and so is what a select does when
\* context and tick are both ready: a cancelled loop ends in the long run.
FairSpec ==
    /\ Spec
    /\ \A i \in Loops : /\ WF_vars(LoopQuits(i) \/ LoopCopies(i) \/ SourceReturns(i)
                                   \/ LoopNumbers(i) \/ LoopSends(i))
                        /\ SF_vars(LoopCancelled(i))
    /\ WF_vars(HandlerReturns) /\ WF_vars(RxEnds)
    /\ WF_vars(ClearFlag) /\ WF_vars(CloseSocket) /\ WF_vars(CloseReturns)

-----------------------------------------------------------------------------
\* No two packets of a session carry the same sequence number, though several
\* send loops may run: not on the wire and not on the way to it.
NumberedOnce ==
    /\ \A a, b \in wire : a[1] = b[1] => a = b
    /\ \A i \in Loops : loop[i].pc = "send" =>
         /\ \A a \in wire : a[1] # loop[i].seq
         /\ \A j \in Loops : loop[j].pc = "send" /\ loop[j].seq = loop[i].seq => i = j

\* Close returns, whatever was going on when it was called, even when the owner
\* starts transmissions meanwhile.
CloseEnds == (closing = "cancelled") ~> (closing = "returned")

-----------------------------------------------------------------------------
(* What comments say and the code does not do.                             *)

\* "StopTx ceases transmitting RTP packets": a send loop that was running when
\* StopTx was called takes up no further packet.
StopTxCeases ==
    [][ \A i \in Loops : loop[i].late => ~LoopCopies(i) ]_vars

\* "StartTx starts sending RTP packets": while the flag is up and there is an
\* address, a send loop is running.
TransmittingHasLoop ==
    isTransmitting /\ remote /\ ctx = "live" => Going # {}

\* "SetPtime updates packetization time": a packet that is taken up has the
\* packet time in force, whenever its loop started.
PtimeInForce == [][ \A i \in Loops : LoopCopies(i) => loop[i].ptime = ptime ]_vars
=============================================================================
