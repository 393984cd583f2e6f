---------------------------- MODULE MediaProofs ----------------------------
(***************************************************************************)
(* Theorems about internal/media and what is made of its packets.  An RTP  *)
(* session, for any number of send loops and packets and for any           *)
(* signalling: its types, and that a sequence number is used once.  The    *)
(* jitter buffer of a session, for any modulus of the numbers, any depths  *)
(* and any network: its types, and that a steady stream is played in       *)
(* order, complete and evenly.  A capture, for any senders, any network    *)
(* and any SIP messages between their packets: its types, and that the     *)
(* loss counted, the timeline drawn and the audio restored from it are     *)
(* those of what was sent.                                                 *)
(***************************************************************************)
EXTENDS RtpSession, JitterBuffer, Capture, FiniteSetTheorems, SequenceTheorems,
        WellFoundedInduction, TLAPS

-----------------------------------------------------------------------------
(* The RTP session (RtpSession).                                           *)

\* Loops that have taken up a packet and will find a number for it.
Taken == {i \in Loops : loop[i].pc \in {"source", "number"}}

-----------------------------------------------------------------------------
(* The inductive invariant.                                                *)

\* The number of the next packet, with those taken up, is within the bound.
NumbersLeft == seq + Cardinality(Taken) <= MaxSeq

\* Whoever may send has signalling to send.
Signalled ==
    /\ isTransmitting => current \in Signals
    /\ \A i \in Loops : /\ loop[i].pc \in {"source", "number", "send"} => loop[i].signal \in Signals
                        /\ loop[i].pc = "send" => loop[i].seq \in 1..seq

\* What is on the wire has a number that was given out.
Numbered == \A a \in wire : a[1] <= seq

Inv == TypeOK /\ NumbersLeft /\ Signalled /\ Numbered /\ NumberedOnce

-----------------------------------------------------------------------------
(* Lemmas.                                                                 *)

\* There are finitely many send loops.
LEMMA TakenFinite ==
    /\ IsFiniteSet(Taken) /\ Cardinality(Taken) \in Nat
    /\ IsFiniteSet(Taken') /\ Cardinality(Taken') \in Nat
<1>1. IsFiniteSet(Loops)
  BY FS_Interval, RtpSessionAssumption DEF Loops, RtpSessionAssumption
<1>2. Taken \in SUBSET Loops /\ Taken' \in SUBSET Loops
  BY DEF Taken
<1>3. QED
  BY <1>1, <1>2, FS_Subset, FS_CardinalityType

\* A loop that takes up no packet leaves the numbers to the others.
LEMMA NoneTaken ==
    ASSUME TypeOK, NumbersLeft, Taken' \subseteq Taken, seq' = seq
    PROVE  NumbersLeft'
<1>1. Cardinality(Taken') <= Cardinality(Taken)
  BY TakenFinite, FS_Subset
<1>2. QED
  BY <1>1, TakenFinite, RtpSessionAssumption DEF NumbersLeft, TypeOK, RtpSessionAssumption

\* A step of loop i changes its own state only, and to a state of a loop.
LEMMA LoopStep ==
    ASSUME TypeOK, NEW i \in Loops, NEW to, to \in Loop, loop' = [loop EXCEPT ![i] = to]
    PROVE  /\ loop' \in [Loops -> Loop] /\ loop'[i] = to
           /\ \A j \in Loops : j # i => loop'[j] = loop[j]
  BY DEF TypeOK

\* Only the program counter of loop i moves.
LEMMA AtStep ==
    ASSUME TypeOK, NEW i \in Loops,
           NEW pc \in {"none", "waiting", "source", "number", "send", "done"}, At(i, pc)
    PROVE  /\ loop' \in [Loops -> Loop]
           /\ loop'[i].pc = pc
           /\ \A j \in Loops : /\ j # i => loop'[j].pc = loop[j].pc
                               /\ loop'[j].signal = loop[j].signal
                               /\ loop'[j].seq = loop[j].seq
  BY DEF TypeOK, Loop, At

\* The invariant holds at the beginning.
LEMMA InvInit == Init => Inv
<1> SUFFICES ASSUME Init PROVE Inv
  OBVIOUS
<1>1. loop \in [Loops -> Loop]
  BY RtpSessionAssumption DEF Init, Loop, RtpSessionAssumption
<1>2. TypeOK
  <2>1. seq \in 0..MaxSeq
    BY RtpSessionAssumption DEF Init, RtpSessionAssumption
  <2>2. QED
    BY <1>1, <2>1 DEF Init, TypeOK
<1>3. Taken = {}
  BY DEF Init, Taken
<1>4. NumbersLeft
  BY <1>3, FS_EmptySet, RtpSessionAssumption DEF Init, NumbersLeft, RtpSessionAssumption
<1>5. Signalled /\ Numbered /\ NumberedOnce
  BY DEF Init, Signalled, Numbered, NumberedOnce
<1>6. QED
  BY <1>2, <1>4, <1>5 DEF Inv

-----------------------------------------------------------------------------
(* The owner's calls.                                                      *)

\* What leaves loops, numbers and wire alone, and gives no signalling away.
LEMMA OtherStepsKeepInv ==
    ASSUME Inv, TypeOK', UNCHANGED <<loop, seq, wire>>,
           isTransmitting' => current' \in Signals
    PROVE  Inv'
  BY DEF Inv, NumbersLeft, Taken, Signalled, Numbered, NumberedOnce

\* SetRemoteAddr, SetPtime and UpdateTxSignaling.
LEMMA SettersKeepInv ==
    ASSUME Inv,
           \/ SetRemoteAddr
           \/ \E p \in Ptimes \cup {0} : SetPtime(p)
           \/ \E s \in Signals : UpdateTxSignaling(s)
    PROVE  Inv'
<1>1. UNCHANGED <<loop, seq, wire, isTransmitting, rx, shut>>
  BY DEF SetRemoteAddr, SetPtime, UpdateTxSignaling
<1>2. remote' \in BOOLEAN /\ ptime' \in Ptimes
  <2>1. remote' = TRUE \/ remote' = remote
    BY DEF SetRemoteAddr, SetPtime, UpdateTxSignaling
  <2>2. ptime' = ptime \/ ptime' \in Ptimes
    BY DEF SetRemoteAddr, SetPtime, UpdateTxSignaling
  <2>3. QED
    BY <2>1, <2>2 DEF Inv, TypeOK
<1>3. current' \in Signals \/ current' = current
  BY DEF SetRemoteAddr, SetPtime, UpdateTxSignaling
<1>4. TypeOK'
  BY <1>1, <1>2, <1>3 DEF Inv, TypeOK, shut
<1>5. isTransmitting' => current' \in Signals
  BY <1>1, <1>3 DEF Inv, Signalled
<1>6. QED
  BY <1>1, <1>4, <1>5, OtherStepsKeepInv

\* StartTx starts a loop that has taken up nothing yet.
LEMMA StartTxKeepsInv ==
    ASSUME Inv, NEW i \in Loops, NEW s \in Signals, StartTx(i, s)
    PROVE  Inv'
<1> USE DEF Inv, StartTx
<1>1. /\ loop' \in [Loops -> Loop]
      /\ loop[i].pc = "none" /\ loop'[i].pc = "waiting"
      /\ \A j \in Loops : j # i => loop'[j] = loop[j]
  <2>1. /\ loop \in [Loops -> Loop] /\ ptime \in Ptimes /\ loop[i].pc = "none"
        /\ loop' = [loop EXCEPT ![i] = [loop[i] EXCEPT !.pc = "waiting", !.ptime = ptime]]
    BY DEF TypeOK
  <2>2. /\ [loop[i] EXCEPT !.pc = "waiting", !.ptime = ptime] \in Loop
        /\ [loop[i] EXCEPT !.pc = "waiting", !.ptime = ptime].pc = "waiting"
    BY <2>1 DEF Loop
  <2> QED BY <2>1, <2>2
<1>2. TypeOK'
  BY <1>1 DEF TypeOK, shut
<1>3. NumbersLeft'
  BY <1>1, NoneTaken DEF Taken
<1>4. Signalled'
  BY <1>1 DEF Signalled
<1>5. Numbered' /\ NumberedOnce'
  BY <1>1 DEF Numbered, NumberedOnce
<1>6. QED
  BY <1>2, <1>3, <1>4, <1>5

\* StopTx clears the flag; the loops go on.
LEMMA StopTxKeepsInv ==
    ASSUME Inv, StopTx
    PROVE  Inv'
<1>1. /\ loop' \in [Loops -> Loop]
      /\ \A j \in Loops : /\ loop'[j].pc = loop[j].pc /\ loop'[j].seq = loop[j].seq
                          /\ loop'[j].signal = loop[j].signal
  <2>1. /\ loop \in [Loops -> Loop]
        /\ loop' = [j \in Loops |-> [loop[j] EXCEPT !.late = Running(j)]]
    BY DEF Inv, StopTx, TypeOK
  <2>2. ASSUME NEW j \in Loops
        PROVE  LET to == [loop[j] EXCEPT !.late = Running(j)]
               IN  /\ to \in Loop /\ to.pc = loop[j].pc
                   /\ to.seq = loop[j].seq /\ to.signal = loop[j].signal
    <3>1. Running(j) \in BOOLEAN /\ loop[j] \in Loop
      BY <2>1 DEF Running
    <3> QED BY <3>1 DEF Loop
  <2> QED BY <2>1, <2>2
<1>2. UNCHANGED <<current, remote, ptime, seq, rx, shut, wire>> /\ isTransmitting' = FALSE
  BY DEF StopTx
<1> USE DEF Inv
<1>3. TypeOK'
  BY <1>1, <1>2 DEF TypeOK, shut
<1>4. NumbersLeft'
  BY <1>1, <1>2, NoneTaken DEF Taken
<1>5. Signalled'
  BY <1>1, <1>2 DEF Signalled
<1>6. Numbered' /\ NumberedOnce'
  BY <1>1, <1>2 DEF Numbered, NumberedOnce
<1>7. QED
  BY <1>3, <1>4, <1>5, <1>6

-----------------------------------------------------------------------------
(* The send loops.                                                         *)

\* A loop that ends, or whose audio source returns, keeps what it has.
LEMMA LoopMovesKeepInv ==
    ASSUME Inv, NEW i \in Loops, LoopCancelled(i) \/ LoopQuits(i) \/ SourceReturns(i)
    PROVE  Inv'
<1> USE DEF Inv
<1>1. UNCHANGED <<session, seq, rx, shut, wire>>
  BY DEF LoopCancelled, LoopQuits, SourceReturns
<1>2. PICK pc \in {"done", "number"} :
        At(i, pc) /\ (pc = "number" => loop[i].pc = "source")
  BY DEF LoopCancelled, LoopQuits, SourceReturns
<1>3. /\ loop' \in [Loops -> Loop] /\ loop'[i].pc = pc
      /\ \A j \in Loops : /\ j # i => loop'[j].pc = loop[j].pc
                          /\ loop'[j].signal = loop[j].signal
                          /\ loop'[j].seq = loop[j].seq
  BY <1>2, AtStep
<1>4. TypeOK'
  BY <1>1, <1>3 DEF TypeOK, session, shut
<1>5. NumbersLeft'
  BY <1>1, <1>2, <1>3, NoneTaken DEF Taken
<1>6. Signalled'
  BY <1>1, <1>2, <1>3 DEF Signalled, session
<1>7. Numbered' /\ NumberedOnce'
  BY <1>1, <1>2, <1>3 DEF Numbered, NumberedOnce
<1>8. QED
  BY <1>4, <1>5, <1>6, <1>7

\* A loop takes up a packet while there is a number for it.
LEMMA LoopCopiesKeepsInv ==
    ASSUME Inv, NEW i \in Loops, LoopCopies(i)
    PROVE  Inv'
<1> USE DEF Inv, LoopCopies
<1>1. current \in Signals
  BY DEF Quits, Signalled, TypeOK
<1>2. /\ loop' \in [Loops -> Loop] /\ loop'[i].pc = "source" /\ loop'[i].signal = current
      /\ loop[i].pc = "waiting"
      /\ \A j \in Loops : j # i => loop'[j] = loop[j]
  <2>1. /\ loop \in [Loops -> Loop] /\ loop[i].pc = "waiting"
        /\ loop' = [loop EXCEPT ![i] = [loop[i] EXCEPT !.pc = "source", !.signal = current]]
    BY DEF TypeOK
  <2>2. LET to == [loop[i] EXCEPT !.pc = "source", !.signal = current]
        IN  to \in Loop /\ to.pc = "source" /\ to.signal = current
    BY <1>1, <2>1 DEF Loop
  <2> QED BY <2>1, <2>2
<1>3. TypeOK'
  BY <1>2 DEF TypeOK, session, shut
<1>4. NumbersLeft'
  <2>1. Taken' = Taken \cup {i} /\ i \notin Taken
    BY <1>2 DEF Taken
  <2>2. Cardinality(Taken') = Cardinality(Taken) + 1
    BY <2>1, TakenFinite, FS_AddElement
  <2>3. seq + Cardinality(Taken) < MaxSeq
    BY DEF PacketsLeft, Taken
  <2>4. QED
    BY <2>2, <2>3, TakenFinite, RtpSessionAssumption
    DEF NumbersLeft, TypeOK, RtpSessionAssumption
<1>5. Signalled'
  BY <1>1, <1>2 DEF Signalled, session
<1>6. Numbered' /\ NumberedOnce'
  BY <1>2 DEF Numbered, NumberedOnce
<1>7. QED
  BY <1>3, <1>4, <1>5, <1>6

\* The number is read and advanced in one step, so it is nobody's yet.
LEMMA LoopNumbersKeepsInv ==
    ASSUME Inv, NEW i \in Loops, LoopNumbers(i)
    PROVE  Inv'
<1> USE DEF Inv, LoopNumbers
<1>1. NumbersLeft' /\ seq + 1 \in 1..MaxSeq
  <2>1. i \in Taken
    BY DEF Taken
  <2>2. Taken' = Taken \ {i}
    BY DEF Taken, TypeOK
  <2>3. Cardinality(Taken') = Cardinality(Taken) - 1
    BY <2>1, <2>2, TakenFinite, FS_RemoveElement
  <2>4. Cardinality(Taken) # 0
    BY <2>1, TakenFinite, FS_EmptySet
  <2>5. QED
    BY <2>3, <2>4, TakenFinite, RtpSessionAssumption
    DEF NumbersLeft, TypeOK, RtpSessionAssumption
<1>2. /\ loop' \in [Loops -> Loop] /\ loop'[i].pc = "send" /\ loop[i].pc = "number"
      /\ loop'[i].seq = seq + 1 /\ loop'[i].signal = loop[i].signal
      /\ \A j \in Loops : j # i => loop'[j] = loop[j]
  <2> DEFINE n  == seq + 1
             to == [loop[i] EXCEPT !.pc = "send", !.seq = n]
  <2>1. n \in 0..MaxSeq
    BY <1>1 DEF TypeOK
  <2>2. loop' = [loop EXCEPT ![i] = to]
    BY DEF TypeOK
  <2> HIDE DEF n
  <2>3. to \in Loop /\ to.pc = "send" /\ to.seq = n /\ to.signal = loop[i].signal
    <3>1. loop[i] \in Loop
      BY DEF TypeOK
    <3>2. QED
      BY <2>1, <3>1 DEF Loop
  <2> HIDE DEF to
  <2>4. QED
    BY <2>2, <2>3, LoopStep DEF n
<1>3. TypeOK'
  BY <1>1, <1>2 DEF TypeOK, session, shut
<1>4. seq \in Nat /\ seq' = seq + 1
  BY DEF TypeOK
<1>5. Signalled'
  BY <1>2, <1>4 DEF Signalled, session
<1>6. Numbered'
  <2>1. \A a \in wire : a[1] \in Nat
    BY DEF TypeOK
  <2>2. QED
    BY <1>4, <2>1 DEF Numbered
<1>7. NumberedOnce'
  <2>1. \A a \in wire : a[1] # seq + 1
    BY <1>4 DEF Numbered
  <2>2. \A j \in Loops : loop[j].pc = "send" => loop[j].seq # seq + 1
    BY <1>4 DEF Signalled
  <2>3. QED
    BY <1>2, <2>1, <2>2 DEF NumberedOnce
<1>8. QED
  BY <1>1, <1>3, <1>5, <1>6, <1>7

\* The packet goes onto the wire, or is lost in a socket that is closed.
LEMMA LoopSendsKeepsInv ==
    ASSUME Inv, NEW i \in Loops, LoopSends(i)
    PROVE  Inv'
<1> USE DEF Inv, LoopSends
<1> DEFINE packet == <<loop[i].seq, loop[i].signal>>
<1>1. /\ loop' \in [Loops -> Loop] /\ loop'[i].pc = "waiting" /\ loop[i].pc = "send"
      /\ \A j \in Loops : /\ j # i => loop'[j].pc = loop[j].pc
                          /\ loop'[j].signal = loop[j].signal
                          /\ loop'[j].seq = loop[j].seq
  BY AtStep
<1>2. loop[i].seq \in 1..seq /\ loop[i].signal \in Signals /\ seq \in 0..MaxSeq
  BY <1>1 DEF Signalled, TypeOK
<1>3. packet \in (1..MaxSeq) \X Signals /\ packet[1] = loop[i].seq
  BY <1>2, RtpSessionAssumption DEF RtpSessionAssumption
<1>4. \A a \in wire' : a \in wire \/ a = packet
  BY DEF LoopSends
<1>5. TypeOK'
  BY <1>1, <1>3 DEF TypeOK, session, shut
<1>6. NumbersLeft'
  BY <1>1, NoneTaken DEF Taken
<1>7. Signalled'
  BY <1>1 DEF Signalled, session
<1>8. Numbered'
  BY <1>2, <1>3, <1>4 DEF Numbered
<1>9. NumberedOnce'
  <2>1. \A a \in wire : a[1] # packet[1]
    BY <1>1, <1>3 DEF NumberedOnce
  <2>2. \A a, b \in wire' : a[1] = b[1] => a = b
    BY <1>4, <2>1 DEF NumberedOnce
  <2>3. \A j \in Loops : loop'[j].pc = "send" =>
          /\ \A a \in wire' : a[1] # loop'[j].seq
          /\ \A k \in Loops : loop'[k].pc = "send" /\ loop'[k].seq = loop'[j].seq => j = k
    BY <1>1, <1>3, <1>4 DEF NumberedOnce
  <2>4. QED
    BY <2>2, <2>3 DEF NumberedOnce
<1>10. QED
  BY <1>5, <1>6, <1>7, <1>8, <1>9

\* The receive loop and Close number nothing.
LEMMA RxAndCloseKeepInv ==
    ASSUME Inv, PacketArrives \/ HandlerReturns \/ RxEnds \/ Close
    PROVE  Inv'
<1>1. UNCHANGED <<loop, seq, wire, current, remote, ptime>>
      /\ (isTransmitting' = isTransmitting \/ isTransmitting' = FALSE)
  BY DEF PacketArrives, HandlerReturns, RxEnds, Close, Cancel, ClearFlag, CloseSocket,
         CloseReturns, session
<1>2. /\ rx' \in {"reading", "handling", "done"} /\ ctx' \in {"live", "cancelled"}
      /\ socket' \in {"open", "closed"}
      /\ closing' \in {"no", "cancelled", "cleared", "waiting", "returned"}
  BY DEF Inv, TypeOK, PacketArrives, HandlerReturns, RxEnds, Close, Cancel, ClearFlag,
         CloseSocket, CloseReturns, shut
<1>3. TypeOK'
  BY <1>1, <1>2 DEF Inv, TypeOK
<1>4. QED
  BY <1>1, <1>3, OtherStepsKeepInv DEF Inv, Signalled

-----------------------------------------------------------------------------
\* The invariant holds in every run.
LEMMA Invariance == Spec => []Inv
<1>1. Inv /\ [Next]_vars => Inv'
  <2> SUFFICES ASSUME Inv, [Next]_vars PROVE Inv'
    OBVIOUS
  <2>1. CASE Owner
    BY <2>1, SettersKeepInv, StartTxKeepsInv, StopTxKeepsInv DEF Owner
  <2>2. ASSUME NEW i \in Loops, txLoop(i) PROVE Inv'
    BY <2>2, LoopMovesKeepInv, LoopCopiesKeepsInv, LoopNumbersKeepsInv,
       LoopSendsKeepsInv DEF txLoop
  <2>3. CASE PacketArrives \/ HandlerReturns \/ RxEnds \/ Close
    BY <2>3, RxAndCloseKeepInv
  <2>4. CASE UNCHANGED vars
    <3>1. TypeOK'
      BY <2>4 DEF vars, session, shut, Inv, TypeOK
    <3>2. QED
      BY <2>4, <3>1, OtherStepsKeepInv DEF vars, session, Inv, Signalled
  <2>5. QED
    BY <2>1, <2>2, <2>3, <2>4 DEF Next
<1>2. QED
  BY InvInit, <1>1, PTL DEF Spec

\* Type correctness of the session (RTPSession of rtp_session.go) in every run.
THEOREM TypeCorrect == Spec => []TypeOK
<1>1. Inv => TypeOK
  BY DEF Inv
<1>2. QED
  BY Invariance, <1>1, PTL

\* No two packets of a session carry the same sequence number (txLoop), however many
\* send loops StartTx has left running beside each other.
THEOREM EachNumberOnce == Spec => []NumberedOnce
<1>1. Inv => NumberedOnce
  BY DEF Inv
<1>2. QED
  BY Invariance, <1>1, PTL

-----------------------------------------------------------------------------
(* The jitter buffer (JitterBuffer): the inductive invariant.              *)

\* What is assumed of the surroundings: the sender does not pause, somebody plays, and
\* within the longest network delay and the deepest buffer fewer packets are sent than
\* make the buffer too full, and than half of the numbers.
SteadyStream ==
    /\ ~Pauses /\ Player
    /\ \A d \in Configured \cup (MinDelay..MaxDelay) :
         MaxTransit + d + 1 <= Full /\ MaxTransit + d + 1 < SeqMod \div 2

\* A packet is sent per packet time, so the numbers run with the clock.
Offset == next - count - 1

Sender ==
    /\ count <= now /\ (count < MaxSent => count = now)
    /\ \A f \in flight : f.n - f.at = Offset /\ f.at <= now /\ now - f.at <= MaxTransit

\* Every packet's play time is the time it was sent and what the first one took.
Playout ==
    /\ ~Started => pq = {} /\ dropped = {} /\ handed = << >> /\ played = << >>
    /\ Started => /\ transit <= MaxTransit
                  /\ budget \in Configured \cup (MinDelay..MaxDelay)
                  /\ first.base - first.n = transit + budget - Offset
    /\ \A p \in pq : p.n - p.at = Offset /\ p.play = p.at + transit + budget

\* While the network keeps its promise no packet waits past its time, and those that
\* were played are past.
InTime ==
    within => /\ \A p \in pq : p.at <= now /\ now <= p.play + 1
              /\ \A j \in DOMAIN played :
                   /\ played[j] - Offset + transit + budget < now
                   /\ \A p \in pq : played[j] < p.n
              /\ \A i \in DOMAIN handed :
                   \/ \E p \in pq : p.n = handed[i]
                   \/ \E k \in DOMAIN played : played[k] = handed[i]

Typed ==
    /\ JitterTypeOK
    /\ next - count \in Starts
    /\ \A f \in flight : f.at <= now
    /\ pq \subseteq [n : Numbers, play : Int, at : 0..MaxTime]
    /\ first \in [base : Int, n : Int]

JitterInv == Typed /\ Sender /\ Playout /\ InTime /\ JitterAbsorbed

-----------------------------------------------------------------------------
(* Lemmas.                                                                 *)

\* The bounds are naturals.
LEMMA Bounds ==
    /\ MaxTime \in Nat /\ MaxSent \in Nat /\ MaxTransit \in Nat
    /\ Full \in Nat /\ Starts \subseteq Nat
BY JitterBufferAssumption DEF JitterBufferAssumption

\* The numbers a sender may use, and the depths the buffer may have, are naturals.
LEMMA NumbersAndDepths ==
    /\ Numbers \subseteq Nat
    /\ \A s \in Starts, k \in 0..MaxSent : s + k \in Numbers
    /\ Configured \cup (MinDelay..MaxDelay) \subseteq Nat \ {0}
    /\ \A d \in Delays : Clamp(d) \in MinDelay..MaxDelay
<1> USE JitterBufferAssumption DEF JitterBufferAssumption
<1>1. \A s \in Starts : s..s + MaxSent \subseteq Nat
  OBVIOUS
<1>2. Numbers \subseteq Nat
  BY <1>1 DEF Numbers
<1>3. \A s \in Starts, k \in 0..MaxSent : s + k \in s..s + MaxSent
  OBVIOUS
<1>4. \A s \in Starts, k \in 0..MaxSent : s + k \in Numbers
  BY <1>3 DEF Numbers
<1>5. Configured \subseteq Nat \ {0}
  BY DEF Configured
<1>6. \A d \in Delays : Clamp(d) \in MinDelay..MaxDelay
  BY DEF Clamp
<1>7. QED
  BY <1>2, <1>4, <1>5, <1>6

\* What is at the end of a longer sequence.
LEMMA AppendAt ==
    ASSUME NEW S, NEW q \in Seq(S), NEW e \in S
    PROVE  /\ Append(q, e) \in Seq(S) /\ Len(q) \in Nat
           /\ DOMAIN q = 1..Len(q) /\ DOMAIN Append(q, e) = 1..Len(q) + 1
           /\ \A i \in 1..Len(q) : Append(q, e)[i] = q[i]
           /\ Append(q, e)[Len(q) + 1] = e
<1>1. /\ Append(q, e) \in Seq(S) /\ Len(Append(q, e)) = Len(q) + 1
      /\ \A i \in 1..Len(q) : Append(q, e)[i] = q[i]
      /\ Append(q, e)[Len(q) + 1] = e
  BY AppendProperties
<1>2. QED
  BY <1>1, LenProperties

\* Numbers nearer than half of the modulus are compared as they are, also when they
\* are on both sides of the wrap.
LEMMA LessIs ==
    ASSUME NEW a \in Int, NEW b \in Int,
           a - b < SeqMod \div 2, b - a < SeqMod \div 2
    PROVE  Less(a, b) <=> a < b
<1> USE JitterBufferAssumption DEF JitterBufferAssumption
<1> DEFINE h == SeqMod \div 2
<1>1. h \in Nat /\ SeqMod = 2 * h
  OBVIOUS
<1>2. CASE a < b
  <2>1. (a - b) % SeqMod = SeqMod + (a - b)
    BY <1>2
  <2> QED BY <1>1, <1>2, <2>1 DEF Less
<1>3. CASE ~(a < b)
  <2>1. (a - b) % SeqMod = a - b
    BY <1>3
  <2> QED BY <1>1, <1>3, <2>1 DEF Less
<1>4. QED
  BY <1>2, <1>3

\* A set of numbers that is not empty has a least element.
LEMMA Least ==
    ASSUME NEW T \in SUBSET Nat, T # {}
    PROVE  \E x \in T : \A y \in T : x <= y
<1> DEFINE R == OpToRel(<, Nat)
<1>1. IsWellFoundedOn(R, Nat)
  BY NatLessThanWellFounded
<1>2. \A x, y \in Nat : y < x => <<y, x>> \in R
  BY DEF OpToRel
<1> HIDE DEF R
<1>3. PICK x \in T : \A y \in T : ~(<<y, x>> \in R)
  BY <1>1, WFMin
<1>4. \A y \in T : ~(y < x) /\ y \in Nat /\ x \in Nat
  BY <1>2, <1>3
<1> QED BY <1>4

-----------------------------------------------------------------------------
(* Types of the jitter buffer.                                             *)

\* Types at the beginning.
LEMMA TypedInit == JitterInit => Typed
<1> SUFFICES ASSUME JitterInit PROVE Typed
  OBVIOUS
<1> USE Bounds DEF JitterInit
<1>1. /\ next \in Starts /\ next \in Nat /\ next - count = next /\ next + 0 = next
      /\ 0 \in 0..MaxSent
  OBVIOUS
<1>2. now \in 0..MaxTime /\ count \in 0..MaxSent /\ next + 0 \in Numbers
  BY <1>1, NumbersAndDepths
<1>3. handed \in Seq(Numbers) /\ played \in Seq(Numbers)
  BY EmptySeq
<1>4. ~Started /\ first \in [base : Int, n : Int]
  BY DEF Started, NotStarted
<1>5. QED
  BY <1>1, <1>2, <1>3, <1>4 DEF Typed, JitterTypeOK

\* What is known of a packet that is received.
LEMMA Arriving ==
    ASSUME Typed, NEW f \in flight
    PROVE  /\ f.n \in Numbers /\ f.n \in Nat /\ f.n \in Int
           /\ f.at \in 0..MaxTime /\ f.at \in Nat /\ now \in Nat
           /\ target \in Nat \ {0} /\ now - f.at \in 0..MaxTime
           /\ PlayTime(f.n) \in Int
           /\ Base(f.n) \in [base : Int, n : Int] /\ Base(f.n) # NotStarted
           /\ Base(f.n).n \in Numbers
           /\ ~Started => Base(f.n) = [base |-> now + target, n |-> f.n]
           /\ Started => Base(f.n) = first
<1>1. /\ f \in [n : Numbers, at : 0..MaxTime] /\ f.at <= now
      /\ now \in 0..MaxTime /\ target \in Configured \cup (MinDelay..MaxDelay)
      /\ first \in [base : Int, n : Int] /\ (Started => first.n \in Numbers)
  BY DEF Typed, JitterTypeOK
<1>2. /\ f.n \in Numbers /\ f.n \in Nat /\ f.n \in Int
      /\ f.at \in 0..MaxTime /\ f.at \in Nat /\ now \in Nat
      /\ target \in Nat \ {0} /\ now - f.at \in 0..MaxTime
  <2>1. f.n \in Numbers /\ f.n \in Nat /\ target \in Nat \ {0}
    BY <1>1, NumbersAndDepths
  <2>2. f.at \in 0..MaxTime /\ f.at \in Nat /\ now \in Nat /\ now - f.at \in 0..MaxTime
    BY <1>1, Bounds
  <2>3. QED
    BY <2>1, <2>2
<1>3. CASE Started
  BY <1>1, <1>2, <1>3 DEF Base, PlayTime, Started
<1>4. CASE ~Started
  BY <1>1, <1>2, <1>4 DEF Base, PlayTime, NotStarted
<1>5. QED
  BY <1>2, <1>3, <1>4

\* A tick keeps the types.
LEMMA TickTyped == ASSUME Typed, Tick PROVE Typed'
<1> USE Bounds
<1>1. /\ now \in 0..MaxTime /\ count \in 0..MaxSent /\ next \in Numbers /\ next \in Nat
      /\ next - count \in Starts
      /\ flight \subseteq [n : Numbers, at : 0..MaxTime]
      /\ \A f \in flight : f.at <= now /\ f.at \in Nat
  BY NumbersAndDepths DEF Typed, JitterTypeOK
<1>2. now' = now + 1 /\ now' \in 0..MaxTime
  BY <1>1 DEF Tick
<1>3. /\ count' \in 0..MaxSent /\ next' \in Numbers /\ next' - count' \in Starts
      /\ flight' \subseteq [n : Numbers, at : 0..MaxTime]
      /\ \A f \in flight' : f.at <= now'
  <2>1. CASE /\ count < MaxSent /\ count' = count + 1 /\ next' = next + 1
             /\ flight' = flight \cup {[n |-> next, at |-> now + 1]}
    <3>1. count' \in 0..MaxSent /\ next' - count' = next - count
      BY <1>1, <2>1
    <3>2. (next - count) + count' \in Numbers
      BY <1>1, <3>1, NumbersAndDepths
    <3>3. (next - count) + count' = next'
      BY <1>1, <2>1
    <3>4. [n |-> next, at |-> now + 1] \in [n : Numbers, at : 0..MaxTime]
      BY <1>1, <1>2
    <3>5. \A f \in flight' : f.at <= now'
      BY <1>1, <1>2, <2>1
    <3>6. QED
      BY <1>1, <2>1, <3>1, <3>2, <3>3, <3>4, <3>5
  <2>2. CASE UNCHANGED <<count, next, flight>>
    BY <1>1, <1>2, <2>2
  <2>3. QED
    BY <2>1, <2>2 DEF Tick
<1>4. UNCHANGED <<pq, target, first, dropped, handed, played, transit, budget, within>>
  BY DEF Tick
<1>5. QED
  BY <1>2, <1>3, <1>4 DEF Typed, JitterTypeOK, Started

\* A packet that arrives keeps the types.
LEMMA ReceiveTyped == ASSUME Typed, NEW f \in flight, Receive(f) PROVE Typed'
<1>1. /\ f.n \in Numbers /\ f.at \in 0..MaxTime /\ now - f.at \in 0..MaxTime
      /\ target \in Nat /\ PlayTime(f.n) \in Int
      /\ Base(f.n) \in [base : Int, n : Int] /\ Base(f.n).n \in Numbers
  BY Arriving
<1>2. first' = Base(f.n) /\ handed' = Append(handed, f.n) /\ flight' = flight \ {f}
      /\ UNCHANGED <<now, count, next, target, played>>
  BY DEF Receive, Push
<1>3. handed' \in Seq(Numbers)
  BY <1>1, <1>2, AppendAt DEF Typed, JitterTypeOK
<1>4. dropped' \subseteq Numbers /\ pq' \subseteq [n : Numbers, play : Int, at : 0..MaxTime]
  <2>1. [n |-> f.n, play |-> PlayTime(f.n), at |-> f.at]
          \in [n : Numbers, play : Int, at : 0..MaxTime]
    BY <1>1
  <2>2. /\ dropped' = dropped \cup {f.n} \/ dropped' = dropped
        /\ \/ pq' = pq
           \/ pq' = pq \cup {[n |-> f.n, play |-> PlayTime(f.n), at |-> f.at]}
    BY DEF Receive, Push
  <2>3. dropped \subseteq Numbers /\ pq \subseteq [n : Numbers, play : Int, at : 0..MaxTime]
    BY DEF Typed, JitterTypeOK
  <2>4. QED
    BY <1>1, <2>1, <2>2, <2>3
<1>5. \A p \in pq' : p.n \in Numbers /\ p.play \in Int
  BY <1>4
<1>6. transit' \in 0..MaxTime /\ budget' \in Nat /\ within' \in BOOLEAN
  BY <1>1 DEF Receive, Typed, JitterTypeOK
<1>7. first' \in [base : Int, n : Int] /\ first'.n \in Numbers
  BY <1>1, <1>2
<1>8. QED
  BY <1>2, <1>3, <1>4, <1>5, <1>6, <1>7 DEF Typed, JitterTypeOK

\* Every step keeps the types.
LEMMA TypedStep == Typed /\ [JitterNext]_jitterVars => Typed'
<1> SUFFICES ASSUME Typed, [JitterNext]_jitterVars PROVE Typed'
  OBVIOUS
<1>1. CASE Tick
  BY <1>1, TickTyped
<1>2. ASSUME NEW f \in flight, Lose(f) PROVE Typed'
  BY <1>2 DEF Typed, JitterTypeOK, Lose, Started
<1>3. ASSUME NEW f \in flight, Receive(f) PROVE Typed'
  BY <1>3, ReceiveTyped
<1>4. ASSUME NEW p \in pq, PopReady(p) PROVE Typed'
  <2>1. p.n \in Numbers /\ played \in Seq(Numbers)
    BY DEF Typed, JitterTypeOK
  <2>2. played' \in Seq(Numbers)
    BY <1>4, <2>1, AppendAt DEF PopReady
  <2>3. QED
    BY <1>4, <2>2 DEF Typed, JitterTypeOK, PopReady, Started
<1>5. ASSUME NEW d \in Delays, SetTargetDelay(d) PROVE Typed'
  BY <1>5, NumbersAndDepths DEF Typed, JitterTypeOK, SetTargetDelay, Started
<1>6. CASE UNCHANGED jitterVars
  BY <1>6 DEF Typed, JitterTypeOK, jitterVars, Started
<1>7. QED
  BY <1>1, <1>2, <1>3, <1>4, <1>5, <1>6 DEF JitterNext

\* The buffer, the sender and the network are well typed in every run, for any modulus,
\* limits and depths, with and without a player and pauses.
THEOREM JitterTypeCorrect == JitterSpec => []JitterTypeOK
<1>1. Typed => JitterTypeOK
  BY DEF Typed
<1>2. QED
  BY <1>1, TypedInit, TypedStep, PTL DEF JitterSpec

-----------------------------------------------------------------------------
(* The order of play.                                                      *)

\* The numbers that the following steps calculate with.
LEMMA Amounts ==
    ASSUME Typed, Sender, Playout
    PROVE  /\ now \in Nat /\ count \in Nat /\ next \in Nat /\ Offset \in Int
           /\ target \in Nat \ {0} /\ transit \in Nat /\ budget \in Nat
           /\ first.base \in Int /\ first.n \in Int
           /\ played \in Seq(Numbers) /\ handed \in Seq(Numbers)
           /\ DOMAIN played = 1..Len(played) /\ Len(played) \in Nat
           /\ \A j \in DOMAIN played : played[j] \in Nat
           /\ DOMAIN handed = 1..Len(handed) /\ Len(handed) \in Nat
           /\ \A i \in DOMAIN handed : handed[i] \in Nat
           /\ \A p \in pq : /\ p \in [n : Numbers, play : Int, at : 0..MaxTime]
                            /\ p.n \in Nat /\ p.at \in Nat /\ p.play \in Int
                            /\ p.n = p.at + Offset /\ p.play = p.at + transit + budget
<1>1. /\ now \in 0..MaxTime /\ count \in 0..MaxSent /\ next \in Nat
      /\ target \in Nat \ {0} /\ transit \in 0..MaxTime /\ budget \in Nat
      /\ first.base \in Int /\ first.n \in Int
  BY NumbersAndDepths DEF Typed, JitterTypeOK
<1>2. /\ now \in Nat /\ count \in Nat /\ transit \in Nat /\ Offset \in Int
  BY <1>1, Bounds DEF Offset
<1>3. ASSUME NEW q \in Seq(Numbers)
      PROVE  /\ DOMAIN q = 1..Len(q) /\ Len(q) \in Nat
             /\ \A j \in DOMAIN q : q[j] \in Nat
  <2>1. DOMAIN q = 1..Len(q) /\ Len(q) \in Nat /\ \A j \in 1..Len(q) : q[j] \in Numbers
    BY LenProperties, ElementOfSeq
  <2>2. QED
    BY <2>1, NumbersAndDepths
<1>4. played \in Seq(Numbers) /\ handed \in Seq(Numbers)
  BY DEF Typed, JitterTypeOK
<1>5. ASSUME NEW p \in pq
      PROVE  /\ p \in [n : Numbers, play : Int, at : 0..MaxTime]
             /\ p.n \in Nat /\ p.at \in Nat /\ p.play \in Int
             /\ p.n = p.at + Offset /\ p.play = p.at + transit + budget
  <2>1. p \in [n : Numbers, play : Int, at : 0..MaxTime]
    BY DEF Typed
  <2>2. p.n \in Numbers /\ p.play \in Int /\ p.at \in Nat
    BY <2>1, Bounds
  <2>3. p.n \in Nat
    BY <2>2, NumbersAndDepths
  <2>4. p.n - p.at = Offset /\ p.play = p.at + transit + budget
    BY DEF Playout
  <2>5. QED
    BY <1>2, <2>1, <2>2, <2>3, <2>4
<1>6. QED
  BY <1>1, <1>2, <1>3, <1>4, <1>5

\* A packet in the heap is known by its number, and by when it was sent.
LEMMA Alike ==
    ASSUME Typed, Sender, Playout, NEW p \in pq, NEW q \in pq, p.n = q.n \/ p.at = q.at
    PROVE  p = q
<1> DEFINE n == p.n
           m == q.n
           a == p.at
           b == q.at
           o == Offset
<1>1. /\ p \in [n : Numbers, play : Int, at : 0..MaxTime]
      /\ q \in [n : Numbers, play : Int, at : 0..MaxTime]
      /\ p.play = p.at + transit + budget /\ q.play = q.at + transit + budget
  BY Amounts
<1>2. /\ n \in Int /\ m \in Int /\ a \in Int /\ b \in Int /\ o \in Int
      /\ n = a + o /\ m = b + o /\ (n = m \/ a = b)
  BY Amounts
<1> HIDE DEF n, m, a, b, o
<1>3. n = m /\ a = b
  BY <1>2
<1>4. p.n = q.n /\ p.at = q.at
  BY <1>3 DEF n, m, a, b
<1>5. p.play = q.play
  BY <1>1, <1>4
<1>6. QED
  BY <1>1, <1>4, <1>5

\* While the network keeps its promise the packets in the heap are near each other, and
\* there is a first packet that set transit and budget.
LEMMA Near ==
    ASSUME SteadyStream, Typed, Sender, Playout, InTime, within, NEW p \in pq, NEW q \in pq
    PROVE  /\ Less(p.n, q.n) <=> p.n < q.n
           /\ p.n <= q.n <=> p.play <= q.play
           /\ now - (transit + budget) - 1 <= p.at /\ p.at <= now
           /\ transit + budget + 1 <= Full
<1>1. /\ p.n \in Nat /\ p.at \in Nat /\ p.n = p.at + Offset /\ p.play = p.at + transit + budget
      /\ q.n \in Nat /\ q.at \in Nat /\ q.n = q.at + Offset /\ q.play = q.at + transit + budget
      /\ now \in Nat /\ Offset \in Int /\ transit \in Nat /\ budget \in Nat
  BY Amounts
<1>2. p.at <= now /\ now <= p.play + 1 /\ q.at <= now /\ now <= q.play + 1
  BY DEF InTime
<1>3. transit <= MaxTransit /\ budget \in Configured \cup (MinDelay..MaxDelay)
  BY DEF Playout
<1>4. MaxTransit + budget + 1 <= Full /\ MaxTransit + budget + 1 < SeqMod \div 2
  BY <1>3 DEF SteadyStream
<1>5. MaxTransit \in Nat /\ Full \in Nat /\ SeqMod \div 2 \in Int
  BY Bounds, JitterBufferAssumption DEF JitterBufferAssumption
<1>6. /\ p.n - q.n < SeqMod \div 2 /\ q.n - p.n < SeqMod \div 2
  <2> DEFINE h == SeqMod \div 2
  <2>1. h \in Int /\ MaxTransit + budget + 1 < h
    BY <1>4, <1>5
  <2> HIDE DEF h
  <2>2. p.n - q.n < h /\ q.n - p.n < h
    BY <1>1, <1>2, <1>3, <1>5, <2>1
  <2>3. QED
    BY <2>2 DEF h
<1>7. Less(p.n, q.n) <=> p.n < q.n
  BY <1>1, <1>6, LessIs
<1>8. QED
  BY <1>1, <1>2, <1>3, <1>4, <1>5, <1>7

\* So the top of the heap is the packet with the least number.
LEMMA TopIsLeast ==
    ASSUME SteadyStream, Typed, Sender, Playout, InTime, within
    PROVE  /\ \A p \in pq : Earliest(p) => \A q \in pq : p.n <= q.n
           /\ pq # {} => \E p \in pq : Earliest(p)
<1>1. ASSUME NEW p \in pq, Earliest(p), NEW q \in pq PROVE p.n <= q.n
  <2>1. ~Less(q.n, p.n)
    BY <1>1 DEF Earliest
  <2>2. p.n \in Nat /\ q.n \in Nat
    BY Amounts
  <2>3. QED
    BY <2>1, <2>2, Near
<1>2. ASSUME pq # {} PROVE \E p \in pq : Earliest(p)
  <2> DEFINE T == {p.n : p \in pq}
  <2>1. T \in SUBSET Nat /\ T # {}
    BY <1>2, Amounts
  <2> HIDE DEF T
  <2>2. PICK x \in T : \A y \in T : x <= y
    BY <2>1, Least
  <2>3. PICK p \in pq : p.n = x
    BY <2>2 DEF T
  <2>4. ASSUME NEW q \in pq PROVE ~Less(q.n, p.n)
    <3>1. p.n <= q.n /\ p.n \in Nat /\ q.n \in Nat
      BY <2>2, <2>3, Amounts DEF T
    <3>2. QED
      BY <3>1, Near
  <2>5. QED
    BY <2>4 DEF Earliest
<1>3. QED
  BY <1>1, <1>2

\* The heap is too full only when a packet in it is due: they were sent one per packet
\* time, and no two at the same time.
LEMMA FullIsDue ==
    ASSUME SteadyStream, Typed, Sender, Playout, InTime, within, Cardinality(pq) > Full
    PROVE  \E q \in pq : now > q.play
<1> SUFFICES ASSUME \A q \in pq : ~(now > q.play) PROVE FALSE
  OBVIOUS
<1> DEFINE S == now - (transit + budget)..now
           at == [p \in pq |-> p.at]
<1>1. /\ now \in Nat /\ transit \in Nat /\ budget \in Nat /\ Offset \in Int /\ Full \in Nat
  BY Amounts, Bounds
<1>2. IsFiniteSet(S) /\ Cardinality(S) = transit + budget + 1
  BY <1>1, FS_Interval
<1>3. ASSUME NEW p \in pq PROVE p.at \in S
  <2>1. p.at \in Nat /\ p.play \in Int /\ p.play = p.at + transit + budget /\ p.at <= now
    BY Amounts DEF InTime
  <2>2. QED
    BY <1>1, <2>1
<1>4. ASSUME NEW p \in pq, NEW q \in pq, p.at = q.at PROVE p = q
  BY <1>4, Alike
<1> HIDE DEF S
<1>5. at \in Injection(pq, S)
  BY <1>3, <1>4 DEF Injection, IsInjective
<1>6. Cardinality(pq) <= Cardinality(S)
  BY <1>2, <1>5, FS_Injection
<1>7. IsFiniteSet(pq)
  BY <1>2, <1>5, FS_Injection
<1>8. Cardinality(pq) \in Nat
  BY <1>7, FS_CardinalityType
<1>9. pq # {}
  <2>1. Cardinality({}) = 0
    BY FS_EmptySet
  <2>2. QED
    BY <1>1, <1>8, <2>1
<1>10. transit + budget + 1 <= Full
  BY <1>9, Near
<1>11. QED
  BY <1>1, <1>2, <1>6, <1>8, <1>10

\* What is played is played one packet time after its play time.
LEMMA PlayedOnTime ==
    ASSUME SteadyStream, Typed, Sender, Playout, InTime, within, NEW p \in pq,
           Earliest(p), Ready(p)
    PROVE  now = p.play + 1 /\ \A q \in pq : p.n <= q.n
<1>1. \A q \in pq : p.n <= q.n
  BY TopIsLeast
<1>2. now \in Nat /\ p.play \in Int /\ now <= p.play + 1
  BY Amounts DEF InTime
<1>3. now > p.play
  <2>1. CASE now > p.play
    BY <2>1
  <2>2. CASE Cardinality(pq) > Full
    <3>1. PICK q \in pq : now > q.play
      BY <2>2, FullIsDue
    <3>2. p.play <= q.play /\ q.play \in Int
      BY <1>1, Near, Amounts
    <3>3. QED
      BY <1>2, <3>1, <3>2
  <2>3. QED
    BY <2>1, <2>2 DEF Ready
<1>4. QED
  BY <1>1, <1>2, <1>3

\* A player that has polled leaves nothing in the heap that is due.
LEMMA NothingDue ==
    ASSUME SteadyStream, Typed, Sender, Playout, InTime, within,
           \A p \in pq : Earliest(p) => ~Ready(p), NEW q \in pq
    PROVE  now <= q.play
<1>1. PICK p \in pq : Earliest(p)
  BY TopIsLeast
<1>2. p.n <= q.n /\ ~(now > p.play)
  BY <1>1, TopIsLeast DEF Ready
<1>3. p.play <= q.play /\ p.play \in Int /\ q.play \in Int /\ now \in Nat
  BY <1>2, Near, Amounts
<1>4. QED
  BY <1>2, <1>3

-----------------------------------------------------------------------------
(* The steps of the jitter buffer.                                         *)

\* Nothing is under way at the beginning.
LEMMA JitterInvInit == SteadyStream /\ JitterInit => JitterInv
<1> SUFFICES ASSUME SteadyStream, JitterInit PROVE JitterInv
  OBVIOUS
<1>1. Typed /\ ~Started
  BY TypedInit DEF JitterInit, Started
<1>2. Sender
  BY Bounds DEF JitterInit, Sender
<1>3. Playout
  BY <1>1 DEF JitterInit, Playout
<1>4. DOMAIN handed = {} /\ DOMAIN played = {}
  BY DEF JitterInit
<1>5. InTime /\ JitterAbsorbed
  BY <1>4 DEF JitterInit, InTime, JitterAbsorbed, Increasing
<1>6. QED
  BY <1>1, <1>2, <1>3, <1>5 DEF JitterInv

\* A tick sends a packet or, when all were sent, none; what is in the heap was not due.
LEMMA TickKeepsInv ==
    ASSUME SteadyStream, JitterInv, Tick
    PROVE  JitterInv'
<1>1. Typed /\ Sender /\ Playout /\ InTime /\ JitterAbsorbed /\ Typed'
  BY TickTyped DEF JitterInv
<1>2. /\ now' = now + 1
      /\ UNCHANGED <<pq, target, first, dropped, handed, played, transit, budget, within>>
  BY DEF Tick
<1>3. /\ now \in Nat /\ count \in Nat /\ next \in Nat /\ Offset \in Int /\ MaxSent \in Nat
      /\ MaxTransit \in Nat /\ \A f \in flight : f.at \in Nat
      /\ transit \in Nat /\ budget \in Nat
  BY <1>1, Amounts, Arriving, Bounds
<1>4. Offset' = Offset /\ Sender'
  <2>1. CASE /\ count < MaxSent /\ count' = count + 1 /\ next' = next + 1
             /\ flight' = flight \cup {[n |-> next, at |-> now + 1]}
    <3>1. Offset' = Offset /\ count = now
      BY <1>1, <1>3, <2>1 DEF Offset, Sender
    <3>2. ASSUME NEW f \in flight'
          PROVE  f.n - f.at = Offset /\ f.at <= now' /\ now' - f.at <= MaxTransit
      <4>1. CASE f \in flight
        BY <1>1, <1>2, <1>3, <4>1 DEF Sender, Tick
      <4>2. CASE f = [n |-> next, at |-> now + 1]
        BY <1>2, <1>3, <3>1, <4>2 DEF Offset
      <4>3. QED
        BY <2>1, <4>1, <4>2
    <3>3. count' <= now' /\ (count' < MaxSent => count' = now')
      BY <1>2, <1>3, <2>1, <3>1
    <3>4. QED
      BY <3>1, <3>2, <3>3 DEF Sender
  <2>2. CASE count = MaxSent /\ UNCHANGED <<count, next, flight>>
    <3>1. Offset' = Offset
      BY <2>2 DEF Offset
    <3>2. \A f \in flight : /\ f.n - f.at = Offset /\ f.at <= now' /\ now' - f.at <= MaxTransit
      BY <1>1, <1>2, <1>3 DEF Sender, Tick
    <3>3. count' <= now' /\ ~(count' < MaxSent)
      BY <1>1, <1>2, <1>3, <2>2 DEF Sender
    <3>4. QED
      BY <2>2, <3>1, <3>2, <3>3 DEF Sender
  <2>3. QED
    BY <2>1, <2>2 DEF Tick, SteadyStream
<1>5. Playout'
  BY <1>1, <1>2, <1>4 DEF Playout, Started
<1>6. InTime'
  <2> SUFFICES ASSUME within PROVE InTime'
    BY <1>2 DEF InTime
  <2>1. ASSUME NEW p \in pq PROVE p.at <= now' /\ now' <= p.play + 1
    <3>1. now <= p.play
      BY <1>1, NothingDue DEF Tick, SteadyStream
    <3>2. p.at <= now /\ p.at \in Nat /\ p.play \in Int
      BY <1>1, Amounts DEF InTime
    <3>3. QED
      BY <1>2, <1>3, <3>1, <3>2
  <2>2. ASSUME NEW j \in DOMAIN played
        PROVE  played[j] - Offset + transit + budget < now'
    <3>1. played[j] \in Nat /\ played[j] - Offset + transit + budget < now
      BY <1>1, Amounts DEF InTime
    <3>2. QED
      BY <1>2, <1>3, <3>1
  <2>3. QED
    BY <1>1, <1>2, <1>4, <2>1, <2>2 DEF InTime
<1>7. JitterAbsorbed'
  BY <1>1, <1>2 DEF JitterAbsorbed, Increasing
<1>8. QED
  BY <1>1, <1>4, <1>5, <1>6, <1>7 DEF JitterInv

\* A packet that is played is the first one, and all before it were.
LEMMA PopReadyKeepsInv ==
    ASSUME SteadyStream, JitterInv, Typed', NEW p \in pq, PopReady(p)
    PROVE  JitterInv'
<1>1. Typed /\ Sender /\ Playout /\ InTime /\ JitterAbsorbed
  BY DEF JitterInv
<1>2. /\ pq' = pq \ {p} /\ played' = Append(played, p.n) /\ Earliest(p) /\ Ready(p)
      /\ UNCHANGED <<now, count, next, flight, target, first, dropped, handed,
                     transit, budget, within>>
  BY DEF PopReady
<1>3. Sender' /\ Offset' = Offset
  BY <1>1, <1>2 DEF Sender, Offset
<1>4. Playout'
  BY <1>1, <1>2, <1>3 DEF Playout, Started
<1>5. /\ p.n \in Numbers /\ p.n \in Nat /\ p.play \in Int /\ p.n = p.at + Offset
      /\ p.play = p.at + transit + budget /\ p.at \in Nat
      /\ transit \in Nat /\ budget \in Nat /\ Offset \in Int /\ now \in Nat
      /\ played \in Seq(Numbers)
  BY <1>1, Amounts
<1>6. /\ DOMAIN played = 1..Len(played) /\ DOMAIN played' = 1..Len(played) + 1
      /\ Len(played) \in Nat
      /\ \A j \in 1..Len(played) : played'[j] = played[j] /\ played[j] \in Nat
      /\ played'[Len(played) + 1] = p.n
  BY <1>1, <1>2, <1>5, AppendAt, Amounts
<1> DEFINE last == Len(played) + 1
<1>7. /\ DOMAIN played' = DOMAIN played \cup {last} /\ last \in Nat /\ last = Len(played) + 1
      /\ \A j \in DOMAIN played : played'[j] = played[j] /\ j < last /\ j \in Nat
      /\ played'[last] = p.n
  BY <1>6
<1> HIDE DEF last
<1> SUFFICES InTime' /\ JitterAbsorbed'
  BY <1>3, <1>4 DEF JitterInv
<1>8. CASE ~within
  BY <1>2, <1>8 DEF InTime, JitterAbsorbed
<1>9. CASE within
  <2>1. now = p.play + 1 /\ \A q \in pq : p.n <= q.n
    BY <1>1, <1>2, <1>9, PlayedOnTime
  <2>2. ASSUME NEW q \in pq' PROVE p.n < q.n
    <3>1. q \in pq /\ q # p /\ p.n <= q.n
      BY <1>2, <2>1
    <3>2. p.n # q.n /\ q.n \in Nat
      BY <1>1, <3>1, Alike, Amounts
    <3>3. QED
      BY <1>5, <3>1, <3>2
  <2>3. ASSUME NEW j \in DOMAIN played' PROVE played'[j] - Offset + transit + budget < now
    <3>1. CASE j \in DOMAIN played
      BY <1>1, <1>7, <1>9, <3>1 DEF InTime
    <3>2. CASE j = last
      <4> DEFINE n == p.n
                 a == p.at
                 o == Offset
      <4>1. /\ n \in Int /\ a \in Int /\ o \in Int /\ n = a + o /\ now = (a + transit + budget) + 1
            /\ played'[j] = n /\ transit \in Int /\ budget \in Int
        BY <1>5, <1>7, <2>1, <3>2
      <4> HIDE DEF n, a, o
      <4>2. n - o + transit + budget < now
        BY <4>1
      <4>3. QED
        BY <4>1, <4>2 DEF n, o
    <3>3. QED
      BY <1>7, <3>1, <3>2
  <2>4. ASSUME NEW j \in DOMAIN played', NEW q \in pq' PROVE played'[j] < q.n
    <3>1. CASE j \in DOMAIN played
      BY <1>1, <1>2, <1>7, <1>9, <3>1 DEF InTime
    <3>2. CASE j = last
      BY <1>7, <2>2, <3>2
    <3>3. QED
      BY <1>7, <3>1, <3>2
  <2>5. ASSUME NEW i \in DOMAIN handed
        PROVE  \/ \E q \in pq' : q.n = handed[i]
               \/ \E k \in DOMAIN played' : played'[k] = handed[i]
    <3>1. CASE \E k \in DOMAIN played : played[k] = handed[i]
      BY <1>7, <3>1
    <3>2. CASE handed[i] = p.n
      BY <1>7, <3>2
    <3>3. CASE \E q \in pq : q.n = handed[i] /\ q # p
      BY <1>2, <3>3
    <3>4. QED
      BY <1>1, <1>9, <3>1, <3>2, <3>3 DEF InTime
  <2>6. \A q \in pq' : p.at \in Nat /\ q.at <= now /\ now <= q.play + 1
    BY <1>1, <1>2, <1>5, <1>9 DEF InTime
  <2>7. InTime'
    BY <1>2, <1>3, <2>3, <2>4, <2>5, <2>6 DEF InTime
  <2>8. dropped' = {} /\ Increasing(played)
    BY <1>1, <1>2, <1>9 DEF JitterAbsorbed
  <2>9. \A j \in DOMAIN played : played[j] < p.n
    BY <1>1, <1>9 DEF InTime
  <2>10. Increasing(played')
    <3> SUFFICES ASSUME NEW i \in DOMAIN played', NEW j \in DOMAIN played', i < j
                 PROVE  played'[i] < played'[j]
      BY DEF Increasing
    <3>1. CASE j \in DOMAIN played
      <4>1. i \in DOMAIN played
        BY <1>7, <3>1
      <4>2. QED
        BY <1>7, <2>8, <3>1, <4>1 DEF Increasing
    <3>2. CASE j = last
      <4>1. i \in DOMAIN played
        BY <1>7, <3>2
      <4>2. QED
        BY <1>7, <2>9, <3>2, <4>1
    <3>3. QED
      BY <1>7, <3>1, <3>2
  <2>11. ASSUME NEW i \in DOMAIN handed, NEW j \in DOMAIN played', handed[i] < played'[j]
         PROVE  \E k \in 1..j - 1 : played'[k] = handed[i]
    <3>1. CASE j \in DOMAIN played
      <4>1. PICK k \in 1..j - 1 : played[k] = handed[i]
        BY <1>1, <1>7, <1>9, <2>11, <3>1 DEF JitterAbsorbed
      <4>2. k \in DOMAIN played
        BY <1>6, <3>1, <4>1
      <4>3. QED
        BY <1>7, <4>1, <4>2
    <3>2. CASE j = last
      <4>1. handed[i] < p.n /\ handed[i] \in Nat
        BY <1>1, <1>7, <2>11, <3>2, Amounts
      <4>2. ASSUME NEW q \in pq PROVE q.n # handed[i]
        <5>1. p.n <= q.n /\ p.n \in Nat /\ q.n \in Nat
          BY <1>1, <2>1, Amounts
        <5>2. QED
          BY <4>1, <5>1
      <4>3. PICK k \in DOMAIN played : played[k] = handed[i]
        BY <1>1, <1>9, <4>2 DEF InTime
      <4>4. k \in 1..j - 1 /\ played'[k] = handed[i]
        BY <1>6, <1>7, <3>2, <4>3
      <4>5. QED
        BY <4>4
    <3>3. QED
      BY <1>7, <3>1, <3>2
  <2>12. JitterAbsorbed'
    BY <1>2, <2>8, <2>10, <2>11 DEF JitterAbsorbed
  <2>13. QED
    BY <2>7, <2>12
<1>10. QED
  BY <1>8, <1>9

\* A packet that arrives in time comes before its play time, and so after everything
\* that was played.
LEMMA ReceiveKeepsInv ==
    ASSUME SteadyStream, JitterInv, NEW f \in flight, Receive(f)
    PROVE  JitterInv'
<1>1. Typed /\ Sender /\ Playout /\ InTime /\ JitterAbsorbed /\ Typed'
  BY ReceiveTyped DEF JitterInv
<1>2. /\ f.n \in Numbers /\ f.n \in Nat /\ f.at \in Nat /\ now \in Nat /\ target \in Nat \ {0}
      /\ Base(f.n) # NotStarted
      /\ ~Started => Base(f.n) = [base |-> now + target, n |-> f.n]
      /\ Started => Base(f.n) = first
  BY <1>1, Arriving
<1>3. /\ f.n - f.at = Offset /\ f.at <= now /\ now - f.at <= MaxTransit
      /\ Offset \in Int /\ transit \in Nat /\ budget \in Nat /\ MaxTransit \in Nat
      /\ first.base \in Int /\ first.n \in Int
  BY <1>1, Amounts, Bounds DEF Sender
<1>4. /\ flight' = flight \ {f} /\ first' = Base(f.n) /\ handed' = Append(handed, f.n)
      /\ UNCHANGED <<now, count, next, target, played>>
  BY DEF Receive, Push
<1>5. Sender' /\ Offset' = Offset
  BY <1>1, <1>4 DEF Sender, Offset
<1>6. /\ Started'
      /\ transit' \in Nat /\ transit' <= MaxTransit
      /\ budget' \in Configured \cup (MinDelay..MaxDelay) /\ budget' \in Nat
      /\ first'.base - first'.n = transit' + budget' - Offset
      /\ first'.base \in Int /\ first'.n \in Int
      /\ Started => transit' = transit /\ budget' = budget
  <2>1. CASE Started
    <3>1. transit' = transit /\ budget' = budget /\ first' = first
      BY <1>2, <1>4, <2>1 DEF Receive
    <3>2. QED
      BY <1>1, <1>3, <2>1, <3>1 DEF Playout, Started
  <2>2. CASE ~Started
    <3>1. transit' = now - f.at /\ budget' = target
          /\ first' = [base |-> now + target, n |-> f.n]
      BY <1>2, <1>4, <2>2 DEF Receive
    <3>2. target \in Configured \cup (MinDelay..MaxDelay)
      BY <1>1 DEF Typed, JitterTypeOK
    <3>3. first'.base = now + target /\ first'.n = f.n
      BY <3>1
    <3>4. Started'
      BY <1>2, <1>4 DEF Started, NotStarted
    <3>5. first'.base - first'.n = transit' + budget' - Offset
      BY <1>2, <1>3, <3>1, <3>3
    <3>6. QED
      BY <1>2, <1>3, <2>2, <3>1, <3>2, <3>3, <3>4, <3>5
  <2>3. QED
    BY <2>1, <2>2
<1>7. PlayTime(f.n) = f.at + transit' + budget' /\ PlayTime(f.n) \in Int
  <2>1. PlayTime(f.n) = first'.base + (f.n - first'.n)
    BY <1>4 DEF PlayTime
  <2> DEFINE x == first'.base
             y == first'.n
             n == f.n
             a == f.at
             t == transit'
             u == budget'
             o == Offset
  <2>2. /\ x \in Int /\ y \in Int /\ n \in Int /\ a \in Int /\ t \in Int /\ u \in Int
        /\ o \in Int /\ x - y = t + u - o /\ n - a = o
    BY <1>2, <1>3, <1>6
  <2> HIDE DEF x, y, n, a, t, u, o
  <2>3. x + (n - y) = a + t + u /\ x + (n - y) \in Int
    BY <2>2
  <2>4. QED
    BY <2>1, <2>3 DEF x, y, n, a, t, u
<1> DEFINE new == [n |-> f.n, play |-> PlayTime(f.n), at |-> f.at]
<1>8. new.n = f.n /\ new.play = PlayTime(f.n) /\ new.at = f.at
  OBVIOUS
<1>9. pq' = pq \/ pq' = pq \cup {new}
  BY DEF Receive, Push
<1> HIDE DEF new
<1>10. \A p \in pq : Started /\ p.n - p.at = Offset /\ p.play = p.at + transit + budget
  BY <1>1 DEF Playout
<1>11. Playout'
  <2>1. ASSUME NEW p \in pq' PROVE p.n - p.at = Offset' /\ p.play = p.at + transit' + budget'
    <3>1. CASE p \in pq
      BY <1>5, <1>6, <1>10, <3>1
    <3>2. CASE p = new
      BY <1>3, <1>5, <1>7, <1>8, <3>2
    <3>3. QED
      BY <1>9, <3>1, <3>2
  <2>2. QED
    BY <1>5, <1>6, <2>1 DEF Playout
<1> SUFFICES ASSUME within' PROVE InTime' /\ JitterAbsorbed'
  BY <1>1, <1>5, <1>11 DEF JitterInv, InTime, JitterAbsorbed
<1>12. within /\ now <= PlayTime(f.n)
  <2>1. CASE Started
    <3>1. within /\ now - f.at <= transit + budget
      BY <2>1 DEF Receive
    <3>2. transit' = transit /\ budget' = budget
      BY <1>6, <2>1
    <3>3. QED
      BY <1>2, <1>3, <1>7, <3>1, <3>2
  <2>2. CASE ~Started
    <3>1. within /\ transit' = now - f.at
      BY <2>2 DEF Receive
    <3>2. QED
      BY <1>2, <1>6, <1>7, <3>1
  <2>3. QED
    BY <2>1, <2>2
<1>13. ~TooLate(f.n)
  BY <1>2, <1>7, <1>12 DEF TooLate
<1>14. pq' = pq \cup {new} /\ dropped' = dropped
  BY <1>13 DEF Receive, Push, new
<1>15. DOMAIN played # {} => Started
  <2>1. DOMAIN << >> = {}
    OBVIOUS
  <2>2. QED
    BY <1>1, <2>1 DEF Playout
<1>16. \A j \in DOMAIN played :
         /\ played[j] \in Nat /\ played[j] - Offset + transit + budget < now
         /\ transit' = transit /\ budget' = budget
         /\ \A p \in pq : played[j] < p.n
  BY <1>1, <1>6, <1>12, <1>15, Amounts DEF InTime
<1>17. ASSUME NEW j \in DOMAIN played PROVE played[j] < f.n
  <2>1. /\ played[j] \in Nat /\ played[j] - Offset + transit + budget < now
        /\ now <= f.at + transit + budget
    BY <1>7, <1>12, <1>16
  <2>2. QED
    BY <1>2, <1>3, <2>1
<1>18. handed \in Seq(Numbers)
  BY <1>1, Amounts
<1>19. /\ DOMAIN handed = 1..Len(handed) /\ DOMAIN handed' = 1..Len(handed) + 1
       /\ Len(handed) \in Nat
       /\ \A i \in 1..Len(handed) : handed'[i] = handed[i]
       /\ handed'[Len(handed) + 1] = f.n
  BY <1>2, <1>4, <1>18, AppendAt
<1>20. \A i \in DOMAIN handed' :
         (i \in DOMAIN handed /\ handed'[i] = handed[i]) \/ handed'[i] = f.n
  BY <1>19
<1>21. InTime'
  <2>1. ASSUME NEW p \in pq' PROVE p.at <= now /\ now <= p.play + 1
    <3>1. CASE p \in pq
      BY <1>1, <1>12, <3>1 DEF InTime
    <3>2. CASE p = new
      BY <1>2, <1>3, <1>7, <1>8, <1>12, <3>2
    <3>3. QED
      BY <1>14, <3>1, <3>2
  <2>2. ASSUME NEW j \in DOMAIN played, NEW p \in pq' PROVE played[j] < p.n
    BY <1>8, <1>14, <1>16, <1>17
  <2>3. ASSUME NEW i \in DOMAIN handed'
        PROVE  \/ \E p \in pq' : p.n = handed'[i]
               \/ \E k \in DOMAIN played : played[k] = handed'[i]
    <3>1. CASE i \in DOMAIN handed /\ handed'[i] = handed[i]
      BY <1>1, <1>12, <1>14, <3>1 DEF InTime
    <3>2. CASE handed'[i] = f.n
      BY <1>8, <1>14, <3>2
    <3>3. QED
      BY <1>20, <3>1, <3>2
  <2>4. QED
    BY <1>4, <1>5, <1>16, <2>1, <2>2, <2>3 DEF InTime
<1>22. JitterAbsorbed'
  <2>1. dropped' = {} /\ Increasing(played')
    BY <1>1, <1>4, <1>12, <1>14 DEF JitterAbsorbed
  <2>2. ASSUME NEW i \in DOMAIN handed', NEW j \in DOMAIN played, handed'[i] < played[j]
        PROVE  \E k \in 1..j - 1 : played[k] = handed'[i]
    <3>1. CASE i \in DOMAIN handed /\ handed'[i] = handed[i]
      BY <1>1, <1>12, <2>2, <3>1 DEF JitterAbsorbed
    <3>2. CASE handed'[i] = f.n
      BY <1>2, <1>16, <1>17, <2>2, <3>2
    <3>3. QED
      BY <1>20, <3>1, <3>2
  <2>3. QED
    BY <1>4, <2>1, <2>2 DEF JitterAbsorbed
<1>23. QED
  BY <1>21, <1>22

\* Every step keeps the invariant.
LEMMA JitterInvStep ==
    ASSUME SteadyStream, JitterInv, [JitterNext]_jitterVars
    PROVE  JitterInv'
<1>1. Typed'
  BY TypedStep DEF JitterInv
<1>2. CASE Tick
  BY <1>2, TickKeepsInv
<1>3. ASSUME NEW f \in flight, Lose(f) PROVE JitterInv'
  BY <1>1, <1>3 DEF Lose, JitterInv, Sender, Playout, InTime, JitterAbsorbed, Offset, Started
<1>4. ASSUME NEW f \in flight, Receive(f) PROVE JitterInv'
  BY <1>4, ReceiveKeepsInv
<1>5. ASSUME NEW p \in pq, PopReady(p) PROVE JitterInv'
  BY <1>1, <1>5, PopReadyKeepsInv
<1>6. ASSUME NEW d \in Delays, SetTargetDelay(d) PROVE JitterInv'
  BY <1>1, <1>6 DEF SetTargetDelay, JitterInv, Sender, Playout, InTime, JitterAbsorbed,
     Offset, Started
<1>7. CASE UNCHANGED jitterVars
  BY <1>1, <1>7 DEF jitterVars, JitterInv, Sender, Playout, InTime, JitterAbsorbed,
     Offset, Started
<1>8. QED
  BY <1>2, <1>3, <1>4, <1>5, <1>6, <1>7 DEF JitterNext

\* Of a steady stream that somebody plays, whose packets are delayed no longer than the
\* first one by more than the target delay, nothing is dropped, and it is played in
\* order without a gap, for any modulus of the numbers, depths and changes of the depth
\* that leave room (Push, PopReady and jitterHeap of media/jitter_buffer.go).
THEOREM StreamAbsorbed ==
    ASSUME SteadyStream
    PROVE  JitterSpec => []JitterAbsorbed
<1>1. JitterInv => JitterAbsorbed
  BY DEF JitterInv
<1>2. QED
  BY <1>1, JitterInvInit, JitterInvStep, PTL DEF JitterSpec

\* And each packet of it is played the same time after it was sent.
THEOREM StreamPlayedEvenly ==
    ASSUME SteadyStream
    PROVE  JitterSpec => PlayoutSteady
<1> DEFINE Even == \A p \in pq : PopReady(p) /\ within => now = p.at + transit + budget + 1
<1>1. JitterInv => Even
  <2> SUFFICES ASSUME JitterInv, NEW p \in pq, PopReady(p), within
               PROVE  now = p.at + transit + budget + 1
    OBVIOUS
  <2>1. Typed /\ Sender /\ Playout /\ InTime
    BY DEF JitterInv
  <2>2. now = p.play + 1
    BY <2>1, PlayedOnTime DEF PopReady
  <2>3. p.play = p.at + transit + budget
    BY <2>1 DEF Playout
  <2>4. QED
    BY <2>2, <2>3
<1>2. JitterInv /\ [JitterNext]_jitterVars => [Even]_jitterVars
  BY <1>1
<1>3. QED
  BY <1>2, JitterInvInit, JitterInvStep, PTL DEF JitterSpec, PlayoutSteady

-----------------------------------------------------------------------------
(* A capture and its analysis (Capture).                                   *)

\* What is assumed for the analyzer, which keeps one number and one span for all the
\* streams of a capture.
OneStream == \E s : Streams = {s}

\* What is assumed for the audio: no packet of the mu-law says the sample it loses.
Speakable ==
    \A n \in 1..MaxPackets : Voice[n].law = "PCMU" => Voice[n].sample # Unspeakable

Packets ==
    [from : Streams, n : 1..MaxPackets, seq : 0..Modulus - 1, law : {"PCMA", "PCMU"},
     audio : Byte, ext : Byte \cup {NoExt}]

SipMessage == [from |-> "SIP"]

Interval == Nat \X Nat

Drawing == [type : {"SIP", "PTT", "SQU"}, span : Interval]

Report ==
    [sip : Nat, rtp : Counters, ptt : {<< >>} \cup Interval, squ : {<< >>} \cup Interval,
     timeline : Seq(Drawing), pcm : Seq({Decoded(p) : p \in Packets})]

\* The report when the last packet was taken in, before what is still on is drawn.
SoFar == Reports(tape)[Len(tape)]

CaptureTyped ==
    /\ start \in [Streams -> FirstNumbers]
    /\ said \in [Streams -> Seq(Headers)] /\ \A s \in Streams : Len(said[s]) <= MaxPackets
    /\ underway \subseteq Packets /\ tape \in Seq(Packets \cup {SipMessage})
    /\ stats \in [Streams -> Counters] /\ SoFar \in Report

\* A packet says what its sender said when it was its turn.
Sent(p, begin, words) ==
    LET h == words[p.from][p.n]
    IN /\ p.n <= Len(words[p.from]) /\ p.seq = (begin[p.from] + p.n - 1) % Modulus
       /\ p.law = Voice[p.n].law /\ p.audio = Encoded(Voice[p.n])
       /\ p.ext = IF h = NoExt THEN NoExt ELSE EncodePayload(h)

FromSenders ==
    /\ \A p \in underway : Sent(p, start, said)
    /\ \A i \in DOMAIN tape : tape[i].from # "SIP" => Sent(tape[i], start, said)

\* The receiver knows the packet that came last, and has counted what is missing.
Counting(s) ==
    /\ stats[s].has <=> Of(s) # {}
    /\ \A i \in Of(s) : (\A j \in Of(s) : j <= i) => stats[s].last = tape[i].seq
    /\ Steady(s) => /\ stats[s].lost >= Cardinality(Missing(s))
                    /\ InOrder(s) => stats[s].lost = Cardinality(Missing(s))

\* Every packet's audio has its place.
Restored ==
    /\ Len(SoFar.pcm) = Cardinality(Voiced)
    /\ \A i \in Voiced :
         SoFar.pcm[Cardinality({j \in Voiced : j <= i})] = Decoded(tape[i])

CaptureInv ==
    CaptureTyped /\ FromSenders /\ (\A s \in Streams : Counting(s)) /\ Restored

\* The spans of a type on a timeline, and that they are in order.
Shown(timeline, type) ==
    {timeline[k].span : k \in {k \in DOMAIN timeline : timeline[k].type = type}}

Ordered(timeline, type) ==
    \A k, l \in DOMAIN timeline :
        timeline[k].type = type /\ timeline[l].type = type /\ k < l =>
            timeline[k].span[2] < timeline[l].span[1]

\* What is drawn are the runs of X among Y that are over, in order, and the open span
\* is the one that is not.
Tracks(open, timeline, type, X, Y) ==
    /\ Ordered(timeline, type)
    /\ open = << >> => /\ Shown(timeline, type) = Runs(X, Y)
                       /\ \A x \in X : \E y \in Y \ X : x < y
    /\ open # << >> => /\ open \in Runs(X, Y) /\ \A y \in Y : y <= open[2]
                       /\ Shown(timeline, type) = Runs(X, Y) \ {open}
                       /\ \A r \in Shown(timeline, type) : r[2] < open[1]

\* The analyzer counts what the receiver counts, and follows its key and its carrier.
Analyzed(s) ==
    /\ SoFar.rtp = stats[s]
    /\ Tracks(SoFar.ptt, SoFar.timeline, "PTT", Keyed(s), Telling(s))
    /\ Tracks(SoFar.squ, SoFar.timeline, "SQU", Carried(s), Telling(s))

AnalyzedInv == CaptureInv /\ \A s \in Streams : Analyzed(s)

\* What holds of zero and with each number of the next one holds up to any number.
LEMMA Induction ==
    ASSUME NEW n \in Nat, NEW T, 0 \in T,
           \A k \in 0..n - 1 : k \in T => k + 1 \in T
    PROVE  \A k \in 0..n : k \in T
<1> DEFINE U == {k \in 0..n : k \notin T}
<1> SUFFICES ASSUME U # {} PROVE FALSE
  OBVIOUS
<1>1. U \in SUBSET Nat
  OBVIOUS
<1> HIDE DEF U
<1>2. PICK x \in U : \A y \in U : x <= y
  BY <1>1, Least
<1>3. x \in 0..n /\ x \notin T /\ x # 0
  BY <1>2 DEF U
<1>4. x - 1 \in 0..n - 1 /\ x - 1 \notin U
  BY <1>2, <1>3
<1>5. x - 1 \in T
  BY <1>4 DEF U
<1> QED BY <1>3, <1>4, <1>5

\* The reports after each packet of a capture are what their definition says: a
\* report for each packet, made of the one before it.
LEMMA ReportsFollow ==
    ASSUME NEW q, Len(q) \in Nat
    PROVE  /\ Reports(q)[0] = NewReport
           /\ \A i \in 1..Len(q) : Reports(q)[i] = Dissect(Reports(q)[i - 1], i, q[i])
<1> DEFINE n == Len(q)
           Made(g, i) == IF i = 0 THEN NewReport ELSE Dissect(g[i - 1], i, q[i])
           Is(g, k) == g = [i \in 0..k |-> Made(g, i)]
           T == {k \in 0..n : \E g : Is(g, k)}
<1> HIDE DEF n
<1>1. n \in Nat
  BY DEF n
<1>2. 0 \in T
  <2> DEFINE g == [i \in 0..0 |-> NewReport]
  <2>1. g = [i \in 0..0 |-> Made(g, i)]
    OBVIOUS
  <2>2. Is(g, 0)
    BY <2>1
  <2> HIDE DEF Is, g
  <2> QED BY <1>1, <2>2
<1>3. ASSUME NEW k \in 0..n - 1, k \in T
      PROVE  k + 1 \in T
  <2>1. PICK g : Is(g, k)
    BY <1>3
  <2> DEFINE h == [i \in 0..k + 1 |-> IF i = k + 1 THEN Made(g, i) ELSE g[i]]
  <2>2. ASSUME NEW i \in 0..k + 1
        PROVE  h[i] = Made(h, i)
    <3>1. CASE i = k + 1
      <4>1. i # 0 /\ i - 1 \in 0..k + 1 /\ i - 1 # k + 1 /\ h[i - 1] = g[i - 1]
        BY <3>1, <1>1
      <4>2. h[i] = Made(g, i)
        BY <3>1
      <4> HIDE DEF h
      <4> QED BY <4>1, <4>2
    <3>2. CASE i # k + 1
      <4>1. i \in 0..k /\ (i # 0 => i - 1 \in 0..k + 1 /\ i - 1 # k + 1)
        BY <3>2, <1>1
      <4>2. h[i] = g[i] /\ (i # 0 => h[i - 1] = g[i - 1])
        BY <4>1, <3>2
      <4>3. g[i] = Made(g, i)
        BY <2>1, <4>1
      <4> HIDE DEF h
      <4> QED BY <4>2, <4>3
    <3> QED BY <3>1, <3>2
  <2>3. h = [i \in 0..k + 1 |-> h[i]]
    OBVIOUS
  <2> HIDE DEF h
  <2>4. Is(h, k + 1)
    BY <2>2, <2>3
  <2> HIDE DEF Is
  <2> QED BY <1>1, <2>4
<1>4. n \in T
  <2> HIDE DEF T
  <2>1. \A k \in 0..n : k \in T
    BY <1>1, <1>2, <1>3, Induction
  <2> QED BY <1>1, <2>1
<1>5. PICK g : Is(g, n)
  BY <1>4
<1>6. Is(Reports(q), n)
  <2> DEFINE after == CHOOSE f : f = [i \in 0..n |-> Made(f, i)]
  <2>1. Reports(q) = after
    BY DEF Reports, n
  <2>2. after = [i \in 0..n |-> Made(after, i)]
    BY <1>5
  <2> QED BY <2>1, <2>2
<1> QED BY <1>1, <1>6 DEF n

\* One packet more: the report so far goes on with it.
LEMMA OneMore ==
    ASSUME NEW S, NEW q \in Seq(S), NEW p \in S
    PROVE  /\ Len(Append(q, p)) = Len(q) + 1 /\ Len(q) \in Nat
           /\ Reports(Append(q, p))[Len(q) + 1] = Dissect(Reports(q)[Len(q)], Len(q) + 1, p)
<1> DEFINE n == Len(q)
           r == Append(q, p)
           T == {k \in 0..n : Reports(r)[k] = Reports(q)[k]}
<1>1. /\ n \in Nat /\ r \in Seq(S) /\ Len(r) = n + 1 /\ r[n + 1] = p
      /\ \A i \in 1..n : r[i] = q[i]
  BY AppendProperties, LenProperties
<1> HIDE DEF n, r
<1>2. /\ Reports(q)[0] = NewReport
      /\ \A i \in 1..n : Reports(q)[i] = Dissect(Reports(q)[i - 1], i, q[i])
  BY <1>1, ReportsFollow DEF n
<1>3. /\ Reports(r)[0] = NewReport
      /\ \A i \in 1..n + 1 : Reports(r)[i] = Dissect(Reports(r)[i - 1], i, r[i])
  BY <1>1, ReportsFollow
<1>4. 0 \in T
  BY <1>1, <1>2, <1>3
<1>5. ASSUME NEW k \in 0..n - 1, k \in T
      PROVE  k + 1 \in T
  <2>1. k + 1 \in 1..n /\ k + 1 \in 1..n + 1 /\ k + 1 - 1 = k /\ k + 1 \in 0..n
    BY <1>1
  <2>2. r[k + 1] = q[k + 1] /\ Reports(r)[k] = Reports(q)[k]
    BY <1>1, <1>5, <2>1
  <2> QED BY <1>2, <1>3, <2>1, <2>2
<1>6. n \in T
  <2> HIDE DEF T
  <2>1. \A k \in 0..n : k \in T
    BY <1>1, <1>4, <1>5, Induction
  <2> QED BY <1>1, <2>1
<1>7. n + 1 \in 1..n + 1 /\ n + 1 - 1 = n
  BY <1>1
<1>8. Reports(r)[n + 1] = Dissect(Reports(r)[n], n + 1, p)
  BY <1>1, <1>3, <1>7
<1> QED BY <1>1, <1>6, <1>8 DEF n, r, T
-----------------------------------------------------------------------------
(* The companding laws (G711).                                             *)

\* The powers the laws are made of.
LEMMA Powers ==
    /\ 2^0 = 1 /\ 2^1 = 2 /\ 2^2 = 4 /\ 2^3 = 8 /\ 2^4 = 16 /\ 2^5 = 32
    /\ 2^6 = 64 /\ 2^7 = 128 /\ 2^8 = 256 /\ 2^9 = 512 /\ 2^10 = 1024 /\ 2^11 = 2048
OBVIOUS

\* A sample has sixteen bits.
LEMMA Samples == \A v : v \in Int16 <=> v \in Int /\ -32768 <= v /\ v <= 32767
<1>1. 2^15 = 32768
  OBVIOUS
<1> QED BY <1>1 DEF Int16

\* A byte is its sign, its segment and its place.
LEMMA ByteParts ==
    ASSUME NEW sign \in {0, 1}, NEW seg \in 0..7, NEW place \in 0..15
    PROVE  LET b == 128 * sign + 16 * seg + place
           IN /\ b \in Byte /\ Negative(b) = sign /\ Segment(b) = seg /\ Place(b) = place
<1> DEFINE b == 128 * sign + 16 * seg + place
<1>1. b \in Byte
  BY DEF Byte
<1>2. b \div 128 = sign
  OBVIOUS
<1>3. b \div 16 = 8 * sign + seg
  OBVIOUS
<1>4. (8 * sign + seg) % 8 = seg
  OBVIOUS
<1>5. b % 16 = place
  OBVIOUS
<1> QED BY <1>1, <1>2, <1>3, <1>4, <1>5 DEF Negative, Segment, Place

\* Turning the bits of a byte over twice leaves it as it is.
LEMMA TurnedBack ==
    ASSUME NEW b \in Byte
    PROVE  Xor55(b) \in Byte /\ Xor55(Xor55(b)) = b
<1> DEFINE b0 == b % 2           b1 == (b \div 2) % 2
           b2 == (b \div 4) % 2  b3 == (b \div 8) % 2
           b4 == (b \div 16) % 2 b5 == (b \div 32) % 2
           b6 == (b \div 64) % 2 b7 == b \div 128
<1>1. /\ b0 \in {0, 1} /\ b1 \in {0, 1} /\ b2 \in {0, 1} /\ b3 \in {0, 1}
      /\ b4 \in {0, 1} /\ b5 \in {0, 1} /\ b6 \in {0, 1} /\ b7 \in {0, 1}
      /\ b = b0 + 2 * b1 + 4 * b2 + 8 * b3 + 16 * b4 + 32 * b5 + 64 * b6 + 128 * b7
  BY DEF Byte
<1> HIDE DEF b0, b1, b2, b3, b4, b5, b6, b7
<1> DEFINE Sum(c0, c2, c4, c6) ==
             c0 + 2 * b1 + 4 * c2 + 8 * b3 + 16 * c4 + 32 * b5 + 64 * c6 + 128 * b7
<1>2. ASSUME NEW c0 \in {0, 1}, NEW c2 \in {0, 1}, NEW c4 \in {0, 1}, NEW c6 \in {0, 1}
      PROVE  /\ Sum(c0, c2, c4, c6) \in Byte
             /\ Xor55(Sum(c0, c2, c4, c6)) = Sum(1 - c0, 1 - c2, 1 - c4, 1 - c6)
  <2> DEFINE c == Sum(c0, c2, c4, c6)
  <2>1. c \in Byte /\ c \in Int
    BY <1>1 DEF Byte
  <2>2. (c \div 1) % 2 = c0
    BY <1>1
  <2>3. (c \div 4) % 2 = c2
    <3>1. c \div 4 = c2 + 2 * b3 + 4 * c4 + 8 * b5 + 16 * c6 + 32 * b7
      BY <1>1
    <3> QED BY <1>1, <3>1
  <2>4. (c \div 16) % 2 = c4
    <3>1. c \div 16 = c4 + 2 * b5 + 4 * c6 + 8 * b7
      BY <1>1
    <3> QED BY <1>1, <3>1
  <2>5. (c \div 64) % 2 = c6
    <3>1. c \div 64 = c6 + 2 * b7
      BY <1>1
    <3> QED BY <1>1, <3>1
  <2> DEFINE t == c
  <2>6. /\ c + (1 - 2 * c0) + 4 * (1 - 2 * c2) + 16 * (1 - 2 * c4) + 64 * (1 - 2 * c6)
           = Sum(1 - c0, 1 - c2, 1 - c4, 1 - c6)
    BY <1>1
  <2> HIDE DEF c
  <2>7. Xor55(c) = c + (IF c0 = 1 THEN -1 ELSE 1) + (IF c2 = 1 THEN -4 ELSE 4)
                     + (IF c4 = 1 THEN -16 ELSE 16) + (IF c6 = 1 THEN -64 ELSE 64)
    BY <2>2, <2>3, <2>4, <2>5 DEF Xor55
  <2>8. Xor55(c) = c + (1 - 2 * c0) + 4 * (1 - 2 * c2) + 16 * (1 - 2 * c4) + 64 * (1 - 2 * c6)
    BY <2>1, <2>7
  <2> HIDE DEF Sum
  <2> QED BY <2>1, <2>6, <2>8 DEF c
<1>3. b = Sum(b0, b2, b4, b6)
  BY <1>1
<1>4. /\ 1 - b0 \in {0, 1} /\ 1 - b2 \in {0, 1} /\ 1 - b4 \in {0, 1} /\ 1 - b6 \in {0, 1}
      /\ 1 - (1 - b0) = b0 /\ 1 - (1 - b2) = b2 /\ 1 - (1 - b4) = b4 /\ 1 - (1 - b6) = b6
  BY <1>1
<1> HIDE DEF Sum
<1>5. Xor55(b) = Sum(1 - b0, 1 - b2, 1 - b4, 1 - b6)
  BY <1>1, <1>2, <1>3
<1>6. /\ Sum(1 - b0, 1 - b2, 1 - b4, 1 - b6) \in Byte
      /\ Xor55(Sum(1 - b0, 1 - b2, 1 - b4, 1 - b6))
         = Sum(1 - (1 - b0), 1 - (1 - b2), 1 - (1 - b4), 1 - (1 - b6))
  BY <1>2, <1>4
<1> QED BY <1>3, <1>4, <1>5, <1>6

\* The segment and the place within it that the A-law finds for a magnitude, and how near
\* to it is what the decoder makes of them.
LEMMA ALawPlaces ==
    ASSUME NEW m \in Int, 0 <= m, NEW val \in Int, 0 <= val, val <= 4095,
           val = m \div 8 \/ (val = 4095 /\ m = 32768),
           NEW seg, seg = ASegment(val),
           NEW quant, quant = IF seg = 0 THEN val \div 2 ELSE (val - 2^(seg + 4)) \div 2^seg,
           NEW back, back = IF seg = 0 THEN 16 * quant + 8 ELSE (16 * quant + 264) * 2^(seg - 1)
    PROVE  /\ seg \in 0..7 /\ quant \in 0..15 /\ back \in Int
           /\ m - back \in -8..8 \/ (32 * (m - back) <= m /\ 32 * (back - m) <= m)
<1>1. CASE val < 32
  <2>1. seg = 0
    BY <1>1 DEF ASegment
  <2>2. quant = val \div 2 /\ back = 16 * quant + 8
    BY <2>1
  <2>3. val = m \div 8
    BY <1>1
  <2> QED BY <1>1, <2>1, <2>2, <2>3
<1>2. CASE 32 <= val /\ val < 64
  <2>1. seg = 1 /\ seg + 4 = 5 /\ seg - 1 = 0
    BY <1>2 DEF ASegment
  <2>2. quant = (val - 32) \div 2 /\ back = 16 * quant + 264
    <3>1. quant = (val - 32) \div 2
      BY <2>1, Powers
    <3> QED BY <1>2, <2>1, <3>1, Powers
  <2>3. val = m \div 8
    BY <1>2
  <2> QED BY <1>2, <2>1, <2>2, <2>3
<1>3. CASE 64 <= val /\ val < 128
  <2>1. seg = 2 /\ seg + 4 = 6 /\ seg - 1 = 1
    BY <1>3 DEF ASegment
  <2>2. quant = (val - 64) \div 4 /\ back = (16 * quant + 264) * 2
    BY <2>1, Powers
  <2>3. val = m \div 8
    BY <1>3
  <2> QED BY <1>3, <2>1, <2>2, <2>3
<1>4. CASE 128 <= val /\ val < 256
  <2>1. seg = 3 /\ seg + 4 = 7 /\ seg - 1 = 2
    BY <1>4 DEF ASegment
  <2>2. quant = (val - 128) \div 8 /\ back = (16 * quant + 264) * 4
    BY <2>1, Powers
  <2>3. val = m \div 8
    BY <1>4
  <2> QED BY <1>4, <2>1, <2>2, <2>3
<1>5. CASE 256 <= val /\ val < 512
  <2>1. seg = 4 /\ seg + 4 = 8 /\ seg - 1 = 3
    BY <1>5 DEF ASegment
  <2>2. quant = (val - 256) \div 16 /\ back = (16 * quant + 264) * 8
    BY <2>1, Powers
  <2>3. val = m \div 8
    BY <1>5
  <2> QED BY <1>5, <2>1, <2>2, <2>3
<1>6. CASE 512 <= val /\ val < 1024
  <2>1. seg = 5 /\ seg + 4 = 9 /\ seg - 1 = 4
    BY <1>6 DEF ASegment
  <2>2. quant = (val - 512) \div 32 /\ back = (16 * quant + 264) * 16
    BY <2>1, Powers
  <2>3. val = m \div 8
    BY <1>6
  <2> QED BY <1>6, <2>1, <2>2, <2>3
<1>7. CASE 1024 <= val /\ val < 2048
  <2>1. seg = 6 /\ seg + 4 = 10 /\ seg - 1 = 5
    BY <1>7 DEF ASegment
  <2>2. quant = (val - 1024) \div 64 /\ back = (16 * quant + 264) * 32
    BY <2>1, Powers
  <2>3. val = m \div 8
    BY <1>7
  <2> QED BY <1>7, <2>1, <2>2, <2>3
<1>8. CASE 2048 <= val
  <2>1. seg = 7 /\ seg + 4 = 11 /\ seg - 1 = 6
    BY <1>8 DEF ASegment
  <2>2. quant = (val - 2048) \div 128 /\ back = (16 * quant + 264) * 64
    BY <2>1, Powers
  <2>3. val = m \div 8 \/ (val = 4095 /\ m = 32768)
    BY <1>8
  <2> QED BY <1>8, <2>1, <2>2, <2>3
<1> QED BY <1>1, <1>2, <1>3, <1>4, <1>5, <1>6, <1>7, <1>8

\* A sample comes back from the A-law as near as it promises.
LEMMA ALawNear ==
    ASSUME NEW v \in Int16
    PROVE  EncodeALaw(v) \in Byte /\ ANear(v, DecodeALaw(EncodeALaw(v)))
<1>1. PICK m : m = IF v >= 0 THEN v ELSE -v
  OBVIOUS
<1>2. PICK val : val = Lesser(m \div 8, 4095)
  OBVIOUS
<1>3. PICK seg : seg = ASegment(val)
  OBVIOUS
<1>4. PICK quant : quant = IF seg = 0 THEN val \div 2 ELSE (val - 2^(seg + 4)) \div 2^seg
  OBVIOUS
<1>5. PICK back : back = IF seg = 0 THEN 16 * quant + 8 ELSE (16 * quant + 264) * 2^(seg - 1)
  OBVIOUS
<1>6. PICK sign : sign = IF v >= 0 THEN 1 ELSE 0
  OBVIOUS
<1>7. /\ m \in Int /\ 0 <= m /\ m <= 32768 /\ (v >= 0 => v = m) /\ (~(v >= 0) => v = -m)
      /\ v \in Int /\ Magnitude(v) = m
  BY <1>1, Samples DEF Magnitude
<1>8. val \in Int /\ 0 <= val /\ val <= 4095 /\ (val = m \div 8 \/ (val = 4095 /\ m = 32768))
  BY <1>2, <1>7 DEF Lesser
<1>9. /\ seg \in 0..7 /\ quant \in 0..15 /\ back \in Int
      /\ m - back \in -8..8 \/ (32 * (m - back) <= m /\ 32 * (back - m) <= m)
  BY <1>3, <1>4, <1>5, <1>7, <1>8, ALawPlaces
<1>10. PICK c : c = 128 * sign + 16 * seg + quant
  OBVIOUS
<1>11. c \in Byte /\ Negative(c) = sign /\ Segment(c) = seg /\ Place(c) = quant
  <2>1. sign \in {0, 1}
    BY <1>6
  <2> QED BY <1>9, <1>10, <2>1, ByteParts
<1>12. EncodeALaw(v) = Xor55(c)
  <2>1. EncodeALaw(v) = Xor55((IF v >= 0 THEN 128 ELSE 0) + 16 * seg + quant)
    BY <1>1, <1>2, <1>3, <1>4 DEF EncodeALaw
  <2>2. (IF v >= 0 THEN 128 ELSE 0) = 128 * sign
    BY <1>6
  <2> QED BY <1>10, <2>1, <2>2
<1>13. EncodeALaw(v) \in Byte /\ Xor55(EncodeALaw(v)) = c
  BY <1>11, <1>12, TurnedBack
<1>14. DecodeALaw(EncodeALaw(v)) = IF sign = 1 THEN back ELSE -back
  BY <1>5, <1>11, <1>13 DEF DecodeALaw
<1>15. PICK d : d = v - DecodeALaw(EncodeALaw(v))
  OBVIOUS
<1>16. d \in Int /\ d \in {m - back, back - m}
  <2>1. CASE v >= 0
    BY <1>6, <1>7, <1>9, <1>14, <1>15, <2>1
  <2>2. CASE ~(v >= 0)
    BY <1>6, <1>7, <1>9, <1>14, <1>15, <2>2
  <2> QED BY <2>1, <2>2
<1>17. Magnitude(d) <= 8 \/ 32 * Magnitude(d) <= m
  BY <1>7, <1>9, <1>16 DEF Magnitude
<1> QED BY <1>7, <1>13, <1>15, <1>17 DEF ANear

\* The segment and the place within it that the mu-law finds for a biased magnitude, and
\* how near to it is what the decoder makes of them.
LEMMA ULawPlaces ==
    ASSUME NEW bits \in Int, 0 <= bits, bits <= 32767,
           NEW seg, seg = USegment(bits),
           NEW place, place = (bits \div 2^(seg + 3)) % 16,
           NEW back, back = (8 * place + 132) * 2^seg
    PROVE  /\ seg \in 0..7 /\ place \in 0..15 /\ back \in Int
           /\ 128 <= bits => 32 * (bits - back) <= bits /\ 32 * (back - bits) <= bits
<1>1. CASE bits < 256
  <2>1. seg = 0 /\ seg + 3 = 3
    BY <1>1 DEF USegment
  <2>2. place = (bits \div 8) % 16 /\ back = (8 * place + 132) * 1
    BY <2>1, Powers
  <2> QED BY <1>1, <2>1, <2>2
<1>2. CASE 256 <= bits /\ bits < 512
  <2>1. seg = 1 /\ seg + 3 = 4
    BY <1>2 DEF USegment
  <2>2. place = (bits \div 16) % 16 /\ back = (8 * place + 132) * 2
    BY <2>1, Powers
  <2> QED BY <1>2, <2>1, <2>2
<1>3. CASE 512 <= bits /\ bits < 1024
  <2>1. seg = 2 /\ seg + 3 = 5
    BY <1>3 DEF USegment
  <2>2. place = (bits \div 32) % 16 /\ back = (8 * place + 132) * 4
    BY <2>1, Powers
  <2> QED BY <1>3, <2>1, <2>2
<1>4. CASE 1024 <= bits /\ bits < 2048
  <2>1. seg = 3 /\ seg + 3 = 6
    BY <1>4 DEF USegment
  <2>2. place = (bits \div 64) % 16 /\ back = (8 * place + 132) * 8
    BY <2>1, Powers
  <2> QED BY <1>4, <2>1, <2>2
<1>5. CASE 2048 <= bits /\ bits < 4096
  <2>1. seg = 4 /\ seg + 3 = 7
    BY <1>5 DEF USegment
  <2>2. place = (bits \div 128) % 16 /\ back = (8 * place + 132) * 16
    BY <2>1, Powers
  <2> QED BY <1>5, <2>1, <2>2
<1>6. CASE 4096 <= bits /\ bits < 8192
  <2>1. seg = 5 /\ seg + 3 = 8
    BY <1>6 DEF USegment
  <2>2. place = (bits \div 256) % 16 /\ back = (8 * place + 132) * 32
    BY <2>1, Powers
  <2> QED BY <1>6, <2>1, <2>2
<1>7. CASE 8192 <= bits /\ bits < 16384
  <2>1. seg = 6 /\ seg + 3 = 9
    BY <1>7 DEF USegment
  <2>2. place = (bits \div 512) % 16 /\ back = (8 * place + 132) * 64
    BY <2>1, Powers
  <2> QED BY <1>7, <2>1, <2>2
<1>8. CASE 16384 <= bits
  <2>1. seg = 7 /\ seg + 3 = 10
    BY <1>8 DEF USegment
  <2>2. place = (bits \div 1024) % 16 /\ back = (8 * place + 132) * 128
    BY <2>1, Powers
  <2> QED BY <1>8, <2>1, <2>2
<1> QED BY <1>1, <1>2, <1>3, <1>4, <1>5, <1>6, <1>7, <1>8

\* The mu-law's code of a sample is a byte, and the sample comes back as near as the law
\* promises, but for the one that it loses.
LEMMA ULawNear ==
    ASSUME NEW v \in Int16
    PROVE  /\ EncodeULaw(v) \in Byte
           /\ v # Unspeakable => UNear(Clip(v), DecodeULaw(EncodeULaw(v)))
<1>1. PICK m : m = IF v < 0 THEN Wrap(-v) ELSE v
  OBVIOUS
<1>2. PICK bits : bits = Wrap(Lesser(m, 32635) + 132) % 32768
  OBVIOUS
<1>3. PICK seg : seg = USegment(bits)
  OBVIOUS
<1>4. PICK place : place = (bits \div 2^(seg + 3)) % 16
  OBVIOUS
<1>5. PICK back : back = (8 * place + 132) * 2^seg
  OBVIOUS
<1>6. PICK sign : sign = IF v < 0 THEN 1 ELSE 0
  OBVIOUS
<1>7. PICK c : c = 128 * sign + 16 * seg + place
  OBVIOUS
<1>8. v \in Int /\ -32768 <= v /\ v <= 32767 /\ sign \in {0, 1}
  BY <1>6, Samples
<1>9. m \in Int /\ m <= 32767 /\ (v < 0 /\ v # -32768 => m = -v) /\ (v >= 0 => m = v) /\ -32768 <= m
  BY <1>1, <1>8 DEF Wrap
<1>10. PICK w : w = Lesser(m, 32635) + 132
  OBVIOUS
<1>11. w \in Int /\ -32768 <= w /\ w <= 32767
  BY <1>9, <1>10 DEF Lesser
<1>12. bits \in Int /\ 0 <= bits /\ bits <= 32767 /\ (0 <= w => bits = w)
  BY <1>2, <1>10, <1>11 DEF Wrap
<1>13. /\ seg \in 0..7 /\ place \in 0..15 /\ back \in Int
       /\ 128 <= bits => 32 * (bits - back) <= bits /\ 32 * (back - bits) <= bits
  BY <1>3, <1>4, <1>5, <1>12, ULawPlaces
<1>14. c \in Byte /\ Negative(c) = sign /\ Segment(c) = seg /\ Place(c) = place
  BY <1>7, <1>8, <1>13, ByteParts
<1>15. EncodeULaw(v) = 255 - c
  <2>1. EncodeULaw(v) = 255 - ((IF v < 0 THEN 128 ELSE 0) + 16 * seg + place)
    BY <1>1, <1>2, <1>3, <1>4 DEF EncodeULaw
  <2>2. (IF v < 0 THEN 128 ELSE 0) = 128 * sign
    BY <1>6
  <2> QED BY <1>7, <2>1, <2>2
<1>16. EncodeULaw(v) \in Byte /\ 255 - EncodeULaw(v) = c
  BY <1>14, <1>15 DEF Byte
<1>17. DecodeULaw(EncodeULaw(v)) = IF sign = 1 THEN -(back - 132) ELSE back - 132
  BY <1>5, <1>14, <1>16 DEF DecodeULaw
<1>18. ASSUME v # Unspeakable
       PROVE  UNear(Clip(v), DecodeULaw(EncodeULaw(v)))
  <2>1. v # -32768
    BY <1>18 DEF Unspeakable
  <2>2. /\ 0 <= m /\ Magnitude(Clip(v)) = Lesser(m, 32635) /\ bits = w
        /\ Clip(v) = IF sign = 1 THEN -Lesser(m, 32635) ELSE Lesser(m, 32635)
    BY <1>6, <1>8, <1>9, <1>10, <1>12, <2>1 DEF Magnitude, Clip, Lesser
  <2>3. PICK l : l = Lesser(m, 32635)
    OBVIOUS
  <2>4. l \in Int /\ bits = l + 132 /\ 0 <= l
    BY <1>9, <1>10, <2>2, <2>3 DEF Lesser
  <2>5. PICK d : d = Clip(v) - DecodeULaw(EncodeULaw(v))
    OBVIOUS
  <2>6. d \in Int /\ d \in {bits - back, back - bits}
    <3>1. CASE sign = 1
      BY <1>12, <1>13, <1>17, <2>2, <2>3, <2>4, <2>5, <3>1
    <3>2. CASE sign # 1
      BY <1>12, <1>13, <1>17, <2>2, <2>3, <2>4, <2>5, <3>2
    <3> QED BY <3>1, <3>2
  <2>7. 32 * Magnitude(d) <= l + 132
    BY <1>12, <1>13, <2>4, <2>6 DEF Magnitude
  <2> QED BY <2>2, <2>3, <2>5, <2>7 DEF UNear
<1> QED BY <1>16, <1>18

\* Every sample comes back from either law as near as that promises, but for the one
\* that the mu-law loses.
THEOREM VoiceBack ==
    \A v \in Int16 : /\ ANear(v, DecodeALaw(EncodeALaw(v)))
                     /\ v # Unspeakable => UNear(Clip(v), DecodeULaw(EncodeULaw(v)))
BY ALawNear, ULawNear

\* What is heard of a packet is near what was said in it.
LEMMA HeardNear ==
    ASSUME NEW n \in 1..MaxPackets, Speakable,
           NEW p, p.law = Voice[n].law, p.audio = Encoded(Voice[n])
    PROVE  Heard(Voice[n], Decoded(p))
<1>1. Voice[n].law \in {"PCMA", "PCMU"} /\ Voice[n].sample \in Int16
  BY CaptureAssumption DEF CaptureAssumption
<1>2. CASE Voice[n].law = "PCMA"
  BY <1>1, <1>2, ALawNear DEF Heard, Decoded, Encoded
<1>3. CASE Voice[n].law = "PCMU"
  BY <1>1, <1>3, ULawNear DEF Heard, Decoded, Encoded, Speakable
<1> QED BY <1>1, <1>2, <1>3

\* The header extension carries the key, the carrier and four bits of the id: what is
\* decoded was encoded.
THEOREM HeaderBack ==
    ASSUME NEW h \in [ptt : 0..7, squ : BOOLEAN, id : 0..255]
    PROVE  /\ EncodePayload(h) \in Byte
           /\ DecodePayload(EncodePayload(h)).ptt = h.ptt
           /\ DecodePayload(EncodePayload(h)).squ = h.squ
           /\ DecodePayload(EncodePayload(h)).id = h.id % 16
<1>1. PICK t : t = h.ptt
  OBVIOUS
<1>2. PICK c : c = IF h.squ THEN 1 ELSE 0
  OBVIOUS
<1>3. PICK i : i = h.id % 16
  OBVIOUS
<1>4. t \in 0..7 /\ c \in {0, 1} /\ i \in 0..15
  BY <1>1, <1>2, <1>3
<1>5. PICK e : e = t * 32 + c * 16 + i
  OBVIOUS
<1>6. EncodePayload(h) = e
  <2>1. (h.ptt % 8) * 32 = t * 32 /\ (IF h.squ THEN 16 ELSE 0) = c * 16
    BY <1>1, <1>2, <1>4
  <2> QED BY <1>3, <1>5, <2>1 DEF EncodePayload
<1>7. e \in Byte /\ (e \div 32) % 8 = t /\ (e \div 16) % 2 = c /\ e % 16 = i
  <2>1. e \in Byte /\ e \div 32 = t /\ e \div 16 = 2 * t + c /\ e % 16 = i
    BY <1>4, <1>5 DEF Byte
  <2> QED BY <1>4, <2>1
<1>8. DecodePayload(e).squ = h.squ
  <2>1. h.squ \in BOOLEAN /\ (c = 1 <=> h.squ)
    BY <1>2
  <2> QED BY <1>7, <2>1 DEF DecodePayload
<1> QED BY <1>1, <1>3, <1>6, <1>7, <1>8 DEF DecodePayload

\* What a packet does to the statistics is within their types.
LEMMA CountersStay ==
    ASSUME NEW st \in Counters, NEW n \in 0..Modulus - 1
    PROVE  Gap(st, n) \in Nat /\ RecordRxPacket(st, n) \in Counters
<1>1. Modulus \in Nat \ {0}
  BY CaptureAssumption DEF CaptureAssumption
<1>2. st.received \in Nat /\ st.lost \in Nat /\ st.last \in 0..Modulus - 1
  BY DEF Counters
<1>3. PICK e : e = (st.last + 1) % Modulus
  OBVIOUS
<1>4. e \in 0..Modulus - 1
  BY <1>1, <1>2, <1>3
<1>5. Gap(st, n) \in Nat
  <2>1. Gap(st, n) = IF st.has /\ n > e /\ n - e < HugeGap THEN n - e ELSE 0
    BY <1>3 DEF Gap
  <2>2. n > e => n - e \in Nat
    BY <1>1, <1>4
  <2> QED BY <2>1, <2>2
<1> QED BY <1>2, <1>5 DEF RecordRxPacket, Counters

\* The types of what an open span puts on the timeline.
LEMMA SpanTyped ==
    ASSUME NEW span \in {<< >>} \cup Interval, NEW type \in {"SIP", "PTT", "SQU"}
    PROVE  Span(type, span) \in Seq(Drawing)
<1>1. CASE span = << >>
  BY <1>1, EmptySeq DEF Span
<1>2. CASE span # << >>
  BY <1>2 DEF Span, Drawing
<1> QED BY <1>1, <1>2

\* A span that goes on or begins is an interval.
LEMMA ExtendTyped ==
    ASSUME NEW span \in {<< >>} \cup Interval, NEW i \in Nat
    PROVE  Extend(span, i) \in Interval
BY DEF Extend, Interval

\* Field by field, what a SIP message, a packet without an extension and one with it
\* change in a report.
Dissected(r, i, p, d) ==
    LET h == DecodePayload(p.ext)
    IN /\ p.from = "SIP" =>
            /\ d.sip = r.sip + 1 /\ d.rtp = r.rtp /\ d.pcm = r.pcm
            /\ d.ptt = r.ptt /\ d.squ = r.squ
            /\ d.timeline = r.timeline \o Span("SIP", <<i, i>>)
       /\ p.from # "SIP" =>
            /\ d.sip = r.sip /\ d.rtp = RecordRxPacket(r.rtp, p.seq)
            /\ d.pcm = Append(r.pcm, Decoded(p))
            /\ p.ext = NoExt =>
                 d.ptt = r.ptt /\ d.squ = r.squ /\ d.timeline = r.timeline
            /\ p.ext # NoExt =>
                 /\ d.ptt = IF h.ptt # 0 THEN Extend(r.ptt, i) ELSE << >>
                 /\ d.squ = IF h.squ THEN Extend(r.squ, i) ELSE << >>
                 /\ d.timeline = (r.timeline
                      \o (IF h.ptt # 0 THEN << >> ELSE Span("PTT", r.ptt)))
                      \o (IF h.squ THEN << >> ELSE Span("SQU", r.squ))
       /\ d = [sip |-> d.sip, rtp |-> d.rtp, ptt |-> d.ptt, squ |-> d.squ,
               timeline |-> d.timeline, pcm |-> d.pcm]

\* The analyzer's step does that.
LEMMA DissectFields ==
    ASSUME NEW r \in Report, NEW i \in Nat, NEW p
    PROVE  Dissected(r, i, p, Dissect(r, i, p))
BY DEF Dissected, Dissect, DissectSip, DissectRtp, DissectExt, Report

\* A report stays a report.
LEMMA DissectTyped ==
    ASSUME NEW r \in Report, NEW i \in Nat, NEW p \in Packets \cup {SipMessage}
    PROVE  Dissect(r, i, p) \in Report
<1>1. PICK d : d = Dissect(r, i, p)
  OBVIOUS
<1>2. PICK h : h = DecodePayload(p.ext)
  OBVIOUS
<1>3. /\ r.sip \in Nat /\ r.rtp \in Counters /\ r.timeline \in Seq(Drawing)
      /\ r.ptt \in {<< >>} \cup Interval /\ r.squ \in {<< >>} \cup Interval
      /\ r.pcm \in Seq({Decoded(q) : q \in Packets})
  BY DEF Report
<1>4. Dissected(r, i, p, d)
  BY <1>1, DissectFields
<1>5. p.from = "SIP" => p = SipMessage
  BY CaptureAssumption DEF CaptureAssumption, Packets, SipMessage
<1>6. CASE p.from = "SIP"
  <2>1. <<i, i>> \in Interval
    BY DEF Interval
  <2>2. Span("SIP", <<i, i>>) \in Seq(Drawing)
    BY <2>1, SpanTyped
  <2>3. r.timeline \o Span("SIP", <<i, i>>) \in Seq(Drawing)
    BY <1>3, <2>2, ConcatProperties
  <2>4. /\ d.sip = r.sip + 1 /\ d.rtp = r.rtp /\ d.pcm = r.pcm
        /\ d.ptt = r.ptt /\ d.squ = r.squ
        /\ d.timeline = r.timeline \o Span("SIP", <<i, i>>)
        /\ d = [sip |-> d.sip, rtp |-> d.rtp, ptt |-> d.ptt, squ |-> d.squ,
                timeline |-> d.timeline, pcm |-> d.pcm]
    BY <1>6, <1>4 DEF Dissected
  <2>5. d.sip \in Nat
    BY <1>3, <2>4
  <2> QED BY <1>1, <1>3, <2>3, <2>4, <2>5 DEF Report
<1>7. CASE p.from # "SIP"
  <2>1. p \in Packets /\ p.seq \in 0..Modulus - 1
    BY <1>7 DEF SipMessage, Packets
  <2>2. RecordRxPacket(r.rtp, p.seq) \in Counters
    BY <1>3, <2>1, CountersStay
  <2>3. Append(r.pcm, Decoded(p)) \in Seq({Decoded(q) : q \in Packets})
    <3>1. Decoded(p) \in {Decoded(q) : q \in Packets}
      BY <2>1
    <3> QED BY <1>3, <3>1, AppendProperties
  <2>4. /\ d.sip = r.sip /\ d.rtp = RecordRxPacket(r.rtp, p.seq)
        /\ d.pcm = Append(r.pcm, Decoded(p))
        /\ p.ext = NoExt => d.ptt = r.ptt /\ d.squ = r.squ /\ d.timeline = r.timeline
        /\ d = [sip |-> d.sip, rtp |-> d.rtp, ptt |-> d.ptt, squ |-> d.squ,
                timeline |-> d.timeline, pcm |-> d.pcm]
    BY <1>2, <1>7, <1>4 DEF Dissected
  <2>5. ASSUME p.ext # NoExt
        PROVE  /\ d.ptt \in {<< >>} \cup Interval /\ d.squ \in {<< >>} \cup Interval
               /\ d.timeline \in Seq(Drawing)
    <3>1. /\ d.ptt = IF h.ptt # 0 THEN Extend(r.ptt, i) ELSE << >>
          /\ d.squ = IF h.squ THEN Extend(r.squ, i) ELSE << >>
          /\ d.timeline = (r.timeline
                             \o (IF h.ptt # 0 THEN << >> ELSE Span("PTT", r.ptt)))
                             \o (IF h.squ THEN << >> ELSE Span("SQU", r.squ))
      BY <1>2, <1>7, <1>4, <2>5 DEF Dissected
    <3>2. Extend(r.ptt, i) \in Interval /\ Extend(r.squ, i) \in Interval
      BY <1>3, ExtendTyped
    <3>3. PICK a : a = IF h.ptt # 0 THEN << >> ELSE Span("PTT", r.ptt)
      OBVIOUS
    <3>4. PICK b : b = IF h.squ THEN << >> ELSE Span("SQU", r.squ)
      OBVIOUS
    <3>5. a \in Seq(Drawing) /\ b \in Seq(Drawing)
      <4>1. Span("PTT", r.ptt) \in Seq(Drawing) /\ Span("SQU", r.squ) \in Seq(Drawing)
        BY <1>3, SpanTyped
      <4> QED BY <3>3, <3>4, <4>1, EmptySeq
    <3>6. (r.timeline \o a) \o b \in Seq(Drawing)
      BY <1>3, <3>5, ConcatProperties
    <3> QED BY <3>1, <3>2, <3>3, <3>4, <3>6
  <2> QED BY <1>1, <1>3, <2>2, <2>3, <2>4, <2>5 DEF Report
<1> QED BY <1>6, <1>7

\* The report of a capture that has a packet more.
LEMMA SoFarGrows ==
    ASSUME CaptureTyped, NEW p \in Packets \cup {SipMessage}, tape' = Append(tape, p)
    PROVE  /\ tape' \in Seq(Packets \cup {SipMessage}) /\ Len(tape) \in Nat
           /\ DOMAIN tape = 1..Len(tape) /\ DOMAIN tape' = 1..Len(tape) + 1
           /\ tape'[Len(tape) + 1] = p
           /\ \A i \in 1..Len(tape) : tape'[i] = tape[i]
           /\ SoFar' = Dissect(SoFar, Len(tape) + 1, p) /\ SoFar' \in Report
<1>1. tape \in Seq(Packets \cup {SipMessage}) /\ SoFar \in Report
  BY DEF CaptureTyped
<1>2. /\ tape' \in Seq(Packets \cup {SipMessage}) /\ Len(tape) \in Nat
      /\ DOMAIN tape = 1..Len(tape) /\ DOMAIN tape' = 1..Len(tape) + 1
      /\ tape'[Len(tape) + 1] = p
      /\ \A i \in 1..Len(tape) : tape'[i] = tape[i]
  BY <1>1, AppendAt
<1>3. SoFar' = Dissect(SoFar, Len(tape) + 1, p)
  <2>1. /\ Len(tape') = Len(tape) + 1
        /\ Reports(tape')[Len(tape) + 1] = Dissect(Reports(tape)[Len(tape)], Len(tape) + 1, p)
    BY <1>1, OneMore
  <2> QED BY <2>1 DEF SoFar
<1>4. SoFar' \in Report
  <2>1. Len(tape) + 1 \in Nat
    BY <1>2
  <2> QED BY <1>1, <1>3, <2>1, DissectTyped
<1> QED BY <1>2, <1>3, <1>4

-----------------------------------------------------------------------------
(* Types of a capture, and that packets come from their senders.           *)

\* Bounds and first numbers are naturals.
LEMMA Limits ==
    /\ Modulus \in Nat \ {0} /\ HugeGap \in Nat \ {0} /\ MaxPackets \in Nat
    /\ CaptureTyped => \A s \in Streams : start[s] \in Nat /\ start[s] < Modulus
<1>1. /\ Modulus \in Nat \ {0} /\ HugeGap \in Nat \ {0} /\ MaxPackets \in Nat
      /\ FirstNumbers \subseteq 0..Modulus - 1
  BY CaptureAssumption DEF CaptureAssumption
<1>2. ASSUME CaptureTyped, NEW s \in Streams
      PROVE  start[s] \in Nat /\ start[s] < Modulus
  <2>1. start[s] \in FirstNumbers
    BY <1>2 DEF CaptureTyped
  <2>2. start[s] \in 0..Modulus - 1
    BY <1>1, <2>1, Zenon
  <2> QED BY <1>1, <2>2
<1> QED BY <1>1, <1>2

\* What is on a capture is a SIP message or a packet.
LEMMA OnTape ==
    ASSUME CaptureTyped
    PROVE  /\ tape \in Seq(Packets \cup {SipMessage}) /\ Len(tape) \in Nat
           /\ DOMAIN tape = 1..Len(tape) /\ SipMessage.from = "SIP"
           /\ \A p \in Packets : p.from \in Streams /\ p.from # "SIP" /\ p # SipMessage
           /\ \A i \in DOMAIN tape :
                /\ tape[i].from # "SIP" <=> tape[i] \in Packets
                /\ tape[i].from # "SIP" <=> tape[i].from \in Streams
                /\ tape[i] \in Packets \cup {SipMessage}
<1>1. tape \in Seq(Packets \cup {SipMessage}) /\ "SIP" \notin Streams
  BY CaptureAssumption DEF CaptureTyped, CaptureAssumption
<1>2. Len(tape) \in Nat /\ DOMAIN tape = 1..Len(tape)
  BY <1>1, LenProperties
<1>3. \A i \in DOMAIN tape : tape[i] \in Packets \cup {SipMessage}
  BY <1>1, <1>2, ElementOfSeq
<1>4. \A p \in Packets : p.from \in Streams /\ p.from # "SIP"
  BY <1>1 DEF Packets
<1>5. SipMessage.from = "SIP"
  BY DEF SipMessage
<1> QED BY <1>1, <1>2, <1>3, <1>4, <1>5

\* What is sent has the types of a packet and says what its sender says.
LEMMA PacketTyped ==
    ASSUME CaptureTyped, NEW s \in Streams, NEW h \in Headers, Len(said[s]) < MaxPackets
    PROVE  /\ Packet(s, h) \in Packets /\ Packet(s, h).from = s
           /\ Packet(s, h).n = Len(said[s]) + 1 /\ Packet(s, h).seq = Number(s)
           /\ Packet(s, h).law = Voice[Len(said[s]) + 1].law
           /\ Packet(s, h).audio = Encoded(Voice[Len(said[s]) + 1])
           /\ Packet(s, h).ext = IF h = NoExt THEN NoExt ELSE EncodePayload(h)
<1>1. PICK n : n = Len(said[s]) + 1
  OBVIOUS
<1>2. n \in 1..MaxPackets /\ Len(said[s]) \in Nat
  <2>1. Len(said[s]) \in Nat
    BY LenProperties DEF CaptureTyped
  <2> QED BY <1>1, <2>1, Limits
<1>3. Voice[n].law \in {"PCMA", "PCMU"} /\ Voice[n].sample \in Int16
  BY <1>2, CaptureAssumption DEF CaptureAssumption
<1>4. Encoded(Voice[n]) \in Byte
  BY <1>3, ALawNear, ULawNear DEF Encoded
<1>5. h # NoExt => EncodePayload(h) \in Byte
  <2>1. h # NoExt => h \in [ptt : 0..7, squ : BOOLEAN, id : 0..255]
    BY CaptureAssumption DEF CaptureAssumption
  <2> QED BY <2>1, HeaderBack
<1>6. Number(s) \in 0..Modulus - 1
  <2>1. start[s] \in Nat /\ Modulus \in Nat \ {0}
    BY Limits
  <2>2. PICK x : x = start[s] + Len(said[s])
    OBVIOUS
  <2>3. x \in Nat
    BY <1>2, <2>1, <2>2
  <2>4. x % Modulus \in 0..Modulus - 1
    BY <2>1, <2>3
  <2> QED BY <2>2, <2>4 DEF Number
<1>7. Packet(s, h) = [from |-> s, n |-> n, seq |-> Number(s), law |-> Voice[n].law,
                      audio |-> Encoded(Voice[n]),
                      ext |-> IF h = NoExt THEN NoExt ELSE EncodePayload(h)]
  BY <1>1 DEF Packet
<1> QED BY <1>1, <1>2, <1>3, <1>4, <1>5, <1>6, <1>7 DEF Packets

\* At the beginning.
LEMMA CaptureTypedInit == CaptureInit => CaptureTyped /\ FromSenders
<1> SUFFICES ASSUME CaptureInit PROVE CaptureTyped /\ FromSenders
  OBVIOUS
<1> USE CaptureAssumption DEF CaptureAssumption, CaptureInit
<1>1. NewStreamStats \in Counters
  BY DEF NewStreamStats, Counters
<1>2. /\ Len(tape) = 0 /\ DOMAIN tape = {} /\ tape \in Seq(Packets \cup {SipMessage})
      /\ \A s \in Streams : said[s] = << >> /\ Len(said[s]) = 0
      /\ said \in [Streams -> Seq(Headers)] /\ 0 <= MaxPackets
  BY EmptySeq
<1>3. SoFar \in Report
  <2>1. SoFar = NewReport
    BY <1>2, ReportsFollow DEF SoFar
  <2> QED BY <1>1, <2>1, EmptySeq DEF NewReport, Report
<1> QED BY <1>1, <1>2, <1>3 DEF CaptureTyped, FromSenders

\* A packet that was sent stays what its sender said while that says more.
LEMMA StaysSent ==
    ASSUME CaptureTyped, NEW p \in Packets, Sent(p, start, said), start' = start,
           NEW s \in Streams, NEW h \in Headers,
           said' = [said EXCEPT ![s] = Append(@, h)]
    PROVE  Sent(p, start', said')
<1>1. /\ said[s] \in Seq(Headers) /\ said[p.from] \in Seq(Headers) /\ p.n \in 1..MaxPackets
      /\ p.from \in Streams /\ DOMAIN said = Streams
  BY DEF CaptureTyped, Packets
<1>2. CASE p.from = s
  <2>1. said'[p.from] = Append(said[s], h)
    BY <1>1, <1>2
  <2>2. p.n \in 1..Len(said[s]) /\ Len(said[s]) \in Nat
    BY <1>1, <1>2, LenProperties DEF Sent
  <2>3. /\ Len(Append(said[s], h)) = Len(said[s]) + 1
        /\ Append(said[s], h)[p.n] = said[s][p.n]
    BY <1>1, <2>2, AppendProperties
  <2>4. p.n <= Len(said'[p.from]) /\ said'[p.from][p.n] = said[p.from][p.n]
    BY <1>2, <2>1, <2>2, <2>3
  <2> QED BY <2>4 DEF Sent
<1>3. CASE p.from # s
  <2>1. said'[p.from] = said[p.from]
    BY <1>1, <1>3
  <2> QED BY <2>1 DEF Sent
<1> QED BY <1>2, <1>3

\* Sending keeps types and origins.
LEMMA TransmitTyped ==
    ASSUME CaptureTyped, FromSenders, NEW s \in Streams, Transmit(s)
    PROVE  CaptureTyped' /\ FromSenders'
<1>1. PICK h \in Headers : /\ said' = [said EXCEPT ![s] = Append(@, h)]
                           /\ underway' = underway \cup {Packet(s, h)}
  BY DEF Transmit
<1>2. start' = start /\ stats' = stats /\ tape' = tape /\ Len(said[s]) < MaxPackets
  BY DEF Transmit
<1>3. /\ said \in [Streams -> Seq(Headers)] /\ said[s] \in Seq(Headers)
      /\ \A t \in Streams : Len(said[t]) <= MaxPackets
      /\ underway \subseteq Packets /\ start \in [Streams -> FirstNumbers]
      /\ stats \in [Streams -> Counters] /\ SoFar \in Report
  BY DEF CaptureTyped
<1>4. Len(Append(said[s], h)) = Len(said[s]) + 1 /\ Append(said[s], h) \in Seq(Headers)
  BY <1>3, AppendProperties
<1>5. MaxPackets \in Nat /\ Len(said[s]) \in Nat /\ Len(said[s]) + 1 <= MaxPackets
  BY <1>2, <1>3, LenProperties, Limits
<1>6. /\ said' \in [Streams -> Seq(Headers)] /\ \A t \in Streams : Len(said'[t]) <= MaxPackets
      /\ said'[s] = Append(said[s], h)
  BY <1>1, <1>3, <1>4, <1>5
<1>7. SoFar' = SoFar
  BY <1>2 DEF SoFar
<1>8. underway' \subseteq Packets
  BY <1>1, <1>2, <1>3, PacketTyped
<1>9. CaptureTyped'
  BY <1>2, <1>3, <1>6, <1>7, <1>8 DEF CaptureTyped
<1>10. \A p \in Packets : Sent(p, start, said) => Sent(p, start', said')
  BY <1>1, <1>2, StaysSent
<1>11. Sent(Packet(s, h), start', said')
  <2>1. PICK p : p = Packet(s, h)
    OBVIOUS
  <2>2. /\ p.from = s /\ p.n = Len(said[s]) + 1 /\ p.seq = Number(s)
        /\ p.law = Voice[p.n].law /\ p.audio = Encoded(Voice[p.n])
        /\ p.ext = IF h = NoExt THEN NoExt ELSE EncodePayload(h)
    BY <1>2, <2>1, PacketTyped
  <2>3. said'[p.from][p.n] = h /\ p.n <= Len(said'[p.from])
    <3>1. Append(said[s], h)[Len(said[s]) + 1] = h
      BY <1>3, AppendProperties
    <3> QED BY <1>4, <1>5, <1>6, <2>2, <3>1
  <2>4. p.seq = (start'[p.from] + p.n - 1) % Modulus
    <3>1. start[s] \in Nat
      BY Limits
    <3>2. start'[p.from] + p.n - 1 = start[s] + Len(said[s])
      BY <1>2, <1>5, <2>2, <3>1
    <3> QED BY <2>2, <3>2 DEF Number
  <2> QED BY <2>1, <2>2, <2>3, <2>4 DEF Sent
<1>12. FromSenders'
  <2>1. \A p \in underway' : Sent(p, start', said')
    BY <1>1, <1>3, <1>10, <1>11 DEF FromSenders
  <2>2. \A i \in DOMAIN tape : tape[i].from # "SIP" => Sent(tape[i], start', said')
    BY <1>10, OnTape DEF FromSenders
  <2> QED BY <1>2, <2>1, <2>2 DEF FromSenders
<1> QED BY <1>9, <1>12

\* What arrives is written to the end of the capture, and is what was sent.
LEMMA TapeTyped ==
    ASSUME CaptureTyped, FromSenders, NEW p \in Packets \cup {SipMessage},
           p \in Packets => Sent(p, start, said), tape' = Append(tape, p),
           start' = start, said' = said, underway' \subseteq underway,
           stats' \in [Streams -> Counters]
    PROVE  CaptureTyped' /\ FromSenders'
<1>1. CaptureTyped'
  BY SoFarGrows DEF CaptureTyped
<1>2. \A q : Sent(q, start, said) => Sent(q, start', said')
  BY DEF Sent
<1>3. ASSUME NEW i \in DOMAIN tape', tape'[i].from # "SIP"
      PROVE  Sent(tape'[i], start', said')
  <2>1. CASE i \in DOMAIN tape
    <3>1. tape'[i] = tape[i]
      BY <2>1, SoFarGrows
    <3>2. Sent(tape[i], start, said)
      BY <1>3, <2>1, <3>1 DEF FromSenders
    <3> QED BY <1>2, <3>1, <3>2
  <2>2. CASE i \notin DOMAIN tape
    <3>1. tape'[i] = p
      <4>1. i = Len(tape) + 1
        BY <2>2, SoFarGrows
      <4> QED BY <4>1, SoFarGrows
    <3>2. p \in Packets
      BY <1>3, <3>1, OnTape
    <3> QED BY <1>2, <3>1, <3>2
  <2> QED BY <2>1, <2>2
<1>4. \A q \in underway' : Sent(q, start', said')
  BY <1>2 DEF FromSenders
<1> QED BY <1>1, <1>3, <1>4 DEF FromSenders

\* Every step keeps types and origins.
LEMMA CaptureTypedStep ==
    CaptureTyped /\ FromSenders /\ [CaptureNext]_captureVars => CaptureTyped' /\ FromSenders'
<1> SUFFICES ASSUME CaptureTyped, FromSenders, [CaptureNext]_captureVars
             PROVE  CaptureTyped' /\ FromSenders'
  OBVIOUS
<1>1. ASSUME NEW s \in Streams, Transmit(s)
      PROVE  CaptureTyped' /\ FromSenders'
  BY <1>1, TransmitTyped
<1>2. ASSUME NEW p \in underway, Vanish(p)
      PROVE  CaptureTyped' /\ FromSenders'
  BY <1>2 DEF Vanish, CaptureTyped, FromSenders, Sent, SoFar
<1>3. ASSUME NEW p \in underway, Arrive(p)
      PROVE  CaptureTyped' /\ FromSenders'
  <2>1. p \in Packets /\ Sent(p, start, said) /\ p.from \in Streams /\ p.seq \in 0..Modulus - 1
    BY DEF CaptureTyped, FromSenders, Packets
  <2>2. /\ tape' = Append(tape, p) /\ start' = start /\ said' = said
        /\ underway' \subseteq underway
        /\ stats' = [stats EXCEPT ![p.from] = RecordRxPacket(@, p.seq)]
    BY <1>3 DEF Arrive
  <2>3. stats' \in [Streams -> Counters]
    <3>1. stats \in [Streams -> Counters]
      BY DEF CaptureTyped
    <3>2. RecordRxPacket(stats[p.from], p.seq) \in Counters
      BY <2>1, <3>1, CountersStay
    <3> QED BY <2>2, <3>1, <3>2
  <2> QED BY <2>1, <2>2, <2>3, TapeTyped
<1>4. CASE Sip
  <2>1. /\ tape' = Append(tape, SipMessage) /\ start' = start /\ said' = said
        /\ underway' = underway /\ stats' = stats
    BY <1>4 DEF Sip, SipMessage
  <2>2. stats' \in [Streams -> Counters] /\ SipMessage \notin Packets
    BY <2>1, OnTape DEF CaptureTyped
  <2> QED BY <2>1, <2>2, TapeTyped
<1>5. CASE UNCHANGED captureVars
  BY <1>5 DEF captureVars, CaptureTyped, FromSenders, Sent, SoFar
<1> QED BY <1>1, <1>2, <1>3, <1>4, <1>5 DEF CaptureNext

-----------------------------------------------------------------------------
(* Loss is counted.                                                        *)

\* A set of positions that is not empty has a greatest element.
LEMMA Greatest ==
    ASSUME NEW n \in Nat, NEW T \in SUBSET (1..n), T # {}
    PROVE  \E x \in T : \A y \in T : y <= x
<1> DEFINE U == {n - y : y \in T}
<1>1. \A y \in T : y \in 1..n /\ y \in Nat /\ n - y \in Nat
  OBVIOUS
<1>2. U \in SUBSET Nat /\ U # {}
  <2>1. PICK y \in T : TRUE
    OBVIOUS
  <2>2. n - y \in U
    BY <2>1
  <2> QED BY <1>1, <2>2
<1> HIDE DEF U
<1>3. PICK u \in U : \A w \in U : u <= w
  BY <1>2, Least
<1>4. PICK x \in T : u = n - x
  BY <1>3 DEF U
<1>5. \A y \in T : n - x <= n - y /\ y \in Nat /\ x \in Nat
  <2>1. \A y \in T : n - y \in U
    BY DEF U
  <2> QED BY <1>3, <1>4, <1>1, <2>1
<1> QED BY <1>5, <1>1

\* Where the packets of a stream are, and which ones they are.
LEMMA Places ==
    ASSUME CaptureTyped, FromSenders, NEW s \in Streams
    PROVE  /\ Of(s) \subseteq 1..Len(tape) /\ Len(tape) \in Nat /\ Len(said[s]) \in Nat
           /\ \A i \in Of(s) : /\ i \in Nat /\ tape[i].from = s /\ tape[i] \in Packets
                               /\ tape[i].n \in 1..Len(said[s]) /\ tape[i].n \in Nat \ {0}
                               /\ tape[i].seq = (start[s] + tape[i].n - 1) % Modulus
<1>1. Of(s) \subseteq 1..Len(tape) /\ Len(tape) \in Nat /\ Len(said[s]) \in Nat
  BY OnTape, LenProperties DEF Of, CaptureTyped
<1>2. ASSUME NEW i \in Of(s)
      PROVE  /\ i \in Nat /\ tape[i].from = s /\ tape[i] \in Packets
             /\ tape[i].n \in 1..Len(said[s]) /\ tape[i].n \in Nat \ {0}
             /\ tape[i].seq = (start[s] + tape[i].n - 1) % Modulus
  <2>1. i \in DOMAIN tape /\ tape[i].from = s /\ i \in Nat
    BY <1>1 DEF Of
  <2>2. tape[i] \in Packets /\ tape[i].from # "SIP"
    BY <2>1, OnTape
  <2>3. Sent(tape[i], start, said) /\ tape[i].n \in 1..MaxPackets
    BY <2>1, <2>2 DEF FromSenders, Packets
  <2>4. tape[i].n \in Nat \ {0}
    BY <2>3, Limits
  <2> QED BY <1>1, <2>1, <2>2, <2>3, <2>4 DEF Sent
<1> QED BY <1>1, <1>2

\* There are no more missing packets than there are packets.
LEMMA MissingFinite ==
    ASSUME CaptureTyped, FromSenders, NEW s \in Streams
    PROVE  IsFiniteSet(Missing(s)) /\ Cardinality(Missing(s)) \in Nat
<1>1. IsFiniteSet(1..Len(said[s]))
  BY Places, FS_Interval
<1>2. Missing(s) \subseteq 1..Len(said[s])
  BY DEF Missing
<1> QED BY <1>1, <1>2, FS_Subset, FS_CardinalityType

\* Where none of a stream's packets arrives, its count is still right, also when it
\* sends more.
LEMMA CountingStays ==
    ASSUME CaptureTyped, FromSenders, NEW s \in Streams, Counting(s),
           Of(s)' = Of(s), \A i \in Of(s) : tape'[i] = tape[i],
           start' = start, stats'[s] = stats[s],
           Len(said'[s]) \in Nat, Len(said'[s]) >= Len(said[s])
    PROVE  Counting(s)'
<1>1. Steady(s)' <=> Steady(s)
  BY DEF Steady
<1>2. InOrder(s)' <=> InOrder(s)
  BY DEF InOrder
<1>3. ASSUME NEW x
      PROVE  x \in Missing(s)' <=> x \in Missing(s)
  <2>1. \A i \in Of(s) : tape'[i].n = tape[i].n /\ tape[i].n \in Nat
                         /\ tape[i].n <= Len(said[s])
    BY Places
  <2>2. Len(said[s]) \in Nat
    BY Places
  <2>3. ASSUME x \in Missing(s)
        PROVE  x \in Missing(s)'
    <3>1. x \in 1..Len(said'[s])
      BY <2>2, <2>3 DEF Missing
    <3> QED BY <2>1, <2>3, <3>1 DEF Missing
  <2>4. ASSUME x \in Missing(s)'
        PROVE  x \in Missing(s)
    <3>1. x \in 1..Len(said'[s]) /\ \E i \in Of(s) : x < tape[i].n
      BY <2>1, <2>4 DEF Missing
    <3>2. x \in 1..Len(said[s])
      BY <2>1, <2>2, <3>1
    <3> QED BY <2>1, <2>4, <3>2 DEF Missing
  <2> QED BY <2>3, <2>4
<1>4. Missing(s)' = Missing(s)
  BY <1>3
<1> QED BY <1>1, <1>2, <1>4 DEF Counting

\* The numbers a receiver counts as skipped when a packet of a steady stream arrives
\* after another.
LEMMA SteadyGap ==
    ASSUME NEW st, st.has, NEW begin \in Nat, NEW m \in Nat \ {0}, NEW n \in Nat \ {0},
           st.last = (begin + m - 1) % Modulus, NEW q, q = (begin + n - 1) % Modulus,
           begin + m <= Modulus, begin + n <= Modulus, n <= m + HugeGap
    PROVE  m < n => Gap(st, q) = n - 1 - m
<1>1. SUFFICES ASSUME m < n PROVE Gap(st, q) = n - 1 - m
  OBVIOUS
<1>2. Modulus \in Nat \ {0} /\ HugeGap \in Nat
  BY Limits
<1>3. st.last = begin + m - 1
  <2>1. begin + m - 1 \in 0..Modulus - 1
    BY <1>2
  <2> QED BY <1>2, <2>1
<1>4. q = begin + n - 1
  <2>1. begin + n - 1 \in 0..Modulus - 1
    BY <1>2
  <2> QED BY <1>2, <2>1
<1>5. PICK e : e = (st.last + 1) % Modulus
  OBVIOUS
<1>6. e = begin + m
  <2>1. st.last + 1 = begin + m /\ begin + m \in 0..Modulus - 1
    BY <1>1, <1>2, <1>3
  <2> QED BY <1>2, <1>5, <2>1
<1>7. Gap(st, q) = IF q > e /\ q - e < HugeGap THEN q - e ELSE 0
  BY <1>5 DEF Gap
<1> QED BY <1>1, <1>2, <1>4, <1>6, <1>7

\* A packet that arrives is counted, and so is what was skipped before it.
LEMMA ArrivalCounted ==
    ASSUME CaptureTyped, FromSenders, NEW s \in Streams, Counting(s),
           NEW p \in Packets, p.from = s, Sent(p, start, said),
           tape' = Append(tape, p), start' = start, said' = said,
           stats'[s] = RecordRxPacket(stats[s], p.seq)
    PROVE  Counting(s)'
<1>1. PICK k : k = Len(tape) + 1
  OBVIOUS
<1>2. /\ Len(tape) \in Nat /\ DOMAIN tape = 1..Len(tape) /\ DOMAIN tape' = 1..k
      /\ k \in Nat \ {0} /\ tape'[k] = p /\ \A i \in DOMAIN tape : tape'[i] = tape[i]
  BY <1>1, SoFarGrows
<1>3. /\ Of(s)' = Of(s) \cup {k} /\ k \notin Of(s) /\ k \in Of(s)'
      /\ \A i \in Of(s) : /\ i \in Nat /\ i < k /\ i \in Of(s)' /\ tape'[i] = tape[i]
                          /\ tape[i].n \in Nat \ {0} /\ tape[i].n <= Len(said[s])
                          /\ tape[i].seq = (start[s] + tape[i].n - 1) % Modulus
  <2>1. \A i \in Of(s) : /\ i \in Nat /\ tape[i].n \in Nat \ {0} /\ tape[i].n <= Len(said[s])
                         /\ tape[i].seq = (start[s] + tape[i].n - 1) % Modulus
    BY Places
  <2>2. \A i : i \in DOMAIN tape' <=> i \in DOMAIN tape \/ i = k
    BY <1>1, <1>2
  <2>3. \A i \in DOMAIN tape : i \in Nat /\ i < k
    BY <1>1, <1>2
  <2>4. Of(s)' = Of(s) \cup {k}
    BY <1>2, <2>2 DEF Of
  <2>5. \A i \in Of(s) : i \in DOMAIN tape
    BY DEF Of
  <2> QED BY <1>2, <2>1, <2>3, <2>4, <2>5
<1>4. /\ p.n \in Nat \ {0} /\ p.n <= Len(said[s]) /\ Len(said[s]) \in Nat
      /\ p.seq = (start[s] + p.n - 1) % Modulus
  <2>1. p.n \in 1..MaxPackets
    BY DEF Packets
  <2>2. Len(said[s]) \in Nat
    BY Places
  <2> QED BY <2>1, <2>2, Limits DEF Sent
<1>5. /\ stats[s] \in Counters /\ stats[s].lost \in Nat /\ Gap(stats[s], p.seq) \in Nat
      /\ stats'[s].has /\ stats'[s].last = p.seq
      /\ stats'[s].lost = stats[s].lost + Gap(stats[s], p.seq)
  <2>1. stats[s] \in Counters /\ p.seq \in 0..Modulus - 1
    BY DEF CaptureTyped, Packets
  <2>2. Gap(stats[s], p.seq) \in Nat
    BY <2>1, CountersStay
  <2> QED BY <2>1, <2>2 DEF RecordRxPacket, Counters
<1>6. \A i \in Of(s)' : (\A j \in Of(s)' : j <= i) => stats'[s].last = tape'[i].seq
  <2>1. ASSUME NEW i \in Of(s)', \A j \in Of(s)' : j <= i
        PROVE  i = k
    BY <1>2, <1>3, <2>1
  <2> QED BY <1>2, <1>5, <2>1
<1>7. ASSUME Of(s) = {}, Steady(s)'
      PROVE  /\ stats'[s].lost >= Cardinality(Missing(s)')
             /\ InOrder(s)' => stats'[s].lost = Cardinality(Missing(s)')
  <2>1. Missing(s)' = {}
    <3>1. ASSUME NEW x \in Missing(s)' PROVE FALSE
      <4>1. PICK i \in Of(s)' : tape'[i].n < x
        BY DEF Missing
      <4>2. PICK j \in Of(s)' : x < tape'[j].n
        BY DEF Missing
      <4>3. i = k /\ j = k /\ x \in Nat
        BY <1>3, <1>4, <1>7 DEF Missing
      <4> QED BY <1>2, <1>4, <4>1, <4>2, <4>3
    <3> QED BY <3>1
  <2>2. Missing(s) = {} /\ Steady(s) /\ InOrder(s)
    BY <1>7 DEF Missing, Steady, InOrder
  <2>3. stats[s].lost = 0 /\ ~stats[s].has
    BY <1>7, <2>2, FS_EmptySet DEF Counting
  <2>4. Gap(stats[s], p.seq) = 0
    BY <2>3 DEF Gap
  <2> QED BY <1>5, <2>1, <2>3, <2>4, FS_EmptySet
<1>8. ASSUME Of(s) # {}, Steady(s)'
      PROVE  /\ stats'[s].lost >= Cardinality(Missing(s)')
             /\ InOrder(s)' => stats'[s].lost = Cardinality(Missing(s)')
  <2>1. PICK l \in Of(s) : \A i \in Of(s) : i <= l
    <3>1. Of(s) \subseteq 1..Len(tape)
      BY Places
    <3> QED BY <1>2, <1>8, <3>1, Greatest
  <2>2. PICK f \in Of(s) : \A i \in Of(s) : f <= i
    <3>1. Of(s) \in SUBSET Nat
      BY <1>3
    <3> QED BY <1>8, <3>1, Least
  <2>3. PICK m : m = tape[l].n
    OBVIOUS
  <2>4. /\ m \in Nat \ {0} /\ m <= Len(said[s]) /\ stats[s].has
        /\ stats[s].last = (start[s] + m - 1) % Modulus
    BY <1>3, <1>8, <2>1, <2>3 DEF Counting
  <2>5. /\ Steady(s) /\ start[s] + m <= Modulus /\ start[s] + p.n <= Modulus
        /\ p.n <= m + HugeGap
    <3>1. \A i \in Of(s)' : start[s] + tape'[i].n <= Modulus
      BY <1>8 DEF Steady
    <3>2. ASSUME NEW i \in Of(s)', NEW j \in Of(s)', i < j,
                 \A h \in Of(s)' : h <= i \/ j <= h
          PROVE  tape'[j].n <= tape'[i].n + HugeGap
      BY <1>8, <3>2 DEF Steady
    <3>3. \A i \in Of(s) : start[s] + tape[i].n <= Modulus
      BY <1>3, <3>1
    <3>4. ASSUME NEW i \in Of(s), NEW j \in Of(s), i < j,
                 \A h \in Of(s) : h <= i \/ j <= h
          PROVE  tape[j].n <= tape[i].n + HugeGap
      <4>1. \A h \in Of(s)' : h <= i \/ j <= h
        BY <1>2, <1>3, <3>4
      <4>2. i \in Of(s)' /\ j \in Of(s)' /\ tape'[i] = tape[i] /\ tape'[j] = tape[j]
        BY <1>3
      <4> QED BY <3>2, <3>4, <4>1, <4>2
    <3>5. p.n <= m + HugeGap
      <4>1. \A h \in Of(s)' : h <= l \/ k <= h
        BY <1>2, <1>3, <2>1
      <4>2. l \in Of(s)' /\ tape'[l] = tape[l] /\ l < k /\ k \in Of(s)' /\ tape'[k] = p
        BY <1>2, <1>3
      <4> QED BY <2>3, <3>2, <4>1, <4>2
    <3>6. Steady(s)
      BY <3>3, <3>4 DEF Steady
    <3> QED BY <1>2, <1>3, <2>3, <3>1, <3>3, <3>5, <3>6
  <2>6. m < p.n => Gap(stats[s], p.seq) = p.n - 1 - m
    <3>1. start[s] \in Nat
      BY Limits
    <3>2. PICK st : st = stats[s]
      OBVIOUS
    <3>3. st.has /\ st.last = (start[s] + m - 1) % Modulus /\ m \in Nat \ {0}
      BY <2>4, <3>2
    <3>4. p.n \in Nat \ {0} /\ p.seq = (start[s] + p.n - 1) % Modulus
      BY <1>4
    <3>5. m < p.n => Gap(st, p.seq) = p.n - 1 - m
      BY <2>5, <3>1, <3>3, <3>4, SteadyGap
    <3> QED BY <3>2, <3>5
  <2>7. /\ IsFiniteSet(Missing(s)) /\ Cardinality(Missing(s)) \in Nat
        /\ stats[s].lost >= Cardinality(Missing(s))
        /\ InOrder(s) => stats[s].lost = Cardinality(Missing(s))
    BY <2>5, MissingFinite DEF Counting
  <2>8. ASSUME NEW x \in Missing(s)'
        PROVE  x \in Missing(s) \/ (m < x /\ x < p.n /\ x \in Nat)
    <3>1. x \in 1..Len(said[s]) /\ x \in Nat /\ \A i \in Of(s) : tape[i].n # x
      <4>1. x \in 1..Len(said'[s]) /\ \A i \in Of(s)' : tape'[i].n # x
        BY <2>8 DEF Missing
      <4>2. ASSUME NEW i \in Of(s) PROVE tape[i].n # x
        <5>1. i \in Of(s)' /\ tape'[i] = tape[i]
          BY <1>3
        <5> QED BY <4>1, <5>1
      <4> QED BY <1>4, <4>1, <4>2
    <3>2. \E i \in Of(s) : tape[i].n < x /\ \A j \in Of(s) : i <= j
      <4>1. PICK i \in Of(s)' : tape'[i].n < x /\ \A j \in Of(s)' : i <= j
        BY DEF Missing
      <4>2. i # k
        BY <1>2, <1>3, <2>1, <4>1
      <4> QED BY <1>3, <4>1, <4>2
    <3>3. CASE x < m
      <4>1. \E i \in Of(s) : x < tape[i].n
        BY <2>1, <2>3, <3>3
      <4> QED BY <3>1, <3>2, <4>1 DEF Missing
    <3>4. CASE ~(x < m)
      <4>1. m < x
        BY <2>3, <2>4, <3>1, <3>4
      <4>2. PICK i \in Of(s)' : x < tape'[i].n
        BY DEF Missing
      <4>3. CASE i = k
        BY <1>2, <3>1, <4>1, <4>2, <4>3
      <4>4. CASE i \in Of(s)
        <5>1. x < tape[i].n
          BY <1>3, <4>2, <4>4
        <5> QED BY <3>1, <3>2, <4>4, <5>1 DEF Missing
      <4> QED BY <1>3, <4>3, <4>4
    <3> QED BY <3>3, <3>4
  <2>9. CASE m < p.n
    <3> DEFINE N == m + 1..p.n - 1
    <3>1. IsFiniteSet(N) /\ Cardinality(N) = p.n - 1 - m
      <4>1. m + 1 \in Int /\ p.n - 1 \in Int
        BY <1>4, <2>4
      <4>2. IsFiniteSet(N) /\ Cardinality(N) = IF m + 1 > p.n - 1 THEN 0 ELSE (p.n - 1) - (m + 1) + 1
        BY <4>1, FS_Interval
      <4> QED BY <1>4, <2>4, <2>9, <4>2
    <3>2. Missing(s)' \subseteq Missing(s) \cup N
      BY <1>4, <2>4, <2>8
    <3>3. /\ IsFiniteSet(Missing(s) \cup N)
          /\ Cardinality(Missing(s) \cup N)
             = Cardinality(Missing(s)) + Cardinality(N) - Cardinality(Missing(s) \cap N)
      BY <2>7, <3>1, FS_Union
    <3>4. Cardinality(Missing(s) \cap N) \in Nat /\ Cardinality(Missing(s)') \in Nat
          /\ Cardinality(Missing(s)') <= Cardinality(Missing(s) \cup N)
      <4>1. IsFiniteSet(Missing(s) \cap N) /\ IsFiniteSet(Missing(s)')
        BY <2>7, <3>2, <3>3, FS_Subset
      <4> QED BY <3>2, <3>3, <4>1, FS_Subset, FS_CardinalityType
    <3>5. stats'[s].lost >= Cardinality(Missing(s)')
      <4> HIDE DEF N
      <4>1. stats'[s].lost = stats[s].lost + Cardinality(N)
        BY <1>5, <2>6, <2>9, <3>1
      <4>2. Cardinality(N) \in Nat
        BY <3>1, FS_CardinalityType
      <4>3. Cardinality(Missing(s)') <= Cardinality(Missing(s)) + Cardinality(N)
        BY <2>7, <3>3, <3>4, <4>2
      <4> QED BY <1>5, <2>7, <3>4, <4>1, <4>2, <4>3
    <3>6. ASSUME InOrder(s)'
          PROVE  stats'[s].lost = Cardinality(Missing(s)')
      <4>1. InOrder(s)
        <5>1. ASSUME NEW i \in Of(s), NEW j \in Of(s), i < j
              PROVE  tape[i].n < tape[j].n
          <6>1. \A g, h \in Of(s)' : g < h => tape'[g].n < tape'[h].n
            BY <3>6 DEF InOrder
          <6> QED BY <1>3, <5>1, <6>1
        <5> QED BY <5>1 DEF InOrder
      <4>2. ASSUME NEW i \in Of(s) PROVE tape[i].n <= m
        <5>1. CASE i = l
          BY <2>3, <2>4, <5>1
        <5>2. CASE i # l
          <6>1. i < l
            BY <1>3, <2>1, <5>2
          <6>2. tape[i].n < tape[l].n
            BY <4>1, <6>1 DEF InOrder
          <6> QED BY <1>3, <2>3, <2>4, <6>2
        <5> QED BY <5>1, <5>2
      <4>3. \A x \in Missing(s) : x \in Nat /\ x < m
        BY <1>3, <1>4, <2>4, <4>2 DEF Missing
      <4>4. Missing(s) \cap N = {}
        BY <2>4, <4>3
      <4>5. ASSUME NEW x \in Missing(s) PROVE x \in Missing(s)'
        <5>1. /\ x \in 1..Len(said[s]) /\ \A i \in Of(s) : tape[i].n # x
              /\ \E i \in Of(s) : x < tape[i].n
          BY DEF Missing
        <5>2. PICK i \in Of(s) : tape[i].n < x /\ \A j \in Of(s) : i <= j
          BY DEF Missing
        <5>3. x # p.n
          BY <1>4, <2>4, <2>9, <4>3
        <5>4. ASSUME NEW j \in Of(s)' PROVE i <= j /\ tape'[j].n # x
          <6>1. CASE j = k
            BY <1>2, <1>3, <5>2, <5>3, <6>1
          <6>2. CASE j \in Of(s)
            BY <1>3, <5>1, <5>2, <6>2
          <6> QED BY <1>3, <6>1, <6>2
        <5>5. /\ i \in Of(s)' /\ tape'[i].n < x
              /\ \E j \in Of(s)' : x < tape'[j].n
          BY <1>3, <5>1, <5>2
        <5> QED BY <5>1, <5>4, <5>5 DEF Missing
      <4>6. ASSUME NEW x \in N PROVE x \in Missing(s)'
        <5>1. x \in Nat /\ m < x /\ x < p.n /\ x \in 1..Len(said[s])
          BY <1>4, <2>4
        <5>2. ASSUME NEW j \in Of(s)' PROVE f <= j /\ tape'[j].n # x
          <6>1. CASE j = k
            BY <1>2, <1>3, <1>4, <2>2, <5>1, <6>1
          <6>2. CASE j \in Of(s)
            <7>1. tape[j].n <= m /\ tape'[j] = tape[j] /\ tape[j].n \in Nat
              BY <1>3, <4>2, <6>2
            <7> QED BY <2>2, <2>4, <5>1, <6>2, <7>1
          <6> QED BY <1>3, <6>1, <6>2
        <5>3. f \in Of(s)' /\ tape'[f].n < x
          <6>1. tape[f].n \in Nat /\ tape[f].n <= m
            BY <1>3, <4>2
          <6>2. f \in Of(s)' /\ tape'[f] = tape[f]
            BY <1>3
          <6> QED BY <2>4, <5>1, <6>1, <6>2
        <5>4. k \in Of(s)' /\ x < tape'[k].n
          BY <1>2, <1>3, <5>1
        <5> QED BY <5>1, <5>2, <5>3, <5>4 DEF Missing
      <4>7. Missing(s)' = Missing(s) \cup N
        BY <3>2, <4>5, <4>6
      <4>8. Cardinality(Missing(s)') = Cardinality(Missing(s)) + Cardinality(N)
        <5>1. Cardinality(Missing(s) \cap N) = 0
          BY <4>4, FS_EmptySet
        <5>2. Cardinality(N) \in Nat
          BY <3>1, FS_CardinalityType
        <5> HIDE DEF N
        <5> QED BY <2>7, <3>3, <4>7, <5>1, <5>2
      <4> HIDE DEF N
      <4> QED BY <1>4, <1>5, <2>4, <2>6, <2>7, <2>9, <3>1, <4>1, <4>8
    <3> QED BY <3>5, <3>6
  <2>10. CASE ~(m < p.n)
    <3>1. Missing(s)' \subseteq Missing(s)
      BY <1>4, <2>4, <2>8, <2>10
    <3>2. Cardinality(Missing(s)') \in Nat /\ Cardinality(Missing(s)') <= Cardinality(Missing(s))
      BY <2>7, <3>1, FS_Subset, FS_CardinalityType
    <3>3. ~InOrder(s)'
      <4>1. l \in Of(s)' /\ k \in Of(s)' /\ l < k /\ tape'[l].n = m /\ tape'[k].n = p.n
        BY <1>2, <1>3, <2>3
      <4> QED BY <2>10, <4>1 DEF InOrder
    <3> QED BY <1>5, <2>7, <3>2, <3>3
  <2> QED BY <2>9, <2>10
<1>9. stats'[s].has <=> Of(s)' # {}
  BY <1>3, <1>5
<1> QED BY <1>6, <1>7, <1>8, <1>9 DEF Counting

\* At the beginning nothing is counted and nothing missing.
LEMMA CountingInit == ASSUME CaptureInit, NEW s \in Streams PROVE Counting(s)
<1>1. DOMAIN tape = {} /\ stats[s] = NewStreamStats
  BY DEF CaptureInit
<1>2. Of(s) = {}
  BY <1>1 DEF Of
<1>3. Missing(s) = {}
  BY <1>2 DEF Missing
<1>4. stats[s].lost = 0 /\ stats[s].has = FALSE
  BY <1>1 DEF NewStreamStats
<1> QED BY <1>2, <1>3, <1>4, FS_EmptySet DEF Counting

\* Every step keeps every stream's count.
LEMMA CountingStep ==
    ASSUME CaptureTyped, FromSenders, [CaptureNext]_captureVars,
           NEW s \in Streams, Counting(s)
    PROVE  Counting(s)'
<1>1. said[s] \in Seq(Headers) /\ Len(said[s]) \in Nat
  BY LenProperties DEF CaptureTyped
<1>2. ASSUME tape' = tape
      PROVE  Of(s)' = Of(s) /\ \A i \in Of(s) : tape'[i] = tape[i]
  BY <1>2 DEF Of
<1>3. ASSUME NEW p \in Packets \cup {SipMessage}, p.from # s, tape' = Append(tape, p)
      PROVE  Of(s)' = Of(s) /\ \A i \in Of(s) : tape'[i] = tape[i]
  <2>1. /\ Len(tape) \in Nat /\ DOMAIN tape = 1..Len(tape)
        /\ DOMAIN tape' = 1..Len(tape) + 1 /\ tape'[Len(tape) + 1] = p
        /\ \A i \in DOMAIN tape : tape'[i] = tape[i]
    BY <1>3, SoFarGrows
  <2>2. \A i : i \in DOMAIN tape' <=> i \in DOMAIN tape \/ i = Len(tape) + 1
    BY <2>1
  <2> QED BY <1>3, <2>1, <2>2 DEF Of
<1>4. ASSUME NEW t \in Streams, Transmit(t)
      PROVE  Counting(s)'
  <2>1. PICK h \in Headers : said' = [said EXCEPT ![t] = Append(@, h)]
    BY <1>4 DEF Transmit
  <2>2. start' = start /\ stats' = stats /\ tape' = tape
    BY <1>4 DEF Transmit
  <2>3. Len(said'[s]) \in Nat /\ Len(said'[s]) >= Len(said[s])
    <3>1. said \in [Streams -> Seq(Headers)]
      BY DEF CaptureTyped
    <3>2. CASE s = t
      <4>1. said'[s] = Append(said[s], h)
        BY <2>1, <3>1, <3>2
      <4>2. Len(said'[s]) = Len(said[s]) + 1
        BY <1>1, <4>1, AppendProperties
      <4> QED BY <1>1, <4>2
    <3>3. CASE s # t
      <4>1. said'[s] = said[s]
        BY <2>1, <3>1, <3>3
      <4> QED BY <1>1, <4>1
    <3> QED BY <3>2, <3>3
  <2> QED BY <1>2, <2>2, <2>3, CountingStays
<1>5. ASSUME NEW p \in underway, Vanish(p)
      PROVE  Counting(s)'
  <2>1. start' = start /\ said' = said /\ stats' = stats /\ tape' = tape
    BY <1>5 DEF Vanish
  <2> QED BY <1>1, <1>2, <2>1, CountingStays
<1>6. ASSUME NEW p \in underway, Arrive(p)
      PROVE  Counting(s)'
  <2>1. p \in Packets /\ Sent(p, start, said) /\ p.from \in Streams
    BY DEF CaptureTyped, FromSenders, Packets
  <2>2. /\ tape' = Append(tape, p) /\ start' = start /\ said' = said
        /\ stats' = [stats EXCEPT ![p.from] = RecordRxPacket(@, p.seq)]
        /\ stats \in [Streams -> Counters]
    BY <1>6 DEF Arrive, CaptureTyped
  <2>3. CASE p.from = s
    BY <2>1, <2>2, <2>3, ArrivalCounted
  <2>4. CASE p.from # s
    <3>1. stats'[s] = stats[s]
      BY <2>1, <2>2, <2>4
    <3>2. Of(s)' = Of(s) /\ \A i \in Of(s) : tape'[i] = tape[i]
      BY <1>3, <2>1, <2>2, <2>4
    <3>3. Len(said'[s]) \in Nat /\ Len(said'[s]) >= Len(said[s])
      BY <1>1, <2>2
    <3> QED BY <2>2, <3>1, <3>2, <3>3, CountingStays
  <2> QED BY <2>3, <2>4
<1>7. CASE Sip
  <2>1. /\ tape' = Append(tape, SipMessage) /\ start' = start /\ said' = said
        /\ stats' = stats
    BY <1>7 DEF Sip, SipMessage
  <2>2. SipMessage.from # s
    BY OnTape, CaptureAssumption DEF CaptureAssumption
  <2>3. Of(s)' = Of(s) /\ \A i \in Of(s) : tape'[i] = tape[i]
    BY <1>3, <2>1, <2>2
  <2>4. Len(said'[s]) \in Nat /\ Len(said'[s]) >= Len(said[s])
    BY <1>1, <2>1
  <2> QED BY <2>1, <2>3, <2>4, CountingStays
<1>8. CASE UNCHANGED captureVars
  <2>1. start' = start /\ said' = said /\ stats' = stats /\ tape' = tape
    BY <1>8 DEF captureVars
  <2> QED BY <1>1, <1>2, <2>1, CountingStays
<1> QED BY <1>4, <1>5, <1>6, <1>7, <1>8 DEF CaptureNext

-----------------------------------------------------------------------------
(* Audio is kept.                                                          *)

\* At the beginning there is no audio.
LEMMA RestoredInit == CaptureInit => Restored
<1> SUFFICES ASSUME CaptureInit PROVE Restored
  OBVIOUS
<1>1. Len(tape) = 0 /\ DOMAIN tape = {}
  BY DEF CaptureInit
<1>2. SoFar = NewReport
  BY <1>1, ReportsFollow DEF SoFar
<1>3. Voiced = {} /\ Len(SoFar.pcm) = 0
  BY <1>1, <1>2, EmptySeq DEF Voiced, NewReport
<1> QED BY <1>3, FS_EmptySet DEF Restored

\* A packet's audio goes to the end of what is restored.
LEMMA ArrivalRestored ==
    ASSUME CaptureTyped, Restored, NEW p \in Packets, tape' = Append(tape, p)
    PROVE  Restored'
<1>1. PICK k : k = Len(tape) + 1
  OBVIOUS
<1>2. /\ Len(tape) \in Nat /\ DOMAIN tape = 1..Len(tape) /\ DOMAIN tape' = 1..k
      /\ k \in Nat \ {0} /\ tape'[k] = p /\ \A i \in DOMAIN tape : tape'[i] = tape[i]
      /\ SoFar' = Dissect(SoFar, k, p)
  BY <1>1, SoFarGrows
<1>3. /\ Voiced' = Voiced \cup {k} /\ k \notin Voiced
      /\ \A i \in Voiced : i \in Nat /\ i < k /\ tape'[i] = tape[i]
      /\ IsFiniteSet(Voiced) /\ Cardinality(Voiced) \in Nat
  <2>1. \A i : i \in DOMAIN tape' <=> i \in DOMAIN tape \/ i = k
    BY <1>1, <1>2
  <2>2. p.from \in Streams
    BY OnTape
  <2>3. Voiced' = Voiced \cup {k}
    BY <1>2, <2>1, <2>2 DEF Voiced
  <2>4. \A i \in Voiced : i \in DOMAIN tape
    BY DEF Voiced
  <2>5. \A i \in DOMAIN tape : i \in Nat /\ i < k
    BY <1>1, <1>2
  <2>6. IsFiniteSet(DOMAIN tape)
    BY <1>2, FS_Interval
  <2>7. Voiced \subseteq DOMAIN tape
    BY <2>4
  <2>8. IsFiniteSet(Voiced) /\ Cardinality(Voiced) \in Nat
    BY <2>6, <2>7, FS_Subset, FS_CardinalityType
  <2> QED BY <1>2, <2>3, <2>4, <2>5, <2>8
<1>4. PICK c : c = Cardinality(Voiced)
  OBVIOUS
<1>5. SoFar'.pcm = Append(SoFar.pcm, Decoded(p))
  <2>1. Dissected(SoFar, k, p, SoFar') /\ p.from # "SIP"
    <3>1. SoFar \in Report
      BY DEF CaptureTyped
    <3> QED BY <1>2, <3>1, DissectFields, OnTape
  <2> QED BY <2>1 DEF Dissected
<1>6. /\ Len(SoFar.pcm) = c /\ Len(SoFar'.pcm) = c + 1 /\ SoFar'.pcm[c + 1] = Decoded(p)
      /\ \A i \in 1..c : SoFar'.pcm[i] = SoFar.pcm[i]
  <2>1. SoFar.pcm \in Seq({Decoded(q) : q \in Packets})
    BY DEF CaptureTyped, Report
  <2>2. Decoded(p) \in {Decoded(q) : q \in Packets}
    OBVIOUS
  <2>3. Len(SoFar.pcm) = c
    BY <1>4 DEF Restored
  <2> QED BY <1>3, <1>4, <1>5, <2>1, <2>2, <2>3, AppendProperties
<1>7. Cardinality(Voiced') = c + 1
  BY <1>3, <1>4, FS_AddElement
<1>8. ASSUME NEW i \in Voiced
      PROVE  SoFar'.pcm[Cardinality({j \in Voiced' : j <= i})] = Decoded(tape'[i])
  <2>1. PICK V : V = {j \in Voiced : j <= i}
    OBVIOUS
  <2>2. {j \in Voiced' : j <= i} = V
    BY <1>2, <1>3, <2>1
  <2>3. V \subseteq Voiced /\ i \in V
    BY <1>3, <2>1
  <2>4. IsFiniteSet(V) /\ Cardinality(V) \in Nat /\ Cardinality(V) <= c
    BY <1>3, <1>4, <2>3, FS_Subset, FS_CardinalityType
  <2>5. Cardinality(V) # 0
    BY <2>3, <2>4, FS_EmptySet
  <2>6. Cardinality(V) \in 1..c
    BY <1>3, <1>4, <2>4, <2>5
  <2>7. SoFar.pcm[Cardinality(V)] = Decoded(tape[i])
    BY <2>1 DEF Restored
  <2> QED BY <1>3, <1>6, <2>2, <2>6, <2>7
<1>9. SoFar'.pcm[Cardinality({j \in Voiced' : j <= k})] = Decoded(tape'[k])
  <2>1. {j \in Voiced' : j <= k} = Voiced'
    BY <1>2, <1>3
  <2> QED BY <1>2, <1>6, <1>7, <2>1
<1>10. \A i \in Voiced' :
         SoFar'.pcm[Cardinality({j \in Voiced' : j <= i})] = Decoded(tape'[i])
  BY <1>3, <1>8, <1>9
<1>11. Len(SoFar'.pcm) = Cardinality(Voiced')
  BY <1>6, <1>7
<1> QED BY <1>10, <1>11 DEF Restored

\* Nothing else changes what is restored.
LEMMA RestoredStays ==
    ASSUME Restored, SoFar'.pcm = SoFar.pcm, Voiced' = Voiced,
           \A i \in Voiced : tape'[i] = tape[i]
    PROVE  Restored'
<1>1. Len(SoFar'.pcm) = Cardinality(Voiced')
  BY DEF Restored
<1>2. \A i \in Voiced' :
        SoFar'.pcm[Cardinality({j \in Voiced' : j <= i})] = Decoded(tape'[i])
  BY DEF Restored
<1> QED BY <1>1, <1>2 DEF Restored

\* Every step keeps what was restored.
LEMMA RestoredStep ==
    ASSUME CaptureTyped, FromSenders, Restored, [CaptureNext]_captureVars
    PROVE  Restored'
<1>1. ASSUME tape' = tape PROVE Restored'
  <2>1. SoFar' = SoFar /\ Voiced' = Voiced
    BY <1>1 DEF SoFar, Voiced
  <2> QED BY <1>1, <2>1, RestoredStays
<1>2. ASSUME NEW p \in underway, Arrive(p) PROVE Restored'
  <2>1. p \in Packets /\ tape' = Append(tape, p)
    BY <1>2 DEF Arrive, CaptureTyped
  <2> QED BY <2>1, ArrivalRestored
<1>3. CASE Sip
  <2>1. PICK k : k = Len(tape) + 1
    OBVIOUS
  <2>2. tape' = Append(tape, SipMessage) /\ SipMessage.from = "SIP" /\ SoFar \in Report
    BY <1>3, OnTape DEF Sip, SipMessage, CaptureTyped
  <2>3. /\ Len(tape) \in Nat /\ DOMAIN tape = 1..Len(tape) /\ DOMAIN tape' = 1..k
        /\ k \in Nat \ {0} /\ tape'[k] = SipMessage
        /\ \A i \in DOMAIN tape : tape'[i] = tape[i]
        /\ SoFar' = Dissect(SoFar, k, SipMessage)
    BY <2>1, <2>2, SoFarGrows
  <2>4. Dissected(SoFar, k, SipMessage, SoFar')
    BY <2>2, <2>3, DissectFields
  <2>5. SoFar'.pcm = SoFar.pcm
    BY <2>2, <2>4 DEF Dissected
  <2>6. \A i : i \in DOMAIN tape' <=> i \in DOMAIN tape \/ i = k
    BY <2>1, <2>3
  <2>7. "SIP" \notin Streams
    BY CaptureAssumption DEF CaptureAssumption
  <2>8. Voiced' = Voiced /\ \A i \in Voiced : tape'[i] = tape[i]
    BY <2>2, <2>3, <2>6, <2>7 DEF Voiced
  <2> QED BY <2>5, <2>8, RestoredStays
<1>4. CASE (\E s \in Streams : Transmit(s)) \/ (\E p \in underway : Vanish(p))
           \/ UNCHANGED captureVars
  BY <1>1, <1>4 DEF Transmit, Vanish, captureVars
<1> QED BY <1>2, <1>3, <1>4 DEF CaptureNext

-----------------------------------------------------------------------------
(* Runs, and the spans of a timeline.                                      *)

\* A packet that does not belong to a run and comes after all leaves the runs as they
\* are.
LEMMA RunsSkip ==
    ASSUME NEW Y \in SUBSET Nat, NEW X \in SUBSET Y, NEW i \in Nat, \A y \in Y : y < i
    PROVE  Runs(X, Y \cup {i}) = Runs(X, Y)
<1>1. (Y \cup {i}) \ X = (Y \ X) \cup {i}
  OBVIOUS
<1>2. \A x \in X : x \in Nat /\ x < i
  OBVIOUS
<1>3. ASSUME NEW r \in X \X X
      PROVE  r \in Runs(X, Y \cup {i}) <=> r \in Runs(X, Y)
  <2>1. r[1] \in X /\ r[2] \in X /\ r[1] \in Nat /\ r[2] \in Nat
    OBVIOUS
  <2>2. (\A y \in (Y \cup {i}) \ X : ~(r[1] < y /\ y < r[2]))
        <=> (\A y \in Y \ X : ~(r[1] < y /\ y < r[2]))
    BY <1>1, <1>2, <2>1
  <2>3. ASSUME NEW a \in X, NEW b \in X
        PROVE  (\E y \in (Y \cup {i}) \ X : a < y /\ y < b) <=> (\E y \in Y \ X : a < y /\ y < b)
    BY <1>1, <1>2
  <2> QED BY <2>1, <2>2, <2>3 DEF Runs
<1> QED BY <1>3 DEF Runs

\* One that belongs begins a run when all runs are over.
LEMMA RunsStart ==
    ASSUME NEW Y \in SUBSET Nat, NEW X \in SUBSET Y, NEW i \in Nat, \A y \in Y : y < i,
           \A x \in X : \E y \in Y \ X : x < y
    PROVE  Runs(X \cup {i}, Y \cup {i}) = Runs(X, Y) \cup {<<i, i>>} /\ <<i, i>> \notin Runs(X, Y)
<1>1. (Y \cup {i}) \ (X \cup {i}) = Y \ X
  OBVIOUS
<1>2. \A y \in Y : y \in Nat /\ y < i
  OBVIOUS
<1>3. ASSUME NEW r \in Runs(X, Y)
      PROVE  r \in Runs(X \cup {i}, Y \cup {i})
  <2>1. /\ r \in X \X X /\ r[1] \in X /\ r[2] \in X /\ r[1] \in Nat /\ r[1] < i
        /\ \A x \in X : x < r[1] => \E y \in Y \ X : x < y /\ y < r[1]
    BY <1>2 DEF Runs
  <2>2. \A x \in X \cup {i} : x < r[1] => \E y \in Y \ X : x < y /\ y < r[1]
    BY <2>1
  <2>3. \A x \in X \cup {i} : x > r[2] => \E y \in Y \ X : r[2] < y /\ y < x
    BY <1>2, <2>1 DEF Runs
  <2> QED BY <1>1, <2>1, <2>2, <2>3 DEF Runs
<1>4. <<i, i>> \in Runs(X \cup {i}, Y \cup {i})
  <2>1. \A x \in X \cup {i} : x < i => \E y \in Y \ X : x < y /\ y < i
    BY <1>2
  <2>2. \A x \in X \cup {i} : ~(x > i)
    BY <1>2
  <2>3. \A y \in Y \ X : ~(i < y /\ y < i)
    BY <1>2
  <2> QED BY <1>1, <2>1, <2>2, <2>3 DEF Runs
<1>5. ASSUME NEW r \in Runs(X \cup {i}, Y \cup {i})
      PROVE  r \in Runs(X, Y) \cup {<<i, i>>}
  <2>1. /\ r = <<r[1], r[2]>> /\ r[1] \in X \cup {i} /\ r[2] \in X \cup {i} /\ r[1] <= r[2]
        /\ \A y \in Y \ X : ~(r[1] < y /\ y < r[2])
        /\ \A x \in X \cup {i} : x < r[1] => \E y \in Y \ X : x < y /\ y < r[1]
        /\ \A x \in X \cup {i} : x > r[2] => \E y \in Y \ X : r[2] < y /\ y < x
    BY <1>1 DEF Runs
  <2>2. CASE r[1] = i
    BY <1>2, <2>1, <2>2
  <2>3. CASE r[1] \in X /\ r[2] = i
    BY <1>2, <2>1, <2>3
  <2>4. CASE r[1] \in X /\ r[2] \in X
    <3>1. r \in X \X X
      BY <2>1, <2>4
    <3> QED BY <2>1, <3>1 DEF Runs
  <2> QED BY <2>1, <2>2, <2>3, <2>4
<1>6. <<i, i>> \notin Runs(X, Y)
  BY <1>2 DEF Runs
<1> QED BY <1>3, <1>4, <1>5, <1>6

\* Or makes the last run longer, when that is not over.
LEMMA RunsGrow ==
    ASSUME NEW Y \in SUBSET Nat, NEW X \in SUBSET Y, NEW i \in Nat, \A y \in Y : y < i,
           NEW a, NEW b, <<a, b>> \in Runs(X, Y), \A y \in Y : y <= b
    PROVE  /\ Runs(X \cup {i}, Y \cup {i}) = (Runs(X, Y) \ {<<a, b>>}) \cup {<<a, i>>}
           /\ <<a, i>> \notin Runs(X, Y)
<1>1. (Y \cup {i}) \ (X \cup {i}) = Y \ X
  OBVIOUS
<1>2. \A y \in Y : y \in Nat /\ y < i /\ y <= b
  OBVIOUS
<1>3. /\ a \in X /\ b \in X /\ a <= b /\ a \in Nat /\ b \in Nat /\ b < i
      /\ \A y \in Y \ X : ~(a < y /\ y < b)
      /\ \A x \in X : x < a => \E y \in Y \ X : x < y /\ y < a
  BY <1>2 DEF Runs
<1>4. \A y \in Y \ X : ~(a < y /\ y < i)
  <2>1. ASSUME NEW y \in Y \ X, a < y PROVE FALSE
    <3>1. y <= b /\ y # b /\ y \in Nat
      BY <1>2, <1>3
    <3> QED BY <1>3, <2>1, <3>1
  <2> QED BY <2>1
<1>5. ASSUME NEW r \in Runs(X, Y), r # <<a, b>>
      PROVE  r \in Runs(X \cup {i}, Y \cup {i})
  <2>1. /\ r \in X \X X /\ r = <<r[1], r[2]>> /\ r[1] \in X /\ r[2] \in X /\ r[1] <= r[2]
        /\ \A y \in Y \ X : ~(r[1] < y /\ y < r[2])
        /\ \A x \in X : x < r[1] => \E y \in Y \ X : x < y /\ y < r[1]
        /\ \A x \in X : x > r[2] => \E y \in Y \ X : r[2] < y /\ y < x
    BY DEF Runs
  <2>2. r[1] \in Nat /\ r[2] \in Nat /\ r[1] <= b /\ r[2] <= b /\ r[2] < i
    BY <1>2, <2>1
  <2>3. r[2] # b
    <3>1. SUFFICES ASSUME r[2] = b PROVE FALSE
      OBVIOUS
    <3>2. r[1] # a
      BY <1>5, <2>1, <3>1
    <3>3. CASE r[1] < a
      <4>1. PICK y \in Y \ X : r[1] < y /\ y < a
        BY <1>3, <2>1, <3>3
      <4>2. y \in Nat /\ y < b
        BY <1>2, <1>3, <4>1
      <4> QED BY <2>1, <3>1, <4>1, <4>2
    <3>4. CASE a < r[1]
      <4>1. PICK y \in Y \ X : a < y /\ y < r[1]
        BY <1>3, <2>1, <3>4
      <4>2. y \in Nat /\ y < b
        BY <1>2, <1>3, <2>2, <4>1
      <4> QED BY <1>3, <4>1, <4>2
    <3> QED BY <1>3, <2>2, <3>2, <3>3, <3>4
  <2>4. PICK z \in Y \ X : r[2] < z /\ z < b
    <3>1. b > r[2]
      BY <1>3, <2>2, <2>3
    <3> QED BY <1>3, <2>1, <3>1
  <2>5. z \in Nat /\ z < i
    BY <1>2
  <2>6. \A x \in X \cup {i} : x < r[1] => \E y \in Y \ X : x < y /\ y < r[1]
    BY <2>1, <2>2
  <2>7. \A x \in X \cup {i} : x > r[2] => \E y \in Y \ X : r[2] < y /\ y < x
    BY <2>1, <2>4, <2>5
  <2> QED BY <1>1, <2>1, <2>6, <2>7 DEF Runs
<1>6. <<a, i>> \in Runs(X \cup {i}, Y \cup {i})
  <2>1. \A x \in X \cup {i} : x < a => \E y \in Y \ X : x < y /\ y < a
    BY <1>3
  <2>2. \A x \in X \cup {i} : ~(x > i)
    BY <1>2
  <2>3. a <= i
    BY <1>3
  <2> QED BY <1>1, <1>3, <1>4, <2>1, <2>2, <2>3 DEF Runs
<1>7. ASSUME NEW r \in Runs(X \cup {i}, Y \cup {i}), r # <<a, i>>
      PROVE  r \in Runs(X, Y) /\ r # <<a, b>>
  <2>1. /\ r = <<r[1], r[2]>> /\ r[1] \in X \cup {i} /\ r[2] \in X \cup {i} /\ r[1] <= r[2]
        /\ \A y \in Y \ X : ~(r[1] < y /\ y < r[2])
        /\ \A x \in X \cup {i} : x < r[1] => \E y \in Y \ X : x < y /\ y < r[1]
        /\ \A x \in X \cup {i} : x > r[2] => \E y \in Y \ X : r[2] < y /\ y < x
    BY <1>1 DEF Runs
  <2>2. r[1] # i
    <3>1. SUFFICES ASSUME r[1] = i PROVE FALSE
      OBVIOUS
    <3>2. PICK y \in Y \ X : b < y /\ y < i
      BY <1>3, <2>1, <3>1
    <3> QED BY <1>2, <1>3, <3>2
  <2>3. r[1] \in X /\ r[1] \in Nat /\ r[1] <= b
    BY <1>2, <2>1, <2>2
  <2>4. r[2] # i
    <3>1. SUFFICES ASSUME r[2] = i PROVE FALSE
      OBVIOUS
    <3>2. r[1] # a
      BY <1>7, <2>1, <3>1
    <3>3. CASE r[1] < a
      <4>1. PICK y \in Y \ X : r[1] < y /\ y < a
        BY <1>3, <2>3, <3>3
      <4>2. y < i
        BY <1>2
      <4> QED BY <2>1, <3>1, <4>1, <4>2
    <3>4. CASE a < r[1]
      <4>1. PICK y \in Y \ X : a < y /\ y < r[1]
        BY <1>3, <2>1, <3>4
      <4> QED BY <1>2, <1>4, <4>1
    <3> QED BY <1>3, <2>3, <3>2, <3>3, <3>4
  <2>5. r \in X \X X /\ r[2] \in X
    BY <2>1, <2>3, <2>4
  <2>6. r \in Runs(X, Y)
    BY <2>1, <2>5 DEF Runs
  <2>7. r # <<a, b>>
    <3>1. SUFFICES ASSUME r[2] = b PROVE FALSE
      OBVIOUS
    <3>2. PICK y \in Y \ X : b < y /\ y < i
      BY <1>3, <2>1, <3>1
    <3> QED BY <1>2, <1>3, <3>2
  <2> QED BY <2>6, <2>7
<1>8. <<a, i>> \notin Runs(X, Y)
  BY <1>2 DEF Runs
<1> QED BY <1>5, <1>6, <1>7, <1>8

\* What one more drawing makes of a timeline.
LEMMA LastOfConcat ==
    ASSUME NEW S, NEW q \in Seq(S), NEW e \in S
    PROVE  /\ q \o <<e>> \in Seq(S) /\ Len(q) \in Nat
           /\ DOMAIN q = 1..Len(q) /\ DOMAIN (q \o <<e>>) = 1..Len(q) + 1
           /\ \A i \in 1..Len(q) : (q \o <<e>>)[i] = q[i]
           /\ (q \o <<e>>)[Len(q) + 1] = e
<1>1. <<e>> \in Seq(S) /\ Len(<<e>>) = 1 /\ <<e>>[1] = e /\ Len(q) \in Nat
  BY LenProperties
<1>2. /\ q \o <<e>> \in Seq(S) /\ Len(q \o <<e>>) = Len(q) + 1
      /\ \A i \in 1..Len(q) + 1 :
            (q \o <<e>>)[i] = IF i <= Len(q) THEN q[i] ELSE <<e>>[i - Len(q)]
  BY <1>1, ConcatProperties
<1>3. PICK n : n = Len(q)
  OBVIOUS
<1>4. n + 1 \in 1..n + 1 /\ ~(n + 1 <= n) /\ n + 1 - n = 1
  BY <1>1, <1>3
<1>5. \A i \in 1..n : i \in 1..n + 1 /\ i <= n
  BY <1>1, <1>3
<1> QED BY <1>1, <1>2, <1>3, <1>4, <1>5, LenProperties

\* Something of another type on the end of a timeline leaves the spans of a type.
LEMMA OtherShown ==
    ASSUME NEW timeline \in Seq(Drawing), NEW span \in {<< >>} \cup Interval,
           NEW type \in {"SIP", "PTT", "SQU"}, NEW other \in {"SIP", "PTT", "SQU"},
           type # other
    PROVE  /\ timeline \o Span(other, span) \in Seq(Drawing)
           /\ Shown(timeline \o Span(other, span), type) = Shown(timeline, type)
           /\ Ordered(timeline, type) => Ordered(timeline \o Span(other, span), type)
<1>1. CASE span = << >>
  <2>1. timeline \o Span(other, span) = timeline
    BY <1>1, ConcatEmptySeq DEF Span
  <2> QED BY <2>1
<1>2. CASE span # << >>
  <2>1. PICK d : d = [type |-> other, span |-> span]
    OBVIOUS
  <2>2. d \in Drawing /\ Span(other, span) = <<d>> /\ d.type = other
    BY <1>2, <2>1 DEF Span, Drawing
  <2>3. PICK t : t = timeline \o <<d>>
    OBVIOUS
  <2>4. PICK n : n = Len(timeline)
    OBVIOUS
  <2>5. /\ t \in Seq(Drawing) /\ n \in Nat /\ DOMAIN timeline = 1..n
        /\ DOMAIN t = 1..n + 1 /\ t[n + 1] = d /\ \A k \in 1..n : t[k] = timeline[k]
    BY <2>2, <2>3, <2>4, LastOfConcat
  <2>6. \A k : k \in DOMAIN t /\ t[k].type = type
               <=> k \in DOMAIN timeline /\ timeline[k].type = type
    BY <2>2, <2>5
  <2>7. \A k \in DOMAIN timeline : t[k] = timeline[k]
    BY <2>5
  <2>8. Shown(t, type) = Shown(timeline, type)
    BY <2>6, <2>7 DEF Shown
  <2>9. Ordered(timeline, type) => Ordered(t, type)
    BY <2>6, <2>7 DEF Ordered
  <2> QED BY <2>2, <2>3, <2>5, <2>8, <2>9
<1> QED BY <1>1, <1>2

\* A span of that type that begins after them is one more.
LEMMA OneMoreShown ==
    ASSUME NEW timeline \in Seq(Drawing), NEW span \in Interval,
           NEW type \in {"SIP", "PTT", "SQU"},
           Ordered(timeline, type), \A r \in Shown(timeline, type) : r[2] < span[1]
    PROVE  /\ timeline \o Span(type, span) \in Seq(Drawing)
           /\ Shown(timeline \o Span(type, span), type) = Shown(timeline, type) \cup {span}
           /\ Ordered(timeline \o Span(type, span), type)
<1>1. PICK d : d = [type |-> type, span |-> span]
  OBVIOUS
<1>2. d \in Drawing /\ Span(type, span) = <<d>> /\ d.type = type /\ d.span = span
  <2>1. span # << >>
    BY DEF Interval
  <2>2. Span(type, span) = <<d>>
    BY <1>1, <2>1 DEF Span
  <2>3. d \in Drawing
    BY <1>1 DEF Drawing
  <2> QED BY <1>1, <2>2, <2>3
<1>3. PICK t : t = timeline \o <<d>>
  OBVIOUS
<1>4. PICK n : n = Len(timeline)
  OBVIOUS
<1>5. /\ t \in Seq(Drawing) /\ n \in Nat /\ DOMAIN timeline = 1..n
      /\ DOMAIN t = 1..n + 1 /\ t[n + 1] = d /\ \A k \in 1..n : t[k] = timeline[k]
  BY <1>2, <1>3, <1>4, LastOfConcat
<1>6. \A k : k \in DOMAIN t /\ t[k].type = type
             <=> (k \in DOMAIN timeline /\ timeline[k].type = type) \/ k = n + 1
  BY <1>2, <1>5
<1>7. \A k \in DOMAIN timeline : t[k] = timeline[k] /\ k \in Nat /\ k < n + 1
  BY <1>5
<1>8. Shown(t, type) = Shown(timeline, type) \cup {span}
  BY <1>2, <1>5, <1>6, <1>7 DEF Shown
<1>9. ASSUME NEW k \in DOMAIN t, NEW l \in DOMAIN t, t[k].type = type, t[l].type = type, k < l
      PROVE  t[k].span[2] < t[l].span[1]
  <2>1. k \in DOMAIN timeline /\ timeline[k].type = type /\ t[k] = timeline[k]
    BY <1>5, <1>6, <1>7, <1>9
  <2>2. CASE l = n + 1
    <3>1. t[k].span \in Shown(timeline, type)
      BY <2>1 DEF Shown
    <3> QED BY <1>2, <1>5, <2>2, <3>1
  <2>3. CASE l # n + 1
    <3>1. l \in DOMAIN timeline /\ timeline[l].type = type /\ t[l] = timeline[l]
      BY <1>6, <1>7, <1>9, <2>3
    <3> QED BY <1>9, <2>1, <3>1 DEF Ordered
  <2> QED BY <2>2, <2>3
<1>10. Ordered(t, type)
  BY <1>9 DEF Ordered
<1> QED BY <1>2, <1>3, <1>5, <1>8, <1>10

\* A packet that says nothing of a span leaves it.
LEMMA TracksStay ==
    ASSUME NEW open, NEW t, NEW u, NEW type, NEW X, NEW Y,
           Tracks(open, t, type, X, Y), Ordered(u, type), Shown(u, type) = Shown(t, type)
    PROVE  Tracks(open, u, type, X, Y)
BY DEF Tracks

\* A packet that has the key or the carrier goes on with the span or begins it.
LEMMA TracksOn ==
    ASSUME NEW open \in {<< >>} \cup Interval, NEW t, NEW u, NEW type,
           NEW Y \in SUBSET Nat, NEW X \in SUBSET Y, NEW i \in Nat, \A y \in Y : y < i,
           Tracks(open, t, type, X, Y), Ordered(u, type), Shown(u, type) = Shown(t, type)
    PROVE  Tracks(Extend(open, i), u, type, X \cup {i}, Y \cup {i})
<1>1. CASE open = << >>
  <2>1. Shown(u, type) = Runs(X, Y) /\ \A x \in X : \E y \in Y \ X : x < y
    BY <1>1 DEF Tracks
  <2>2. /\ Runs(X \cup {i}, Y \cup {i}) = Runs(X, Y) \cup {<<i, i>>}
        /\ <<i, i>> \notin Runs(X, Y)
    BY <2>1, RunsStart
  <2>3. Extend(open, i) = <<i, i>>
    BY <1>1 DEF Extend
  <2>4. \A r \in Runs(X, Y) : r[2] < i
    BY DEF Runs
  <2>5. \A y \in Y \cup {i} : y <= i
    OBVIOUS
  <2>6. Shown(u, type) = Runs(X \cup {i}, Y \cup {i}) \ {<<i, i>>}
    BY <2>1, <2>2
  <2>7. \A r \in Shown(u, type) : r[2] < i
    BY <2>1, <2>4
  <2>8. <<i, i>> \in Runs(X \cup {i}, Y \cup {i})
    BY <2>2
  <2>9. \A o : o = <<i, i>> => o[1] = i /\ o[2] = i /\ o # << >>
    OBVIOUS
  <2>10. Tracks(<<i, i>>, u, type, X \cup {i}, Y \cup {i})
    BY <2>5, <2>6, <2>7, <2>8, <2>9 DEF Tracks
  <2> QED BY <2>3, <2>10
<1>2. CASE open # << >>
  <2>1. PICK a \in Nat, b \in Nat : open = <<a, b>>
    BY <1>2 DEF Interval
  <2>2. /\ <<a, b>> \in Runs(X, Y) /\ \A y \in Y : y <= b
        /\ Shown(u, type) = Runs(X, Y) \ {<<a, b>>}
        /\ \A r \in Shown(u, type) : r[2] < a
    BY <1>2, <2>1 DEF Tracks
  <2>3. /\ Runs(X \cup {i}, Y \cup {i}) = (Runs(X, Y) \ {<<a, b>>}) \cup {<<a, i>>}
        /\ <<a, i>> \notin Runs(X, Y)
    BY <2>2, RunsGrow
  <2>4. Extend(open, i) = <<a, i>>
    BY <1>2, <2>1 DEF Extend
  <2>5. \A y \in Y \cup {i} : y <= i
    OBVIOUS
  <2>6. Shown(u, type) = Runs(X \cup {i}, Y \cup {i}) \ {<<a, i>>}
    BY <2>2, <2>3
  <2>7. <<a, i>> \in Runs(X \cup {i}, Y \cup {i})
    BY <2>3
  <2>8. \A o : o = <<a, i>> => o[1] = a /\ o[2] = i /\ o # << >>
    OBVIOUS
  <2>9. Tracks(<<a, i>>, u, type, X \cup {i}, Y \cup {i})
    BY <2>2, <2>5, <2>6, <2>7, <2>8 DEF Tracks
  <2> QED BY <2>4, <2>9
<1> QED BY <1>1, <1>2

\* One that has not closes it and puts it on the timeline.
LEMMA TracksOff ==
    ASSUME NEW open \in {<< >>} \cup Interval, NEW t, NEW u, NEW type,
           NEW Y \in SUBSET Nat, NEW X \in SUBSET Y, NEW i \in Nat, \A y \in Y : y < i,
           Tracks(open, t, type, X, Y), Ordered(u, type),
           Shown(u, type) = IF open = << >> THEN Shown(t, type) ELSE Shown(t, type) \cup {open}
    PROVE  Tracks(<< >>, u, type, X, Y \cup {i})
<1>1. Shown(u, type) = Runs(X, Y)
  BY DEF Tracks
<1>2. Runs(X, Y \cup {i}) = Runs(X, Y)
  BY RunsSkip
<1>3. \A x \in X : i \in (Y \cup {i}) \ X /\ x < i
  OBVIOUS
<1> QED BY <1>1, <1>2, <1>3 DEF Tracks

\* Closing a span: it goes to the timeline after the others.
LEMMA Closed ==
    ASSUME NEW open \in {<< >>} \cup Interval, NEW timeline \in Seq(Drawing),
           NEW type \in {"PTT", "SQU"}, NEW X, NEW Y, Tracks(open, timeline, type, X, Y)
    PROVE  /\ timeline \o Span(type, open) \in Seq(Drawing)
           /\ Ordered(timeline \o Span(type, open), type)
           /\ Shown(timeline \o Span(type, open), type)
              = IF open = << >> THEN Shown(timeline, type) ELSE Shown(timeline, type) \cup {open}
           /\ Shown(timeline \o Span(type, open), type) = Runs(X, Y)
<1>1. CASE open = << >>
  <2>1. timeline \o Span(type, open) = timeline
    BY <1>1, ConcatEmptySeq DEF Span
  <2> QED BY <1>1, <2>1 DEF Tracks
<1>2. CASE open # << >>
  <2>1. /\ open \in Interval /\ Ordered(timeline, type) /\ open \in Runs(X, Y)
        /\ Shown(timeline, type) = Runs(X, Y) \ {open}
        /\ \A r \in Shown(timeline, type) : r[2] < open[1]
    BY <1>2 DEF Tracks
  <2>2. /\ timeline \o Span(type, open) \in Seq(Drawing)
        /\ Ordered(timeline \o Span(type, open), type)
        /\ Shown(timeline \o Span(type, open), type) = Shown(timeline, type) \cup {open}
    BY <2>1, OneMoreShown
  <2> QED BY <1>2, <2>1, <2>2
<1> QED BY <1>1, <1>2

-----------------------------------------------------------------------------
(* The analyzer follows one stream.                                        *)

\* Where a stream's packets tell of key and carrier.
LEMMA TellingPlaces ==
    ASSUME CaptureTyped, NEW s \in Streams
    PROVE  /\ Telling(s) \in SUBSET Nat /\ Telling(s) \subseteq DOMAIN tape
           /\ Keyed(s) \in SUBSET Telling(s) /\ Carried(s) \in SUBSET Telling(s)
           /\ \A i \in Telling(s) : i < Len(tape) + 1
<1>1. Telling(s) \subseteq DOMAIN tape
  BY DEF Telling
<1>2. \A i \in DOMAIN tape : i \in Nat /\ i < Len(tape) + 1
  BY OnTape
<1> QED BY <1>1, <1>2 DEF Keyed, Carried

\* At the beginning there is nothing to follow.
LEMMA AnalyzedInit == ASSUME CaptureInit, NEW s \in Streams PROVE Analyzed(s)
<1>1. Len(tape) = 0 /\ DOMAIN tape = {} /\ stats[s] = NewStreamStats
  BY DEF CaptureInit
<1>2. SoFar = NewReport
  BY <1>1, ReportsFollow DEF SoFar
<1>3. Telling(s) = {} /\ Keyed(s) = {} /\ Carried(s) = {}
  BY <1>1 DEF Telling, Keyed, Carried
<1>4. \A type : Shown(<< >>, type) = {} /\ Ordered(<< >>, type)
  BY DEF Shown, Ordered
<1>5. Runs({}, {}) = {}
  BY DEF Runs
<1>6. \A type : Tracks(<< >>, << >>, type, {}, {})
  BY <1>4, <1>5 DEF Tracks
<1> QED BY <1>1, <1>2, <1>3, <1>6 DEF Analyzed, NewReport

\* While nothing arrives, nothing changes; a sender only says more.
LEMMA AnalyzedStays ==
    ASSUME CaptureTyped, FromSenders, NEW s \in Streams, Analyzed(s),
           tape' = tape, stats'[s] = stats[s],
           \A n \in 1..Len(said[s]) : said'[s][n] = said[s][n]
    PROVE  Analyzed(s)'
<1>1. SoFar' = SoFar
  BY DEF SoFar
<1>2. \A i \in DOMAIN tape : tape[i].from = s => said'[s][tape[i].n] = said[s][tape[i].n]
  BY Places DEF Of
<1>3. Telling(s)' = Telling(s)
  BY <1>2 DEF Telling
<1>4. \A i \in Telling(s) : said'[s][tape[i].n] = said[s][tape[i].n]
  BY <1>2 DEF Telling
<1>5. Keyed(s)' = Keyed(s) /\ Carried(s)' = Carried(s)
  BY <1>3, <1>4 DEF Keyed, Carried
<1> QED BY <1>1, <1>3, <1>5 DEF Analyzed

\* A SIP message is none of it.
LEMMA AnalyzedSip ==
    ASSUME CaptureTyped, FromSenders, NEW s \in Streams, Analyzed(s),
           tape' = Append(tape, SipMessage), stats' = stats, said' = said
    PROVE  Analyzed(s)'
<1>1. PICK k : k = Len(tape) + 1
  OBVIOUS
<1>2. /\ Len(tape) \in Nat /\ DOMAIN tape = 1..Len(tape) /\ DOMAIN tape' = 1..k
      /\ k \in Nat \ {0} /\ tape'[k] = SipMessage
      /\ \A i \in DOMAIN tape : tape'[i] = tape[i]
      /\ SoFar' = Dissect(SoFar, k, SipMessage)
  BY <1>1, SoFarGrows
<1>3. SipMessage.from = "SIP" /\ s # "SIP" /\ SoFar \in Report
  BY OnTape, CaptureAssumption DEF CaptureAssumption, CaptureTyped
<1>4. /\ SoFar'.rtp = SoFar.rtp /\ SoFar'.ptt = SoFar.ptt /\ SoFar'.squ = SoFar.squ
      /\ SoFar'.timeline = SoFar.timeline \o Span("SIP", <<k, k>>)
  <2>1. Dissected(SoFar, k, SipMessage, SoFar')
    BY <1>2, <1>3, DissectFields
  <2> QED BY <1>3, <2>1 DEF Dissected
<1>5. \A i : i \in DOMAIN tape' <=> i \in DOMAIN tape \/ i = k
  BY <1>1, <1>2
<1>6. Telling(s)' = Telling(s) /\ \A i \in Telling(s) : tape'[i] = tape[i]
  BY <1>2, <1>3, <1>5 DEF Telling
<1>7. Keyed(s)' = Keyed(s) /\ Carried(s)' = Carried(s)
  BY <1>6 DEF Keyed, Carried
<1>8. SoFar.timeline \in Seq(Drawing) /\ <<k, k>> \in {<< >>} \cup Interval
  BY <1>2, <1>3 DEF Report, Interval
<1>9. ASSUME NEW type \in {"PTT", "SQU"}
      PROVE  /\ Ordered(SoFar.timeline, type) => Ordered(SoFar'.timeline, type)
             /\ Shown(SoFar'.timeline, type) = Shown(SoFar.timeline, type)
  BY <1>4, <1>8, OtherShown
<1>10. Tracks(SoFar.ptt, SoFar'.timeline, "PTT", Keyed(s), Telling(s))
  <2>1. Tracks(SoFar.ptt, SoFar.timeline, "PTT", Keyed(s), Telling(s))
    BY DEF Analyzed
  <2>2. Ordered(SoFar.timeline, "PTT")
    BY <2>1 DEF Tracks
  <2> QED BY <1>9, <2>1, <2>2, TracksStay
<1>11. Tracks(SoFar.squ, SoFar'.timeline, "SQU", Carried(s), Telling(s))
  <2>1. Tracks(SoFar.squ, SoFar.timeline, "SQU", Carried(s), Telling(s))
    BY DEF Analyzed
  <2>2. Ordered(SoFar.timeline, "SQU")
    BY <2>1 DEF Tracks
  <2> QED BY <1>9, <2>1, <2>2, TracksStay
<1>12. SoFar'.rtp = stats'[s]
  BY <1>4 DEF Analyzed
<1> QED BY <1>4, <1>6, <1>7, <1>10, <1>11, <1>12 DEF Analyzed

\* A packet of the stream is counted, and begins, goes on with or closes its spans.
LEMMA AnalyzedArrival ==
    ASSUME CaptureTyped, FromSenders, NEW s \in Streams, Analyzed(s),
           NEW p \in Packets, p.from = s, Sent(p, start, said),
           tape' = Append(tape, p), said' = said,
           stats'[s] = RecordRxPacket(stats[s], p.seq)
    PROVE  Analyzed(s)'
<1>1. PICK k : k = Len(tape) + 1
  OBVIOUS
<1>2. PICK h : h = said[s][p.n]
  OBVIOUS
<1>3. PICK r : r = SoFar
  OBVIOUS
<1>4. PICK d : d = SoFar'
  OBVIOUS
<1>5. /\ Len(tape) \in Nat /\ DOMAIN tape = 1..Len(tape) /\ DOMAIN tape' = 1..k
      /\ k \in Nat \ {0} /\ tape'[k] = p
      /\ \A i \in DOMAIN tape : tape'[i] = tape[i]
      /\ d = Dissect(r, k, p) /\ p.from # "SIP" /\ r \in Report
  BY <1>1, <1>3, <1>4, SoFarGrows, OnTape DEF CaptureTyped
<1>6. Dissected(r, k, p, d)
  BY <1>5, DissectFields
<1>7. /\ d.rtp = RecordRxPacket(r.rtp, p.seq)
      /\ r.ptt \in {<< >>} \cup Interval /\ r.squ \in {<< >>} \cup Interval
      /\ r.timeline \in Seq(Drawing)
  BY <1>5, <1>6 DEF Dissected, Report
<1>8. /\ r.rtp = stats[s] /\ Tracks(r.ptt, r.timeline, "PTT", Keyed(s), Telling(s))
      /\ Tracks(r.squ, r.timeline, "SQU", Carried(s), Telling(s))
  BY <1>3 DEF Analyzed
<1>9. /\ p.ext = IF h = NoExt THEN NoExt ELSE EncodePayload(h)
      /\ h # NoExt => h \in [ptt : 0..7, squ : BOOLEAN, id : 0..255]
  <2>1. p.n \in 1..Len(said[s]) /\ said[s] \in Seq(Headers)
    <3>1. said[s] \in Seq(Headers) /\ p.n \in 1..MaxPackets /\ p.n <= Len(said[s])
      BY DEF CaptureTyped, Packets, Sent
    <3>2. Len(said[s]) \in Nat
      BY <3>1, LenProperties
    <3> QED BY <3>1, <3>2, Limits
  <2>2. h \in Headers
    BY <1>2, <2>1, ElementOfSeq
  <2> QED BY <1>2, <2>2, CaptureAssumption DEF CaptureAssumption, Sent
<1>10. \A i : i \in DOMAIN tape' <=> i \in DOMAIN tape \/ i = k
  BY <1>1, <1>5
<1>11. k \notin DOMAIN tape
  BY <1>1, <1>5
<1>12. /\ Telling(s) \in SUBSET Nat /\ Telling(s) \subseteq DOMAIN tape
       /\ Keyed(s) \in SUBSET Telling(s) /\ Carried(s) \in SUBSET Telling(s)
       /\ \A i \in Telling(s) : i < k
  BY <1>1, TellingPlaces
<1>13. Telling(s)' = IF h = NoExt THEN Telling(s) ELSE Telling(s) \cup {k}
  <2>1. \A i \in DOMAIN tape : tape'[i] = tape[i] /\ i # k
    BY <1>5, <1>11
  <2>2. \A i : i \in Telling(s)' <=> i \in Telling(s) \/ (i = k /\ h # NoExt)
    BY <1>2, <1>5, <1>10, <2>1 DEF Telling
  <2> QED BY <2>2
<1>14. \A i \in Telling(s) : tape'[i] = tape[i] /\ i # k
  BY <1>5, <1>11, <1>12
<1>15. CASE h = NoExt
  <2>1. Keyed(s)' = Keyed(s) /\ Carried(s)' = Carried(s)
    BY <1>13, <1>14, <1>15 DEF Keyed, Carried
  <2>2. d.ptt = r.ptt /\ d.squ = r.squ /\ d.timeline = r.timeline
    BY <1>5, <1>6, <1>9, <1>15 DEF Dissected
  <2> QED BY <1>4, <1>7, <1>8, <1>13, <1>15, <2>1, <2>2 DEF Analyzed
<1>16. CASE h # NoExt
  <2>1. PICK g : g = DecodePayload(p.ext)
    OBVIOUS
  <2>2. p.ext # NoExt /\ g.ptt = h.ptt /\ g.squ = h.squ
    BY <1>9, <1>16, <2>1, HeaderBack, CaptureAssumption DEF CaptureAssumption
  <2>3. PICK a : a = IF h.ptt # 0 THEN << >> ELSE r.ptt
    OBVIOUS
  <2>4. PICK b : b = IF h.squ THEN << >> ELSE r.squ
    OBVIOUS
  <2>5. PICK t : t = r.timeline \o Span("PTT", a)
    OBVIOUS
  <2>6. PICK u : u = t \o Span("SQU", b)
    OBVIOUS
  <2>7. /\ d.ptt = IF h.ptt # 0 THEN Extend(r.ptt, k) ELSE << >>
        /\ d.squ = IF h.squ THEN Extend(r.squ, k) ELSE << >>
        /\ d.timeline = u
    <3>1. /\ d.ptt = IF h.ptt # 0 THEN Extend(r.ptt, k) ELSE << >>
          /\ d.squ = IF h.squ THEN Extend(r.squ, k) ELSE << >>
          /\ d.timeline = (r.timeline
                             \o (IF h.ptt # 0 THEN << >> ELSE Span("PTT", r.ptt)))
                             \o (IF h.squ THEN << >> ELSE Span("SQU", r.squ))
      BY <1>5, <1>6, <2>1, <2>2 DEF Dissected
    <3>2. (IF h.ptt # 0 THEN << >> ELSE Span("PTT", r.ptt)) = Span("PTT", a)
      BY <2>3 DEF Span
    <3>3. (IF h.squ THEN << >> ELSE Span("SQU", r.squ)) = Span("SQU", b)
      BY <2>4 DEF Span
    <3> QED BY <2>5, <2>6, <3>1, <3>2, <3>3
  <2>8. a \in {<< >>} \cup Interval /\ b \in {<< >>} \cup Interval
    BY <1>7, <2>3, <2>4
  <2>9. /\ t \in Seq(Drawing) /\ Shown(t, "SQU") = Shown(r.timeline, "SQU")
        /\ Ordered(r.timeline, "SQU") => Ordered(t, "SQU")
    BY <1>7, <2>5, <2>8, OtherShown
  <2>10. /\ Shown(u, "PTT") = Shown(t, "PTT")
         /\ Ordered(t, "PTT") => Ordered(u, "PTT")
    BY <2>6, <2>8, <2>9, OtherShown
  <2>11. Telling(s)' = Telling(s) \cup {k} /\ k \in Telling(s)' /\ tape'[k].n = p.n
    BY <1>5, <1>13, <1>16
  <2>12. Tracks(d.ptt, u, "PTT", Keyed(s)', Telling(s)')
    <3>1. CASE h.ptt # 0
      <4>1. Keyed(s)' = Keyed(s) \cup {k}
        BY <1>2, <1>14, <2>11, <3>1 DEF Keyed
      <4>2. t = r.timeline
        BY <1>7, <2>3, <2>5, <3>1, ConcatEmptySeq DEF Span
      <4>3. Ordered(u, "PTT") /\ Shown(u, "PTT") = Shown(r.timeline, "PTT")
        BY <1>8, <2>10, <4>2 DEF Tracks
      <4>4. Tracks(Extend(r.ptt, k), u, "PTT", Keyed(s) \cup {k}, Telling(s) \cup {k})
        BY <1>5, <1>7, <1>8, <1>12, <4>3, TracksOn
      <4> QED BY <2>7, <2>11, <3>1, <4>1, <4>4
    <3>2. CASE ~(h.ptt # 0)
      <4>1. Keyed(s)' = Keyed(s)
        BY <1>2, <1>14, <2>11, <3>2 DEF Keyed
      <4>2. /\ Ordered(t, "PTT")
            /\ Shown(t, "PTT") = IF r.ptt = << >> THEN Shown(r.timeline, "PTT")
                                 ELSE Shown(r.timeline, "PTT") \cup {r.ptt}
        BY <1>7, <1>8, <2>3, <2>5, <3>2, Closed
      <4>3. Tracks(<< >>, u, "PTT", Keyed(s), Telling(s) \cup {k})
        BY <1>5, <1>7, <1>8, <1>12, <2>10, <4>2, TracksOff
      <4> QED BY <2>7, <2>11, <3>2, <4>1, <4>3
    <3> QED BY <3>1, <3>2
  <2>13. Tracks(d.squ, u, "SQU", Carried(s)', Telling(s)')
    <3>1. Tracks(r.squ, t, "SQU", Carried(s), Telling(s))
      <4>1. Ordered(r.timeline, "SQU")
        BY <1>8 DEF Tracks
      <4> QED BY <1>8, <2>9, <4>1, TracksStay
    <3>2. CASE h.squ
      <4>1. Carried(s)' = Carried(s) \cup {k}
        BY <1>2, <1>14, <2>11, <3>2 DEF Carried
      <4>2. u = t
        BY <2>4, <2>6, <2>9, <3>2, ConcatEmptySeq DEF Span
      <4>3. Ordered(u, "SQU") /\ Shown(u, "SQU") = Shown(t, "SQU")
        BY <3>1, <4>2 DEF Tracks
      <4>4. Tracks(Extend(r.squ, k), u, "SQU", Carried(s) \cup {k}, Telling(s) \cup {k})
        BY <1>5, <1>7, <1>12, <3>1, <4>3, TracksOn
      <4> QED BY <2>7, <2>11, <3>2, <4>1, <4>4
    <3>3. CASE ~h.squ
      <4>1. Carried(s)' = Carried(s)
        BY <1>2, <1>14, <2>11, <3>3 DEF Carried
      <4>2. /\ Ordered(u, "SQU")
            /\ Shown(u, "SQU") = IF r.squ = << >> THEN Shown(t, "SQU")
                                 ELSE Shown(t, "SQU") \cup {r.squ}
        BY <1>7, <2>4, <2>6, <2>9, <3>1, <3>3, Closed
      <4>3. Tracks(<< >>, u, "SQU", Carried(s), Telling(s) \cup {k})
        BY <1>5, <1>7, <1>12, <3>1, <4>2, TracksOff
      <4> QED BY <2>7, <2>11, <3>3, <4>1, <4>3
    <3> QED BY <3>2, <3>3
  <2> QED BY <1>4, <1>7, <1>8, <2>7, <2>12, <2>13 DEF Analyzed
<1> QED BY <1>15, <1>16

\* With one stream in the capture every step keeps what the analyzer follows.
LEMMA AnalyzedStep ==
    ASSUME CaptureTyped, FromSenders, [CaptureNext]_captureVars,
           NEW s \in Streams, \A t \in Streams : t = s, Analyzed(s)
    PROVE  Analyzed(s)'
<1>1. said[s] \in Seq(Headers) /\ Len(said[s]) \in Nat /\ said \in [Streams -> Seq(Headers)]
  BY LenProperties DEF CaptureTyped
<1>2. ASSUME Transmit(s) PROVE Analyzed(s)'
  <2>1. PICK h \in Headers : said' = [said EXCEPT ![s] = Append(@, h)]
    BY <1>2 DEF Transmit
  <2>2. stats' = stats /\ tape' = tape
    BY <1>2 DEF Transmit
  <2>3. said'[s] = Append(said[s], h)
    BY <1>1, <2>1
  <2>4. \A n \in 1..Len(said[s]) : said'[s][n] = said[s][n]
    BY <1>1, <2>3, AppendProperties
  <2> QED BY <2>2, <2>4, AnalyzedStays
<1>3. ASSUME NEW p \in underway, Vanish(p) PROVE Analyzed(s)'
  <2>1. said' = said /\ stats' = stats /\ tape' = tape
    BY <1>3 DEF Vanish
  <2> QED BY <2>1, AnalyzedStays
<1>4. ASSUME NEW p \in underway, Arrive(p) PROVE Analyzed(s)'
  <2>1. p \in Packets /\ Sent(p, start, said) /\ p.from = s
    BY DEF CaptureTyped, FromSenders, Packets
  <2>2. /\ tape' = Append(tape, p) /\ said' = said
        /\ stats' = [stats EXCEPT ![p.from] = RecordRxPacket(@, p.seq)]
        /\ stats \in [Streams -> Counters]
    BY <1>4 DEF Arrive, CaptureTyped
  <2>3. stats'[s] = RecordRxPacket(stats[s], p.seq)
    BY <2>1, <2>2
  <2> QED BY <2>1, <2>2, <2>3, AnalyzedArrival
<1>5. CASE Sip
  <2>1. tape' = Append(tape, SipMessage) /\ said' = said /\ stats' = stats
    BY <1>5 DEF Sip, SipMessage
  <2> QED BY <2>1, AnalyzedSip
<1>6. CASE UNCHANGED captureVars
  <2>1. said' = said /\ stats' = stats /\ tape' = tape
    BY <1>6 DEF captureVars
  <2> QED BY <2>1, AnalyzedStays
<1> QED BY <1>2, <1>3, <1>4, <1>5, <1>6 DEF CaptureNext

-----------------------------------------------------------------------------
(* What follows for every capture.                                         *)

\* The report that is shown: what is still on at the end is drawn.
LEMMA Shows ==
    ASSUME CaptureTyped
    PROVE  /\ AnalyzePCAP(tape).rtp = SoFar.rtp /\ AnalyzePCAP(tape).pcm = SoFar.pcm
           /\ Timeline = (SoFar.timeline \o Span("PTT", SoFar.ptt)) \o Span("SQU", SoFar.squ)
           /\ \A type : Spans(type) = Shown(Timeline, type)
<1>1. PICK r : r = SoFar
  OBVIOUS
<1>2. r \in Report
  BY <1>1 DEF CaptureTyped
<1>3. AnalyzePCAP(tape) = [r EXCEPT !.timeline = @ \o Span("PTT", r.ptt) \o Span("SQU", r.squ)]
  BY <1>1 DEF AnalyzePCAP, SoFar
<1>4. /\ AnalyzePCAP(tape).rtp = r.rtp /\ AnalyzePCAP(tape).pcm = r.pcm
      /\ AnalyzePCAP(tape).timeline = r.timeline \o Span("PTT", r.ptt) \o Span("SQU", r.squ)
  BY <1>2, <1>3 DEF Report
<1>5. \A type : Spans(type) = Shown(Timeline, type)
  BY DEF Spans, Drawn, Shown
<1> QED BY <1>1, <1>4, <1>5 DEF Timeline

\* The invariant of every capture, whatever is in it.
LEMMA CaptureSafe == CaptureSpec => []CaptureInv
<1>1. CaptureInit => CaptureInv
  BY CaptureTypedInit, CountingInit, RestoredInit DEF CaptureInv
<1>2. CaptureInv /\ [CaptureNext]_captureVars => CaptureInv'
  <2> SUFFICES ASSUME CaptureInv, [CaptureNext]_captureVars PROVE CaptureInv'
    OBVIOUS
  <2>1. CaptureTyped /\ FromSenders /\ Restored /\ \A s \in Streams : Counting(s)
    BY DEF CaptureInv
  <2>2. CaptureTyped' /\ FromSenders'
    BY <2>1, CaptureTypedStep
  <2>3. \A s \in Streams : Counting(s)'
    BY <2>1, CountingStep
  <2>4. Restored'
    BY <2>1, RestoredStep
  <2> QED BY <2>2, <2>3, <2>4 DEF CaptureInv
<1> QED BY <1>1, <1>2, PTL DEF CaptureSpec

\* The invariant of a capture with one stream.
LEMMA AnalyzedSafe == ASSUME OneStream PROVE CaptureSpec => []AnalyzedInv
<1>1. PICK s \in Streams : \A t \in Streams : t = s
  BY DEF OneStream
<1>2. CaptureInit => Analyzed(s)
  BY AnalyzedInit
<1>3. CaptureInv /\ Analyzed(s) /\ [CaptureNext]_captureVars => Analyzed(s)'
  BY <1>1, AnalyzedStep DEF CaptureInv
<1>4. CaptureInv /\ Analyzed(s) => AnalyzedInv
  BY <1>1 DEF AnalyzedInv
<1> QED BY <1>2, <1>3, <1>4, CaptureSafe, PTL DEF CaptureSpec

\* Every packet, statistic and report of a capture has the types its code gives it, in
\* every state, whatever is sent, lost and captured.
THEOREM CaptureTypeCorrect == CaptureSpec => []CaptureTypeOK
<1>1. CaptureInv => CaptureTypeOK
  <2> SUFFICES ASSUME CaptureTyped PROVE CaptureTypeOK
    BY DEF CaptureInv
  <2>1. SoFar.rtp \in Counters
    BY DEF CaptureTyped, Report
  <2>2. AnalyzePCAP(tape).rtp \in Counters
    BY <2>1, Shows
  <2>3. \A p \in underway : p \in Packets
    BY DEF CaptureTyped
  <2> QED BY <2>2, <2>3 DEF CaptureTyped, CaptureTypeOK, Packets
<1> QED BY <1>1, CaptureSafe, PTL

\* The receiver of each of any number of streams counts every packet of it that is
\* missing, and nothing else when they arrive in order, as long as neither a wrap of
\* the number nor a huge gap is among them.
THEOREM ReceiversCount ==
    CaptureSpec => [](\A s \in Streams : Steady(s) =>
                          /\ stats[s].lost >= Cardinality(Missing(s))
                          /\ InOrder(s) => stats[s].lost = Cardinality(Missing(s)))
<1>1. CaptureInv => \A s \in Streams : Steady(s) =>
                        /\ stats[s].lost >= Cardinality(Missing(s))
                        /\ InOrder(s) => stats[s].lost = Cardinality(Missing(s))
  BY DEF CaptureInv, Counting
<1> QED BY <1>1, CaptureSafe, PTL

\* In a capture of one stream the analyzer counts the same loss.
THEOREM LossIsCounted == ASSUME OneStream PROVE CaptureSpec => []LossCounted
<1>1. AnalyzedInv => LossCounted
  <2> SUFFICES ASSUME AnalyzedInv, NEW s \in Streams, Steady(s),
                      NEW lost \in {stats[s].lost, AnalyzePCAP(tape).rtp.lost}
               PROVE  /\ lost >= Cardinality(Missing(s))
                      /\ InOrder(s) => lost = Cardinality(Missing(s))
    BY DEF LossCounted
  <2>1. CaptureTyped /\ Counting(s) /\ SoFar.rtp = stats[s]
    BY DEF AnalyzedInv, CaptureInv, Analyzed
  <2>2. lost = stats[s].lost
    BY <2>1, Shows
  <2> QED BY <2>1, <2>2 DEF Counting
<1> QED BY <1>1, AnalyzedSafe, PTL

\* The timeline of a capture of one stream shows exactly the runs of packets with the
\* key down and with a carrier, from first to last packet and in their order, also the
\* one that is on when it ends.
THEOREM SpansAreFaithful == ASSUME OneStream PROVE CaptureSpec => []SpansFaithful
<1>1. AnalyzedInv => SpansFaithful
  <2> SUFFICES ASSUME AnalyzedInv PROVE SpansFaithful
    OBVIOUS
  <2>1. PICK s : Streams = {s}
    BY DEF OneStream
  <2>2. CaptureTyped /\ Analyzed(s)
    BY <2>1 DEF AnalyzedInv, CaptureInv
  <2>3. PICK r : r = SoFar
    OBVIOUS
  <2>4. /\ r.ptt \in {<< >>} \cup Interval /\ r.squ \in {<< >>} \cup Interval
        /\ r.timeline \in Seq(Drawing)
        /\ Tracks(r.ptt, r.timeline, "PTT", Keyed(s), Telling(s))
        /\ Tracks(r.squ, r.timeline, "SQU", Carried(s), Telling(s))
    BY <2>2, <2>3 DEF CaptureTyped, Report, Analyzed
  <2>5. PICK t : t = r.timeline \o Span("PTT", r.ptt)
    OBVIOUS
  <2>6. /\ t \in Seq(Drawing) /\ Ordered(t, "PTT") /\ Shown(t, "PTT") = Runs(Keyed(s), Telling(s))
    BY <2>4, <2>5, Closed
  <2>7. Tracks(r.squ, t, "SQU", Carried(s), Telling(s))
    <3>1. Ordered(r.timeline, "SQU")
      BY <2>4 DEF Tracks
    <3>2. Ordered(t, "SQU") /\ Shown(t, "SQU") = Shown(r.timeline, "SQU")
      BY <2>4, <2>5, <3>1, OtherShown
    <3> QED BY <2>4, <3>2, TracksStay
  <2>8. Timeline = t \o Span("SQU", r.squ)
    BY <2>2, <2>3, <2>5, Shows
  <2>9. Ordered(Timeline, "SQU") /\ Shown(Timeline, "SQU") = Runs(Carried(s), Telling(s))
    BY <2>4, <2>6, <2>7, <2>8, Closed
  <2>10. Ordered(Timeline, "PTT") /\ Shown(Timeline, "PTT") = Runs(Keyed(s), Telling(s))
    BY <2>4, <2>6, <2>8, OtherShown
  <2>11. UNION {Runs(Keyed(q), Telling(q)) : q \in {s}} = Runs(Keyed(s), Telling(s))
    OBVIOUS
  <2>12. UNION {Runs(Carried(q), Telling(q)) : q \in {s}} = Runs(Carried(s), Telling(s))
    OBVIOUS
  <2>13. \A type : Spans(type) = Shown(Timeline, type)
    BY <2>2, Shows
  <2>14. ASSUME NEW type \in {"PTT", "SQU"}, NEW k \in Drawn(type), NEW l \in Drawn(type), k < l
         PROVE  Timeline[k].span[2] < Timeline[l].span[1]
    BY <2>9, <2>10, <2>14 DEF Drawn, Ordered
  <2> QED BY <2>1, <2>9, <2>10, <2>11, <2>12, <2>13, <2>14 DEF SpansFaithful
<1> QED BY <1>1, AnalyzedSafe, PTL

\* The audio restored from any capture is what was said in the packets that are in it,
\* each sample in its place and near what it was.
THEOREM AudioIsKept == ASSUME Speakable PROVE CaptureSpec => []AudioKept
<1>1. CaptureInv => AudioKept
  <2> SUFFICES ASSUME CaptureInv PROVE AudioKept
    OBVIOUS
  <2>1. CaptureTyped /\ FromSenders /\ Restored
    BY DEF CaptureInv
  <2>2. AnalyzePCAP(tape).pcm = SoFar.pcm
    BY <2>1, Shows
  <2>3. ASSUME NEW i \in Voiced
        PROVE  Heard(Voice[tape[i].n], SoFar.pcm[Cardinality({j \in Voiced : j <= i})])
    <3>1. i \in DOMAIN tape /\ tape[i].from \in Streams
      BY DEF Voiced
    <3>2. tape[i] \in Packets /\ tape[i].from # "SIP"
      BY <2>1, <3>1, OnTape
    <3>3. Sent(tape[i], start, said) /\ tape[i].n \in 1..MaxPackets
      BY <2>1, <3>1, <3>2 DEF FromSenders, Packets
    <3>4. Heard(Voice[tape[i].n], Decoded(tape[i]))
      BY <3>3, HeardNear DEF Sent
    <3> QED BY <2>1, <3>4 DEF Restored
  <2> QED BY <2>1, <2>2, <2>3 DEF AudioKept, Restored
<1> QED BY <1>1, CaptureSafe, PTL
=============================================================================
