---------------------------- MODULE JitterBuffer ----------------------------
(***************************************************************************)
(* The jitter buffer (internal/media/jitter_buffer.go) behind the receive  *)
(* loop of an RTP session (rtp_session.go), with the sender and the        *)
(* network before it.  The sender's numbers and timestamps advance with    *)
(* the packets it sends (txLoop), the clock always, so a pause of the      *)
(* sender is a pause of the timestamps.  Time is counted in packet times.  *)
(*                                                                         *)
(* The receive loop pushes each packet and calls the handler with it.      *)
(* PopReady is for a player that polls; with Player it does so until       *)
(* nothing is ready, as the package's test does.  In the program nobody    *)
(* calls PopReady.                                                         *)
(*                                                                         *)
(* A packet is known by its number counted without wrap-around; the code   *)
(* sees it modulo SeqMod, 2^16.  The 32-bit timestamp does not wrap here.  *)
(***************************************************************************)
EXTENDS Integers, Sequences, FiniteSets

CONSTANTS
    SeqMod,             \* 65536
    MinDelay, MaxDelay, \* limits of the target delay, 10 and 200 ms
    Full,               \* packets that make the buffer too full, 30
    Depths,             \* depths the configuration may hold; it checks none
    Delays,             \* depths the console asks for
    Starts,             \* where the sender's numbering may stand
    Pauses,             \* whether the sender ever pauses
    Player,             \* whether somebody polls PopReady
    MaxTime, MaxSent, MaxTransit  \* bounds: clock, packets, network delay

ASSUME JitterBufferAssumption ==
    /\ SeqMod \in Nat \ {0, 1} /\ SeqMod % 2 = 0
    /\ MinDelay \in Nat \ {0} /\ MaxDelay \in Nat /\ MinDelay <= MaxDelay
    /\ Full \in Nat /\ Depths \subseteq Int /\ Delays \subseteq Int /\ Starts \subseteq Nat
    /\ Pauses \in BOOLEAN /\ Player \in BOOLEAN
    /\ MaxTime \in Nat /\ MaxSent \in Nat /\ MaxTransit \in Nat

VARIABLES
    now,         \* the clock
    count, next, \* the sender: packets sent, number of the next one
    flight,      \* packets on the network: [n, at], at being when it was sent
    pq,          \* the heap: [n, play, at], at being history
    target,      \* jb.targetDelay
    first,       \* jb.started and what is kept of the first packet: [base, n]
    dropped,     \* the numbers of packets dropped as too late
    handed,      \* history: the numbers given to the handler, in order
    played,      \* history: the numbers PopReady returned, in order
    transit,     \* history: network delay of the first packet
    budget,      \* history: target delay when the first packet arrived
    within       \* history: no packet was delayed longer than transit + budget

jitterVars == <<now, count, next, flight, pq, target, first, dropped, handed, played,
          transit, budget, within>>

NotStarted == [base |-> 0, n |-> -1]
Started == first # NotStarted
Numbers == UNION {s..s + MaxSent : s \in Starts}

\* NewJitterBuffer: a configured depth has a lower limit only.
Configured == {IF d < MinDelay THEN MinDelay ELSE d : d \in Depths}

JitterTypeOK ==
    /\ now \in 0..MaxTime /\ count \in 0..MaxSent /\ next \in Numbers
    /\ flight \subseteq [n : Numbers, at : 0..MaxTime]
    /\ \A p \in pq : p.n \in Numbers /\ p.play \in Int
    /\ target \in Configured \cup (MinDelay..MaxDelay)
    /\ Started => first.n \in Numbers
    /\ dropped \subseteq Numbers
    /\ handed \in Seq(Numbers) /\ played \in Seq(Numbers)
    /\ transit \in 0..MaxTime /\ budget \in Nat /\ within \in BOOLEAN

JitterInit ==
    /\ now = 0 /\ count = 0 /\ next \in Starts
    /\ flight = {} /\ pq = {} /\ first = NotStarted /\ dropped = {}
    /\ target \in Configured
    /\ handed = << >> /\ played = << >>
    /\ transit = 0 /\ budget = 0 /\ within = TRUE

-----------------------------------------------------------------------------
(* The order of the heap.                                                  *)

\* (Definitions named Mut_ are broken variants; the mutation checks put each in
\* the place of the definition below it.)
\* Broken variant: numbers compared as they are.
Mut_Less(a, b) == a % SeqMod < b % SeqMod

\* int16(a - b) < 0
Less(a, b) == (a - b) % SeqMod >= SeqMod \div 2

\* Broken variant: the buffer counts as too full one target delay early.
Mut_Ready(p) == now > p.play - target

\* Ready if the play time has passed or the buffer is getting too full.
Ready(p) == now > p.play \/ Cardinality(pq) > Full

\* pq[0]
Earliest(p) == p \in pq /\ \A q \in pq : ~Less(q.n, p.n)

-----------------------------------------------------------------------------
(* The sender and the network.                                             *)

\* One packet time passes, in which a packet is sent or, in a pause, none.  A
\* player has polled before.
Tick ==
    /\ now < MaxTime /\ now' = now + 1
    /\ Player => \A p \in pq : Earliest(p) => ~Ready(p)
    /\ \A f \in flight : now - f.at < MaxTransit
    /\ \/ /\ count < MaxSent
          /\ count' = count + 1 /\ next' = next + 1
          /\ flight' = flight \cup {[n |-> next, at |-> now + 1]}
       \/ /\ Pauses \/ count = MaxSent
          /\ UNCHANGED <<count, next, flight>>
    /\ UNCHANGED <<pq, target, first, dropped, handed, played, transit, budget, within>>

Lose(f) ==
    /\ f \in flight /\ flight' = flight \ {f}
    /\ UNCHANGED <<now, count, next, pq, target, first, dropped, handed, played,
                   transit, budget, within>>

-----------------------------------------------------------------------------
(* The receive loop.                                                       *)

\* The playout base, set by the first packet.
Base(n) == IF Started THEN first ELSE [base |-> now + target, n |-> n]

PlayTime(n) == Base(n).base + (n - Base(n).n)

\* Way too late for the playout base.
TooLate(n) == now > PlayTime(n) + 2 * target

Push(n, at) ==
    /\ first' = Base(n)
    /\ IF TooLate(n)
       THEN dropped' = dropped \cup {n} /\ UNCHANGED pq
       ELSE /\ pq' = pq \cup {[n |-> n, play |-> PlayTime(n), at |-> at]}
            /\ UNCHANGED dropped

\* rxLoop: the packet is pushed, and its samples go to the handler.
Receive(f) ==
    /\ f \in flight /\ flight' = flight \ {f}
    /\ Push(f.n, f.at)
    /\ handed' = Append(handed, f.n)
    /\ IF Started
       THEN /\ within' = (within /\ now - f.at <= transit + budget)
            /\ UNCHANGED <<transit, budget>>
       ELSE /\ transit' = now - f.at /\ budget' = target
            /\ UNCHANGED within
    /\ UNCHANGED <<now, count, next, target, played>>

PopReady(p) ==
    /\ Player /\ Earliest(p) /\ Ready(p)
    /\ pq' = pq \ {p}
    /\ played' = Append(played, p.n)
    /\ UNCHANGED <<now, count, next, flight, target, first, dropped, handed,
                   transit, budget, within>>

\* Broken variant: the upper limit is missing.
Mut_Clamp(d) == IF d < MinDelay THEN MinDelay ELSE d

Clamp(d) == IF d < MinDelay THEN MinDelay ELSE IF d > MaxDelay THEN MaxDelay ELSE d

SetTargetDelay(d) ==
    /\ target' = Clamp(d)
    /\ UNCHANGED <<now, count, next, flight, pq, first, dropped, handed, played,
                   transit, budget, within>>

JitterNext == \/ Tick
        \/ \E f \in flight : Lose(f) \/ Receive(f)
        \/ \E p \in pq : PopReady(p)
        \/ \E d \in Delays : SetTargetDelay(d)

JitterSpec == JitterInit /\ [][JitterNext]_jitterVars

-----------------------------------------------------------------------------
Increasing(q) == \A i, j \in DOMAIN q : i < j => q[i] < q[j]

\* "absorbs network jitter": as long as no packet took longer through the network
\* than the first one by more than the target delay, a steady stream is played in
\* the order it was sent, nothing of it is dropped, and what was skipped was lost;
\* across the wrap-around of the numbers, and however the depth is changed.
JitterAbsorbed ==
    within => /\ dropped = {} /\ Increasing(played)
              /\ \A i \in DOMAIN handed, j \in DOMAIN played :
                   handed[i] < played[j] => \E k \in 1..j - 1 : played[k] = handed[i]

\* And it is played as it was spoken: every packet the same time after it was
\* sent, neither early because the buffer filled up nor late.
PlayoutSteady ==
    [][ \A p \in pq : PopReady(p) /\ within => now = p.at + transit + budget + 1 ]_jitterVars

-----------------------------------------------------------------------------
(* What comments and documents say and the code does not do.               *)

\* "Reorders out-of-sequence packets": the handler gets them in order.
HandedInOrder == within => Increasing(handed)

\* "if buffer is getting too full": the buffer stays about that full.
BufferBounded == Cardinality(pq) <= Full + 1

\* "updates the buffer depth dynamically": a packet pushed after the change that
\* took as long as the first waits for the new depth.
DepthFollows ==
    [][ \A f \in flight : Receive(f) /\ Started /\ now - f.at = transit =>
          \A p \in pq' \ pq : p.play - now = target ]_jitterVars
=============================================================================
